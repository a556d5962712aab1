# sae, specified

sae is a RISC-V core (RV32I) written in Amaranth: a hart that takes several cycles per
instruction, a memory management unit that turns byte addresses into accesses of 16-bit
cells, and a UART mapped into the address space. This directory models it in TLA+ at the
level of clock edges, states what its parts promise, checks that with TLC on small
instances and proves its safety with TLAPS for every instance.

All paths below are under `src/`.

## 1. The system

| Component | Source | State | Operations |
|---|---|---|---|
| Hart | `sae/rtl/hart.py` | FSM of 16 states, `pc`, `insn`, decoded fields, register file with a write port and two read ports, fault registers | fetch, resolve, load, store, ALU, branch, jumps, fault |
| MMU routing | `sae/rtl/mmu.py` 48-97 | none (combinational) | connects the two buses to memory, to a peripheral or to nothing, by the address on the wires |
| MMURead | `sae/rtl/mmu.py` 100-207 | FSM, `valid`, `req_addr`, `req_width`, payload, port address | accept, walk one to three cells, answer |
| MMUWrite | `sae/rtl/mmu.py` 210-311 | FSM, `ready`, `req_payload`, port registers | accept, one to three cell writes with byte enables |
| sysmem | Amaranth memory, `mmu.py` 65-75 | bytes, read port's register | one read and one write per edge |
| UARTConnection | `sae/rtl/uart.py` 12-63 | read FSM, `rd.ready`, response, `wr` pulse | pop a byte per read, push one per write |
| UART | `sae/rtl/uart.py` 65-137 | two FSMs, two FIFOs of 32, serial registers | send, receive |
| Top | `sae/rtl/__init__.py` | `rst` | the button's reset, platforms' pins |
| RV32I, ILayout | `sae/rtl/isa_rv32.py`, `sae/isa/` | none at run time | layouts, transforms, `value`, `match_value`, `LI` |
| Disassembler | `sae/rtl/rv32.py` | none | text of an instruction |
| Test language | `sae/st.py` | the test begun, its body, line number, results | feed a line, feed a list |
| UartConnector | `cxxrtl/UartConnector.cc` | a shift register, timer and counter each way, bytes to send | one `tick()` after every edge |
| Driver | `cxxrtl/main.cc` | query or answer, bytes received, `done` | clock the design, answer its query |
| Programs | `rv/` | | `shrimprw.c` talks to the driver |

How they interact: everything under `sae/rtl` runs on one clock. The hart drives
`mmu.read.req` and `mmu.write.req` combinationally in a state; the MMU's machines register
the request and the hart's next states wait for `resp.valid` or `req.ready`. The route is
that of the address on the wires *in that cycle*, so the hart must hold an address while
it waits for a peripheral. The UART's connection pulses `rd.ready` and `wr.valid` into the
UART, whose two machines run beside it and talk to a serial line with a time of its own.
In the simulation the other end of that line is `UartConnector`, ticked by the driver
after each edge: it sees the design's line as the edge has left it, and the design sees
its line at the next. Top's `rst` resets every register at once and no memory.

Beside the hardware, the repository has the tools that make its programs: an assembler
made of layouts and transforms, the disassembler that traces, and the parser of the test
language, whose results become test cases.

What is hard here:

- handshakes that are not complete: `op.load` does not look at `ready`; `s.wait` counts on
  the write being finished by the next read; `resp.valid` stays set after its answer;
- three machines, each unaware of the others' states, that must never meet in the middle
  of an access, at every width and alignment and for any order of accesses;
- one-cycle pipelines: the register file's ports, the FIFO that is read in one cycle and
  popped in the next, `w_en` set a cycle after the byte was seen;
- bytes that may be lost: the receiver listens only in one of its states, and the sending
  FIFO is written whether it has room or not;
- "the last assignment wins" where a fault and an ordinary next state meet;
- a reset in any cycle, which cuts a store in two and keeps the register file;
- an immediate is cut up by the assembler, put together by the hart and again by the
  disassembler, in three pieces of code that only agree if all are right;
- a body of the test parser is a mutable list that its results share;
- a text longer than the UART's FIFO loses bytes, and the driver then never finishes.

`PROJECT.json` lists these one by one, at their lines, under `hazards`.

What makes each component correct: MMURead, MMUWrite and the routing together are a
memory of bytes and two byte streams (`ByteBus`); the hart executes one instruction after
the other on such a memory (`Isa`); the UART delivers every byte once and in order
(`ReceivedOnce`, `SentOnce`) through two bounded queues (`UARTStreams`), and so does the
line in front of it (`BytesArrive`); a reset is a restart of the program (`RestartSpec` of
`Isa`); the hart reads from a word what the line said it was assembled from; the parser's
results are the file's sections.

## 2. Modules

| Module | Models |
|---|---|
| `Words` | bytes, words as numbers and as four lanes, bus records |
| `ByteMemory`, `Sysmem` | memory by bytes, where addresses go; the memory's ports |
| `MMURead`, `MMUWrite` | the two machines, one action per state and branch |
| `UARTConnection` | the peripheral on the bus |
| `UARTStreams` | the UART as two bounded queues that the line fills and drains (abstract) |
| `MMU` | routing, and one edge of all of the above |
| `ByteBus` | the abstract specification of the MMU |
| `BusMaster` | the MMU under any master that behaves on the bus as the hart does; refines `ByteBus` |
| `BusTiming` | `BusMaster` with a count of the edges since the access in progress was accepted |
| `RV32` | fields and functions of the instructions |
| `Hart` | the hart's FSM, one action per state and branch |
| `Isa` | the abstract specification of the hart: one step per instruction |
| `Sae` | hart and MMU composed; refines `Isa` |
| `UART` | the two machines between FIFOs and line; the FIFO and the serial cell are libraries and are modelled from their use |
| `UARTPeripheral` | `UARTConnection` and `UART` composed; its two FIFOs are the queues of `UARTStreams` |
| `UARTHistory` | `UARTPeripheral` with a record of the bytes that passed each end of either direction |
| `Boot` | what the constructor puts into the register file and sysmem: `reg_inits`, `reg_reset`, `sysmem_init_for` |
| `Top` | `Sae` under the button's reset; refines `Isa` with restarts |
| `TopHistory` | `Top`, booted as `Boot` says, with a record of the last store and of who gave x1 a value |
| `ILayout` | layouts, transforms, `value` and `match_value`, on keyword arguments as functions and words as sets of bits |
| `RV32IInsns` | the classes and instructions of RV32I, the registers' names, and `LI` |
| `Disassembler` | `disasm`, as an instruction's name and operands |
| `Assembler` | a line's way through assembler, disassembler and assembler, what the hart reads of the word, and what the words of `LI` load |
| `StParser` | the test parser, fed line by line |
| `StHistory` | `StParser` with a record of what it was fed |
| `AsyncSerial` | the library's transmitter and receiver, by bits (external) |
| `UartConnector` | `tick()` both ways, and the driver's loop around it |
| `SerialLink` | the program of `shrimprw.c`, connection, UART, `AsyncSerial`, connector and driver composed; the line refines the one `UART` assumes |
| `SerialHistory` | `SerialLink` with a record of the bytes begun and ended on each line |
| `MCBusMaster`, `MCSae`, `MCUART`, `MCTop`, `MCAssembler`, `MCStParser`, `MCSerial` | values for TLC |
| `MMUProofs`, `BusMasterProofs`, `SaeProofs`, `UARTProofs`, `SerialProofs`, `ILayoutProofs`, `AssemblerProofs`, `ToolsProofs` | proofs |

The modules named after a history add variables that no action of the code's reads, for
the properties that speak of what has happened; they, not the instances for TLC, are what
the theorems are about, so that a run and a theorem state the same definition.

A variable is a register of the design, an FSM's state, or a memory; its prefix says
whose (`h_` hart, `mr_` MMURead, `mw_` MMUWrite, `uc_` UARTConnection). Wires are
operators of the state (`HartRead`, `ReadReady`, `RxWire`). A step of a composition is one
edge of the clock: the conjunction of one action of every component, each of which sees
the others' unprimed variables. The name of an action is that of the FSM's state and the
branch: `MRColl1UnalignedHalf` is the first branch of `coll1`.

What is abstract: the number of values of a byte, of cells, of registers and of bits of a
word are constants (`ByteSize`, `Depth`, `NReg`, `XLen`), so everything that depends on a
width is taken modulo it; which word encodes which instruction is the parameter
`Decode`; the two FSMs of the UART's connection that have one state have no variable.
`RV32IInsns` and what uses it have the real widths.

In `StParser` a line is one of a label, a statement, blank, or one that does not parse,
and bodies are a heap of lists that test and results refer to, since the code shares them.
In `SerialLink` the hart and the MMU between the program and the connection are the cycles
that pass between two accesses, any number of them. `Reset` of `Top` names every register
of the three components and leaves the memories to their ports.

## 3. What is checked

| Run | Bounds | Shows |
|---|---|---|
| `mcbusmaster` | bytes of 1 bit, words of 4; 3 cells of the 4 an address can name; 5 addresses: even, odd, the end of the memory where it wraps, the UART's, an unmapped one; up to 3 accesses | `ImplementsByteBus`; `AnswersOnTime` (the tick counts of `tests/test_mmu.py`, whatever access went before); `WriteFinished` |
| `mcsae` | bytes of 2 bits, words of 8; two instructions of 39 kinds, 4 register files, a word that stops the hart, one byte value on the line | `ImplementsIsa`, and what the hart relies on: `WriteSettled`, `RequestsMeetIdleBus`, `OperandsFresh`, `PcAligned` |
| `mcsaelive` | 13 of the kinds, with every kind of bus access | `InstructionsComplete`, `InstructionsFollow` |
| `mcuart` | FIFOs of 3 bytes, a character time of 3 cycles, at most 5 bytes each way, numbered modulo 4 | `ReceivedOnce`, `SentOnce`, `NoOverrun`, `SendsWhatItTakes`, `PopsWhatItAnswered`, `ImplementsStreams`, `Sends` |
| `mctop` | as `mcsae`, of five kinds: an aligned and an unaligned load, an aligned and an unaligned store, and a return; 3 boots; the button at any edge, any number of times | `ImplementsIsaWithRestarts`, `StoreIsPrefix`, `RetFaults`, `RequestsMeetIdleBus` under resets |
| `mcassembler` | every instruction; 4 registers by different names; 13 immediates at the fields' edges, past them and with alternating bits; every argument the instruction asks for and one more that it fixes; 63 LIs for each of two registers | `HartReadsTheLine`, `Reassembles`, `OneReading`, `MatchesInvert`, `FixedFieldsStay`, `LIExact` |
| `mcst` | any six lines of two labels, statements, blank and refused ones, in up to two lists | `TestsAreSections`, `ResultsKeep` |
| `mcserial` | a bit of 9 cycles; texts of 3 bytes, the length of the FIFO; a reply of 4; the program at any cycle | `BytesArrive`, `LineIsUarts`, `NothingOverflows`, `Finishes` |
| `mcsaefault`, `mcsaeshift`, `mcsaemul` | a few kinds | the first three disagreements below |
| `mcassemblerli` | LIs with the numbers of the tests and around 0x800 | the fourth |

Why these bounds are enough to mean something. The machines of the MMU depend on the
parity of the address, the width and the cell's successor, and remember nothing of an
access but what its successor finds in the registers: three accesses are one, the one that
meets what it left, and the one that meets both. Two instructions give every ordered pair
and, with loops and self-modifying stores, longer sequences. FIFOs of three bytes are the
smallest in which the output register, the memory behind it, and a full memory are
distinct; five bytes go past full. Words of 4 or 8 bits still wrap in every sum.
A reset may follow any edge, so five kinds of instruction reach every state of the bus
machines in which one may come. What the assembler does to a field does not depend on the
other fields; its immediates have each bit of each field both set and clear next to a bit
that differs. Six lines hold three sections with a statement each, or two of one name. A
bit of 9 cycles is odd and the shortest but one at which the receiver, with its two
synchronising registers, has a byte before the next begins (the hardware's bit has 104);
the reply is longer than the FIFO, and the program starts to answer while it still
arrives.

`mcsae` and `mcbusmaster` are refinement checks: every edge of the clock is one step of
the abstract machine or a stutter. Both abstract machines let the line take or bring at
most one byte in an edge, as the cycle does. `ByteBus` sees the master's request as it is
on the bus (`req`): a step serves that request, once, with those bytes, and a request
stands until it is served. `Isa` has no input but the line: its program is in memory. An instruction takes effect at a single
edge: the last of the ALU, branch and jumps, the one at which the bus takes the request
for loads and stores; the mapping gives the abstract registers, memory and queues what is
still on its way.

Each property is paired with a mutant, a definition such as `StoreWaitOneCycle` placed
above the one it replaces, under which TLC finds the property violated.

`mcassembler`'s exceptions are what the code does: SRLI and SRAI match every immediate as
a shamt, NOT never matches its own word (-1 against the field's 4095), and the arguments
that match a store are `imm` and `rs1`, not `rs1off`, since the transforms are reversed in
the order in which they were applied; they make the same word. `Reassembles` is about
instruction and operands: the hexadecimal offsets the disassembler writes are not ones the
test language reads.

`LineIsUarts` closes a gap between two modules: `UART` takes for granted that the line
keeps a character time and that a byte that ends is there with `rdy`; on the line by bits,
with the connector's timing at its other end, both hold. `NothingOverflows` relates
program, FIFO, line and driver: nobody looks at a FIFO's ready, and bytes are not lost
because the driver waits for the whole text before it makes the program print the next.

### Fairness

`FairSpec` and `MCFairSpec` assume weak fairness of `Next` and nothing else: the clock
does not stop. It is the only thing that can be fair in synchronous logic, every component
moves at every edge. No fairness is assumed of the line's incoming bytes: an empty
receiving queue answers 0 at once, so no load waits for it.

`Finishes` needs more than the loop's rounds: weak fairness of the rounds at which the
program gets to the bus. A hart that executes finitely many cycles per instruction, which
`InstructionsComplete` says, gets there again and again.

`InstructionsComplete` and `InstructionsFollow` except `Stuck`: a fetch, load or store of
an address that nothing answers waits for ever in the code (`mmu.py` 92-95 connects
nothing). The runs reach it.

### Disagreements between the code and what the repository says of it

1. **A branch's fault is overridden** (`mcsaefault`). `op.branch` calls `jump()`, which on
   a misaligned target sets the fault code and `m.next = "faulted"`, and then assigns
   `m.next = "fetch.init"` (`hart.py` 366-370). The hart records `PC_MISALIGNED` and
   executes the branch again for ever. `tests/test_other.st:130` has a branch to 2 that
   "doesn't fault since branch not taken".
2. **SRL looks at bit 10 of rs2** (`mcsaeshift`). The arithmetic shift is signalled in bit
   10 of operand b (`hart.py` 335), which for `SRL` is the whole register.
   `tests/test_integers.st:288` wants only the lower five bits used.
3. **OP does reach the ALU with `funct7[0]` set** (`mcsaemul`). The comment at `hart.py`
   221 says it is never set by `OP`; nothing refuses a word of the M extension, and the
   ALU then takes a leftover immediate for its second operand.

4. **LI of 12 bits with the top one set** (`mcassemblerli`). An immediate from 0x800 to
   0xFFF becomes one ADDI, which takes it for negative, and when the low 12 bits are all
   ones the second ADDI's immediate is 0x800 (`isa_rv32.py` 286-292).
   `tests/test_integers.st:24-26` has `li` load its operand. `LIExact` says that these are
   the only ones.

`Isa` describes the machine as it is, the first three included.

## 4. What is proved

TLAPS checks the following for every value of the constants that the assumptions allow.
The assumptions are

- the sizes' (`ByteSizeAssumption`, `DepthAssumption`, `AddressAssumption`, ...), with a
  memory no larger than its addresses, and any number of cells in it;
- that the bitwise operators and `Decode` return words and instructions, that AND with 0
  is 0 (and with it OR with 0 the other operand), and nothing else about them: no proof
  depends on what an instruction's encoding is;
- `CidAssumption`: the UART's id, 1 in the code, is no multiple of four;
- `UartAssumption`: FIFOs of more than two bytes and a character time of more than two
  cycles (in the code 32 and 1040);
- `LinkAssumption`: both ends of the serial line divide the same clock, a bit is 9 cycles
  or more (104 at the 12 MHz of the simulation), the texts fit into the FIFO (the longest,
  `shrimprw.c`'s question, has 31 bytes), and an empty FIFO's 0 is no answer;
- `LabelAssumption`, `NoneAssumption`: labels are told from other lines and from no label;
- `LinesAssumption`: a line gives its instruction all the operands it asks for (its
  `asm_args`, of which `ilayout.py` 135 says that they are "those that can be specified in
  value()"): registers are numbers below 32, the letters of a fence are among the four,
  immediates are any integers. Whatever else it gives is any argument that the instruction
  has not been given already, or is a field of its word. `LI` gets any number.

`LinesAssumption` leaves out two kinds of call that no text of the test language makes. One
does without an operand and gives the field that a transform would have made of it: SLLI
with `imm` and no `shamt`. The other gives an input of a transform that is fixed already:
`ECALL.value(funct=8)` is not refused, since `funct` is gone from the arguments when
`args_for` asks whether one of them is fixed (`ilayout.py` 204), and makes the word of
EBREAK. Of such an argument the code's "cannot be overridden" is not true;
`FixedFieldsStay` speaks of the fields of the word alone.

### The bus: `MMUProofs`, `BusMasterProofs`

`MMUProofs` is about words and one edge of the MMU, whoever drives it. An access is taken apart into
halves of cells (`AddressParts`, `LaneCells`, with the wrap of the last cell in `Circle`);
then `WriteDrains` says that each branch of MMUWrite moves towards the same final memory,
`Drained`, which is `WriteBytes` of the request from the edge on at which it is accepted,
and `ReadCollects` that each branch of MMURead keeps `Collected`: what it has and what its
port shows are the first bytes of the answer. `ReadPaces` and `WritePaces` count the edges.

`BusMasterProofs` has `TypeCorrect`, `WritesFinish`, and

- `RefinesByteBus`: under the mapping of `BusMaster` every edge is a step of `ByteBus` or
  a stutter. The invariant `BInv` has, beside `Collected` for the access in progress, in
  which states of the master each machine may be out of its first state; without it a
  request could meet a machine that is still at work, and be lost. `OwedInv` then names
  the answer the master is owed. A case each for an access being accepted, under way,
  answered by memory, by the UART, by nothing, and given up (a write, at `ready`).
- `AnswersInTime`: `TimeInv` says how many edges have gone by in each state of the
  machines, so that `valid` and `ready` come at the tick the access's width and alignment
  ask for, neither late nor, from an earlier access, early.

### The hart: `SaeProofs`

`TypeCorrect`, `PcStaysAligned`, `OperandsAreFresh`, `WritesAreSettled`, `NoRequestIsLost`:
none of the last four is inductive. The invariant `IInv` adds what ties the machines
together: a register's write is under way only in `fetch.init` or `faulted`; an answer of
MMURead is pending only while the hart waits for it; MMUWrite is out of its first state
only in `s.wait` or after a fault, and `ready` mirrors that state from the second cycle
on. `PcAligned` is needed to see that a fetch never goes to the UART, and so that dropping
the address in `fetch.wait` is harmless. Read ports that show their registers are needed
to see that the address of an access stands still.

`RefinesIsa`: every edge of the clock is one instruction's step in `Isa`, a step of the
line, or a stutter. Its invariant is `HInv == IInv /\ FieldsInv /\ FetchedInv /\ AnswerInv`:

- `FieldsInv`: `imm`, `funct3`, `funct7` and the register numbers are those of the
  instruction in `insn`, in the states that use them and only there: OP leaves `imm` alone,
  and disagreement 3 of section 3 is that the ALU may use it all the same, which `Isa`
  therefore describes;
- `FetchedInv`: from the fetch to the effect, `insn` is the word in memory at the
  instruction's pc, which needs that no store is half made by then (`WriteInv`);
- `AnswerInv`: the answer being collected is of the address, width and bytes of the load
  or the fetch, which is what makes the edge of acceptance the one at which it is served.

Then one lemma per state of the FSM shows which step of `Isa` the edge is: the edges that
touch no bus, the fetches, the loads by what answers them, the stores by where they go,
and the faults.

### Reset: the end of `SaeProofs`

`TopTypeCorrect`, `NoRequestIsLostByReset`, `WritesAreSettledByReset`: a reset establishes
`HInv` from any state since it has all machines in their first states, and an edge without
one is `Sae`'s.

- `RefinesIsaWithRestarts`: an edge with a reset is a restart of `Isa`, which loses the
  instruction under way at most; what a half-made store leaves is the exception that
  `RestartSpec` names.
- `StoresArePrefixes`: `StoreInv` says for each state of MMUWrite how many bytes of the
  last store are in memory after the port's next edge, and that its registers hold the
  next ones; a reset in that state then leaves that many.
- `ReturnsFault`: x1 is all ones from boot, unless another value was asked for, until
  something is written to it, and an all-ones return address is misaligned. It speaks of
  returns through x1 that happen, not of where else a program may fault.

### The UART and the line: `UARTProofs`, `SerialProofs`

`UARTProofs`: `TypeCorrect`, `TakesWhatItSends`, `NeverOverruns`, `AnswersWhatItPops`, from
an invariant that has the connection assert `rd.ready` only in `deassert`, and a byte the
serial cell holds taken within two cycles of its end. Then `RefinesStreams`: a FIFO is the
queue of its output register and what is behind it (`Held`); `QueueInv` says that a FIFO
which does not show its first byte is about to (`Refills`), and that the receiver never
pushes while its FIFO is in that state, which makes "has room" the same for both views.
`ReceivesOnce` and `SendsOnce` add the records of `UARTHistory`, under which the two
properties are inductive given the handshakes.

`SerialProofs` closes the simulation from the program to the driver: `HearsWhatIsSaid`,
`LosesNothing` and `KeepsTheTimes`, the last of which discharges for the simulation what
`UARTProofs` takes for granted of a line. Six invariants, each about one pair of actors:

- `SaidInv`: transmitter and driver's receiver at any cycle of a frame. How many bits are
  left and the transmitter's timer determine the receiver's counter, timer and bits: it is
  half a bit late, and its last sample comes before the stop bit is over.
- `TakeInv`: the machine that sends hands over a byte only when the transmitter rests.
- `ToldInv`: the other direction, in which the receiver sees the line two edges late; it
  is done four cycles and half a bit into the stop bit, and starts again in time for a
  frame that follows without a pause. `line_gap`, the time module `UART` counts from
  a byte's end, has run out by the end of the next one.
- `TakenInv`: the machine that receives is back before that.
- `TextInv`: what the program has printed or will, and the transmitter has not taken, fits
  into the FIFO.
- `TurnInv`: nothing goes to the design until the driver has the whole query, by which
  time everything printed has been heard: the turn is what keeps `TextInv`.

### The assembler: `ILayoutProofs`, `AssemblerProofs`

The six properties of `mcassembler` hold for every instruction, every register and every
immediate, with the real widths. In the model, as in the code, nothing is said of an
instruction directly: a layout is finalised to ranges, a child takes names out of a list,
a transform adds to it, `value` and `match_value` fold over what is left. So most of these
modules unfolds that. The argument:

1. **Bits.** What is placed in a range of bits is what is read there, modulo the range's
   width (`ExtractPlaced`), and the number read has the bits that are there (`PlaceRead`).
   `Extract` is a recursive function; that it exists for every length and adds up the bits
   is shown by induction. The library's induction theorems take an operator, which the
   provers cannot instantiate; `SetInduction` states the induction of a set of numbers
   instead, from the well-foundedness of < on the naturals, which takes none.
2. **Fields.** The ends of a layout are the numbers that grow by the fields' widths
   (`EndsAre`), so each format has the ranges it has (`Formats`), which share the bits of a
   word (`RangesShare`): a word made of fields has those fields (`MadeFields`), and fields
   read in a word make that word (`MadeOfFields`).
3. **Instructions.** There are 48 names but 20 families of one shape: a class, the fields
   fixed, the transforms, the operands asked for (the lemmas `OpForm`, `ShiftForm`, ...).
   For each family: the word of its arguments, field by field, through the transforms
   (`OpMakes`, `OpValue`, ...); which words it matches and the arguments it then gives
   (`OpMatch`, ...); that these make the word again (`OpInverts`, ...). The last needs each
   immediate's cut to undo its joining (`SplitS`, `SplitB`, `SplitJ`).
4. **What a word says.** `Holds` collects what is true of the word of a line: it has the
   fields fixed, the hart reads in it the line's operands, its instruction matches it, it
   is read as one instruction (`Reading`), and it is `Legit`, one of the words that some
   instruction has. `LineHolds` is that for every line.

From `LineHolds` and the invariant `AsmInv` (the words are those of the line):

- `KeepsFixedFields`: fields that class or instruction fix are so in the word, whatever
  else the line gives.
- `HartReadsWhatIsWritten`: the hart's immediate, from other code than the assembler's, is
  the line's, cut to the format and signed. For each format that is an identity between the
  cut pieces and the number modulo a power of two (`JoinedS`, `JoinedB`, `JoinedJ`).
- `ReadsOneWay`: a word is read as one instruction only, and whatever matches it is read as
  that one or is a special case of it (`MatchReads`).
- `MatchesAreInverse`, from `MatchInverts`.
- `LIIsExact`: the words of LI are of LUI and ADDI, the hart reads their immediates, and the
  sum of these is the number asked for unless it is `Mistaken`, and only then.

None of these is about `AsmNext` much: the state is a line's way through three pure
functions, and the theorems are about those.

### The tools: `ToolsProofs`

- `TraceAssembles`: the disassembler names a legitimate word's instruction and gives
  operands (`StoreSays`, ...) that, taken for arguments, make fields that are the word's
  (`StoreAgain`, ...): in particular its signed offsets, split by the assembler, are the
  pieces they were joined from (`SignedS`, `SignedB`, `SignedJ`). `TextInv` adds that
  `texts` and `again` are what the steps made of the words.
- `ListsTheTests` and `KeepsTheResults`: for any lines and any number of lists. Both speak
  of results alone; the invariant has to say what the test begun is (`Underway`): its body
  is the last of the heap and lists the statements of the section the lines are in, no
  result of another name shares it, and each other name's last result lists its section.

### Only model-checked

- All liveness (`InstructionsComplete`, `InstructionsFollow`, `Sends`, `Finishes`):
  temporal proofs under fairness and `ENABLED` are outside what this prover does.
- The four disagreements are shown by runs.

## 5. Not modelled

- RV32IC: layouts of 16 bits that no instruction uses yet; ILayout's transforms that are
  functions, which no instruction uses either; what a class declaration may get wrong.
- The tokens and the grammar of a line of the test language, and strings; the test runner
  itself.
- The driver's limit of 100000 rounds (a bound on how slow a program may be), its clock
  and its waveform file; `shrimple.c`, which only stores.
- `xreg_written`, which the tests read; targets and the command line; platforms' pins.

The models other than `Top`'s start from any memory and any register file of a given set,
with x0 zero. AccessWidth's fourth value is modelled where a load's `funct3` can put it on
the bus.

## 6. Where it stands

All components of section 1 are modelled but for what section 5 lists. Every invariant and
every action property that a run checks is a theorem, and so are the four refinements
(`ByteBus`, `Isa`, `Isa` with restarts, `UARTStreams`); liveness is model-checked.

What could be added: that `LineIsUarts` composes with `RefinesStreams`, so that the two
queues of the hart's models are those of the simulation, as one theorem instead of two that
a reader puts together; and the instructions of RV32IC, when the code has them.

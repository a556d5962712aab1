-------------------------- MODULE BusMasterProofs --------------------------
(***************************************************************************)
(* The MMU under any master with the hart's manners, for every memory,     *)
(* address, width, data and size of a byte: its invariants, the refinement *)
(* of ByteBus, and with the count of BusTiming the time of an answer.      *)
(*                                                                         *)
(* WriteInv and ReadInv say for which states of the master the machines    *)
(* are out of their first one, and what they have of the answer by then;   *)
(* with it a step of the whole is one of the abstract bus, or a stutter.   *)
(***************************************************************************)
EXTENDS BusTiming, MMUProofs

\* MMUWrite works only while the master waits for ready, which is its state "init"
\* (but for the first cycle after reset, in which the master is idle).
WriteInv ==
  /\ m_state # "idle" => (mw_ready <=> mw_state = "init")
  /\ m_state # "storing" => mw_state = "init" /\ wport_en = {}
  /\ m_state = "storing" /\ ~ToSysmem(m_addr) => mw_state = "init" /\ wport_en = {}

IInv == TypeOK /\ WriteInv
-----------------------------------------------------------------------------
LEMMA WiresType ==
  ASSUME TypeOK
  PROVE  ReadWires \in ReadReq /\ WriteWires \in WriteReq
<1>1. ReadWires \in ReadReq
  BY Constants DEF TypeOK, ReadWires, ReadReq, NoRead
<1>2. WriteWires \in WriteReq
  BY Constants DEF TypeOK, WriteWires, WriteReq, NoWrite
<1> QED BY <1>1, <1>2

MasterTypeOK ==
  m_state \in MasterState /\ m_addr \in Word /\ m_width \in AccessWidth /\ m_data \in Lanes

LEMMA AccessType == Access => MasterTypeOK'
<1>1. BYTE \in AccessWidth /\ HALF \in AccessWidth /\ WORD \in AccessWidth
  BY DEF BYTE, HALF, WORD, AccessWidth
<1>2. m_width' \in {BYTE, HALF, WORD} => m_width' \in AccessWidth
  BY <1>1
<1> QED BY <1>1, <1>2, Constants, BenchAssumption DEF Access, MasterTypeOK, MasterState

LEMMA MasterTickType ==
  ASSUME MasterTypeOK, MasterTick
  PROVE  MasterTypeOK'
<1>1. \A s \in MasterState : Hold(s) => MasterTypeOK'
  BY DEF Hold, MasterTypeOK
<1>2. UNCHANGED masterVars => MasterTypeOK'
  BY DEF masterVars, MasterTypeOK
<1>3. /\ "fetch" \in MasterState /\ "fetching" \in MasterState /\ "loading" \in MasterState
      /\ "store" \in MasterState /\ "storing" \in MasterState
  BY DEF MasterState
<1> QED BY <1>1, <1>2, <1>3, AccessType DEF MasterTick

LEMMA TypeStep ==
  ASSUME TypeOK, Next
  PROVE  TypeOK'
<1>1. MasterTypeOK'
  BY MasterTickType DEF TypeOK, MasterTypeOK, Next
<1>2. MMUTypeOK'
  BY WiresType, MMUTickType DEF TypeOK, Next
<1>3. StreamsTypeOK'
  BY StreamsTickType DEF TypeOK, MMUTypeOK, UARTConnTypeOK, Next
<1> QED BY <1>1, <1>2, <1>3 DEF TypeOK, MasterTypeOK

\* How the master moves, in terms of the wire it waits for.
LEMMA MasterMoves ==
  ASSUME MasterTick
  PROVE  /\ m_state = "store" =>
              /\ m_state' = IF WriteReady(WriteWires) THEN "storing" ELSE "store"
              /\ m_addr' = m_addr
         /\ m_state = "storing" /\ ~WriteReady(WriteWires) =>
              m_state' = "storing" /\ m_addr' = m_addr
         /\ m_state' = "storing" => m_state \in {"store", "storing"}
         /\ m_state = "storing" /\ WriteReady(WriteWires) => m_state' # "storing"
<1>1. Access => m_state' \in {"idle", "fetch", "load", "store"}
  BY DEF Access
<1> QED BY <1>1 DEF MasterTick, Hold, masterVars

LEMMA WriteWiresFacts ==
  /\ WriteWires.valid => m_state = "store"
  /\ m_state \in {"store", "storing"} => WriteWires.addr = m_addr
BY DEF WriteWires, NoWrite

LEMMA WriteStep ==
  ASSUME IInv, Next
  PROVE  WriteInv'
<1> DEFINE wreq == Routed(ToSysmem(WriteWires.addr), WriteWires, NoWrite)
<1>1. MasterTick /\ MMUWriteTick(wreq) /\ WriteInv
  BY DEF Next, MMUTick, IInv
<1>2. mw_ready' <=> mw_state' = "init"
  BY <1>1, WriteReadyTracks
<1>3. wreq.valid => m_state = "store" /\ ToSysmem(m_addr)
  BY WriteWiresFacts DEF Routed, NoWrite
<1>4. mw_state = "init" /\ ~wreq.valid => mw_state' = "init" /\ wport_en' = {}
  BY <1>1, WriteQuiet
<1>5. m_state \in {"store", "storing"} =>
        (WriteReady(WriteWires) <=> (ToSysmem(m_addr) /\ mw_ready) \/ ToUart(m_addr))
  BY WriteWiresFacts DEF WriteReady
<1>6. ToUart(m_addr) => ~ToSysmem(m_addr)
  BY DEF ToUart
<1> HIDE DEF wreq
<1>7. m_state' # "storing" => mw_state' = "init" /\ wport_en' = {}
  <2>1. CASE m_state = "store"
    BY <1>1, <1>3, <1>4, <1>5, <2>1, MasterMoves DEF WriteInv
  <2>2. CASE m_state = "storing"
    BY <1>1, <1>3, <1>4, <1>5, <1>6, <2>2, MasterMoves DEF WriteInv
  <2>3. CASE m_state \notin {"store", "storing"}
    BY <1>1, <1>3, <1>4, <2>3 DEF WriteInv
  <2> QED BY <2>1, <2>2, <2>3
<1>8. m_state' = "storing" /\ ~ToSysmem(m_addr') => mw_state' = "init" /\ wport_en' = {}
  <2>1. m_state' = "storing" => m_addr' = m_addr /\ m_state \in {"store", "storing"}
    BY <1>1, MasterMoves
  <2> QED BY <1>1, <1>3, <1>4, <2>1 DEF WriteInv, ToSysmem
<1> QED BY <1>2, <1>7, <1>8 DEF WriteInv
-----------------------------------------------------------------------------
LEMMA IInvInit == Init => IInv
<1> SUFFICES ASSUME Init PROVE IInv
  OBVIOUS
<1>1. MMUTypeOK /\ StreamsTypeOK
  BY MMUInitType, StreamsInitType, BenchAssumption DEF Init
<1>2. MasterTypeOK
  BY Constants DEF Init, MasterTypeOK, MasterState, AccessWidth, BYTE
<1>3. mw_state = "init" /\ wport_en = {} /\ m_state = "idle"
  BY DEF Init, MMUInit, MMUWriteInit
<1> QED BY <1>1, <1>2, <1>3 DEF IInv, TypeOK, MasterTypeOK, WriteInv

LEMMA IInvStep == IInv /\ [Next]_vars => IInv'
<1> SUFFICES ASSUME IInv, [Next]_vars PROVE IInv'
  OBVIOUS
<1>1. CASE Next
  BY <1>1, TypeStep, WriteStep DEF IInv
<1>2. CASE UNCHANGED vars
  BY <1>2
  DEF vars, mmuVars, sysmemVars, mmuReadVars, mmuWriteVars, uartConnVars, streamVars,
      masterVars, IInv, TypeOK, MMUTypeOK, SysmemTypeOK, MMUReadTypeOK, MMUWriteTypeOK,
      UARTConnTypeOK, StreamsTypeOK, WriteInv
<1> QED BY <1>1, <1>2
-----------------------------------------------------------------------------
(* Reads.  What the machines that answer them hold while the master waits. *)

\* The two machines that answer reads work only for a master that waits for them, on the
\* access it waits for; a fetch is never the UART's.
ReadInv ==
  /\ m_state \in {"fetch", "fetching"} => ~ToUart(m_addr)
  /\ m_state = "fetching" => ToSysmem(m_addr)
  /\ IF m_state \in {"fetching", "loading"} /\ ToSysmem(m_addr)
       THEN Collected /\ mr_addr = m_addr /\ mr_width = m_width
       ELSE mr_state = "init"
  /\ uc_state = "deassert" <=> m_state = "loading" /\ ToUart(m_addr)
  /\ m_state = "loading" /\ ToUart(m_addr) => uc_valid
  /\ uc_rdready => uc_state = "deassert"

BInv == IInv /\ ReadInv

LEMMA BusConstants ==
  /\ ToSysmem(0)
  /\ \A addr : ToUart(addr) => ~ToSysmem(addr)
BY Sizes DEF ToSysmem, ToUart

\* How the master moves when it reads.
LEMMA ReadMoves ==
  ASSUME MasterTick
  PROVE  /\ m_state = "fetch" =>
              /\ m_state' = IF ReadReady(ReadWires) THEN "fetching" ELSE "fetch"
              /\ UNCHANGED <<m_addr, m_width, m_data>>
         /\ m_state = "load" => m_state' = "loading" /\ UNCHANGED <<m_addr, m_width, m_data>>
         /\ m_state \in {"fetching", "loading"} /\ ~ReadRespValid(ReadWires) =>
              UNCHANGED masterVars
         /\ m_state \in {"fetching", "loading"} /\ ReadRespValid(ReadWires) => Access
         /\ m_state' \in {"fetching", "loading"} => m_state \in {"fetch", "load", "fetching", "loading"}
         /\ m_state' = "fetch" => (m_state = "fetch" /\ m_addr' = m_addr) \/ ~ToUart(m_addr')
<1>1. Access => /\ m_state' \in {"idle", "fetch", "load", "store"}
                /\ m_state' = "fetch" => ~ToUart(m_addr')
  BY DEF Access
<1> QED BY <1>1 DEF MasterTick, Hold, masterVars

LEMMA ReadWiresFacts ==
  /\ ReadWires.valid <=> m_state \in {"fetch", "load"}
  /\ m_state \in {"fetch", "load", "loading"} => ReadWires.addr = m_addr
  /\ m_state \in {"fetch", "load"} => ReadWires.width = m_width
  /\ m_state \notin {"fetch", "load", "loading"} => ReadWires.addr = 0
BY DEF ReadWires, NoRead

\* The wires that the master waits for.
LEMMA ReadWaits ==
  ASSUME ReadInv, MasterTypeOK
  PROVE  /\ m_state = "fetch" => (ReadReady(ReadWires) <=> ToSysmem(m_addr))
         /\ m_state = "fetching" => (ReadRespValid(ReadWires) <=> mr_valid)
         /\ m_state = "loading" => (ReadRespValid(ReadWires) <=>
                                      (ToSysmem(m_addr) /\ mr_valid) \/ ToUart(m_addr))
BY ReadWiresFacts, BusConstants
DEF ReadInv, ReadReady, MMUReadReady, ReadRespValid, MMUReadRespValid

\* What is on the wires of the two targets of a read.
LEMMA ReadRoutes ==
  LET mreq == Routed(ToSysmem(ReadWires.addr), ReadWires, NoRead)
      ureq == Routed(ToUart(ReadWires.addr), ReadWires, NoRead)
  IN /\ mreq.valid <=> m_state \in {"fetch", "load"} /\ ToSysmem(m_addr)
     /\ mreq.valid => mreq.addr = m_addr /\ mreq.width = m_width
     /\ ureq.valid <=> m_state \in {"fetch", "load"} /\ ToUart(m_addr)
BY ReadWiresFacts DEF Routed, NoRead

LEMMA WriteRoutes ==
  LET mreq == Routed(ToSysmem(WriteWires.addr), WriteWires, NoWrite)
      ureq == Routed(ToUart(WriteWires.addr), WriteWires, NoWrite)
  IN /\ mreq.valid <=> m_state = "store" /\ ToSysmem(m_addr)
     /\ mreq.valid => mreq.addr = m_addr /\ mreq.width = m_width /\ mreq.data = m_data
     /\ ureq.valid <=> m_state = "store" /\ ToUart(m_addr)
     /\ ureq.valid => ureq.data = m_data
BY DEF WriteWires, Routed, NoWrite

LEMMA MemoryStandsStill ==
  ASSUME TypeOK, Next, wport_en = {}
  PROVE  sysmem' = sysmem
BY WritesNothing DEF TypeOK, MMUTypeOK, SysmemTypeOK, Next, MMUTick, SysmemTick

LEMMA ReadStep ==
  ASSUME BInv, Next
  PROVE  ReadInv'
<1> DEFINE mreq == Routed(ToSysmem(ReadWires.addr), ReadWires, NoRead)
           ureq == Routed(ToUart(ReadWires.addr), ReadWires, NoRead)
           wreq == Routed(ToUart(WriteWires.addr), WriteWires, NoWrite)
<1>1. /\ MasterTick /\ MMUReadTick(mreq) /\ UARTConnTick(ureq, wreq, RxWire)
      /\ StreamsTick(uc_rdready, uc_wrvalid, uc_wrpayload)
      /\ rport_data' = CellIn(sysmem, rport_addr)
  BY DEF Next, MMUTick, SysmemTick
<1>2. /\ TypeOK /\ MMUTypeOK /\ SysmemTypeOK /\ MMUReadTypeOK /\ UARTConnTypeOK
      /\ StreamsTypeOK /\ MasterTypeOK /\ ReadInv /\ WriteInv
  BY DEF BInv, IInv, TypeOK, MMUTypeOK, MasterTypeOK
<1>3. mreq \in ReadReq /\ ureq \in ReadReq /\ wreq \in WriteReq
  BY <1>2, WiresType, Constants DEF Routed
<1>4. /\ mreq.valid <=> m_state \in {"fetch", "load"} /\ ToSysmem(m_addr)
      /\ mreq.valid => mreq.addr = m_addr /\ mreq.width = m_width
      /\ ureq.valid <=> m_state \in {"fetch", "load"} /\ ToUart(m_addr)
  BY ReadRoutes
<1>5. m_state # "storing" => sysmem' = sysmem
  BY <1>2, MemoryStandsStill DEF WriteInv
<1> HIDE DEF mreq, ureq, wreq
<1>6. /\ uc_rdready' => uc_state' = "deassert"
      /\ uc_state = "init" /\ ureq.valid => uc_state' = "deassert" /\ uc_valid'
      /\ ~(uc_state = "init" /\ ureq.valid) => uc_state' = "init" /\ uc_valid' = uc_valid
  BY <1>1, <1>2, <1>3, UARTMoves DEF ReadInv
<1>7. uc_state \in {"init", "deassert"}
  BY <1>2 DEF UARTConnTypeOK
<1>8. mr_state = "init" /\ ~mreq.valid => mr_state' = "init"
  BY <1>1, ReadQuiet DEF mmuReadVars
<1>9. sysmem' = sysmem /\ ((mr_state = "init" /\ mreq.valid) \/ Collected) =>
        /\ Collected'
        /\ mr_state = "init" /\ mreq.valid => mr_addr' = m_addr /\ mr_width' = m_width
        /\ ~(mr_state = "init" /\ mreq.valid) => mr_addr' = mr_addr /\ mr_width' = mr_width
  BY <1>1, <1>2, <1>3, <1>4, ReadCollects
<1>10. ToUart(m_addr) => ~ToSysmem(m_addr)
  BY BusConstants
<1>11. CASE m_state \in {"idle", "store", "storing"}
  <2>1. mr_state' = "init" /\ uc_state' = "init"
    BY <1>2, <1>4, <1>6, <1>7, <1>8, <1>11 DEF ReadInv
  <2>2. m_state' \notin {"fetching", "loading"} /\ (m_state' = "fetch" => ~ToUart(m_addr'))
    BY <1>1, <1>11, ReadMoves
  <2> QED BY <1>6, <2>1, <2>2 DEF ReadInv, ToUart, ToSysmem
<1>12. CASE m_state \in {"fetch", "load"} /\ ToSysmem(m_addr)
  <2>1. mr_state = "init" /\ mreq.valid /\ ~ureq.valid /\ uc_state = "init"
    BY <1>2, <1>4, <1>7, <1>10, <1>12 DEF ReadInv
  <2>2. Collected' /\ mr_addr' = m_addr /\ mr_width' = m_width /\ uc_state' = "init"
    BY <1>5, <1>6, <1>9, <1>12, <2>1
  <2>3. m_state' \in {"fetching", "loading"} /\ UNCHANGED <<m_addr, m_width>>
    BY <1>1, <1>2, <1>12, ReadMoves, ReadWaits
  <2> QED BY <1>6, <1>10, <1>12, <2>2, <2>3 DEF ReadInv, ToUart, ToSysmem
<1>13. CASE m_state \in {"fetch", "load"} /\ ~ToSysmem(m_addr)
  <2>1. mr_state' = "init" /\ (uc_state' = "deassert" <=> ureq.valid) /\ (ureq.valid => uc_valid')
    BY <1>2, <1>4, <1>6, <1>7, <1>8, <1>13 DEF ReadInv
  <2>2. /\ m_state = "fetch" => m_state' = "fetch" /\ ~ToUart(m_addr)
        /\ m_state = "load" => m_state' = "loading"
        /\ m_addr' = m_addr
    BY <1>1, <1>2, <1>13, ReadMoves, ReadWaits DEF ReadInv
  <2> QED BY <1>4, <1>6, <1>13, <2>1, <2>2 DEF ReadInv, ToUart, ToSysmem
<1>14. CASE m_state \in {"fetching", "loading"} /\ ~ReadRespValid(ReadWires)
  <2>1. UNCHANGED <<m_state, m_addr, m_width>> /\ ~ToUart(m_addr) /\ uc_state' = "init"
    BY <1>1, <1>2, <1>4, <1>6, <1>14, ReadMoves, ReadWaits DEF ReadInv, masterVars
  <2>2. ToSysmem(m_addr) => Collected' /\ mr_addr' = m_addr /\ mr_width' = m_width
    BY <1>2, <1>4, <1>5, <1>9, <1>14 DEF ReadInv
  <2>3. ~ToSysmem(m_addr) => mr_state' = "init"
    BY <1>2, <1>4, <1>8, <1>14 DEF ReadInv
  <2> QED BY <1>2, <1>6, <1>14, <2>1, <2>2, <2>3 DEF ReadInv, ToUart, ToSysmem
<1>15. CASE m_state \in {"fetching", "loading"} /\ ReadRespValid(ReadWires)
  <2>1. mr_state = "init"
    BY <1>2, <1>10, <1>15, ReadWaits DEF ReadInv, Collected
  <2>2. mr_state' = "init" /\ uc_state' = "init"
    BY <1>4, <1>6, <1>8, <1>15, <2>1
  <2>3. Access
    BY <1>1, <1>15, ReadMoves
  <2>4. m_state' \notin {"fetching", "loading"} /\ (m_state' = "fetch" => ~ToUart(m_addr'))
    BY <2>3 DEF Access
  <2> QED BY <1>6, <2>2, <2>4 DEF ReadInv, ToUart, ToSysmem
<1> QED BY <1>2, <1>11, <1>12, <1>13, <1>14, <1>15 DEF MasterTypeOK, MasterState
-----------------------------------------------------------------------------
(* The refinement of ByteBus. *)

LEMMA BInvStep == BInv /\ [Next]_vars => BInv'
<1> SUFFICES ASSUME BInv, [Next]_vars PROVE BInv'
  OBVIOUS
<1>1. CASE Next
  BY <1>1, IInvStep, ReadStep DEF BInv
<1>2. CASE UNCHANGED vars
  <2>1. IInv'
    BY <1>2, IInvStep DEF BInv
  <2>2. ReadInv'
    BY <1>2
    DEF vars, mmuVars, sysmemVars, mmuReadVars, uartConnVars, masterVars, BInv, ReadInv,
        Collected, CellAhead
  <2> QED BY <2>1, <2>2 DEF BInv
<1> QED BY <1>1, <1>2

LEMMA BInvInit == Init => BInv
<1> SUFFICES ASSUME Init PROVE BInv
  OBVIOUS
<1>1. /\ m_state = "idle" /\ mr_state = "init" /\ uc_state = "init" /\ uc_rdready = FALSE
  BY DEF Init, MMUInit, MMUReadInit, UARTConnInit
<1> QED BY <1>1, IInvInit DEF BInv, ReadInv
-----------------------------------------------------------------------------
(* The operators of ByteBus on data are those of the modules it extends. *)

LEMMA BusSets ==
  /\ Bus!BYTE = BYTE /\ Bus!WORD = WORD /\ Bus!HALF = HALF /\ Bus!AccessWidth = AccessWidth
  /\ Bus!HalfSize = HalfSize /\ Bus!WordSize = WordSize /\ Bus!Word = Word
  /\ Bus!Byte = Byte /\ Bus!Lane = Lane /\ Bus!Lanes = Lanes /\ Bus!ZeroLanes = ZeroLanes
  /\ Bus!MemByte = MemByte
<1>1. Bus!HalfSize = HalfSize /\ Bus!WordSize = WordSize /\ Bus!Word = Word
  BY DEF Bus!HalfSize, HalfSize, Bus!WordSize, WordSize, Bus!Word, Word
<1>2. Bus!Byte = Byte /\ Bus!Lane = Lane /\ Bus!Lanes = Lanes /\ Bus!ZeroLanes = ZeroLanes
  BY DEF Bus!Byte, Byte, Bus!Lane, Lane, Bus!Lanes, Lanes, Bus!ZeroLanes, ZeroLanes
<1> QED BY <1>1, <1>2
        DEF Bus!BYTE, BYTE, Bus!WORD, WORD, Bus!HALF, HALF, Bus!AccessWidth, AccessWidth,
            Bus!MemByte, MemByte

LEMMA BusMemory ==
  /\ \A addr : Bus!ToSysmem(addr) = ToSysmem(addr) /\ Bus!ToUart(addr) = ToUart(addr)
  /\ \A mem, addr, width : Bus!ReadBytes(mem, addr, width) = ReadBytes(mem, addr, width)
  /\ \A mem, addr, width, data :
       Bus!WriteBytes(mem, addr, width, data) = WriteBytes(mem, addr, width, data)
  /\ \A k, byte : Bus!ByteAt(k, byte) = ByteAt(k, byte)
<1>1. \A addr : Bus!ToSysmem(addr) = ToSysmem(addr) /\ Bus!ToUart(addr) = ToUart(addr)
  BY BusSets DEF Bus!ToSysmem, ToSysmem, Bus!ToUart, ToUart
<1>2. \A width : Bus!Size(width) = Size(width)
  BY BusSets DEF Bus!Size, Size
<1>3. \A mem, addr, k : Bus!ByteOf(mem, Bus!ByteIndex(addr, k)) = ByteOf(mem, ByteIndex(addr, k))
  BY BusSets DEF Bus!ByteOf, ByteOf, Bus!ByteIndex, ByteIndex
<1>4. \A addr, i : Bus!LaneOf(addr, i) = LaneOf(addr, i)
  BY DEF Bus!LaneOf, LaneOf
<1>5. \A mem, addr, width : Bus!ReadBytes(mem, addr, width) = ReadBytes(mem, addr, width)
  BY <1>2, <1>3, BusSets DEF Bus!ReadBytes, ReadBytes
<1>6. \A mem, addr, width, data :
        Bus!WriteBytes(mem, addr, width, data) = WriteBytes(mem, addr, width, data)
  BY <1>2, <1>4, BusSets DEF Bus!WriteBytes, WriteBytes
<1>7. \A k, byte : Bus!ByteAt(k, byte) = ByteAt(k, byte)
  BY BusSets DEF Bus!ByteAt, ByteAt
<1> QED BY <1>1, <1>5, <1>6, <1>7

LEMMA BusQueues ==
  /\ \A q : Bus!Pop(q) = Pop(q) /\ Bus!Arrivals(q) = Arrivals(q) /\ Bus!Departures(q) = Departures(q)
  /\ \A q, byte : Bus!Push(q, byte) = Push(q, byte)
BY DEF Bus!Pop, Pop, Bus!Arrivals, Arrivals, Bus!Departures, Departures, Bus!Push, Push
-----------------------------------------------------------------------------
\* What the master is owed, whichever wires it waits for.
OwedInv ==
  /\ m_state \notin {"fetching", "loading"} => AbstractAnswer = [kind |-> "nothing"]
  /\ m_state \in {"fetching", "loading"} /\ ToSysmem(m_addr) =>
       AbstractAnswer = [kind |-> "owed", bytes |-> ReadBytes(sysmem, m_addr, m_width)]
  /\ m_state = "loading" /\ ToUart(m_addr) =>
       AbstractAnswer = [kind |-> "owed", bytes |-> ByteAt(0, uc_payload)]
  /\ m_state = "loading" /\ ~ToSysmem(m_addr) /\ ~ToUart(m_addr) =>
       AbstractAnswer = [kind |-> "never"]
  /\ m_state # "storing" => Drained = sysmem

LEMMA OwedAnswer == BInv => OwedInv
<1> SUFFICES ASSUME BInv
             PROVE  /\ m_state \in {"fetching", "loading"} /\ ToSysmem(m_addr) =>
                         AbstractAnswer = [kind |-> "owed",
                                           bytes |-> ReadBytes(sysmem, m_addr, m_width)]
                    /\ m_state = "loading" /\ ToUart(m_addr) =>
                         AbstractAnswer = [kind |-> "owed", bytes |-> ByteAt(0, uc_payload)]
                    /\ m_state # "storing" => Drained = sysmem
  BY DEF AbstractAnswer, OwedInv
<1>1. ToUart(m_addr) => ~ToSysmem(m_addr)
  BY BusConstants
<1>2. m_state # "storing" => Drained = sysmem
  BY WritesNothing DEF BInv, IInv, WriteInv, TypeOK, MMUTypeOK, SysmemTypeOK, Drained
<1>3. m_state \in {"fetching", "loading"} /\ ToSysmem(m_addr) =>
        /\ mr_addr = m_addr /\ mr_width = m_width
        /\ mr_valid => mr_payload = ReadBytes(sysmem, m_addr, m_width)
  BY DEF BInv, ReadInv, Collected
<1> QED BY <1>1, <1>2, <1>3 DEF AbstractAnswer, Wanted

LEMMA OwedAnswerNext == BInv' => OwedInv'
BY OwedAnswer, PTL

LEMMA RequestType == TypeOK => AbstractRequest \in Bus!Request
BY BusSets, Constants DEF TypeOK, AbstractRequest, Bus!Request, AccessWidth, BYTE

LEMMA RequestTypeNext == TypeOK' => AbstractRequest' \in Bus!Request
BY BusSets, Constants DEF TypeOK, AbstractRequest, Bus!Request, AccessWidth, BYTE

LEMMA BusInit == Init => Bus!Init
<1> SUFFICES ASSUME Init PROVE Bus!Init
  OBVIOUS
<1>1. Drained \in [MemByte -> Byte]
  BY IInvInit, DrainedType DEF IInv, TypeOK, MMUTypeOK
<1>2. m_state = "idle" /\ uc_rdready = FALSE /\ uc_wrvalid = FALSE /\ rx_fifo = <<>> /\ tx_fifo = <<>>
  BY DEF Init, MMUInit, UARTConnInit, StreamsInit
<1> QED BY <1>1, <1>2, BusSets
        DEF Bus!Init, Bus!StreamsInit, AbstractRequest, AbstractAnswer, Bus!NoRequest, Bus!Nothing
-----------------------------------------------------------------------------
\* What an edge does to what the mapping is made of.
LEMMA BusMoves ==
  ASSUME BInv, Next
  PROVE  /\ m_state = "store" /\ ToSysmem(m_addr) =>
              Drained' = WriteBytes(Drained, m_addr, m_width, m_data)
         /\ ~(m_state = "store" /\ ToSysmem(m_addr)) => Drained' = Drained
         /\ m_state \in {"fetch", "load"} /\ ToUart(m_addr) =>
              /\ uc_payload' = IF RxLeft = <<>> THEN 0 ELSE Head(RxLeft)
              /\ RxLeft' \in Arrivals(Pop(RxLeft))
         /\ ~(m_state \in {"fetch", "load"} /\ ToUart(m_addr)) => RxLeft' \in Arrivals(RxLeft)
         /\ m_state = "store" /\ ToUart(m_addr) =>
              TxAll' \in {Push(q, m_data[0]) : q \in Departures(TxAll)}
         /\ ~(m_state = "store" /\ ToUart(m_addr)) => TxAll' \in Departures(TxAll)
<1> DEFINE wmem == Routed(ToSysmem(WriteWires.addr), WriteWires, NoWrite)
           rreq == Routed(ToUart(ReadWires.addr), ReadWires, NoRead)
           wreq == Routed(ToUart(WriteWires.addr), WriteWires, NoWrite)
<1>1. /\ MMUWriteTick(wmem) /\ UARTConnTick(rreq, wreq, RxWire)
      /\ StreamsTick(uc_rdready, uc_wrvalid, uc_wrpayload)
      /\ sysmem' = Written(sysmem, wport_addr, wport_data, wport_en)
  BY DEF Next, MMUTick, SysmemTick
<1>2. /\ SysmemTypeOK /\ MMUWriteTypeOK /\ UARTConnTypeOK /\ StreamsTypeOK
      /\ ReadInv /\ WriteInv /\ TypeOK
  BY DEF BInv, IInv, TypeOK, MMUTypeOK
<1>3. wmem \in WriteReq /\ rreq \in ReadReq /\ wreq \in WriteReq
  BY <1>2, WiresType, Constants DEF Routed
<1>4. /\ wmem.valid <=> m_state = "store" /\ ToSysmem(m_addr)
      /\ wmem.valid => wmem.addr = m_addr /\ wmem.width = m_width /\ wmem.data = m_data
      /\ wreq.valid <=> m_state = "store" /\ ToUart(m_addr)
      /\ wreq.valid => wreq.data = m_data
      /\ rreq.valid <=> m_state \in {"fetch", "load"} /\ ToUart(m_addr)
  BY WriteRoutes, ReadRoutes
<1> HIDE DEF wmem, rreq, wreq
<1>5. Drained' = IF mw_state = "init" /\ wmem.valid
                   THEN WriteBytes(Drained, wmem.addr, wmem.width, wmem.data) ELSE Drained
  BY <1>1, <1>2, <1>3, WriteDrains
<1>6. m_state = "store" => mw_state = "init"
  BY <1>2 DEF WriteInv
<1>7. m_state \in {"fetch", "load"} => uc_state = "init"
  BY <1>2 DEF ReadInv, UARTConnTypeOK
<1>8. /\ uc_state = "init" /\ rreq.valid =>
           /\ uc_payload' = IF RxLeft = <<>> THEN 0 ELSE Head(RxLeft)
           /\ RxLeft' \in Arrivals(Pop(RxLeft))
      /\ ~(uc_state = "init" /\ rreq.valid) => RxLeft' \in Arrivals(RxLeft)
      /\ wreq.valid => TxAll' \in {Push(q, wreq.data[0]) : q \in Departures(TxAll)}
      /\ ~wreq.valid => TxAll' \in Departures(TxAll)
  BY <1>1, <1>2, <1>3, UARTMoves DEF ReadInv
<1> QED BY <1>4, <1>5, <1>6, <1>7, <1>8

\* Every edge of the clock is one step of ByteBus: the edge at which the bus takes a
\* request serves it, the one at which the master takes the answer ends it, and at the
\* others nothing happens but on the line.
LEMMA BusStep ==
  ASSUME BInv, BInv', Next
  PROVE  Bus!Next
<1> DEFINE req == AbstractRequest
           answer == AbstractAnswer
           Line == RxLeft' \in Arrivals(RxLeft) /\ TxAll' \in Departures(TxAll)
<1>1. MasterTick /\ ReadInv /\ WriteInv /\ MasterTypeOK /\ OwedInv /\ OwedInv'
  BY OwedAnswer, OwedAnswerNext DEF Next, BInv, IInv, TypeOK, MasterTypeOK
<1>2. ToUart(m_addr) => ~ToSysmem(m_addr)
  BY BusConstants
<1>3. /\ m_state \in {"fetch", "load"} =>
           req = [kind |-> "read", addr |-> m_addr, width |-> m_width, data |-> m_data]
      /\ m_state = "store" =>
           req = [kind |-> "write", addr |-> m_addr, width |-> m_width, data |-> m_data]
      /\ m_state \notin {"fetch", "load", "store"} => req = Bus!NoRequest
  BY BusSets DEF AbstractRequest, Bus!NoRequest
<1>4. Bus!Asks
  BY RequestTypeNext DEF Bus!Asks, BInv, IInv
<1>5. Line => Bus!Line
  BY BusQueues DEF Bus!Line, RxLeft, TxAll
\* The steps that only the line and the master make.
<1>6. ASSUME Drained' = Drained, answer' = answer, Line,
             \/ req' = req
             \/ m_state \notin {"fetch", "load", "store", "fetching", "loading"}
      PROVE  Bus!Quiet
  <2>1. m_state \notin {"fetch", "load", "store", "fetching", "loading"} =>
          req = Bus!NoRequest /\ answer = Bus!Nothing
    BY <1>1, <1>3 DEF OwedInv, Bus!Nothing
  <2> QED BY <1>4, <1>5, <1>6, <2>1 DEF Bus!Quiet
<1> HIDE DEF Line
<1>7. ~(m_state = "store" /\ ToSysmem(m_addr)) => Drained' = Drained
  BY BusMoves
<1>8. /\ ~(m_state \in {"fetch", "load", "store"} /\ ToUart(m_addr)) => Line
  BY BusMoves DEF Line
<1>9. Access => answer' = Bus!Nothing
  <2>1. Access => m_state' \notin {"fetching", "loading"}
    BY DEF Access
  <2> QED BY <1>1, <2>1 DEF OwedInv, Bus!Nothing
<1>10. UNCHANGED masterVars => req' = req
  BY DEF AbstractRequest, masterVars
<1>11. CASE m_state = "idle"
  <2>1. Access
    BY <1>1, <1>11 DEF MasterTick
  <2>2. answer' = answer
    BY <1>1, <1>9, <1>11, <2>1 DEF OwedInv, Bus!Nothing
  <2> QED BY <1>6, <1>7, <1>8, <1>11, <2>2 DEF Bus!Next
<1>12. CASE m_state \in {"fetch", "load"} /\ ToSysmem(m_addr)
  <2>1. m_state' \in {"fetching", "loading"} /\ UNCHANGED <<m_addr, m_width>>
    BY <1>1, <1>12, ReadMoves, ReadWaits
  <2>2. Drained' = Drained /\ Line /\ Drained = sysmem /\ sysmem' = Drained
    <3>1. m_state' # "storing" /\ m_state # "storing"
      BY <1>12, <2>1
    <3> QED BY <1>1, <1>2, <1>7, <1>8, <1>12, <3>1 DEF OwedInv
  <2>3. answer' = [kind |-> "owed", bytes |-> ReadBytes(Drained, m_addr, m_width)]
    BY <1>1, <1>12, <2>1, <2>2 DEF OwedInv, ToSysmem, ReadBytes
  <2>4. answer = Bus!Nothing
    BY <1>1, <1>12 DEF OwedInv, Bus!Nothing
  <2>5. Bus!ReadMemory
    BY <1>3, <1>4, <1>5, <1>12, <2>2, <2>3, <2>4, BusMemory
    DEF Bus!ReadMemory, Bus!Reads, Bus!Owed
  <2> QED BY <2>5 DEF Bus!Next
<1>13. CASE m_state = "fetch" /\ ~ToSysmem(m_addr)
  <2>1. m_state' = "fetch" /\ UNCHANGED <<m_addr, m_width, m_data>>
    BY <1>1, <1>13, ReadMoves, ReadWaits
  <2>2. req' = req
    BY <1>13, <2>1 DEF AbstractRequest
  <2>3. answer' = answer
    BY <1>1, <1>13, <2>1 DEF OwedInv
  <2>4. Line
    BY <1>1, <1>8, <1>13 DEF ReadInv
  <2> QED BY <1>6, <1>7, <1>13, <2>2, <2>3, <2>4 DEF Bus!Next
<1>14. CASE m_state = "load" /\ ~ToSysmem(m_addr)
  <2>1. m_state' = "loading" /\ UNCHANGED <<m_addr, m_width>>
    BY <1>1, <1>14, ReadMoves
  <2>2. answer = Bus!Nothing /\ Drained' = Drained
    BY <1>1, <1>7, <1>14 DEF OwedInv, Bus!Nothing
  <2>3. Bus!Reads
    BY <1>3, <1>4, <1>14, <2>2 DEF Bus!Reads
  <2>4. CASE ToUart(m_addr)
    <3>1. answer' = [kind |-> "owed", bytes |-> ByteAt(0, uc_payload')]
      BY <1>1, <2>1, <2>4 DEF OwedInv, ToUart, ToSysmem, ByteAt
    <3>2. /\ uc_payload' = IF RxLeft = <<>> THEN 0 ELSE Head(RxLeft)
          /\ RxLeft' \in Arrivals(Pop(RxLeft)) /\ TxAll' \in Departures(TxAll)
      BY <1>14, <2>4, BusMoves
    <3>3. Bus!ReadUart
      BY <1>3, <1>14, <2>3, <2>4, <3>1, <3>2, BusMemory, BusQueues
      DEF Bus!ReadUart, Bus!Owed, RxLeft, TxAll
    <3> QED BY <3>3 DEF Bus!Next
  <2>5. CASE ~ToUart(m_addr)
    <3>1. answer' = Bus!Never
      BY <1>1, <1>14, <2>1, <2>5 DEF OwedInv, ToUart, ToSysmem, Bus!Never
    <3>2. Bus!ReadNowhere
      BY <1>3, <1>5, <1>8, <1>14, <2>3, <2>5, <3>1, BusMemory DEF Bus!ReadNowhere
    <3> QED BY <3>2 DEF Bus!Next
  <2> QED BY <2>4, <2>5
<1>15. CASE m_state \in {"fetching", "loading"} /\ ~ReadRespValid(ReadWires)
  <2>1. UNCHANGED masterVars
    BY <1>1, <1>15, ReadMoves
  <2>2. ~ToUart(m_addr)
    BY <1>1, <1>15, ReadWaits DEF ReadInv
  <2>3. sysmem' = sysmem
    BY <1>1, <1>7, <1>15, <2>1 DEF OwedInv, masterVars
  <2>4. answer' = answer
    BY <1>1, <1>15, <2>1, <2>2, <2>3 DEF OwedInv, ReadInv, masterVars, ToUart, ToSysmem, ReadBytes
  <2> QED BY <1>6, <1>7, <1>8, <1>10, <1>15, <2>1, <2>4 DEF Bus!Next
<1>16. CASE m_state \in {"fetching", "loading"} /\ ReadRespValid(ReadWires)
  <2>1. Access
    BY <1>1, <1>16, ReadMoves
  <2>2. answer.kind = "owed"
    BY <1>1, <1>16, ReadWaits DEF OwedInv, ReadInv
  <2>3. Bus!Answered
    BY <1>4, <1>5, <1>7, <1>8, <1>9, <1>16, <2>1, <2>2 DEF Bus!Answered
  <2> QED BY <2>3 DEF Bus!Next
<1>17. CASE m_state = "store"
  <2>1. answer = Bus!Nothing /\ answer' = answer
    <3>1. m_state' \notin {"fetching", "loading"}
      BY <1>1, <1>17, MasterMoves
    <3> QED BY <1>1, <1>17, <3>1 DEF OwedInv, Bus!Nothing
  <2>2. Bus!Writes
    BY <1>3, <1>4, <1>17, <2>1 DEF Bus!Writes
  <2>3. CASE ToSysmem(m_addr)
    <3>1. Drained' = WriteBytes(Drained, m_addr, m_width, m_data) /\ Line
      BY <1>2, <1>8, <1>17, <2>3, BusMoves
    <3>2. Bus!WriteMemory
      BY <1>3, <1>5, <1>17, <2>2, <2>3, <3>1, BusMemory DEF Bus!WriteMemory
    <3> QED BY <3>2 DEF Bus!Next
  <2>4. CASE ToUart(m_addr)
    <3>1. /\ Drained' = Drained /\ RxLeft' \in Arrivals(RxLeft)
          /\ TxAll' \in {Push(q, m_data[0]) : q \in Departures(TxAll)}
      BY <1>2, <1>17, <2>4, BusMoves
    <3>2. Bus!WriteUart
      BY <1>3, <1>17, <2>2, <2>4, <3>1, BusMemory, BusQueues
      DEF Bus!WriteUart, RxLeft, TxAll
    <3> QED BY <3>2 DEF Bus!Next
  <2>5. CASE ~ToSysmem(m_addr) /\ ~ToUart(m_addr)
    <3>1. ~WriteReady(WriteWires)
      BY <1>17, <2>5, WriteWiresFacts DEF WriteReady
    <3>2. Hold("store")
      BY <1>1, <1>17, <3>1 DEF MasterTick
    <3>3. req' = req
      BY <1>17, <3>2 DEF Hold, AbstractRequest
    <3> QED BY <1>6, <1>7, <1>8, <2>1, <2>5, <3>3 DEF Bus!Next
  <2> QED BY <2>3, <2>4, <2>5
<1>18. CASE m_state = "storing"
  <2>1. Access \/ UNCHANGED masterVars
    BY <1>1, <1>18 DEF MasterTick
  <2>2. answer' = answer
    <3>1. m_state' \notin {"fetching", "loading"}
      BY <1>18, <2>1 DEF Access, masterVars
    <3> QED BY <1>1, <1>18, <3>1 DEF OwedInv
  <2> QED BY <1>6, <1>7, <1>8, <1>18, <2>2 DEF Bus!Next
<1> QED BY <1>1, <1>11, <1>12, <1>13, <1>14, <1>15, <1>16, <1>17, <1>18
        DEF MasterTypeOK, MasterState

-----------------------------------------------------------------------------
(* The time an answer takes. *)

\* The edges that have gone by in each state of the machine that the master waits for.
TimeInv ==
  /\ m_state \in {"fetching", "loading"} /\ ToSysmem(m_addr) =>
       /\ mr_state = "pipe" => ticks = 0
       /\ mr_state \in {"coll", "coll0"} => ticks = 1
       /\ mr_state = "coll1" => ticks = 2
       /\ mr_state = "coll2" => ticks = 3
       /\ mr_state = "init" => ticks = ReadTicks
  /\ m_state = "storing" /\ ToSysmem(m_addr) =>
       /\ mw_state = "init" => ticks = WriteTicks
       /\ mw_state = "half.unaligned" => ticks = 0 /\ m_width = HALF /\ m_addr % 2 = 1
       /\ mw_state = "word" => ticks = 0 /\ m_width = WORD /\ m_addr % 2 = 0
       /\ mw_state = "word.unaligned" => ticks = 0 /\ m_width = WORD /\ m_addr % 2 = 1
       /\ mw_state = "word.unaligned.fish" => ticks = 1 /\ m_width = WORD /\ m_addr % 2 = 1

LEMMA TimeStep ==
  ASSUME BInv, TimeInv, TimedNext
  PROVE  TimeInv'
<1> DEFINE rreq == Routed(ToSysmem(ReadWires.addr), ReadWires, NoRead)
           wreq == Routed(ToSysmem(WriteWires.addr), WriteWires, NoWrite)
<1>1. /\ MasterTick /\ MMUReadTick(rreq) /\ MMUWriteTick(wreq) /\ Next
      /\ ticks' = IF ~Waiting(m_state) \/ ~Waiting(m_state') THEN 0
                  ELSE IF ticks < MaxTicks THEN ticks + 1 ELSE ticks
  BY DEF TimedNext, Next, MMUTick
<1>2. /\ TypeOK /\ MMUReadTypeOK /\ MMUWriteTypeOK /\ MasterTypeOK /\ ReadInv /\ WriteInv /\ ReadInv'
      /\ m_addr \in Word /\ m_addr % 2 \in {0, 1}
  BY <1>1, ReadStep, AddressParts DEF BInv, IInv, TypeOK, MMUTypeOK, MasterTypeOK
<1>3. /\ rreq.valid <=> m_state \in {"fetch", "load"} /\ ToSysmem(m_addr)
      /\ wreq.valid <=> m_state = "store" /\ ToSysmem(m_addr)
      /\ wreq.valid => wreq.addr = m_addr /\ wreq.width = m_width
  BY ReadRoutes, WriteRoutes
<1> HIDE DEF rreq, wreq
<1>4. ASSUME m_state' \in {"fetching", "loading"}, ToSysmem(m_addr')
      PROVE  /\ mr_state' = "pipe" => ticks' = 0
             /\ mr_state' \in {"coll", "coll0"} => ticks' = 1
             /\ mr_state' = "coll1" => ticks' = 2
             /\ mr_state' = "coll2" => ticks' = 3
             /\ mr_state' = "init" => ticks' = ReadTicks'
  <2>1. CASE m_state \in {"fetch", "load"}
    <3>1. m_addr' = m_addr
      BY <1>1, <2>1, ReadMoves
    <3>2. mr_state' = "pipe" /\ ticks' = 0
      BY <1>1, <1>2, <1>3, <1>4, <2>1, <3>1, ReadPaces DEF ReadInv, Waiting
    <3> QED BY <3>2
  <2>2. CASE m_state \in {"fetching", "loading"}
    <3>1. ~ReadRespValid(ReadWires) /\ UNCHANGED masterVars
      <4>1. Access => m_state' \notin {"fetching", "loading"}
        BY DEF Access
      <4> QED BY <1>1, <1>4, <2>2, <4>1, ReadMoves
    <3>2. ToSysmem(m_addr) /\ mr_state # "init" /\ Collected /\ mr_addr = m_addr /\ mr_width = m_width
      <4>1. ~mr_valid
        BY <1>2, <1>4, <2>2, <3>1, ReadWaits DEF masterVars
      <4> QED BY <1>2, <1>4, <2>2, <3>1, <4>1 DEF ReadInv, masterVars, Collected
    <3>3. ticks' = ticks + 1 /\ ReadTicks' = ReadTicks
      <4>1. ticks \in {0, 1, 2, 3}
        BY <1>2, <2>2, <3>2 DEF TimeInv, MMUReadTypeOK, MMUReadState
      <4> QED BY <1>1, <1>4, <2>2, <3>1, <4>1
              DEF Waiting, MaxTicks, masterVars, ReadTicks, Unaligned, HALF, WORD, BYTE
    <3>4. /\ mr_state = "pipe" => ticks = 0
          /\ mr_state \in {"coll", "coll0"} => ticks = 1
          /\ mr_state = "coll1" => ticks = 2
          /\ mr_state = "coll2" => ticks = 3
      BY <2>2, <3>2 DEF TimeInv
    <3>5. /\ mr_state = "coll" => ReadTicks = 2
          /\ mr_state = "coll1" => ReadTicks = IF m_width # HALF /\ m_addr % 2 = 1 THEN 4 ELSE 3
          /\ mr_state = "coll2" => ReadTicks = 4
      BY <1>2, <3>2, SizeValues DEF Collected, Spans, ReadTicks, Unaligned, Extra
    <3> QED BY <1>1, <1>2, <3>2, <3>3, <3>4, <3>5, ReadPaces DEF MMUReadTypeOK, MMUReadState
  <2> QED BY <1>1, <1>4, <2>1, <2>2, ReadMoves
<1>5. ASSUME m_state' = "storing", ToSysmem(m_addr')
      PROVE  /\ mw_state' = "init" => ticks' = WriteTicks'
             /\ mw_state' = "half.unaligned" => ticks' = 0 /\ m_width' = HALF /\ m_addr' % 2 = 1
             /\ mw_state' = "word" => ticks' = 0 /\ m_width' = WORD /\ m_addr' % 2 = 0
             /\ mw_state' = "word.unaligned" => ticks' = 0 /\ m_width' = WORD /\ m_addr' % 2 = 1
             /\ mw_state' = "word.unaligned.fish" => ticks' = 1 /\ m_width' = WORD /\ m_addr' % 2 = 1
  <2>1. UNCHANGED <<m_addr, m_width>>
    <3>1. Access => m_state' # "storing"
      BY DEF Access
    <3> QED BY <1>1, <1>5, <3>1 DEF MasterTick, Hold, masterVars
  <2>2. WriteTicks' = WriteTicks
    BY <2>1 DEF WriteTicks, Unaligned
  <2>3. CASE m_state = "store"
    <3>1. ticks' = 0 /\ wreq.valid /\ mw_state = "init"
      BY <1>1, <1>2, <1>3, <1>5, <2>1, <2>3 DEF Waiting, WriteInv
    <3>2. mw_state' = "init" => WriteTicks = 0
      BY <1>1, <1>2, <1>3, <3>1, WritePaces, SizeValues DEF WriteTicks, Unaligned, Extra
    <3> QED BY <1>1, <1>2, <1>3, <2>1, <2>2, <3>1, <3>2, WritePaces, SizeValues
  <2>4. CASE m_state = "storing"
    <3>1. ~mw_ready /\ mw_state # "init" /\ ToSysmem(m_addr)
      <4>1. ~WriteReady(WriteWires)
        BY <1>1, <1>5, <2>4, MasterMoves
      <4> QED BY <1>2, <1>5, <2>1, <2>4, <4>1, WriteWiresFacts DEF WriteReady, WriteInv
    <3>2. ticks' = ticks + 1
      <4>1. ticks \in {0, 1}
        BY <1>2, <2>4, <3>1 DEF TimeInv, MMUWriteTypeOK, MMUWriteState
      <4> QED BY <1>1, <1>5, <2>4, <4>1 DEF Waiting, MaxTicks
    <3>3. /\ mw_state = "half.unaligned" => WriteTicks = 1 /\ ticks = 0
          /\ mw_state = "word" => WriteTicks = 1 /\ ticks = 0
          /\ mw_state = "word.unaligned" => ticks = 0 /\ m_width = WORD /\ m_addr % 2 = 1
          /\ mw_state = "word.unaligned.fish" => WriteTicks = 2 /\ ticks = 1
      BY <1>2, <2>4, <3>1, SizeValues DEF TimeInv, WriteTicks, Unaligned, Extra
    <3> QED BY <1>1, <1>2, <2>1, <2>2, <3>1, <3>2, <3>3, WritePaces
            DEF MMUWriteTypeOK, MMUWriteState
  <2> QED BY <1>1, <1>5, <2>3, <2>4, MasterMoves
<1> QED BY <1>4, <1>5 DEF TimeInv
-----------------------------------------------------------------------------
\* Every variable keeps the values its register has room for.
THEOREM TypeCorrect == Spec => []TypeOK
<1>1. IInv => TypeOK
  BY DEF IInv
<1> QED BY <1>1, IInvInit, IInvStep, PTL DEF Spec

\* No master with the hart's manners finds a write of another access half made, though
\* MMUWrite accepts requests without looking at its own ready.
THEOREM WritesFinish == Spec => []WriteFinished
<1>1. IInv => WriteFinished
  BY DEF IInv, WriteInv, WriteFinished
<1> QED BY <1>1, IInvInit, IInvStep, PTL DEF Spec

\* The MMU is a memory of bytes and two streams, whatever accesses a master makes of it.
THEOREM RefinesByteBus == Spec => ImplementsByteBus
<1>1. BInv /\ BInv' /\ [Next]_vars => [Bus!Next]_(Bus!busVars)
  <2> SUFFICES ASSUME BInv, BInv', [Next]_vars PROVE [Bus!Next]_(Bus!busVars)
    OBVIOUS
  <2>1. CASE Next
    BY <2>1, BusStep
  <2>2. CASE UNCHANGED vars
    BY <2>2
    DEF vars, mmuVars, sysmemVars, mmuReadVars, mmuWriteVars, uartConnVars, streamVars,
        masterVars, Bus!busVars, Drained, NextWCell, AbstractRequest, AbstractAnswer, Wanted
  <2> QED BY <2>1, <2>2
<1> QED BY <1>1, BusInit, BInvInit, BInvStep, PTL DEF Spec, ImplementsByteBus, Bus!Spec

\* The answer of an access to memory comes exactly when the bench of the MMU expects it.
THEOREM AnswersInTime == TimedSpec => []AnswersOnTime
<1>1. TimedInit => BInv /\ TimeInv
  BY BInvInit DEF TimedInit, TimeInv, Init
<1>2. BInv /\ TimeInv /\ [TimedNext]_<<vars, ticks>> => BInv' /\ TimeInv'
  <2> SUFFICES ASSUME BInv, TimeInv, [TimedNext]_<<vars, ticks>> PROVE BInv' /\ TimeInv'
    OBVIOUS
  <2>1. CASE TimedNext
    BY <2>1, BInvStep, TimeStep DEF TimedNext
  <2>2. CASE UNCHANGED <<vars, ticks>>
    <3>1. BInv'
      BY <2>2, BInvStep
    <3>2. TimeInv'
      BY <2>2 DEF vars, mmuVars, mmuReadVars, mmuWriteVars, masterVars, TimeInv, ReadTicks,
                  WriteTicks, Unaligned
    <3> QED BY <3>1, <3>2
  <2> QED BY <2>1, <2>2
<1>3. BInv /\ TimeInv => AnswersOnTime
  <2> SUFFICES ASSUME BInv, TimeInv PROVE AnswersOnTime
    OBVIOUS
  <2>1. /\ TypeOK /\ MasterTypeOK /\ MMUReadTypeOK /\ MMUWriteTypeOK /\ ReadInv /\ WriteInv
        /\ m_addr % 2 \in {0, 1}
    BY AddressParts DEF BInv, IInv, TypeOK, MMUTypeOK, MasterTypeOK
  <2>2. ASSUME m_state \in {"fetching", "loading"}, ToSysmem(m_addr)
        PROVE  (ReadRespValid(ReadWires) <=> ticks = ReadTicks) /\ ticks <= ReadTicks
    <3>1. /\ ReadRespValid(ReadWires) <=> mr_state = "init"
          /\ Collected /\ mr_addr = m_addr /\ mr_width = m_width
      BY <2>1, <2>2, ReadWaits, BusConstants DEF ReadInv, Collected
    <3>2. /\ ReadTicks \in {2, 3, 4}
          /\ mr_state \in {"coll0", "coll1"} => ReadTicks \in {3, 4}
          /\ mr_state = "coll2" => ReadTicks = 4
      BY <2>1, <3>1, SizeValues DEF Collected, Spans, ReadTicks, Unaligned, Extra
    <3> QED BY <2>1, <2>2, <3>1, <3>2 DEF TimeInv, MMUReadTypeOK, MMUReadState
  <2>3. ASSUME m_state = "storing", ToSysmem(m_addr)
        PROVE  (WriteReady(WriteWires) <=> ticks = WriteTicks) /\ ticks <= WriteTicks
    <3>1. WriteReady(WriteWires) <=> mw_state = "init"
      BY <2>1, <2>3, WriteWiresFacts, BusConstants DEF WriteReady, WriteInv
    <3>2. /\ WriteTicks \in {0, 1, 2}
          /\ mw_state \in {"half.unaligned", "word"} => WriteTicks = 1
          /\ mw_state \in {"word.unaligned", "word.unaligned.fish"} => WriteTicks = 2
      BY <2>1, <2>3, SizeValues DEF TimeInv, WriteTicks, Unaligned, Extra
    <3> QED BY <2>1, <2>3, <3>1, <3>2 DEF TimeInv, MMUWriteTypeOK, MMUWriteState
  <2>4. /\ m_state \in {"fetching", "loading"} /\ ToUart(m_addr) => ReadRespValid(ReadWires)
        /\ m_state = "storing" /\ ToUart(m_addr) => WriteReady(WriteWires)
    BY <2>1, ReadWaits, WriteWiresFacts, BusConstants DEF WriteReady, ReadInv
  <2> QED BY <2>2, <2>3, <2>4 DEF AnswersOnTime
<1> QED BY <1>1, <1>2, <1>3, PTL DEF TimedSpec
=============================================================================

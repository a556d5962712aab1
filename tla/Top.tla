-------------------------------- MODULE Top --------------------------------
(***************************************************************************)
(* Top: the system under the board's reset.  The button sets the register  *)
(* rst, and the edge that finds rst set puts every register of the hart,   *)
(* the MMU and the UART back to its initial value, in whatever state they  *)
(* are.  The memories are no registers: their ports do at that edge what   *)
(* they were asked to, and what they hold stays.  Nor are the outputs of   *)
(* the memories' read ports reset.                                         *)
(*                                                                         *)
(* A program's restart is a crash: a store in progress is cut short, and a *)
(* load or a byte of the UART in progress is forgotten.                    *)
(***************************************************************************)
EXTENDS Sae

\* What the button may show: BOOLEAN on a board, {FALSE} in the simulation, which has
\* no button.
CONSTANT Button

ASSUME ButtonAssumption == Button \subseteq BOOLEAN

VARIABLE rst

topVars == <<vars, rst>>

TopTypeOK == TypeOK /\ rst \in BOOLEAN

TopInit == Init /\ rst = FALSE
-----------------------------------------------------------------------------
(* The registers' initial values. *)

\* Mutant: the fault is kept for the host to read.
ResetHartButFault ==
  /\ h_state' = "fetch.init"
  /\ pc' = 0 /\ insn' = 0
  /\ imm' = 0 /\ funct3' = 0 /\ funct7' = 0
  /\ xwr_en' = FALSE /\ xwr_reg' = 0 /\ xwr_val' = 0
  /\ xrd1_reg' = 0 /\ xrd2_reg' = 0
  /\ UNCHANGED faultVars

ResetHart ==
  /\ h_state' = "fetch.init"
  /\ pc' = 0 /\ insn' = 0
  /\ imm' = 0 /\ funct3' = 0 /\ funct7' = 0
  /\ xwr_en' = FALSE /\ xwr_reg' = 0 /\ xwr_val' = 0
  /\ xrd1_reg' = 0 /\ xrd2_reg' = 0
  /\ fault_code' = "UNSET" /\ fault_insn' = 0

\* Mutant: MMURead goes on with the request it was given.
ResetMMUReadNot ==
  /\ mr_state' = mr_state
  /\ mr_valid' = FALSE /\ mr_addr' = 0 /\ mr_width' = BYTE
  /\ mr_payload' = ZeroLanes
  /\ rport_addr' = 0

ResetMMURead ==
  /\ mr_state' = "init"
  /\ mr_valid' = FALSE /\ mr_addr' = 0 /\ mr_width' = BYTE
  /\ mr_payload' = ZeroLanes
  /\ rport_addr' = 0

\* Mutant: the FSM goes on with the write it was given.
ResetMMUWriteNot ==
  /\ mw_state' = mw_state
  /\ mw_ready' = FALSE /\ mw_payload' = ZeroLanes
  /\ wport_addr' = 0 /\ wport_data' = ZeroCell /\ wport_en' = {}

ResetMMUWrite ==
  /\ mw_state' = "init"
  /\ mw_ready' = FALSE /\ mw_payload' = ZeroLanes
  /\ wport_addr' = 0 /\ wport_data' = ZeroCell /\ wport_en' = {}

ResetUART ==
  /\ uc_state' = "init"
  /\ uc_rdready' = FALSE /\ uc_valid' = FALSE /\ uc_payload' = 0
  /\ uc_wrvalid' = FALSE /\ uc_wrpayload' = 0
  /\ rx_fifo' = <<>> /\ tx_fifo' = <<>>
-----------------------------------------------------------------------------
Reset ==
  /\ RegisterFile
  /\ SysmemTick(rport_addr, wport_addr, wport_data, wport_en)
  /\ ResetHart
  /\ ResetMMURead
  /\ ResetMMUWrite
  /\ ResetUART

TopNext ==
  /\ rst' \in Button
  /\ \/ rst /\ Reset
     \/ ~rst /\ Next

TopSpec == TopInit /\ [][TopNext]_topVars
-----------------------------------------------------------------------------
\* The hart executes its program, and a reset restarts it (Isa, Restart): from pc 0,
\* with what its memories hold, but for one instruction it had begun.
ImplementsIsaWithRestarts == Program!RestartSpec
=============================================================================

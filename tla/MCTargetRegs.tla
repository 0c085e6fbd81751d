---------------------------- MODULE MCTargetRegs ----------------------------
(***************************************************************************)
(* TargetRegs for TLC: an MC12 and a chip with a RegF port.                *)
(*                                                                         *)
(* On the MC12 two accesses of the debugger are known to be unsafe and kept*)
(* out of the run that passes: a write to GP (GpWrites is the run that     *)
(* shows why) and an access to word 0 of the internal memory, which reads  *)
(* as the last register fetched and is put back on resume.                 *)
(***************************************************************************)
EXTENDS TargetRegs

SafeWrites == [MC12 |-> Regs \ {GP}, MC12r1 |-> Regs]
SafeAddrs == [MC12 |-> Addrs \ {CRAM_ADDR}, MC12r1 |-> Addrs]

GpWrites == [MC12 |-> {GP}]
NoAddrs == [MC12 |-> {}]
=============================================================================

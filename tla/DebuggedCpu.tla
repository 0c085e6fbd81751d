---------------------------- MODULE DebuggedCpu ----------------------------
(***************************************************************************)
(* What target.c promises a debugger about a stopped CPU: a register file, *)
(* a memory and a place to continue from, which it may read and write as   *)
(* if nothing else used them, and which the program finds again, with the  *)
(* debugger's changes and no others, when it runs on.                      *)
(*                                                                         *)
(* next is the pair of the next two instruction addresses: in the delay    *)
(* slot of a jump the second one is not the successor of the first.        *)
(***************************************************************************)
CONSTANTS
    Regs,       \* registers of the program
    Addrs,      \* addresses of memory words
    Words,      \* values of registers and memory words
    Pcs         \* instruction addresses

VARIABLES mode, regs, mem, next, answer

cpuvars == <<mode, regs, mem, next, answer>>

NoAnswer == <<"none", "none">>
Boot == "boot"
Jump(pc) == <<pc, "seq">>

(* One instruction of the program, or the raising of an exception. *)
Instruction ==
    \/ \E r \in Regs, w \in Words : regs' = [regs EXCEPT ![r] = w] /\ UNCHANGED <<mem, next>>
    \/ \E a \in Addrs, w \in Words : mem' = [mem EXCEPT ![a] = w] /\ UNCHANGED <<regs, next>>
    \/ \E p \in Pcs, q \in Pcs \cup {"seq"} : next' = <<p, q>> /\ UNCHANGED <<regs, mem>>
    \/ UNCHANGED <<regs, mem, next>>

Runs ==
    /\ mode = "running"
    /\ Instruction
    /\ UNCHANGED <<mode, answer>>

(* A breakpoint, or the debugger's request to stop. *)
Stops ==
    /\ mode = "running"
    /\ mode' = "stopped"
    /\ UNCHANGED <<regs, mem, next, answer>>

(* Reading tells the debugger the value the program would find. *)
Reads ==
    /\ mode = "stopped"
    /\ \/ \E r \in Regs : answer' = <<r, regs[r]>>
       \/ \E a \in Addrs : answer' = <<a, mem[a]>>
       \/ answer' = <<"pc", next[1]>>
    /\ UNCHANGED <<mode, regs, mem, next>>

Writes ==
    /\ mode = "stopped"
    /\ \/ \E r \in Regs, w \in Words :
             regs' = [regs EXCEPT ![r] = w] /\ UNCHANGED <<mem, next>>
       \/ \E a \in Addrs, w \in Words :
             mem' = [mem EXCEPT ![a] = w] /\ UNCHANGED <<regs, next>>
       \/ \E pc \in Pcs : next' = Jump(pc) /\ UNCHANGED <<regs, mem>>
    /\ answer' = NoAnswer
    /\ UNCHANGED mode

Continues ==
    /\ mode = "stopped"
    /\ mode' = "running"
    /\ next' \in {next} \cup {Jump(pc) : pc \in Pcs}
    /\ answer' = NoAnswer
    /\ UNCHANGED <<regs, mem>>

Steps ==
    /\ mode = "stopped"
    /\ Instruction
    /\ answer' = NoAnswer
    /\ UNCHANGED mode

Resets ==
    /\ mode' = "running"
    /\ next' = Jump(Boot)
    /\ answer' = NoAnswer
    /\ UNCHANGED <<regs, mem>>

Init ==
    /\ mode = "running"
    /\ regs \in [Regs -> Words]
    /\ mem \in [Addrs -> Words]
    /\ next = Jump(Boot)
    /\ answer = NoAnswer

Next == Runs \/ Stops \/ Reads \/ Writes \/ Continues \/ Steps \/ Resets

Spec == Init /\ [][Next]_cpuvars
=============================================================================

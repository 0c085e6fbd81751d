----------------------------- MODULE RunControl -----------------------------
(***************************************************************************)
(* Run control of the debugged Elvees CPU: the part of target.c that stops,*)
(* steps and resumes the processor, as the debugger stub remote-elvees.c   *)
(* sees it.                                                                *)
(*                                                                         *)
(* The processor is a second actor.  It halts on its own, on a hardware    *)
(* breakpoint or a BREAKD instruction, and the host learns about it only   *)
(* when it polls: the flag t->is_running is the host's belief and cpu the  *)
(* state of the chip.  Pipeline and registers are the subject of the       *)
(* module TargetRegs.                                                      *)
(***************************************************************************)

VARIABLES
    is_running,   \* t->is_running: the host believes the CPU runs
    cpu           \* the chip: "running" or "stopped" (debug mode)

rcvars == <<is_running, cpu>>

RCTypeOK ==
    /\ is_running \in BOOLEAN
    /\ cpu \in {"running", "stopped"}

(***************************************************************************)
(* target_open leaves the processor alone and sets is_running.             *)
(***************************************************************************)
RCInit ==
    /\ is_running = TRUE
    /\ cpu = "running"

(* The chip reaches a breakpoint: nothing on the host changes. *)
CpuHalts ==
    /\ cpu = "running"
    /\ cpu' = "stopped"
    /\ UNCHANGED is_running

(* stop_cpu is sent only when the host believes the CPU runs. *)
target_stop ==
    /\ is_running' = FALSE
    /\ cpu' = IF is_running THEN "stopped" ELSE cpu

(* One instruction, after which the CPU is back in debug mode; a no-op while
   the host believes the CPU runs. *)
target_step ==
    UNCHANGED rcvars

target_resume ==
    /\ is_running' = TRUE
    /\ cpu' = IF is_running THEN cpu ELSE "running"

(* Like target_resume, from another address; refused while running. *)
target_run ==
    /\ is_running' = TRUE
    /\ cpu' = IF is_running THEN cpu ELSE "running"

(* Restores the state of a stopped CPU and resets it: it runs from boot. *)
target_restart ==
    /\ is_running' = TRUE
    /\ cpu' = "running"

target_is_stopped_once(stopped) ==   \* mutant: the belief is not corrected
    /\ stopped = (cpu = "stopped")
    /\ UNCHANGED rcvars

(***************************************************************************)
(* target_is_stopped returns whether the chip is in debug mode; the first  *)
(* poll that finds it there stops it for good and saves its state.         *)
(***************************************************************************)
target_is_stopped(stopped) ==
    /\ stopped = (cpu = "stopped")
    /\ is_running' = (is_running /\ ~stopped)
    /\ UNCHANGED cpu

RCNext ==
    \/ CpuHalts \/ target_stop \/ target_step \/ target_resume \/ target_run \/ target_restart
    \/ \E stopped \in BOOLEAN : target_is_stopped(stopped)

RCSpec == RCInit /\ [][RCNext]_rcvars
=============================================================================

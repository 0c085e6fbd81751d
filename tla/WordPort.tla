------------------------------ MODULE WordPort -------------------------------
(***************************************************************************)
(* What target.c promises its callers whatever the adapter: a processor    *)
(* that runs or stands, the memory words written in the order of the       *)
(* calls, and a program counter.                                           *)
(*                                                                         *)
(* log is the sequence of the writes the memory has seen; call and answer  *)
(* are the last call completed and what it returned.  resets says that the *)
(* adapter may reset the processor when it is opened or asked to stop it.  *)
(***************************************************************************)
EXTENDS TapChip

CONSTANTS
    Pcs,        \* program counters
    Reads,      \* pairs of an address and a number of words
    Writes,     \* sequences of pairs of an address and a word
    Ids         \* identification codes of known processors

VARIABLES running, log, pc, call, answer, resets

portvars == <<running, log, pc, call, answer, resets>>

Init ==
    /\ running \in BOOLEAN
    /\ log = <<>>
    /\ pc = {}
    /\ call = "none"
    /\ answer = <<>>
    /\ resets \in BOOLEAN

Returns(name, value) == call' = name /\ answer' = value

(* A breakpoint, or a request to stop. *)
Halts ==
    /\ running
    /\ running' = FALSE
    /\ UNCHANGED <<log, pc, call, answer, resets>>

ResetByAdapter ==
    /\ resets
    /\ running' = TRUE /\ pc' = {}
    /\ UNCHANGED <<log, call, answer, resets>>

Open ==
    /\ \E id \in Ids : Returns("open", <<id>>)
    /\ \/ UNCHANGED <<running, pc>>
       \/ resets /\ running' = TRUE /\ pc' = {}
    /\ UNCHANGED <<log, resets>>

(* A processor that does not answer, or not as a known one, is left alone
   but for resets. *)
NotFound ==
    /\ call = "none"
    /\ running' = TRUE
    /\ UNCHANGED <<log, pc, call, answer, resets>>

Stop ==
    /\ ~running
    /\ Returns("stop", <<>>)
    /\ UNCHANGED <<running, log, pc, resets>>

IsStopped ==
    /\ Returns("is_stopped", <<~running>>)
    /\ UNCHANGED <<running, log, pc, resets>>

Read ==
    /\ ~running
    /\ \E r \in Reads : Returns("read", [k \in 1 .. r[2] |-> MemAt(log, Bits(r[1] + 4 * (k - 1)))])
    /\ UNCHANGED <<running, log, pc, resets>>

Write ==
    /\ ~running
    /\ \E pairs \in Writes :
          log' = log \o [k \in DOMAIN pairs |-> <<Bits(pairs[k][1]), pairs[k][2]>>]
    /\ Returns("write", <<>>)
    /\ UNCHANGED <<running, pc, resets>>

GetPc ==
    /\ ~running
    /\ Returns("get_pc", <<pc>>)
    /\ UNCHANGED <<running, log, pc, resets>>

SetPc ==
    /\ ~running
    /\ pc' \in Pcs
    /\ Returns("set_pc", <<>>)
    /\ UNCHANGED <<running, log, resets>>

Step ==
    /\ ~running
    /\ pc' = Stepped(pc)
    /\ Returns("step", <<>>)
    /\ UNCHANGED <<running, log, resets>>

Resume ==
    /\ ~running
    /\ running' = TRUE
    /\ Returns("resume", <<>>)
    /\ UNCHANGED <<log, pc, resets>>

Restart ==
    /\ running' = TRUE /\ pc' = {}
    /\ Returns("restart", <<>>)
    /\ UNCHANGED <<log, resets>>

(* One that stopped by itself, and nobody noticed, may be left alone. *)
Close ==
    /\ running' \in {running, TRUE}
    /\ Returns("close", <<>>)
    /\ UNCHANGED <<log, pc, resets>>

Next ==
    \/ Halts \/ ResetByAdapter \/ Open \/ NotFound \/ Stop \/ IsStopped \/ Read \/ Write
    \/ GetPc \/ SetPc \/ Step \/ Resume \/ Restart \/ Close

Spec == Init /\ [][Next]_portvars
=============================================================================

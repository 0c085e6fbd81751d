---------------------------- MODULE Breakpoints ----------------------------
(***************************************************************************)
(* The two hardware breakpoints of OnCD, which target.c allocates in the   *)
(* breakpoint registers themselves: there is no table on the host, each    *)
(* call reads OBCR, OMLR0 and OMLR1, moves a breakpoint from one half of   *)
(* OBCR to the other by shifts, and writes them back.                      *)
(*                                                                         *)
(* A half of OBCR is a record of its fields, and the CC field, EQ in every *)
(* half that is used, is left out.  The debugger (external) inserts and    *)
(* removes breakpoints through remote-elvees.c.                            *)
(***************************************************************************)
EXTENDS Naturals, FiniteSets

CONSTANTS
    Addrs,       \* addresses of breakpoints
    Types,       \* Z packet types the debugger uses
    MaxBreaks    \* breakpoints it keeps inserted at a time

ASSUME BreakAssumption ==
    /\ Types \subseteq 0..4
    /\ MaxBreaks \in Nat

VARIABLES
    half,      \* OBCR: fields MBS and RW of breakpoints 0 and 1
    any,       \* OBCR_ANY
    omlr,      \* OMLR0, OMLR1
    wanted,    \* inserted by the debugger: acknowledged with OK and not removed
    paired     \* two have been set since the registers were last empty

vars == <<half, any, omlr, wanted, paired>>

NoAddr == "zero"
Off == [mbs |-> FALSE, rw |-> {}]
Used(h) == h.rw # {}

(* What the letter that target_add_break takes puts into half 0. *)
Kind(type) ==
    CASE type = "b" -> [mbs |-> FALSE, rw |-> {"read"}]
      [] type = "r" -> [mbs |-> TRUE, rw |-> {"read"}]
      [] type = "w" -> [mbs |-> TRUE, rw |-> {"write"}]
      [] type = "a" -> [mbs |-> TRUE, rw |-> {"read", "write"}]

(* elvees_add_break: the letter for a Z packet type, none for software. *)
Letter == [t \in 1..4 |-> CASE t = 1 -> "b" [] t = 2 -> "w" [] t = 3 -> "r" [] t = 4 -> "a"]

Init ==
    /\ half = <<Off, Off>>
    /\ any = FALSE
    /\ omlr = <<NoAddr, NoAddr>>
    /\ wanted = {}
    /\ paired = FALSE

target_add_break_noany(addr, type) ==   \* mutant: ANY is never set
    /\ half' = <<Kind(type), IF Used(half[1]) THEN half[1] ELSE Off>>
    /\ omlr' = <<addr, IF Used(half[1]) THEN omlr[1] ELSE NoAddr>>
    /\ UNCHANGED any

(***************************************************************************)
(* A breakpoint already in half 0 moves to half 1, over what was there,    *)
(* and without ANY; a new one goes to half 0.                              *)
(***************************************************************************)
target_add_break(addr, type) ==
    IF Used(half[1])
      THEN /\ half' = <<Kind(type), half[1]>>
           /\ any' = FALSE
           /\ omlr' = <<addr, omlr[1]>>
      ELSE /\ half' = <<Kind(type), Off>>
           /\ any' = TRUE
           /\ omlr' = <<addr, NoAddr>>

ClearBoth ==
    /\ half' = <<Off, Off>>
    /\ any' = FALSE
    /\ omlr' = <<NoAddr, NoAddr>>

target_remove_break_second(addr) ==   \* mutant: half 1 is lost with half 0
    /\ addr \in {omlr[1], omlr[2]}
    /\ ClearBoth

(* The first half at addr is freed; half 1 moves down when half 0 is. *)
target_remove_break(addr) ==
    IF Used(half[1]) /\ omlr[1] = addr
      THEN IF Used(half[2])
             THEN /\ half' = <<half[2], Off>>
                  /\ any' = FALSE
                  /\ omlr' = <<omlr[2], NoAddr>>
             ELSE ClearBoth
    ELSE IF Used(half[2]) /\ omlr[2] = addr
      THEN IF Used(half[1])
             THEN /\ half' = <<half[1], Off>>
                  /\ omlr' = <<omlr[1], NoAddr>>
                  /\ UNCHANGED any
             ELSE ClearBoth
    ELSE UNCHANGED <<half, any, omlr>>

Break(addr, type) == [addr |-> addr, type |-> type]

elvees_add_break_soft(type, addr) ==   \* mutant: OK for a software breakpoint
    /\ \A b \in wanted : b.addr # addr
    /\ Cardinality(wanted) < MaxBreaks
    /\ target_add_break(addr, "b")
    /\ wanted' = wanted \cup {Break(addr, type)}
    /\ UNCHANGED paired

(* Z: the debugger counts a breakpoint as inserted when the answer is OK.  It
   keeps one breakpoint at an address: removal goes by the address alone. *)
elvees_add_break(type, addr) ==
    /\ \A b \in wanted : b.addr # addr
    /\ Cardinality(wanted) < MaxBreaks
    /\ IF type = 0
         THEN UNCHANGED vars   \* NOSUPP
         ELSE /\ target_add_break(addr, Letter[type])
              /\ wanted' = wanted \cup {Break(addr, type)}
              /\ paired' = (paired \/ Used(half[1]))

(* z: the type is not looked at, and the answer is always OK. *)
elvees_remove_break(type, addr) ==
    /\ Break(addr, type) \in wanted
    /\ target_remove_break(addr)
    /\ wanted' = wanted \ {Break(addr, type)}
    /\ paired' = (paired /\ Used(half'[1]))

Next ==
    \E addr \in Addrs, type \in Types :
        elvees_add_break(type, addr) \/ elvees_remove_break(type, addr)

Spec == Init /\ [][Next]_vars

-----------------------------------------------------------------------------
(* Properties. *)

Halves == [mbs : BOOLEAN, rw : SUBSET {"read", "write"}]

TypeOK ==
    /\ half \in Halves \X Halves
    /\ any \in BOOLEAN
    /\ omlr \in (Addrs \cup {NoAddr}) \X (Addrs \cup {NoAddr})
    /\ wanted \subseteq [addr : Addrs, type : 1..4]
    /\ paired \in BOOLEAN

(* The halves that hold breakpoint b. *)
Holding(b) ==
    {i \in {1, 2} : half[i] = Kind(Letter[b.type]) /\ omlr[i] = b.addr}

(* Each breakpoint the debugger believes inserted is in one of the two halves,
   and nothing else is, whatever insertions and removals moved them about. *)
HalvesMatch ==
    /\ \A b \in wanted : Cardinality(Holding(b)) = 1
    /\ \A i \in {1, 2} : Used(half[i]) => \E b \in wanted : i \in Holding(b)

(* With ANY clear the CPU stops only where both halves match at once. *)
Triggers(b) == Holding(b) # {} /\ any

(* oncd.h: ANY selects that any of the two breakpoints stops the CPU, and its
   absence that only both together do.  Breakpoints that are set must stop it. *)
EveryBreakTriggers == \A b \in wanted : Triggers(b)

(* As far as that goes: a breakpoint alone in the registers, that has not shared
   them with another one since they were last empty, does stop the CPU. *)
LoneBreakTriggers == ~paired => EveryBreakTriggers
=============================================================================

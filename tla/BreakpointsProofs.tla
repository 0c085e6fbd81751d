-------------------------- MODULE BreakpointsProofs --------------------------
(***************************************************************************)
(* While the debugger keeps no more breakpoints than there are halves, the *)
(* halves hold exactly these, for any set of addresses and of types, and   *)
(* however often they are moved about.                                     *)
(***************************************************************************)
EXTENDS Breakpoints, FiniteSetTheorems, TLAPS

Inserted == [addr : Addrs, type : 1..4]
Held(b) == Kind(Letter[b.type])

(* The three arrangements there are.  A breakpoint is alone in half 0; of two,
   the later one is there.  ANY is clear once there have been two. *)
Empty ==
    /\ wanted = {}
    /\ half = <<Off, Off>>
    /\ omlr = <<NoAddr, NoAddr>>
    /\ any = FALSE
    /\ paired = FALSE

One(b) ==
    /\ wanted = {b}
    /\ half = <<Held(b), Off>>
    /\ omlr = <<b.addr, NoAddr>>
    /\ any \in BOOLEAN /\ paired \in BOOLEAN
    /\ paired \/ any

Two(b, c) ==
    /\ b.addr # c.addr
    /\ wanted = {b, c}
    /\ half = <<Held(b), Held(c)>>
    /\ omlr = <<b.addr, c.addr>>
    /\ any = FALSE
    /\ paired = TRUE

Arranged ==
    \/ Empty
    \/ \E b \in Inserted : One(b)
    \/ \E b, c \in Inserted : Two(b, c)

-----------------------------------------------------------------------------
LEMMA HeldUsed ==
    ASSUME NEW b \in Inserted
    PROVE  Held(b) \in Halves /\ Used(Held(b))
<1>1. b.type \in 1..4
  BY DEF Inserted
<1>2. b.type = 1 \/ b.type = 2 \/ b.type = 3 \/ b.type = 4
  BY <1>1
<1> QED
  BY <1>2 DEF Held, Letter, Kind, Used, Halves

LEMMA OffHalf == Off \in Halves /\ ~Used(Off)
  BY DEF Off, Halves, Used

LEMMA Counts ==
    /\ Cardinality({}) = 0
    /\ \A x : Cardinality({x}) = 1
    /\ \A x, y : x # y => Cardinality({x, y}) = 2
<1>1. Cardinality({}) = 0
  BY FS_EmptySet
<1>2. \A x : IsFiniteSet({x}) /\ Cardinality({x}) = 1
  BY FS_Singleton
<1>3. ASSUME NEW x, NEW y, x # y
      PROVE  Cardinality({x, y}) = 2
  <2>1. Cardinality({x} \cup {y}) = Cardinality({x}) + 1
    BY <1>2, <1>3, FS_AddElement
  <2>2. {x} \cup {y} = {x, y}
    OBVIOUS
  <2> QED
    BY <2>1, <2>2, <1>2
<1> QED
  BY <1>1, <1>2, <1>3

-----------------------------------------------------------------------------
(* An insertion makes one of none, or two of one. *)
LEMMA InsertionArranges ==
    ASSUME MaxBreaks <= 2, Arranged,
           NEW addr \in Addrs, NEW type \in Types, elvees_add_break(type, addr)
    PROVE  Arranged'
<1> DEFINE new == Break(addr, type)
<1>1. CASE type = 0
  BY <1>1 DEF elvees_add_break, vars, Arranged, Empty, One, Two
<1>2. CASE type # 0
  <2>1. new \in Inserted /\ new.addr = addr /\ Held(new) = Kind(Letter[type])
    BY <1>2, BreakAssumption DEF Break, Inserted, Held
  <2>2. /\ target_add_break(addr, Letter[type])
        /\ wanted' = wanted \cup {new}
        /\ paired' = (paired \/ Used(half[1]))
        /\ \A b \in wanted : b.addr # addr
        /\ Cardinality(wanted) < MaxBreaks
    BY <1>2 DEF elvees_add_break
  <2>3. CASE Empty
    <3>1. One(new)'
      BY <2>1, <2>2, <2>3, OffHalf DEF Empty, One, target_add_break, Held
    <3> QED
      BY <2>1, <3>1 DEF Arranged
  <2>4. ASSUME NEW b \in Inserted, One(b) PROVE Arranged'
    <3>1. Used(half[1])
      BY <2>4, HeldUsed DEF One
    <3>2. Two(new, b)'
      BY <2>1, <2>2, <2>4, <3>1 DEF One, Two, target_add_break, Held
    <3> QED
      BY <2>1, <3>2 DEF Arranged
  <2>5. ASSUME NEW b \in Inserted, NEW c \in Inserted, Two(b, c) PROVE FALSE
    <3>1. Cardinality(wanted) = 2
      BY <2>5, Counts DEF Two
    <3> QED
      BY <3>1, <2>2, BreakAssumption
  <2> QED
    BY <2>3, <2>4, <2>5 DEF Arranged
<1> QED
  BY <1>1, <1>2

(* A removal empties the registers or leaves the other one, in half 0. *)
LEMMA RemovalArranges ==
    ASSUME Arranged,
           NEW addr \in Addrs, NEW type \in Types, elvees_remove_break(type, addr)
    PROVE  Arranged'
<1> DEFINE old == Break(addr, type)
<1>1. /\ old \in wanted /\ old.addr = addr
      /\ target_remove_break(addr)
      /\ wanted' = wanted \ {old}
      /\ paired' = (paired /\ Used(half'[1]))
  BY DEF elvees_remove_break, Break
<1>2. CASE Empty
  BY <1>1, <1>2 DEF Empty
<1>3. ASSUME NEW b \in Inserted, One(b) PROVE Arranged'
  <2>1. old = b /\ Used(half[1]) /\ ~Used(half[2])
    BY <1>1, <1>3, HeldUsed, OffHalf DEF One
  <2>2. ClearBoth /\ wanted' = {}
    BY <1>1, <1>3, <2>1 DEF One, target_remove_break
  <2>3. half'[1] = Off
    BY <2>2 DEF ClearBoth
  <2>4. paired' = FALSE
    BY <1>1, <2>3, OffHalf
  <2>5. Empty'
    BY <2>2, <2>4 DEF Empty, ClearBoth
  <2> QED
    BY <2>5 DEF Arranged
<1>4. ASSUME NEW b \in Inserted, NEW c \in Inserted, Two(b, c) PROVE Arranged'
  <2>1. Used(half[1]) /\ Used(half[2])
    BY <1>4, HeldUsed DEF Two
  <2>2. CASE old = b
    <3>1. /\ half' = <<Held(c), Off>> /\ omlr' = <<c.addr, NoAddr>>
          /\ any' = FALSE /\ wanted' = {c}
      BY <1>1, <1>4, <2>1, <2>2 DEF Two, target_remove_break
    <3>2. paired' = TRUE
      BY <1>1, <1>4, <3>1, HeldUsed DEF Two
    <3>3. One(c)'
      BY <3>1, <3>2 DEF One, Held
    <3> QED
      BY <3>3 DEF Arranged
  <2>3. CASE old = c
    <3>1. /\ half' = <<Held(b), Off>> /\ omlr' = <<b.addr, NoAddr>>
          /\ any' = FALSE /\ wanted' = {b}
      BY <1>1, <1>4, <2>1, <2>3 DEF Two, target_remove_break
    <3>2. paired' = TRUE
      BY <1>1, <1>4, <3>1, HeldUsed DEF Two
    <3>3. One(b)'
      BY <3>1, <3>2 DEF One, Held
    <3> QED
      BY <3>3 DEF Arranged
  <2> QED
    BY <1>1, <1>4, <2>2, <2>3 DEF Two
<1> QED
  BY <1>2, <1>3, <1>4 DEF Arranged

(* The arrangements are the only ones: the inductive invariant. *)
THEOREM AlwaysArranged ==
    ASSUME MaxBreaks <= 2
    PROVE  Spec => []Arranged
<1>1. Init => Arranged
  BY DEF Init, Arranged, Empty
<1>2. ASSUME Arranged, [Next]_vars PROVE Arranged'
  <2>1. CASE UNCHANGED vars
    BY <1>2, <2>1 DEF vars, Arranged, Empty, One, Two
  <2>2. CASE Next
    BY <1>2, <2>2, InsertionArranges, RemovalArranges DEF Next
  <2> QED
    BY <1>2, <2>1, <2>2
<1> QED
  BY <1>1, <1>2, PTL DEF Spec

-----------------------------------------------------------------------------
LEMMA HoldingOne ==
    ASSUME NEW b \in Inserted, One(b)
    PROVE  Holding(b) = {1}
<1>1. half[1] = Held(b) /\ omlr[1] = b.addr /\ half[2] # Held(b)
  BY HeldUsed, OffHalf DEF One
<1> QED
  BY <1>1 DEF Holding, Held

LEMMA HoldingTwo ==
    ASSUME NEW b \in Inserted, NEW c \in Inserted, Two(b, c)
    PROVE  Holding(b) = {1} /\ Holding(c) = {2}
  BY DEF Two, Holding, Held

(* What an arrangement means for the debugger. *)
LEMMA ArrangedMatches == Arranged => HalvesMatch
<1> SUFFICES ASSUME Arranged PROVE HalvesMatch
  OBVIOUS
<1>1. CASE Empty
  BY <1>1, OffHalf DEF Empty, HalvesMatch
<1>2. ASSUME NEW b \in Inserted, One(b) PROVE HalvesMatch
  <2>1. Holding(b) = {1} /\ Cardinality(Holding(b)) = 1
    BY <1>2, HoldingOne, Counts
  <2>2. ~Used(half[2]) /\ wanted = {b}
    BY <1>2, OffHalf DEF One
  <2> QED
    BY <2>1, <2>2 DEF HalvesMatch
<1>3. ASSUME NEW b \in Inserted, NEW c \in Inserted, Two(b, c) PROVE HalvesMatch
  <2>1. Holding(b) = {1} /\ Holding(c) = {2}
    BY <1>3, HoldingTwo
  <2>2. Cardinality(Holding(b)) = 1 /\ Cardinality(Holding(c)) = 1
    BY <2>1, Counts
  <2>3. wanted = {b, c}
    BY <1>3 DEF Two
  <2> QED
    BY <2>1, <2>2, <2>3 DEF HalvesMatch
<1> QED
  BY <1>1, <1>2, <1>3 DEF Arranged

LEMMA ArrangedTriggers == Arranged => LoneBreakTriggers
<1> SUFFICES ASSUME Arranged, ~paired, NEW b \in wanted PROVE Triggers(b)
  BY DEF LoneBreakTriggers, EveryBreakTriggers
<1>1. PICK c \in Inserted : One(c)
  BY DEF Arranged, Empty, Two
<1>2. b = c /\ any
  BY <1>1 DEF One
<1> QED
  BY <1>1, <1>2, HoldingOne DEF Triggers

LEMMA ArrangedTyped == Arranged => TypeOK
<1> SUFFICES ASSUME Arranged PROVE TypeOK
  OBVIOUS
<1>1. CASE Empty
  BY <1>1, OffHalf DEF Empty, TypeOK
<1>2. ASSUME NEW b \in Inserted, One(b) PROVE TypeOK
  BY <1>2, HeldUsed, OffHalf DEF One, TypeOK, Inserted
<1>3. ASSUME NEW b \in Inserted, NEW c \in Inserted, Two(b, c) PROVE TypeOK
  BY <1>3, HeldUsed DEF Two, TypeOK, Inserted
<1> QED
  BY <1>1, <1>2, <1>3 DEF Arranged

(* The registers hold nothing but halves of the kinds the code knows. *)
THEOREM RegistersTyped ==
    ASSUME MaxBreaks <= 2
    PROVE  Spec => []TypeOK
  BY AlwaysArranged, ArrangedTyped, PTL

(* Up to two breakpoints are held by the two halves of OBCR, each by one. *)
THEOREM HalvesAlwaysMatch ==
    ASSUME MaxBreaks <= 2
    PROVE  Spec => []HalvesMatch
  BY AlwaysArranged, ArrangedMatches, PTL

(* A breakpoint that has not shared the registers with another stops the CPU. *)
THEOREM LoneBreakStops ==
    ASSUME MaxBreaks <= 2
    PROVE  Spec => []LoneBreakTriggers
  BY AlwaysArranged, ArrangedTriggers, PTL
=============================================================================

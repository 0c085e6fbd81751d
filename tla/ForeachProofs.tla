---------------------------- MODULE ForeachProofs ----------------------------
(***************************************************************************)
(* What holds before Foreach and is preserved by each of its steps holds   *)
(* after it.  The steps are a parameter: a module that reasons about one   *)
(* Foreach instantiates this one with its Step.                            *)
(***************************************************************************)
EXTENDS TapChip, WellFoundedInduction, TLAPS

CONSTANTS
    Step(_, _, _),  \* a step: what all the steps share, what has come of those
                    \* before, and the element it is taken on
    Holds(_, _, _), \* what is shared, how many steps, and what has come of them
    On(_, _, _)     \* what is shared, the number of an element, and the element

-----------------------------------------------------------------------------
(* A set of numbers that has 0 and each successor has them all. *)
LEMMA Induction ==
    ASSUME NEW S, 0 \in S, \A n \in Nat : n \in S => n + 1 \in S
    PROVE  Nat \subseteq S
<1> DEFINE T == Nat \ S
           R == OpToRel(<, Nat)
<1>1. IsWellFoundedOn(R, Nat)
  BY NatLessThanWellFounded, Zenon DEF R
<1>r. \A x, y \in Nat : x < y => <<x, y>> \in R
  BY DEF OpToRel
<1> HIDE DEF R
<1>2. SUFFICES ASSUME T # {} PROVE FALSE
  OBVIOUS
<1>3. PICK m \in T : \A y \in T : ~(<<y, m>> \in R)
  BY <1>1, <1>2, WFMin
<1>4. m # 0 /\ m \in Nat /\ m - 1 \in Nat /\ m - 1 < m
  BY <1>3
<1>5. m - 1 \in S
  BY <1>3, <1>4, <1>r
<1> QED
  BY <1>3, <1>4, <1>5

LEMMA OneOfOne == \A x : TheOne({x}) = x
  BY DEF TheOne

After(env, X, e) == {Step(env, x, d) : x \in X, d \in {e}}

Body(env, f, first, seq, n) ==
    [k \in 0 .. n |-> IF k = 0 THEN {first} ELSE After(env, f[k - 1], seq[k])]

(* The function by which Foreach is defined exists. *)
LEMMA BodyExists ==
    ASSUME NEW env, NEW first, NEW seq, NEW n \in Nat
    PROVE  \E f : f = Body(env, f, first, seq, n)
<1> DEFINE S == {m \in Nat : \E f : f = Body(env, f, first, seq, m)}
<1>1. 0 \in S
  <2> DEFINE f == [k \in 0 .. 0 |-> {first}]
  <2>1. f = Body(env, f, first, seq, 0)
    BY DEF Body
  <2> QED
    BY <2>1
<1>2. ASSUME NEW m \in Nat, m \in S PROVE m + 1 \in S
  <2>1. PICK f : f = Body(env, f, first, seq, m)
    BY <1>2
  <2> DEFINE g == [k \in 0 .. m + 1 |-> IF k <= m THEN f[k] ELSE After(env, f[m], seq[m + 1])]
  <2>2. ASSUME NEW k \in 0 .. m + 1
        PROVE  g[k] = IF k = 0 THEN {first} ELSE After(env, g[k - 1], seq[k])
    <3>1. CASE k = 0
      <4>1. f[0] = {first}
        BY <2>1 DEF Body
      <4> QED
        BY <3>1, <4>1
    <3>2. CASE k # 0 /\ k <= m
      <4>1. k \in 0 .. m /\ k - 1 \in 0 .. m + 1 /\ k - 1 <= m
        BY <3>2
      <4>2. f[k] = After(env, f[k - 1], seq[k])
        BY <2>1, <3>2, <4>1 DEF Body
      <4>3. g[k] = f[k] /\ g[k - 1] = f[k - 1]
        BY <3>2, <4>1
      <4> QED
        BY <3>2, <4>2, <4>3
    <3>3. CASE ~(k <= m)
      <4>1. k = m + 1 /\ k - 1 = m /\ k # 0 /\ m \in 0 .. m + 1 /\ m <= m
        BY <3>3
      <4>2. g[k] = After(env, f[m], seq[m + 1]) /\ g[m] = f[m]
        BY <3>3, <4>1
      <4> QED
        BY <4>1, <4>2
    <3> QED
      BY <3>1, <3>2, <3>3
  <2>3. g = Body(env, g, first, seq, m + 1)
    <3> HIDE DEF g
    <3>1. g = [k \in 0 .. m + 1 |-> g[k]]
      BY DEF g
    <3> QED
      BY <2>2, <3>1 DEF Body
  <2> QED
    BY <2>3
<1> QED
  <2> HIDE DEF S
  <2>1. n \in S
    BY <1>1, <1>2, Induction
  <2> QED
    BY <2>1 DEF S

Folded(env, first, seq) ==
    LET StepOf(x, e) == Step(env, x, e) IN Foreach(StepOf, first, seq)

(* What holds at first and is preserved by each step holds in the end. *)
LEMMA Preserved ==
    ASSUME NEW env, NEW first, NEW seq, Len(seq) \in Nat, Holds(env, 0, first),
           \A k \in 1 .. Len(seq) : On(env, k, seq[k]),
           \A k \in Nat : \A x, e : Holds(env, k, x) /\ On(env, k + 1, e) => Holds(env, k + 1, Step(env, x, e))
    PROVE  Holds(env, Len(seq), Folded(env, first, seq))
<1> DEFINE n == Len(seq)
           f == CHOOSE g : g = Body(env, g, first, seq, n)
           S == {k \in Nat : k <= n => \E x : f[k] = {x} /\ Holds(env, k, x)}
<1>1. f = Body(env, f, first, seq, n)
  BY BodyExists
<1>2. Folded(env, first, seq) = TheOne(f[n])
  BY DEF Folded, Foreach, Body, After
<1> HIDE DEF f, n
<1>3. n \in Nat
  BY DEF n
<1>4. 0 \in S
  BY <1>1, <1>3 DEF Body
<1>5. ASSUME NEW k \in Nat, k \in S PROVE k + 1 \in S
  <2> SUFFICES ASSUME k + 1 <= n PROVE \E x : f[k + 1] = {x} /\ Holds(env, k + 1, x)
    OBVIOUS
  <2>1. k <= n /\ k + 1 \in 1 .. n /\ k + 1 \in 0 .. n /\ k + 1 # 0 /\ (k + 1) - 1 = k
    BY <1>3
  <2>2. PICK x : f[k] = {x} /\ Holds(env, k, x)
    BY <1>5, <2>1
  <2>3. On(env, k + 1, seq[k + 1])
    BY <2>1 DEF n
  <2>4. f[k + 1] = After(env, {x}, seq[k + 1])
    BY <1>1, <2>1, <2>2 DEF Body
  <2>5. f[k + 1] = {Step(env, x, seq[k + 1])}
    BY <2>4 DEF After
  <2> QED
    BY <2>2, <2>3, <2>5
<1>6. n \in S
  <2> HIDE DEF S
  <2> QED
    BY <1>3, <1>4, <1>5, Induction
<1>7. PICK x : f[n] = {x} /\ Holds(env, n, x)
  BY <1>3, <1>6
<1> QED
  BY <1>2, <1>7, OneOfOne DEF n
=============================================================================

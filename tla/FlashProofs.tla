---------------------------- MODULE FlashProofs ----------------------------
(***************************************************************************)
(* What the command sequences of mcprog do to a flash, for any size, page, *)
(* sector and contents: each leads from a known mode to a known mode,      *)
(* changes no unit but those it names, and erases none but those it names. *)
(*                                                                         *)
(* A sequence is a fold over its writes, and an image a fold over its      *)
(* lines; so the first part is induction over the numbers, stated about    *)
(* sets, and that a fold is the recursive function it stands for.          *)
(***************************************************************************)
EXTENDS Programmer, WellFoundedInduction, TLAPS

-----------------------------------------------------------------------------
(* Induction, and folds. *)
(* A set of numbers that has 0 and each successor has them all. *)
LEMMA Induction ==
    ASSUME NEW S, 0 \in S, \A n \in Nat : n \in S => n + 1 \in S
    PROVE  Nat \subseteq S
<1> DEFINE T == Nat \ S
           R == OpToRel(<, Nat)
<1>1. IsWellFoundedOn(R, Nat)
  BY NatLessThanWellFounded, Zenon DEF R
<1>r. \A x, y \in Nat : x < y => <<x, y>> \in R
  BY DEF OpToRel
<1> HIDE DEF R
<1>2. SUFFICES ASSUME T # {} PROVE FALSE
  OBVIOUS
<1>3. PICK m \in T : \A y \in T : ~(<<y, m>> \in R)
  BY <1>1, <1>2, WFMin
<1>4. m # 0 /\ m \in Nat /\ m - 1 \in Nat /\ m - 1 < m
  BY <1>3
<1>5. m - 1 \in S
  BY <1>3, <1>4, <1>r
<1> QED
  BY <1>3, <1>4, <1>5

(* The largest number is what FoldLeft takes last. *)
LEMMA MaxOfSet ==
  ASSUME NEW n \in Nat, NEW s \in SUBSET (1 .. n), s # {}
  PROVE  Max(s) \in s /\ \A i \in s : i <= Max(s)
<1> DEFINE S == {k \in Nat : \A t \in SUBSET (1 .. k) :
                               t # {} => \E x \in t : \A y \in t : x >= y}
<1>1. 0 \in S
  <2>1. \A t \in SUBSET (1 .. 0) : t = {}
    OBVIOUS
  <2> QED
    BY <2>1
<1>2. ASSUME NEW k \in Nat, k \in S PROVE k + 1 \in S
  <2> SUFFICES ASSUME NEW t \in SUBSET (1 .. k + 1), t # {}
               PROVE \E x \in t : \A y \in t : x >= y
    OBVIOUS
  <2>1. CASE k + 1 \in t
    BY <2>1
  <2>2. CASE k + 1 \notin t
    <3>1. t \in SUBSET (1 .. k)
      BY <2>2
    <3> QED
      BY <1>2, <3>1
  <2> QED
    BY <2>1, <2>2
<1>3. Nat \subseteq S
  <2> HIDE DEF S
  <2> QED
    BY <1>1, <1>2, Induction
<1>4. \E x \in s : \A y \in s : x >= y
  BY <1>3
<1>5. Max(s) \in s /\ \A y \in s : Max(s) >= y
  BY <1>4, Zenon DEF Max
<1> QED
  BY <1>5

LEMMA MaxOfInterval ==
  ASSUME NEW k \in Nat \ {0}
  PROVE  Max(1 .. k) = k /\ (1 .. k) \ {k} = 1 .. k - 1
<1>0. 1 .. k \in SUBSET (1 .. k) /\ 1 .. k # {} /\ k \in Nat
  OBVIOUS
<1>1. Max(1 .. k) \in 1 .. k /\ \A i \in 1 .. k : i <= Max(1 .. k)
  BY <1>0, MaxOfSet
<1> QED
  BY <1>1

(* A fold over the first n indices, as the recursive function of module Folds:
   F[i] is what index i does. *)
IsFold(g, F, base, n) ==
  \A s \in SUBSET (1 .. n) : g[s] = IF s = {} THEN base ELSE F[Max(s)][g[s \ {Max(s)}]]

(* Where it maps a set of values to itself there is one: CHOOSE finds it. *)
LEMMA FoldExists ==
  ASSUME NEW T, NEW B \in T, NEW n \in Nat, NEW F \in [1 .. n -> [T -> T]]
  PROVE  \E g \in [SUBSET (1 .. n) -> T] : IsFold(g, F, B, n)
<1> DEFINE Good(g, k) == /\ g \in [SUBSET (1 .. k) -> T]
                         /\ \A s \in SUBSET (1 .. k) :
                               g[s] = IF s = {} THEN B ELSE F[Max(s)][g[s \ {Max(s)}]]
           S == {k \in Nat : k <= n => \E g : Good(g, k)}
<1>0. /\ \A k \in S : k <= n => \E g : Good(g, k)
      /\ \A k \in Nat : (k <= n => \E g : Good(g, k)) => k \in S
  <2> HIDE DEF Good
  <2> QED
    OBVIOUS
<1> HIDE DEF S
<1>1. 0 \in S
  <2> DEFINE g == [s \in SUBSET (1 .. 0) |-> B]
  <2>1. \A s \in SUBSET (1 .. 0) : s = {} /\ g[s] = B
    OBVIOUS
  <2>2. Good(g, 0)
    BY <2>1
  <2> HIDE DEF Good
  <2> QED
    BY <1>0, <2>2
<1>2. ASSUME NEW k \in Nat, k \in S PROVE k + 1 \in S
  <2> SUFFICES ASSUME k + 1 <= n PROVE \E h : Good(h, k + 1)
    <3> HIDE DEF Good
    <3> QED
      BY <1>0
  <2>1. PICK g : Good(g, k)
    <3> HIDE DEF Good
    <3> QED
      BY <1>0, <1>2
  <2> DEFINE h == [s \in SUBSET (1 .. k + 1) |->
                     IF k + 1 \in s THEN F[k + 1][g[s \ {k + 1}]] ELSE g[s]]
  <2>2. ASSUME NEW s \in SUBSET (1 .. k + 1), k + 1 \in s
        PROVE  /\ s \ {k + 1} \in SUBSET (1 .. k)
               /\ Max(s) = k + 1
               /\ h[s] = F[k + 1][g[s \ {k + 1}]] /\ h[s] \in T
               /\ h[s \ {k + 1}] = g[s \ {k + 1}]
    <3>1. s \ {k + 1} \in SUBSET (1 .. k) /\ s \ {k + 1} \in SUBSET (1 .. k + 1) /\ k + 1 \in 1 .. n
      OBVIOUS
    <3>2. Max(s) = k + 1
      <4> HIDE DEF Good, S, h
      <4>0. k + 1 \in Nat /\ s # {}
        BY <2>2
      <4>1. Max(s) \in s /\ \A i \in s : i <= Max(s)
        BY <4>0, MaxOfSet
      <4>2. Max(s) \in 1 .. k + 1 /\ k + 1 <= Max(s)
        BY <2>2, <4>1
      <4> QED
        BY <4>2
    <3>3. g[s \ {k + 1}] \in T
      BY <2>1, <3>1
    <3>4. F[k + 1][g[s \ {k + 1}]] \in T
      BY <3>1, <3>3
    <3>5. h[s] = F[k + 1][g[s \ {k + 1}]]
      BY <2>2
    <3>6. h[s \ {k + 1}] = g[s \ {k + 1}]
      BY <3>1
    <3> QED
      BY <3>1, <3>2, <3>4, <3>5, <3>6
  <2>3. ASSUME NEW s \in SUBSET (1 .. k + 1), k + 1 \notin s
        PROVE  s \in SUBSET (1 .. k) /\ h[s] = g[s] /\ h[s] \in T
    <3>1. s \in SUBSET (1 .. k)
      BY <2>3
    <3> QED
      BY <2>1, <2>3, <3>1
  <2>4. h \in [SUBSET (1 .. k + 1) -> T]
    BY <2>2, <2>3
  <2>5. ASSUME NEW s \in SUBSET (1 .. k + 1)
        PROVE  h[s] = IF s = {} THEN B ELSE F[Max(s)][h[s \ {Max(s)}]]
    <3>1. CASE k + 1 \in s
      <4> HIDE DEF h
      <4> QED
        BY <2>2, <3>1
    <3>2. CASE k + 1 \notin s
      <4>1. s \ {Max(s)} \in SUBSET (1 .. k + 1) /\ k + 1 \notin s \ {Max(s)}
        BY <3>2
      <4>2. h[s] = g[s] /\ h[s \ {Max(s)}] = g[s \ {Max(s)}] /\ s \in SUBSET (1 .. k)
        BY <4>1, <3>2, <2>3
      <4> HIDE DEF h
      <4> QED
        BY <2>1, <4>2
    <3> QED
      BY <3>1, <3>2
  <2> HIDE DEF h
  <2> QED
    BY <2>4, <2>5
<1>3. n \in S
  BY <1>1, <1>2, Induction
<1>4. \E g : Good(g, n)
  <2> HIDE DEF Good
  <2> QED
    BY <1>0, <1>3
<1> QED
  BY <1>4 DEF IsFold

-----------------------------------------------------------------------------
(* Sequences of writes. *)

(* What a sequence of n writes makes of a chip, write by write. *)
Trace(a, f0, ws, n) ==
    /\ a[0] = {f0} /\ After(f0, ws) = a[n]
    /\ \A k \in 1 .. n : a[k] = UNION {AfterWrite(f, ws[k]) : f \in a[k - 1]}

(* There is a trace, as long as the chips stay in a set. *)
LEMMA AfterIsFold ==
    ASSUME NEW U, NEW f0 \in U, NEW ws, NEW n \in Nat, DOMAIN ws = 1 .. n,
           \A f \in U, k \in 1 .. n : AfterWrite(f, ws[k]) \subseteq U
    PROVE  \E a : Trace(a, f0, ws, n)
<1> DEFINE T == SUBSET U
           F == [k \in 1 .. n |-> [S \in T |-> UNION {AfterWrite(f, ws[k]) : f \in S}]]
           B == {f0}
           Eq(g) == g = [s \in SUBSET (1 .. n) |->
                       IF s = {} THEN B
                       ELSE UNION {AfterWrite(f, ws[Max(s)]) : f \in g[s \ {Max(s)}]}]
<1>1. F \in [1 .. n -> [T -> T]] /\ B \in T
  OBVIOUS
<1>2. PICK h \in [SUBSET (1 .. n) -> T] : IsFold(h, F, B, n)
  <2> HIDE DEF F, T, B
  <2> QED
    BY <1>1, FoldExists
<1>3. Eq(h)
  <2>1. ASSUME NEW s \in SUBSET (1 .. n), s # {}
        PROVE  F[Max(s)][h[s \ {Max(s)}]]
                 = UNION {AfterWrite(f, ws[Max(s)]) : f \in h[s \ {Max(s)}]}
    <3>1. Max(s) \in 1 .. n
      BY <2>1, MaxOfSet
    <3>2. h[s \ {Max(s)}] \in T
      OBVIOUS
    <3> QED
      BY <3>1, <3>2
  <2> HIDE DEF F
  <2> QED
    BY <1>2, <2>1 DEF IsFold
<1> DEFINE g == CHOOSE g : Eq(g)
           a == [k \in 0 .. n |-> g[1 .. k]]
<1>4. Eq(g)
  <2> HIDE DEF Eq
  <2> QED
    BY <1>3
<1>5. After(f0, ws) = g[1 .. n]
  BY DEF After, FoldLeft, MapThenFoldSet
<1>6. \A s \in SUBSET (1 .. n) :
         g[s] = IF s = {} THEN B
                ELSE UNION {AfterWrite(f, ws[Max(s)]) : f \in g[s \ {Max(s)}]}
  <2> HIDE DEF g
  <2> QED
    BY <1>4
<1> HIDE DEF g
<1>7. a[0] = {f0} /\ After(f0, ws) = a[n]
  <2>1. 1 .. 0 = {} /\ 0 \in 0 .. n /\ n \in 0 .. n /\ {} \in SUBSET (1 .. n)
    OBVIOUS
  <2>2. g[{}] = {f0}
    BY <1>6, <2>1
  <2> QED
    BY <1>5, <2>1, <2>2
<1>8. ASSUME NEW k \in 1 .. n
      PROVE  a[k] = UNION {AfterWrite(f, ws[k]) : f \in a[k - 1]}
  <2> DEFINE s == 1 .. k
  <2>1. Max(s) = k /\ s \ {k} = 1 .. k - 1
    BY MaxOfInterval
  <2>2. s \in SUBSET (1 .. n) /\ k \in s /\ k - 1 \in 0 .. n /\ k \in 0 .. n
    <3>1. k \in Nat /\ 1 <= k /\ k <= n
      OBVIOUS
    <3> QED
      BY <3>1
  <2>3. g[s] = UNION {AfterWrite(f, ws[Max(s)]) : f \in g[s \ {Max(s)}]}
    <3>1. s # {}
      BY <2>2
    <3> HIDE DEF s
    <3> QED
      BY <1>6, <2>2, <3>1
  <2>4. g[1 .. k] = UNION {AfterWrite(f, ws[k]) : f \in g[1 .. k - 1]}
    BY <2>1, <2>3
  <2> QED
    BY <2>2, <2>4
<1> QED
  <2> HIDE DEF a
  <2> QED
    BY <1>7, <1>8 DEF Trace

(* What every write keeps, all of them keep. *)
LEMMA AfterKeeps ==
    ASSUME NEW U, NEW f0 \in U, NEW ws, NEW n \in Nat, DOMAIN ws = 1 .. n,
           \A f \in U, k \in 1 .. n : AfterWrite(f, ws[k]) \subseteq U
    PROVE  After(f0, ws) \subseteq U
<1>1. PICK a : Trace(a, f0, ws, n)
  BY AfterIsFold
<1> USE DEF Trace
<1> DEFINE S == {k \in Nat : k <= n => a[k] \subseteq U}
<1>2. 0 \in S
  BY <1>1
<1>3. ASSUME NEW k \in Nat, k \in S PROVE k + 1 \in S
  <2> SUFFICES ASSUME k + 1 <= n PROVE a[k + 1] \subseteq U
    OBVIOUS
  <2>1. k + 1 \in 1 .. n /\ (k + 1) - 1 = k /\ a[k] \subseteq U
    BY <1>3
  <2>2. a[k + 1] = UNION {AfterWrite(f, ws[k + 1]) : f \in a[k]}
    BY <1>1, <2>1
  <2> QED
    BY <2>1, <2>2
<1>4. n \in S
  <2> HIDE DEF S
  <2> QED
    BY <1>2, <1>3, Induction
<1> QED
  BY <1>1, <1>4

(* No write, and one. *)
LEMMA AfterNone == \A f : After(f, <<>>) = {f}
<1> SUFFICES ASSUME NEW f PROVE After(f, <<>>) = {f}
  OBVIOUS
<1> DEFINE ws == <<>>
<1>1. DOMAIN ws = 1 .. 0 /\ f \in {f}
  OBVIOUS
<1>2. \A g \in {f}, k \in 1 .. 0 : AfterWrite(g, ws[k]) \subseteq {f}
  OBVIOUS
<1> HIDE DEF ws
<1>3. \E a : Trace(a, f, ws, 0)
  BY <1>1, <1>2, AfterIsFold
<1> QED
  BY <1>3 DEF ws, Trace

LEMMA AfterOne ==
    ASSUME NEW U, NEW f \in U, NEW w, \A g \in U : AfterWrite(g, w) \subseteq U
    PROVE  After(f, <<w>>) = AfterWrite(f, w)
<1> DEFINE ws == <<w>>
<1>1. DOMAIN ws = 1 .. 1 /\ ws[1] = w
  OBVIOUS
<1>2. \A g \in U, k \in 1 .. 1 : AfterWrite(g, ws[k]) \subseteq U
  <2>1. \A k \in 1 .. 1 : k = 1
    OBVIOUS
  <2> QED
    BY <1>1, <2>1
<1> HIDE DEF ws
<1>3. PICK a : Trace(a, f, ws, 1)
  BY <1>1, <1>2, AfterIsFold
<1> USE DEF Trace
<1>4. a[1] = UNION {AfterWrite(g, w) : g \in {f}}
  <2>1. 1 \in 1 .. 1 /\ 1 - 1 = 0
    OBVIOUS
  <2> QED
    BY <1>1, <1>3, <2>1
<1> QED
  BY <1>3, <1>4 DEF ws

(* Two sequences, one after the other. *)
LEMMA AfterBoth ==
    ASSUME NEW U, NEW f0 \in U, NEW V, NEW s \in Seq(V), NEW t \in Seq(V),
           \A f \in U, w \in V : AfterWrite(f, w) \subseteq U
    PROVE  After(f0, s \o t) = UNION {After(f, t) : f \in After(f0, s)}
<1> DEFINE m == Len(s)
           n == Len(t)
           st == s \o t
<1>1. /\ m \in Nat /\ n \in Nat /\ DOMAIN s = 1 .. m /\ DOMAIN t = 1 .. n
      /\ DOMAIN st = 1 .. m + n /\ m + n \in Nat
      /\ \A k \in 1 .. m : st[k] = s[k] /\ s[k] \in V
      /\ \A k \in 1 .. n : st[m + k] = t[k] /\ t[k] \in V
      /\ \A k \in 1 .. m + n : st[k] \in V
  <2>1. st \in Seq(V)
    OBVIOUS
  <2> QED
    BY <2>1
<1> HIDE DEF m, n, st
<1>2. PICK a : Trace(a, f0, s, m)
  BY <1>1, AfterIsFold
<1>3. PICK c : Trace(c, f0, st, m + n)
  BY <1>1, AfterIsFold
<1>4. \A f \in U : \E d : Trace(d, f, t, n)
  BY <1>1, AfterIsFold
<1> DEFINE b(f) == CHOOSE d : Trace(d, f, t, n)
<1>5. \A f \in U : Trace(b(f), f, t, n)
  BY <1>4
<1> HIDE DEF b
<1> USE DEF Trace
<1>6. c[m] = a[m] /\ a[m] \subseteq U
  <2> DEFINE S == {k \in Nat : k <= m => c[k] = a[k] /\ a[k] \subseteq U}
  <2>1. 0 \in S
    BY <1>2, <1>3
  <2>2. ASSUME NEW k \in Nat, k \in S PROVE k + 1 \in S
    <3> SUFFICES ASSUME k + 1 <= m PROVE c[k + 1] = a[k + 1] /\ a[k + 1] \subseteq U
      OBVIOUS
    <3>a. k <= m => c[k] = a[k] /\ a[k] \subseteq U
      BY <2>2, Zenon
    <3> HIDE DEF S, Trace
    <3>b. m \in Nat /\ n \in Nat /\ k \in Nat
      BY <1>1
    <3>c. /\ k <= m /\ k + 1 \in 1 .. m /\ (k + 1) - 1 = k /\ k + 1 \in 1 .. m + n
      BY <3>b
    <3>1. k + 1 \in 1 .. m /\ (k + 1) - 1 = k /\ c[k] = a[k] /\ a[k] \subseteq U
          /\ k + 1 \in 1 .. m + n
      BY <3>a, <3>c, Zenon
    <3> USE DEF Trace
    <3>2. a[k + 1] = UNION {AfterWrite(g, s[k + 1]) : g \in a[k]}
      BY <1>2, <3>1
    <3>3. c[k + 1] = UNION {AfterWrite(g, s[k + 1]) : g \in a[k]}
      BY <1>1, <1>3, <3>1
    <3> QED
      BY <1>1, <3>1, <3>2, <3>3
  <2>3. m \in S
    <3> HIDE DEF S
    <3> QED
      BY <1>1, <2>1, <2>2, Induction
  <2> QED
    BY <2>3
<1>7. c[m + n] = UNION {b(f)[n] : f \in a[m]}
  <2> DEFINE S == {k \in Nat : k <= n => c[m + k] = UNION {b(f)[k] : f \in a[m]}}
  <2>1. 0 \in S
    <3>1. \A f \in a[m] : b(f)[0] = {f}
      BY <1>5, <1>6
    <3>2. m + 0 = m
      BY <1>1
    <3>3. UNION {b(f)[0] : f \in a[m]} = a[m]
      BY <3>1
    <3> QED
      BY <1>6, <3>2, <3>3
  <2>2. ASSUME NEW k \in Nat, k \in S PROVE k + 1 \in S
    <3> SUFFICES ASSUME k + 1 <= n PROVE c[m + (k + 1)] = UNION {b(f)[k + 1] : f \in a[m]}
      OBVIOUS
    <3>1. /\ k + 1 \in 1 .. n /\ (k + 1) - 1 = k /\ m + (k + 1) \in 1 .. m + n
          /\ (m + (k + 1)) - 1 = m + k /\ c[m + k] = UNION {b(f)[k] : f \in a[m]}
      BY <1>1, <2>2
    <3>2. c[m + (k + 1)] = UNION {AfterWrite(g, t[k + 1]) : g \in c[m + k]}
      <4> DEFINE i == m + (k + 1)
      <4>1. c[i] = UNION {AfterWrite(g, st[i]) : g \in c[i - 1]}
        <5>1. i \in 1 .. m + n
          BY <3>1
        <5> HIDE DEF i
        <5> QED
          BY <1>3, <5>1
      <4>2. st[i] = t[k + 1] /\ i - 1 = m + k
        BY <1>1, <3>1
      <4> HIDE DEF i
      <4> QED
        BY <4>1, <4>2 DEF i
    <3>3. \A f \in a[m] : b(f)[k + 1] = UNION {AfterWrite(g, t[k + 1]) : g \in b(f)[k]}
      <4> SUFFICES ASSUME NEW f \in a[m]
                   PROVE  b(f)[k + 1] = UNION {AfterWrite(g, t[k + 1]) : g \in b(f)[k]}
        OBVIOUS
      <4> DEFINE i == k + 1
      <4>1. Trace(b(f), f, t, n) /\ i \in 1 .. n /\ i - 1 = k
        BY <1>5, <1>6, <3>1
      <4> HIDE DEF i
      <4>2. b(f)[i] = UNION {AfterWrite(g, t[i]) : g \in b(f)[i - 1]}
        BY <4>1
      <4> QED
        BY <4>1, <4>2 DEF i
    <3> QED
      BY <3>1, <3>2, <3>3
  <2>3. n \in S
    <3> HIDE DEF S
    <3> QED
      BY <1>1, <2>1, <2>2, Induction
  <2> QED
    BY <2>3
<1>8. \A f \in a[m] : After(f, t) = b(f)[n]
  BY <1>5, <1>6
<1> QED
  BY <1>2, <1>3, <1>6, <1>7, <1>8 DEF st

-----------------------------------------------------------------------------
(* Writes on the bus, and those to one half of a bus of some width. *)
Codes == {"data", "AA", "55", "A0", "80", "20", "90", "F0", "00", "10", "30",
          "E8", "count", "D0", "70", "FF"}
Writes == [unit : Int, cmd : Codes, data : SUBSET Bits]
WritesTo(width, h) == {w \in Writes : HalfOf(width, w.unit) = h}

(* The chips f may have become: half h is in mode m and the other as it was,
   only units us have other contents, and only units es are erased besides. *)
Near(f, h, m, us, es) ==
    {g \in FlashType :
        /\ g.kind = f.kind /\ g.width = f.width
        /\ g.mode[h] = m /\ \A i \in {0, 1} \ {h} : g.mode[i] = f.mode[i]
        /\ \A u \in Units : g.mem[u] # f.mem[u] => u \in us
        /\ g.erasing \subseteq f.erasing \cup es}

LEMMA NearAgain ==
    ASSUME NEW f \in FlashType, NEW h \in {0, 1}, NEW m, NEW n, NEW us, NEW es,
           NEW vs, NEW fs, vs \subseteq us, fs \subseteq es,
           NEW g \in Near(f, h, m, us, es), NEW k \in Near(g, h, n, vs, fs)
    PROVE  k \in Near(f, h, n, us, es)
  BY DEF Near

LEMMA CommandIsWrite ==
    ASSUME NEW u \in Int, NEW c \in Codes
    PROVE  Command(u, c) \in Writes /\ Command(u, c).unit = u /\ Command(u, c).cmd = c
  BY DEF Writes, Command

LEMMA DataIsWrite ==
    ASSUME NEW u \in Int, NEW d \in SUBSET Bits
    PROVE  /\ Data(u, d) \in Writes /\ Data(u, d).unit = u /\ Data(u, d).cmd = "data"
           /\ Data(u, d).data = d
<1>1. "data" \in Codes
  BY DEF Codes
<1> QED
  BY <1>1 DEF Writes, Data

LEMMA SetModeNear ==
    ASSUME NEW f \in FlashType, NEW h \in {0, 1}, NEW m \in Modes
    PROVE  [f EXCEPT !.mode[h] = m] \in Near(f, h, m, {}, {})
  BY SMTT(60) DEF FlashType, Near

LEMMA EraseUnitsNear ==
    ASSUME NEW f \in FlashType, NEW h \in {0, 1}, NEW us
    PROVE  EraseUnits(f, h, us) \in Near(f, h, "erasing", {}, us \cap InHalf(f, h))
  BY DEF FlashType, EraseUnits, InHalf, Modes, Near

LEMMA ProgramsNear ==
    ASSUME NEW f \in FlashType, NEW h \in {0, 1}, NEW w \in Writes,
           NEW new \in SUBSET Bits, NEW m \in Modes
    PROVE  Programs(f, h, w, new, m) \subseteq Near(f, h, m, {w.unit}, {})
<1> SUFFICES ASSUME NEW g \in Programs(f, h, w, new, m)
             PROVE  g \in Near(f, h, m, {w.unit}, {})
  OBVIOUS
<1>1. MaxWeak \in Nat
  BY FlashAssumption
<1>2. CASE g = [f EXCEPT !.mode[h] = m, !.mem[w.unit] = new]
  BY <1>2 DEF FlashType, Near
<1>3. CASE g = [f EXCEPT !.mode[h] = m, !.weak = @ + 1] /\ f.weak < MaxWeak
  <2>1. f.weak + 1 \in 0 .. MaxWeak
    BY <1>1, <1>3 DEF FlashType
  <2>2. g = [f EXCEPT !.mode = [f.mode EXCEPT ![h] = m], !.weak = f.weak + 1]
    BY <1>3
  <2> QED
    BY <2>1, <2>2 DEF FlashType, Near
<1> QED
  BY <1>2, <1>3 DEF Programs

LEMMA NextModeTyped ==
    ASSUME NEW m \in Modes, NEW c, NEW at PROVE NextMode(m, c, at) \in Modes
<1>1. NextMode(m, c, at) \in {"aa", "id", "unlocked", "program", "setup", "bypass", "setup aa",
                             "erase", "bypass program", "bypass end", "read"}
  BY Zenon DEF NextMode
<1> QED
  BY <1>1 DEF Modes

(* The units that are erased besides when half h comes to mode m. *)
Erases(f, h, m) == IF m = "erasing" THEN InHalf(f, h) ELSE {}

(* The ways a write to a chip with the AMD commands ends. *)
LEMMA AmdTyped ==
    ASSUME NEW f \in FlashType, NEW h \in {0, 1}, NEW w \in Writes, NEW g \in AmdWrite(f, h, w)
    PROVE  \E m \in Modes : g \in Near(f, h, m, {w.unit}, Erases(f, h, m))
<1> DEFINE cleared == f.mem[w.unit] \cap w.data
           P(m) == g \in Near(f, h, m, {w.unit}, Erases(f, h, m))
<1>1. /\ cleared \in SUBSET Bits /\ w.data \in SUBSET Bits
      /\ "bypass" \in Modes /\ "read" \in Modes /\ "load" \in Modes /\ "erasing" \in Modes
  BY DEF Writes, Modes
<1> HIDE DEF cleared
<1>2. ASSUME NEW new \in SUBSET Bits, NEW m \in Modes, g \in Programs(f, h, w, new, m)
      PROVE  P(m)
  <2>1. g \in Near(f, h, m, {w.unit}, {})
    BY <1>2, ProgramsNear
  <2> QED
    BY <2>1 DEF Near
<1>4. ASSUME NEW us, g = EraseUnits(f, h, us) PROVE P("erasing")
  <2>1. g \in Near(f, h, "erasing", {}, us \cap InHalf(f, h)) 
    BY <1>4, EraseUnitsNear
  <2> QED
    BY <2>1 DEF Near, Erases
<1>5. ASSUME NEW m \in Modes, g = [f EXCEPT !.mode[h] = m] PROVE P(m)
  <2>1. g \in Near(f, h, m, {}, {})
    BY <1>5, SetModeNear
  <2> QED
    BY <2>1 DEF Near
<1>6. NextMode(f.mode[h], w.cmd, At(f, w)) \in Modes
  BY NextModeTyped DEF FlashType
<1>7. \/ g \in Programs(f, h, w, cleared, "bypass") \/ g \in Programs(f, h, w, cleared, "read")
      \/ g \in Programs(f, h, w, w.data, "read") \/ g \in Programs(f, h, w, w.data, "load")
      \/ g = EraseUnits(f, h, Units) \/ g = EraseUnits(f, h, SectorOf(w.unit))
      \/ g = [f EXCEPT !.mode[h] = "load"]
      \/ g = [f EXCEPT !.mode[h] = NextMode(f.mode[h], w.cmd, At(f, w))]
  BY DEF AmdWrite, cleared
<1> HIDE DEF P
<1>8. P("bypass") \/ P("read") \/ P("load") \/ P("erasing")
        \/ P(NextMode(f.mode[h], w.cmd, At(f, w)))
  <2>1. CASE g \in Programs(f, h, w, cleared, "bypass")
    BY <1>1, <1>2, <2>1, Zenon
  <2>2. CASE g \in Programs(f, h, w, cleared, "read")
    BY <1>1, <1>2, <2>2, Zenon
  <2>3. CASE g \in Programs(f, h, w, w.data, "read")
    BY <1>1, <1>2, <2>3, Zenon
  <2>4. CASE g \in Programs(f, h, w, w.data, "load")
    BY <1>1, <1>2, <2>4, Zenon
  <2>5. CASE g = EraseUnits(f, h, Units) \/ g = EraseUnits(f, h, SectorOf(w.unit))
    BY <1>4, <2>5, Zenon
  <2>6. CASE g = [f EXCEPT !.mode[h] = "load"]
    BY <1>1, <1>5, <2>6, Zenon
  <2>7. CASE g = [f EXCEPT !.mode[h] = NextMode(f.mode[h], w.cmd, At(f, w))]
    BY <1>6, <1>5, <2>7, Zenon
  <2> QED
    BY <1>7, <2>1, <2>2, <2>3, <2>4, <2>5, <2>6, <2>7
<1>9. \E m \in Modes : P(m)
  BY <1>1, <1>6, <1>8
<1> QED
  BY <1>9 DEF P

LEMMA MicronTyped ==
    ASSUME NEW f \in FlashType, NEW h \in {0, 1}, NEW w \in Writes, NEW g \in MicronWrite(f, h, w)
    PROVE  \E m \in Modes : g \in Near(f, h, m, {w.unit}, Erases(f, h, m))
<1> DEFINE P(m) == g \in Near(f, h, m, {w.unit}, Erases(f, h, m))
<1>1. ASSUME NEW m \in Modes, g = [f EXCEPT !.mode[h] = m] PROVE P(m)
  <2>1. g \in Near(f, h, m, {}, {})
    BY <1>1, SetModeNear
  <2> QED
    BY <2>1 DEF Near
<1>2. ASSUME g = EraseUnits(f, h, SectorOf(w.unit)) PROVE P("erasing")
  <2>1. g \in Near(f, h, "erasing", {}, SectorOf(w.unit) \cap InHalf(f, h)) 
    BY <1>2, EraseUnitsNear
  <2> QED
    BY <2>1 DEF Near, Erases
<1>3. ASSUME g = [f EXCEPT !.mem[w.unit] = @ \cap w.data] PROVE P(f.mode[h])
  BY <1>3 DEF FlashType, Writes, Near
<1>4. g = f \/ (\E m \in Modes : g = [f EXCEPT !.mode[h] = m])
        \/ g = EraseUnits(f, h, SectorOf(w.unit)) \/ g = [f EXCEPT !.mem[w.unit] = @ \cap w.data]
  BY DEF MicronWrite, Modes
<1>5. f.mode[h] \in Modes /\ "erasing" \in Modes /\ (g = f => P(f.mode[h]))
  BY DEF FlashType, Near, Modes
<1> HIDE DEF P
<1>6. \E m \in Modes : P(m)
  BY <1>1, <1>2, <1>3, <1>4, <1>5, Zenon
<1> QED
  BY <1>6 DEF P

(* One write. *)
LEMMA AfterWriteTyped ==
    ASSUME NEW f \in FlashType, NEW w \in Writes, NEW g \in AfterWrite(f, w)
    PROVE  LET h == HalfOf(f.width, w.unit)
           IN  \E m \in Modes : g \in Near(f, h, m, {w.unit}, Erases(f, h, m))
<1> DEFINE h == HalfOf(f.width, w.unit)
<1>1. h \in {0, 1}
  BY DEF HalfOf, Writes
<1>2. g = f \/ g \in MicronWrite(f, h, w) \/ g \in AmdWrite(f, h, w)
  BY DEF AfterWrite
<1>3. f.mode[h] \in Modes /\ (g = f => g \in Near(f, h, f.mode[h], {w.unit}, Erases(f, h, f.mode[h])))
  BY <1>1 DEF Near, FlashType
<1> HIDE DEF h
<1>4. \E m \in Modes : g \in Near(f, h, m, {w.unit}, Erases(f, h, m))
  BY <1>1, <1>2, <1>3, AmdTyped, MicronTyped, Zenon
<1> QED
  BY <1>4 DEF h

(* A busy half ignores all writes. *)
LEMMA BusyIgnores ==
    ASSUME NEW f \in FlashType, NEW h \in {0, 1}, f.mode[h] \in Busy,
           NEW ws \in Seq(WritesTo(f.width, h))
    PROVE  After(f, ws) \subseteq {f}
<1>1. DOMAIN ws = 1 .. Len(ws) /\ Len(ws) \in Nat /\ f \in {f}
  OBVIOUS
<1>2. ASSUME NEW g \in {f}, NEW k \in 1 .. Len(ws) PROVE AfterWrite(g, ws[k]) \subseteq {f}
  <2>1. ws[k] \in WritesTo(f.width, h)
    OBVIOUS
  <2> QED
    BY <2>1 DEF AfterWrite, WritesTo
<1> QED
  BY <1>1, <1>2, AfterKeeps

(* A sequence of writes leads from chips of one set to chips of another. *)
Leads(P, ws, Q) == ws \in Seq(Writes) /\ \A f \in P : After(f, ws) \subseteq Q

LEMMA LeadsNone ==
    ASSUME NEW P PROVE Leads(P, <<>>, P)
<1>1. <<>> \in Seq(Writes)
  OBVIOUS
<1> QED
  BY <1>1, AfterNone DEF Leads

LEMMA LeadsOne ==
    ASSUME NEW P \in SUBSET FlashType, NEW Q, NEW w \in Writes,
           \A f \in P : AfterWrite(f, w) \subseteq Q
    PROVE  Leads(P, <<w>>, Q)
<1>1. \A f \in FlashType : AfterWrite(f, w) \subseteq FlashType
  BY AfterWriteTyped DEF Near
<1>2. \A f \in FlashType : After(f, <<w>>) = AfterWrite(f, w)
  BY <1>1, AfterOne
<1>3. <<w>> \in Seq(Writes)
  OBVIOUS
<1> QED
  BY <1>2, <1>3 DEF Leads

LEMMA OneLeads ==
    ASSUME NEW P \in SUBSET FlashType, NEW Q, NEW w \in Writes, Leads(P, <<w>>, Q), NEW f \in P
    PROVE  AfterWrite(f, w) \subseteq Q
<1>1. \A g \in FlashType : AfterWrite(g, w) \subseteq FlashType
  BY AfterWriteTyped DEF Near
<1>2. After(f, <<w>>) = AfterWrite(f, w)
  BY <1>1, AfterOne
<1> QED
  BY <1>2 DEF Leads

LEMMA LeadsThen ==
    ASSUME NEW P \in SUBSET FlashType, NEW Q, NEW R, NEW s, NEW t,
           Leads(P, s, Q), Leads(Q, t, R)
    PROVE  Leads(P, s \o t, R)
<1>1. \A f \in FlashType, w \in Writes : AfterWrite(f, w) \subseteq FlashType
  BY AfterWriteTyped DEF Near
<1>2. s \in Seq(Writes) /\ t \in Seq(Writes) /\ s \o t \in Seq(Writes)
  BY DEF Leads
<1>3. SUFFICES ASSUME NEW f \in P PROVE After(f, s \o t) \subseteq R
  BY <1>2 DEF Leads
<1>4. After(f, s \o t) = UNION {After(g, t) : g \in After(f, s)}
  BY <1>1, <1>2, AfterBoth
<1>5. After(f, s) \subseteq Q /\ \A g \in Q : After(g, t) \subseteq R
  BY DEF Leads
<1> QED
  BY <1>4, <1>5

(* What holds of every chip on the way. *)
LEMMA AfterTyped ==
    ASSUME NEW f \in FlashType, NEW ws \in Seq(Writes), NEW g \in After(f, ws)
    PROVE  g \in FlashType /\ g.kind = f.kind /\ g.width = f.width
<1> DEFINE U == {k \in FlashType : k.kind = f.kind /\ k.width = f.width}
<1>1. DOMAIN ws = 1 .. Len(ws) /\ Len(ws) \in Nat /\ f \in U
  OBVIOUS
<1>2. ASSUME NEW k \in U, NEW w \in Writes PROVE AfterWrite(k, w) \subseteq U
  BY <1>2, AfterWriteTyped DEF Near
<1>3. \A k \in U, i \in 1 .. Len(ws) : AfterWrite(k, ws[i]) \subseteq U
  <2>1. \A i \in 1 .. Len(ws) : ws[i] \in Writes
    OBVIOUS
  <2> HIDE DEF U
  <2> QED
    BY <1>2, <2>1
<1>4. After(f, ws) \subseteq U
  <2> HIDE DEF U
  <2> QED
    BY <1>1, <1>3, AfterKeeps
<1> QED
  BY <1>4

-----------------------------------------------------------------------------
(* The AMD commands. *)
Silent == {"read", "id", "aa", "unlocked", "setup", "setup aa", "bypass", "bypass end"}

LEMMA AmdMoves ==
    ASSUME NEW f \in FlashType, NEW h \in {0, 1}, NEW us, NEW es, f.kind # "micron",
           NEW m \in Silent, NEW w \in WritesTo(f.width, h), NEW n, n = NextMode(m, w.cmd, At(f, w))
    PROVE  Leads(Near(f, h, m, us, es), <<w>>, Near(f, h, n, us, es))
<1>1. SUFFICES ASSUME NEW g \in Near(f, h, m, us, es)
               PROVE  AfterWrite(g, w) \subseteq Near(f, h, n, us, es)
  <2>1. Near(f, h, m, us, es) \in SUBSET FlashType /\ w \in Writes
    BY DEF Near, WritesTo
  <2> QED
    BY <2>1, LeadsOne
<1>2. /\ g \in FlashType /\ g.kind # "micron" /\ g.mode[h] = m /\ HalfOf(g.width, w.unit) = h
      /\ At(g, w) = At(f, w)
  BY DEF Near, WritesTo, At
<1>3. m \in Modes /\ m \notin Busy
  BY DEF Silent, Modes, Busy
<1>4. AfterWrite(g, w) = AmdWrite(g, h, w)
  BY <1>2, <1>3 DEF AfterWrite
<1>5. AmdWrite(g, h, w) = {[g EXCEPT !.mode[h] = n]}
  BY <1>2 DEF AmdWrite, Silent
<1>6. n \in Modes
  BY <1>3, NextModeTyped
<1>7. [g EXCEPT !.mode[h] = n] \in Near(g, h, n, {}, {})
  BY <1>2, <1>6, SetModeNear
<1>8. [g EXCEPT !.mode[h] = n] \in Near(f, h, n, us, es)
  <2>1. {} \subseteq us /\ {} \subseteq es
    OBVIOUS
  <2> QED
    BY <1>7, <2>1, NearAgain
<1> QED
  BY <1>4, <1>5, <1>8

LEMMA Addresses ==
    ASSUME NEW width \in {8, 32, 64, 0}, NEW h \in Halves(width)
    PROVE  /\ h \in {0, 1}
           /\ AddrOdd(width, h) \in Int /\ HalfOf(width, AddrOdd(width, h)) = h
           /\ AddrEven(width, h) \in Int /\ HalfOf(width, AddrEven(width, h)) = h
           /\ AddrOdd(width, h) # AddrEven(width, h)
<1>1. N \in Nat /\ N % 2 = 0
  BY FlashAssumption
<1>2. CASE width = 64
  BY <1>1, <1>2 DEF Halves, AddrOdd, AddrEven, HalfOf
<1>3. CASE width # 64
  BY <1>1, <1>3 DEF Halves, AddrOdd, AddrEven, HalfOf
<1> QED
  BY <1>2, <1>3

(* A command to the odd or the even address of its half. *)
LEMMA Addressed ==
    ASSUME NEW f \in FlashType, NEW h \in Halves(f.width), NEW c \in Codes
    PROVE  LET odd == Command(AddrOdd(f.width, h), c)
               even == Command(AddrEven(f.width, h), c)
           IN  /\ odd \in WritesTo(f.width, h) /\ odd.cmd = c /\ At(f, odd) = "odd"
               /\ even \in WritesTo(f.width, h) /\ even.cmd = c /\ At(f, even) = "even"
<1>1. f.width \in {8, 32, 64, 0}
  BY DEF FlashType
<1> QED
  BY <1>1, Addresses, CommandIsWrite DEF WritesTo, At

LEMMA UnlockLeads ==
    ASSUME NEW f \in FlashType, f.width = opt.width, NEW h \in Halves(opt.width),
           NEW us, NEW es, f.kind # "micron", NEW m \in {"read", "id", "setup"},
           NEW n, n = IF m = "setup" THEN "erase" ELSE "unlocked"
    PROVE  Leads(Near(f, h, m, us, es), Unlock(h), Near(f, h, n, us, es))
<1> DEFINE a == Command(AddrOdd(opt.width, h), "AA")
           b == Command(AddrEven(opt.width, h), "55")
           k == IF m = "setup" THEN "setup aa" ELSE "aa"
<1>1. /\ h \in {0, 1} /\ a \in WritesTo(f.width, h) /\ a.cmd = "AA" /\ At(f, a) = "odd"
      /\ b \in WritesTo(f.width, h) /\ b.cmd = "55" /\ At(f, b) = "even"
  BY Addressed DEF Codes, Halves
<1>2. Unlock(h) = <<a>> \o <<b>>
  BY DEF Unlock
<1> HIDE DEF a, b
<1>3. k = NextMode(m, a.cmd, At(f, a)) /\ n = NextMode(k, b.cmd, At(f, b))
  BY <1>1 DEF NextMode
<1>4. m \in Silent /\ k \in Silent
  BY DEF Silent
<1> HIDE DEF k
<1>5. Leads(Near(f, h, m, us, es), <<a>>, Near(f, h, k, us, es))
  BY <1>1, <1>3, <1>4, AmdMoves
<1>6. Leads(Near(f, h, k, us, es), <<b>>, Near(f, h, n, us, es))
  BY <1>1, <1>3, <1>4, AmdMoves
<1>7. Near(f, h, m, us, es) \in SUBSET FlashType
  BY DEF Near
<1> QED
  BY <1>2, <1>5, <1>6, <1>7, LeadsThen

LEMMA RequestLeads ==
    ASSUME NEW f \in FlashType, f.width = opt.width, NEW h \in Halves(opt.width),
           NEW us, NEW es, f.kind # "micron", NEW m \in {"read", "id"},
           NEW c \in Codes, NEW n, n = NextMode("unlocked", c, "odd")
    PROVE  Leads(Near(f, h, m, us, es), Request(h, c), Near(f, h, n, us, es))
<1> DEFINE a == Command(AddrOdd(opt.width, h), c)
<1>1. h \in {0, 1} /\ a \in WritesTo(f.width, h) /\ a.cmd = c /\ At(f, a) = "odd"
  BY Addressed DEF Codes, Halves
<1>2. Request(h, c) = Unlock(h) \o <<a>>
  BY DEF Request
<1> HIDE DEF a
<1>3. Leads(Near(f, h, m, us, es), Unlock(h), Near(f, h, "unlocked", us, es))
  <2> DEFINE k == "unlocked"
  <2>1. m \in {"read", "id", "setup"} /\ k = IF m = "setup" THEN "erase" ELSE "unlocked"
    OBVIOUS
  <2> HIDE DEF k
  <2>2. Leads(Near(f, h, m, us, es), Unlock(h), Near(f, h, k, us, es))
    BY <2>1, UnlockLeads
  <2> QED
    BY <2>2 DEF k
<1>4. Leads(Near(f, h, "unlocked", us, es), <<a>>, Near(f, h, n, us, es))
  BY <1>1, AmdMoves DEF Silent
<1>5. Near(f, h, m, us, es) \in SUBSET FlashType
  BY DEF Near
<1> QED
  BY <1>2, <1>3, <1>4, <1>5, LeadsThen

(* A set of chips for each place between the writes. *)
LEMMA LeadsSteps ==
    ASSUME NEW n \in Nat, NEW ws \in Seq(Writes), Len(ws) = n,
           NEW Q \in [0 .. n -> SUBSET FlashType],
           \A k \in 1 .. n : Leads(Q[k - 1], <<ws[k]>>, Q[k])
    PROVE  Leads(Q[0], ws, Q[n])
<1>1. SUFFICES ASSUME NEW f \in Q[0] PROVE After(f, ws) \subseteq Q[n]
  BY DEF Leads
<1>2. \A k \in 1 .. n : ws[k] \in Writes
  OBVIOUS
<1>3. \A g \in FlashType, k \in 1 .. n : AfterWrite(g, ws[k]) \subseteq FlashType
  BY <1>2, AfterWriteTyped DEF Near
<1>a. ASSUME NEW k \in 1 .. n, NEW g \in Q[k - 1] PROVE AfterWrite(g, ws[k]) \subseteq Q[k]
  <2>1. Q[k - 1] \in SUBSET FlashType
    OBVIOUS
  <2>2. Leads(Q[k - 1], <<ws[k]>>, Q[k])
    OBVIOUS
  <2> QED
    BY <1>2, <2>1, <2>2, OneLeads
<1>4. DOMAIN ws = 1 .. n /\ f \in FlashType
  OBVIOUS
<1>5. PICK a : Trace(a, f, ws, n)
  BY <1>3, <1>4, AfterIsFold
<1> DEFINE S == {k \in Nat : k <= n => a[k] \subseteq Q[k]}
<1>6. 0 \in S
  BY <1>5 DEF Trace
<1>7. ASSUME NEW k \in Nat, k \in S PROVE k + 1 \in S
  <2> SUFFICES ASSUME k + 1 <= n PROVE a[k + 1] \subseteq Q[k + 1]
    OBVIOUS
  <2> DEFINE i == k + 1
  <2>1. i \in 1 .. n /\ i - 1 = k /\ a[k] \subseteq Q[k]
    BY <1>7
  <2> HIDE DEF i
  <2>2. a[i] = UNION {AfterWrite(g, ws[i]) : g \in a[i - 1]}
    BY <1>5, <2>1 DEF Trace
  <2>3. a[i] \subseteq Q[i]
    BY <1>a, <2>1, <2>2
  <2> QED
    BY <2>3 DEF i
<1>8. n \in S
  <2> HIDE DEF S
  <2> QED
    BY <1>6, <1>7, Induction
<1> QED
  BY <1>5, <1>8 DEF Trace

(* A silent chip is given data. *)
LEMMA AmdPrograms ==
    ASSUME NEW f \in FlashType, NEW h \in {0, 1}, NEW us, NEW es, f.kind \notin {"micron", "page"},
           NEW m \in {"program", "bypass program"}, NEW w \in WritesTo(f.width, h), w.unit \in us,
           NEW n, n = IF m = "program" THEN "read" ELSE "bypass"
    PROVE  Leads(Near(f, h, m, us, es), <<w>>, Near(f, h, n, us, es))
<1>1. SUFFICES ASSUME NEW g \in Near(f, h, m, us, es)
               PROVE  AfterWrite(g, w) \subseteq Near(f, h, n, us, es)
  <2>1. Near(f, h, m, us, es) \in SUBSET FlashType /\ w \in Writes
    BY DEF Near, WritesTo
  <2> QED
    BY <2>1, LeadsOne
<1>2. /\ g \in FlashType /\ g.kind \notin {"micron", "page"} /\ g.mode[h] = m
      /\ HalfOf(g.width, w.unit) = h /\ w \in Writes
  BY DEF Near, WritesTo
<1>3. n \in Modes /\ m \notin Busy
  BY DEF Modes, Busy
<1> DEFINE new == g.mem[w.unit] \cap w.data
<1>4. AfterWrite(g, w) = Programs(g, h, w, new, n)
  BY <1>2, <1>3 DEF AfterWrite, AmdWrite
<1>5. new \in SUBSET Bits
  BY <1>2 DEF Writes
<1> HIDE DEF new
<1>6. Programs(g, h, w, new, n) \subseteq Near(g, h, n, {w.unit}, {})
  BY <1>2, <1>3, <1>5, ProgramsNear
<1>7. \A k \in Near(g, h, n, {w.unit}, {}) : k \in Near(f, h, n, us, es)
  <2> SUFFICES ASSUME NEW k \in Near(g, h, n, {w.unit}, {}) PROVE k \in Near(f, h, n, us, es)
    OBVIOUS
  <2> DEFINE vs == {w.unit}  fs == {}
  <2>1. vs \subseteq us /\ fs \subseteq es /\ k \in Near(g, h, n, vs, fs)
    OBVIOUS
  <2> HIDE DEF vs, fs
  <2> QED
    BY <2>1, NearAgain, ZenonT(60)
<1> QED
  BY <1>4, <1>6, <1>7

LEMMA ProgramLeads ==
    ASSUME NEW f \in FlashType, f.width = opt.width, NEW h \in Halves(opt.width),
           f.kind \notin {"micron", "page"},
           NEW us, NEW es, NEW u \in Int, u \in us, HalfOf(opt.width, u) = h, NEW d \in SUBSET Bits
    PROVE  Leads(Near(f, h, "read", us, es), Program(h, u, d), Near(f, h, "read", us, es))
<1> DEFINE P == Near(f, h, "read", us, es)
           Q == Near(f, h, "program", us, es)
           w == Data(u, d)
<1>1. w \in WritesTo(f.width, h) /\ w.unit \in us /\ h \in {0, 1} /\ P \in SUBSET FlashType
  BY DataIsWrite DEF WritesTo, Halves, Near
<1>2. Program(h, u, d) = Request(h, "A0") \o <<w>>
  BY DEF Program
<1> HIDE DEF w
<1>3. Leads(P, Request(h, "A0"), Q)
  <2> DEFINE c == "A0"  n == "program"
  <2>1. c \in Codes /\ n = NextMode("unlocked", c, "odd")
    BY DEF Codes, NextMode
  <2> HIDE DEF c, n
  <2>2. Leads(Near(f, h, "read", us, es), Request(h, c), Near(f, h, n, us, es))
    BY <2>1, RequestLeads
  <2> QED
    BY <2>2 DEF c, n
<1>4. Leads(Q, <<w>>, P)
  BY <1>1, AmdPrograms
<1> HIDE DEF P, Q
<1>5. Leads(P, Request(h, "A0") \o <<w>>, P)
  BY <1>1, <1>3, <1>4, LeadsThen
<1> QED
  BY <1>2, <1>5 DEF P

(* Unlock bypass: A0 and the data, until the reset. *)
LEMMA BypassLeads ==
    ASSUME NEW f \in FlashType, NEW h \in {0, 1}, f.kind \notin {"micron", "page"},
           NEW us, NEW es, NEW u \in Int, u \in us, HalfOf(f.width, u) = h, NEW d \in SUBSET Bits
    PROVE  Leads(Near(f, h, "bypass", us, es), <<Command(u, "A0"), Data(u, d)>>,
                 Near(f, h, "bypass", us, es))
<1> DEFINE P == Near(f, h, "bypass", us, es)
           Q == Near(f, h, "bypass program", us, es)
           a == Command(u, "A0")
           w == Data(u, d)
<1>1. /\ w \in WritesTo(f.width, h) /\ w.unit \in us /\ P \in SUBSET FlashType
      /\ a \in WritesTo(f.width, h) /\ a.cmd = "A0"
  BY DataIsWrite, CommandIsWrite DEF WritesTo, Near, Codes
<1>2. <<Command(u, "A0"), Data(u, d)>> = <<a>> \o <<w>>
  OBVIOUS
<1> HIDE DEF a, w
<1>3. Leads(P, <<a>>, Q)
  <2>1. "bypass program" = NextMode("bypass", a.cmd, At(f, a)) /\ "bypass" \in Silent
    BY <1>1 DEF NextMode, Silent
  <2> QED
    BY <1>1, <2>1, AmdMoves
<1>4. Leads(Q, <<w>>, P)
  BY <1>1, AmdPrograms
<1> HIDE DEF P, Q
<1>5. Leads(P, <<a>> \o <<w>>, P)
  BY <1>1, <1>3, <1>4, LeadsThen
<1> QED
  BY <1>2, <1>5 DEF P

LEMMA ResetLeads ==
    ASSUME NEW f \in FlashType, f.kind # "micron", NEW us, NEW es, HalfOf(f.width, 0) = 0
    PROVE  Leads(Near(f, 0, "bypass", us, es), <<Command(0, "90"), Command(0, "00")>>,
                 Near(f, 0, "read", us, es))
<1> DEFINE P == Near(f, 0, "bypass", us, es)
           Q == Near(f, 0, "bypass end", us, es)
           R == Near(f, 0, "read", us, es)
           a == Command(0, "90")
           w == Command(0, "00")
<1>1. /\ w \in WritesTo(f.width, 0) /\ w.cmd = "00" /\ P \in SUBSET FlashType
      /\ a \in WritesTo(f.width, 0) /\ a.cmd = "90"
  BY CommandIsWrite DEF WritesTo, Near, Codes
<1>2. <<Command(0, "90"), Command(0, "00")>> = <<a>> \o <<w>>
  OBVIOUS
<1> HIDE DEF a, w
<1>3. Leads(P, <<a>>, Q)
  <2>1. "bypass end" = NextMode("bypass", a.cmd, At(f, a)) /\ "bypass" \in Silent
    BY <1>1 DEF NextMode, Silent
  <2> QED
    BY <1>1, <2>1, AmdMoves
<1>4. Leads(Q, <<w>>, R)
  <2>1. "read" = NextMode("bypass end", w.cmd, At(f, w)) /\ "bypass end" \in Silent
    BY <1>1 DEF NextMode, Silent
  <2> QED
    BY <1>1, <2>1, AmdMoves
<1> HIDE DEF P, Q, R
<1>5. Leads(P, <<a>> \o <<w>>, R)
  BY <1>1, <1>3, <1>4, LeadsThen
<1> QED
  BY <1>2, <1>5 DEF P, R

LEMMA SetupLeads ==
    ASSUME NEW f \in FlashType, f.width = opt.width, NEW h \in Halves(opt.width),
           f.kind # "micron", NEW us, NEW es
    PROVE  /\ Leads(Near(f, h, "read", us, es), Request(h, "80"), Near(f, h, "setup", us, es))
           /\ Leads(Near(f, h, "setup", us, es), Unlock(h), Near(f, h, "erase", us, es))
<1>1. Leads(Near(f, h, "read", us, es), Request(h, "80"), Near(f, h, "setup", us, es))
  <2> DEFINE c == "80"  n == "setup"  m == "read"
  <2>1. c \in Codes /\ n = NextMode("unlocked", c, "odd") /\ m \in {"read", "id"}
    BY DEF Codes, NextMode
  <2> HIDE DEF c, n, m
  <2>2. Leads(Near(f, h, m, us, es), Request(h, c), Near(f, h, n, us, es))
    BY <2>1, RequestLeads
  <2> QED
    BY <2>2 DEF c, n, m
<1>2. Leads(Near(f, h, "setup", us, es), Unlock(h), Near(f, h, "erase", us, es))
  <2> DEFINE n == "erase"  m == "setup"
  <2>1. n = (IF m = "setup" THEN "erase" ELSE "unlocked") /\ m \in {"read", "id", "setup"}
    OBVIOUS
  <2> HIDE DEF n, m
  <2>2. Leads(Near(f, h, m, us, es), Unlock(h), Near(f, h, n, us, es))
    BY <2>1, UnlockLeads
  <2> QED
    BY <2>2 DEF n, m
<1> QED
  BY <1>1, <1>2

(* The erase of the chip, and of a sector. *)
LEMMA EraseLeads ==
    ASSUME NEW f \in FlashType, f.width = opt.width, NEW h \in Halves(opt.width),
           f.kind # "micron", NEW us, NEW es, NEW u \in Int, HalfOf(opt.width, u) = h,
           NEW c, \/ c = "10" /\ u = AddrOdd(opt.width, h) /\ Units \subseteq es
                  \/ c = "30" /\ SectorOf(u) \subseteq es
    PROVE  Leads(Near(f, h, "read", us, es), EraseRequest(h, u, c), Near(f, h, "erasing", us, es))
<1> DEFINE P == Near(f, h, "read", us, es)
           Q == Near(f, h, "setup", us, es)
           R == Near(f, h, "erase", us, es)
           S == Near(f, h, "erasing", us, es)
           w == Command(u, c)
<1>1. /\ w \in WritesTo(f.width, h) /\ w.unit = u /\ w.cmd = c /\ h \in {0, 1} /\ w \in Writes
      /\ P \in SUBSET FlashType /\ Q \in SUBSET FlashType /\ R \in SUBSET FlashType
  BY CommandIsWrite DEF WritesTo, Near, Codes, Halves
<1>2. EraseRequest(h, u, c) = Request(h, "80") \o Unlock(h) \o <<w>>
  BY DEF EraseRequest
<1> HIDE DEF w
<1>3. ASSUME c = "10" PROVE At(f, w) = "odd"
  <2>1. c \in Codes /\ w = Command(AddrOdd(f.width, h), c)
    BY <1>3 DEF w, Codes
  <2> QED
    BY <2>1, Addressed
<1>4. ASSUME NEW g \in R PROVE AfterWrite(g, w) \subseteq S
  <2>1. /\ g \in FlashType /\ g.kind # "micron" /\ g.mode[h] = "erase"
        /\ HalfOf(g.width, w.unit) = h /\ At(g, w) = At(f, w)
    BY <1>1, <1>4 DEF Near, WritesTo, At
  <2>2. AfterWrite(g, w) = AmdWrite(g, h, w)
    BY <2>1 DEF AfterWrite, Busy
  <2> DEFINE vs == IF c = "10" THEN Units ELSE SectorOf(u)
  <2>3. AmdWrite(g, h, w) = {EraseUnits(g, h, vs)}
    BY <1>1, <1>3, <2>1 DEF AmdWrite
  <2>4. EraseUnits(g, h, vs) \in Near(g, h, "erasing", {}, vs \cap InHalf(g, h))
    BY <1>1, <2>1, EraseUnitsNear
  <2>5. {} \subseteq us /\ vs \cap InHalf(g, h) \subseteq es
    BY DEF InHalf
  <2> HIDE DEF R, S, vs
  <2> DEFINE k == EraseUnits(g, h, vs)  fs == vs \cap InHalf(g, h)  ns == {}  n == "erasing"  m == "erase"
  <2>6. /\ k \in Near(g, h, n, ns, fs) /\ ns \subseteq us /\ fs \subseteq es
        /\ g \in Near(f, h, m, us, es) /\ h \in {0, 1}
    BY <1>1, <1>4, <2>4, <2>5 DEF R
  <2>7. k \in Near(f, h, n, us, es)
    <3> HIDE DEF k, fs, ns, n, m
    <3> QED
      BY <2>6, NearAgain
  <2> QED
    BY <2>2, <2>3, <2>7 DEF S
<1>5. Leads(P, Request(h, "80"), Q) /\ Leads(Q, Unlock(h), R)
  BY SetupLeads
<1> HIDE DEF P, Q, R, S
<1>6. Leads(R, <<w>>, S)
  BY <1>1, <1>4, LeadsOne
<1>7. Leads(P, Request(h, "80") \o Unlock(h), R)
  BY <1>1, <1>5, LeadsThen
<1>8. Leads(P, Request(h, "80") \o Unlock(h) \o <<w>>, S)
  BY <1>1, <1>6, <1>7, LeadsThen
<1> QED
  BY <1>2, <1>8 DEF P, S

(* The identification leaves the chip to be read. *)
LEMMA DetectLeads ==
    ASSUME NEW f \in FlashType, f.width = opt.width, f.kind = opt.kind, opt.kind # "micron",
           NEW us, NEW es, NEW n \in Int
    PROVE  Leads(Near(f, 0, "read", us, es), DetectWrites(n), Near(f, 0, "read", us, es))
<1> DEFINE P == Near(f, 0, "read", us, es)
           Q == Near(f, 0, "id", us, es)
           w == Command(0, "F0")
<1>1. /\ w \in WritesTo(f.width, 0) /\ w.cmd = "F0" /\ 0 \in Halves(opt.width) /\ w \in Writes
      /\ P \in SUBSET FlashType /\ Q \in SUBSET FlashType
  BY CommandIsWrite DEF WritesTo, Near, Codes, Halves, HalfOf
<1> DEFINE reset == IF opt.width = 8 \/ n >= 4 THEN Request(0, "F0") ELSE <<w>>
<1>2. DetectWrites(n) = Request(0, "90") \o reset \o <<>>
  BY DEF DetectWrites
<1>3. Leads(P, Request(0, "90"), Q)
  <2> DEFINE c == "90"  k == "id"  m == "read"
  <2>1. c \in Codes /\ k = NextMode("unlocked", c, "odd") /\ m \in {"read", "id"}
    BY DEF Codes, NextMode
  <2> HIDE DEF c, k, m
  <2>2. Leads(Near(f, 0, m, us, es), Request(0, c), Near(f, 0, k, us, es))
    BY <1>1, <2>1, RequestLeads
  <2> QED
    BY <2>2 DEF c, k, m
<1>4. Leads(Q, Request(0, "F0"), P)
  <2> DEFINE c == "F0"  k == "read"  m == "id"
  <2>1. c \in Codes /\ k = NextMode("unlocked", c, "odd") /\ m \in {"read", "id"}
    BY DEF Codes, NextMode
  <2> HIDE DEF c, k, m
  <2>2. Leads(Near(f, 0, m, us, es), Request(0, c), Near(f, 0, k, us, es))
    BY <1>1, <2>1, RequestLeads
  <2> QED
    BY <2>2 DEF c, k, m
<1> HIDE DEF w
<1>5. Leads(Q, <<w>>, P)
  <2>1. "read" = NextMode("id", w.cmd, At(f, w)) /\ "id" \in Silent
    BY <1>1 DEF NextMode, Silent
  <2> QED
    BY <1>1, <2>1, AmdMoves
<1> HIDE DEF P, Q
<1>6. Leads(Q, reset, P)
  BY <1>4, <1>5
<1> HIDE DEF reset
<1>7. Leads(P, Request(0, "90") \o reset, P)
  BY <1>1, <1>3, <1>6, LeadsThen
<1>8. Leads(P, Request(0, "90") \o reset \o <<>>, P)
  BY <1>1, <1>7, LeadsNone, LeadsThen
<1> QED
  BY <1>2, <1>8 DEF P

-----------------------------------------------------------------------------
(* The page mode. *)

(* Of as many numbers as a page has units, one is the last of its page. *)
LEMMA PageEnds ==
    ASSUME NEW u \in Int PROVE \E i \in 1 .. Page : (u + i) % Page = 0
<1>1. Page \in Nat /\ Page > 0
  BY FlashAssumption
<1> DEFINE r == u % Page  q == u \div Page  i == Page - r
<1>2. r \in 0 .. Page - 1 /\ q \in Int /\ u = Page * q + r
  BY <1>1
<1>3. i \in 1 .. Page /\ u + i = Page * q + Page
  BY <1>1, <1>2
<1>4. (Page * q + Page) % Page = 0
  <2>1. Page * q + Page = Page * (q + 1) /\ q + 1 \in Int
    BY <1>1, <1>2
  <2>2. \A x \in Int : (Page * x) % Page = 0
    BY <1>1
  <2> QED
    BY <2>1, <2>2
<1> QED
  BY <1>3, <1>4

(* A unit of a page is loaded; the last one programs it. *)
LEMMA PageLoads ==
    ASSUME NEW f \in FlashType, NEW h \in {0, 1}, NEW us, NEW es, f.kind = "page",
           NEW m \in {"program", "load"}, NEW w \in WritesTo(f.width, h), w.unit \in us,
           NEW n, n = IF (w.unit + 1) % Page = 0 THEN "read" ELSE "load"
    PROVE  Leads(Near(f, h, m, us, es), <<w>>, Near(f, h, n, us, es))
<1>1. SUFFICES ASSUME NEW g \in Near(f, h, m, us, es)
               PROVE  AfterWrite(g, w) \subseteq Near(f, h, n, us, es)
  <2>1. Near(f, h, m, us, es) \in SUBSET FlashType /\ w \in Writes
    BY DEF Near, WritesTo
  <2> QED
    BY <2>1, LeadsOne
<1>2. /\ g \in FlashType /\ g.kind = "page" /\ g.mode[h] = m
      /\ HalfOf(g.width, w.unit) = h /\ w \in Writes
  BY DEF Near, WritesTo
<1>3. n \in Modes /\ m \notin Busy
  BY DEF Modes, Busy
<1>4. AfterWrite(g, w) = Programs(g, h, w, w.data, n)
  BY <1>2, <1>3 DEF AfterWrite, AmdWrite
<1>5. w.data \in SUBSET Bits
  BY <1>2 DEF Writes
<1>6. Programs(g, h, w, w.data, n) \subseteq Near(g, h, n, {w.unit}, {})
  BY <1>2, <1>3, <1>5, ProgramsNear
<1>7. \A k \in Near(g, h, n, {w.unit}, {}) : k \in Near(f, h, n, us, es)
  <2> SUFFICES ASSUME NEW k \in Near(g, h, n, {w.unit}, {}) PROVE k \in Near(f, h, n, us, es)
    OBVIOUS
  <2> DEFINE vs == {w.unit}  fs == {}
  <2>1. vs \subseteq us /\ fs \subseteq es /\ k \in Near(g, h, n, vs, fs)
    OBVIOUS
  <2> HIDE DEF vs, fs
  <2> QED
    BY <2>1, NearAgain
<1> QED
  BY <1>4, <1>6, <1>7

(* A chip that can be read takes no data. *)
LEMMA ReadStays ==
    ASSUME NEW f \in FlashType, NEW h \in {0, 1}, NEW us, NEW es, f.kind # "micron",
           NEW w \in WritesTo(f.width, h), w.cmd = "data"
    PROVE  Leads(Near(f, h, "read", us, es), <<w>>, Near(f, h, "read", us, es))
<1>1. "read" = NextMode("read", w.cmd, At(f, w)) /\ "read" \in Silent
  BY DEF NextMode, Silent
<1> QED
  BY <1>1, AmdMoves

(* A page of data, to a chip with pages and to one taken for it. *)
LEMMA LoadLeads ==
    ASSUME NEW f \in FlashType, NEW h \in {0, 1}, NEW us, NEW es, f.kind # "micron",
           NEW m, \/ f.kind = "page" /\ m \in {"program", "load"}
                  \/ f.kind # "page" /\ m \in {"program", "read"},
           NEW ws \in Seq(WritesTo(f.width, h)), Len(ws) = Page, NEW v \in Int,
           \A i \in 1 .. Page : ws[i].cmd = "data" /\ ws[i].unit = v + i - 1 /\ v + i - 1 \in us
    PROVE  Leads(Near(f, h, m, us, es), ws, Near(f, h, "read", us, es))
<1> DEFINE Ready(k) == IF f.kind = "page" THEN \E i \in 1 .. k : (v + i) % Page = 0 ELSE k > 0
           M(k) == IF Ready(k) THEN "read" ELSE IF k = 0 THEN m ELSE "load"
           Q == [k \in 0 .. Page |-> Near(f, h, M(k), us, es)]
<1>1. Page \in Nat \ {0} /\ Len(ws) \in Nat
  BY FlashAssumption
<1>2. Q \in [0 .. Page -> SUBSET FlashType] /\ ws \in Seq(Writes)
  BY DEF Near, WritesTo
<1>3. ASSUME NEW k \in 1 .. Page PROVE Leads(Q[k - 1], <<ws[k]>>, Q[k])
  <2> DEFINE j == k - 1  w == ws[k]
  <2>1. /\ j \in 0 .. Page /\ k \in 0 .. Page /\ w \in WritesTo(f.width, h)
        /\ w.cmd = "data" /\ w.unit + 1 = v + k /\ w.unit \in us
    <3>1. k \in 1 .. Len(ws) /\ k \in Int /\ ws[k].cmd = "data" /\ ws[k].unit = v + k - 1 /\ v + k - 1 \in us
      OBVIOUS
    <3>2. ws[k] \in WritesTo(f.width, h)
      BY <3>1
    <3> QED
      BY <1>1, <3>1, <3>2
  <2> HIDE DEF w
  <2>2. CASE Ready(j)
    <3>1. M(j) = "read" /\ M(k) = "read"
      BY <2>2
    <3>2. Leads(Near(f, h, "read", us, es), <<w>>, Near(f, h, "read", us, es))
      BY <2>1, ReadStays
    <3> QED
      BY <2>1, <3>1, <3>2 DEF w
  <2>3. CASE ~Ready(j) /\ f.kind # "page"
    <3>1. j = 0 /\ M(j) = m /\ M(k) = "read"
      BY <2>3
    <3>2. Leads(Near(f, h, m, us, es), <<w>>, Near(f, h, "read", us, es))
      <4>1. CASE m = "read"
        BY <2>1, <4>1, ReadStays
      <4>2. CASE m = "program"
        <5>1. f.kind \notin {"micron", "page"} /\ m \in {"program", "bypass program"}
              /\ "read" = IF m = "program" THEN "read" ELSE "bypass"
          BY <2>3, <4>2
        <5> QED
          BY <2>1, <5>1, AmdPrograms
      <4> QED
        BY <2>3, <4>1, <4>2
    <3> QED
      BY <2>1, <3>1, <3>2 DEF w
  <2>4. CASE ~Ready(j) /\ f.kind = "page"
    <3>1. M(j) \in {"program", "load"}
      BY <2>4
    <3>2. M(k) = IF (w.unit + 1) % Page = 0 THEN "read" ELSE "load"
      <4>1. \A i \in 1 .. k : i \in 1 .. j \/ i = k
        OBVIOUS
      <4>2. Ready(k) <=> (w.unit + 1) % Page = 0
        BY <2>1, <2>4, <4>1
      <4>3. k # 0
        OBVIOUS
      <4> HIDE DEF Ready
      <4> QED
        BY <4>2, <4>3
    <3>3. Leads(Near(f, h, M(j), us, es), <<w>>, Near(f, h, M(k), us, es))
      <4> HIDE DEF M, j
      <4> QED
        BY <2>1, <2>4, <3>1, <3>2, PageLoads
    <3> QED
      BY <2>1, <3>3 DEF w
  <2> QED
    BY <2>2, <2>3, <2>4
<1>4. Q[0] = Near(f, h, m, us, es)
  BY <1>1
<1>5. Q[Page] = Near(f, h, "read", us, es)
  <2>0. \E i \in 1 .. Page : (v + i) % Page = 0
    BY PageEnds
  <2>z. Page > 0
    BY <1>1
  <2>1. Ready(Page)
    BY <2>0, <2>z, Zenon
  <2> QED
    BY <1>1, <2>1
<1> HIDE DEF Q
<1>6. Leads(Q[0], ws, Q[Page])
  BY <1>1, <1>2, <1>3, LeadsSteps
<1> QED
  BY <1>4, <1>5, <1>6

(* A page is programmed, twice; a chip with words takes one word of it. *)
LEMMA PageLeads ==
    ASSUME NEW f \in FlashType, f.width = opt.width, f.kind # "micron", NEW us, NEW es,
           NEW k, PageData(k) \in Seq(WritesTo(f.width, 0)), NEW v \in Int, v = WordAddr(k),
           \A i \in 1 .. Page : v + i - 1 \in us
    PROVE  Leads(Near(f, 0, "read", us, es), PageWrites(k), Near(f, 0, "read", us, es))
<1> DEFINE P == Near(f, 0, "read", us, es)
           Q1 == Near(f, 0, "setup", us, es)
           Q2 == Near(f, 0, "erase", us, es)
           m == IF f.kind = "page" THEN "load" ELSE "read"
           Q3 == Near(f, 0, m, us, es)
           Q4 == Near(f, 0, "program", us, es)
           w == Command(AddrOdd(opt.width, 0), "20")
           ws == PageData(k)
<1>1. /\ w \in WritesTo(f.width, 0) /\ w.cmd = "20" /\ At(f, w) = "odd" /\ 0 \in {0, 1}
      /\ 0 \in Halves(opt.width) /\ w \in Writes
  BY Addressed DEF WritesTo, Codes, Halves
<1>2. /\ P \in SUBSET FlashType /\ Q1 \in SUBSET FlashType /\ Q2 \in SUBSET FlashType
      /\ Q3 \in SUBSET FlashType /\ Q4 \in SUBSET FlashType
  BY DEF Near
<1>3. Request(0, "20") = Unlock(0) \o <<w>>
  BY DEF Request
<1>4. /\ Len(ws) = Page
      /\ \A i \in 1 .. Page : ws[i].cmd = "data" /\ ws[i].unit = v + i - 1 /\ v + i - 1 \in us
  BY FlashAssumption DEF PageData, Data
<1> HIDE DEF w, ws
<1>5. Leads(P, Request(0, "80"), Q1) /\ Leads(Q1, Unlock(0), Q2)
  BY <1>1, SetupLeads
<1>6. Leads(Q2, <<w>>, Q3)
  <2>1. CASE f.kind = "page"
    <3>1. ASSUME NEW g \in Q2 PROVE AfterWrite(g, w) \subseteq Q3
      <4>1. /\ g \in FlashType /\ g.kind = "page" /\ g.mode[0] = "erase"
            /\ HalfOf(g.width, w.unit) = 0
        BY <1>1, <2>1, <3>1 DEF Near, WritesTo
      <4>2. AfterWrite(g, w) = {[g EXCEPT !.mode[0] = "load"]}
        BY <1>1, <4>1 DEF AfterWrite, AmdWrite, Busy
      <4>3. "load" \in Modes
        BY DEF Modes
      <4> DEFINE j == [g EXCEPT !.mode[0] = "load"]  ns == {}  n == "load"  o == "erase"
      <4>4. j \in Near(g, 0, n, ns, ns) /\ ns \subseteq us /\ ns \subseteq es
            /\ g \in Near(f, 0, o, us, es)
        BY <3>1, <4>1, <4>3, SetModeNear
      <4>5. j \in Near(f, 0, n, us, es)
        <5> HIDE DEF j, ns, n, o
        <5> QED
          BY <1>1, <4>1, <4>4, NearAgain
      <4> QED
        BY <2>1, <4>2, <4>5
    <3> HIDE DEF Q2, Q3
    <3> QED
      BY <1>1, <1>2, <3>1, LeadsOne
  <2>2. CASE f.kind # "page"
    <3>1. ASSUME NEW g \in Q2 PROVE AfterWrite(g, w) \subseteq Q3
      <4>1. /\ g \in FlashType /\ g.kind \notin {"page", "micron"} /\ g.mode[0] = "erase"
            /\ HalfOf(g.width, w.unit) = 0
        BY <1>1, <2>2, <3>1 DEF Near, WritesTo
      <4>2. NextMode("erase", w.cmd, At(g, w)) = "read"
        BY <1>1 DEF NextMode
      <4>3. AfterWrite(g, w) = {[g EXCEPT !.mode[0] = "read"]}
        BY <1>1, <4>1, <4>2 DEF AfterWrite, AmdWrite, Busy
      <4>4. "read" \in Modes
        BY DEF Modes
      <4> DEFINE j == [g EXCEPT !.mode[0] = "read"]  ns == {}  n == "read"  o == "erase"
      <4>5. j \in Near(g, 0, n, ns, ns) /\ ns \subseteq us /\ ns \subseteq es
            /\ g \in Near(f, 0, o, us, es)
        BY <3>1, <4>1, <4>4, SetModeNear
      <4>6. j \in Near(f, 0, n, us, es)
        <5> HIDE DEF j, ns, n, o
        <5> QED
          BY <1>1, <4>1, <4>5, NearAgain
      <4> QED
        BY <2>2, <4>3, <4>6
    <3> HIDE DEF Q2, Q3
    <3> QED
      BY <1>1, <1>2, <3>1, LeadsOne
  <2> QED
    BY <2>1, <2>2
<1>7. Leads(P, Request(0, "A0"), Q4)
  <2> DEFINE c == "A0"  n == "program"  o == "read"
  <2>1. c \in Codes /\ n = NextMode("unlocked", c, "odd") /\ o \in {"read", "id"}
    BY DEF Codes, NextMode
  <2> HIDE DEF c, n, o
  <2>2. Leads(Near(f, 0, o, us, es), Request(0, c), Near(f, 0, n, us, es))
    BY <1>1, <2>1, RequestLeads
  <2> QED
    BY <2>2 DEF c, n, o
<1>8. Leads(Q3, ws, P)
  <2>0. (f.kind = "page" => m = "load") /\ (f.kind # "page" => m = "read")
    OBVIOUS
  <2> HIDE DEF m
  <2>1. \/ f.kind = "page" /\ m \in {"program", "load"}
        \/ f.kind # "page" /\ m \in {"program", "read"}
    BY <2>0
  <2>2. ws \in Seq(WritesTo(f.width, 0))
    BY DEF ws
  <2> QED
    BY <1>1, <1>4, <2>1, <2>2, LoadLeads
<1>9. Leads(Q4, ws, P)
  <2> DEFINE o == "program"
  <2>1. \/ f.kind = "page" /\ o \in {"program", "load"}
        \/ f.kind # "page" /\ o \in {"program", "read"}
    OBVIOUS
  <2>2. ws \in Seq(WritesTo(f.width, 0))
    BY DEF ws
  <2> HIDE DEF o
  <2>3. Leads(Near(f, 0, o, us, es), ws, P)
    BY <1>1, <1>4, <2>1, <2>2, LoadLeads
  <2> QED
    BY <2>3 DEF o
<1> HIDE DEF P, Q1, Q2, Q3, Q4
<1>10. Leads(Q1, Request(0, "20"), Q3)
  BY <1>2, <1>3, <1>5, <1>6, LeadsThen
<1>11. Leads(P, Request(0, "80") \o Request(0, "20"), Q3)
  BY <1>2, <1>5, <1>10, LeadsThen
<1>12. Leads(P, Request(0, "80") \o Request(0, "20") \o ws, P)
  BY <1>2, <1>8, <1>11, LeadsThen
<1>13. Leads(P, Request(0, "80") \o Request(0, "20") \o ws \o Request(0, "A0"), Q4)
  BY <1>2, <1>7, <1>12, LeadsThen
<1>14. Leads(P, Request(0, "80") \o Request(0, "20") \o ws \o Request(0, "A0") \o ws, P)
  BY <1>2, <1>9, <1>13, LeadsThen
<1> QED
  BY <1>14 DEF P, ws, PageWrites

-----------------------------------------------------------------------------
(* The commands of Micron. *)
MicronNext(m, c) ==
    CASE m = "count" -> "buffer"
      [] m = "buffer" -> IF c = "D0" THEN "programming" ELSE "status"
      [] OTHER -> CASE c = "20" -> "block erase" [] c = "E8" -> "count" [] c = "70" -> "status"
                    [] c = "90" -> "id" [] c = "FF" -> "read" [] OTHER -> m

LEMMA MicronMoves ==
    ASSUME NEW f \in FlashType, NEW h \in {0, 1}, NEW us, NEW es, f.kind = "micron",
           NEW m \in {"read", "status", "id", "count", "buffer"},
           NEW w \in WritesTo(f.width, h), m = "buffer" => w.cmd # "data",
           NEW n, n = MicronNext(m, w.cmd)
    PROVE  Leads(Near(f, h, m, us, es), <<w>>, Near(f, h, n, us, es))
<1>1. SUFFICES ASSUME NEW g \in Near(f, h, m, us, es)
               PROVE  AfterWrite(g, w) \subseteq Near(f, h, n, us, es)
  <2>1. Near(f, h, m, us, es) \in SUBSET FlashType /\ w \in Writes
    BY DEF Near, WritesTo
  <2> QED
    BY <2>1, LeadsOne
<1>2. /\ g \in FlashType /\ g.kind = "micron" /\ g.mode[h] = m /\ HalfOf(g.width, w.unit) = h
  BY DEF Near, WritesTo
<1>3. m \in Modes /\ m \notin Busy /\ n \in Modes
  BY DEF Modes, Busy, MicronNext
<1>4. AfterWrite(g, w) = MicronWrite(g, h, w)
  BY <1>2, <1>3 DEF AfterWrite
<1>5. [g EXCEPT !.mode[h] = m] = g
  BY <1>2 DEF FlashType
<1>6. MicronWrite(g, h, w) = {[g EXCEPT !.mode[h] = n]}
  <2>1. CASE m \in {"count", "buffer"}
    BY <1>2, <2>1 DEF MicronWrite, MicronNext
  <2>2. CASE m \notin {"count", "buffer"}
    BY <1>2, <1>5, <2>2 DEF MicronWrite, MicronNext
  <2> QED
    BY <2>1, <2>2
<1>7. [g EXCEPT !.mode[h] = n] \in Near(g, h, n, {}, {})
  BY <1>2, <1>3, SetModeNear
<1>8. [g EXCEPT !.mode[h] = n] \in Near(f, h, n, us, es)
  <2>1. {} \subseteq us /\ {} \subseteq es
    OBVIOUS
  <2> QED
    BY <1>7, <2>1, NearAgain
<1> QED
  BY <1>4, <1>6, <1>8

(* The first code of an erase, which the second confirms. *)
LEMMA MicronEraseLeads ==
    ASSUME NEW f \in FlashType, NEW us, NEW es, f.kind = "micron", HalfOf(f.width, 0) = 0,
           NEW u \in Int, HalfOf(f.width, u) = 0, SectorOf(u) \subseteq es, NEW m \in {"read", "status"}
    PROVE  Leads(Near(f, 0, m, us, es), <<Command(u, "20"), Command(u, "D0")>>,
                 Near(f, 0, "erasing", us, es))
<1> DEFINE P == Near(f, 0, m, us, es)
           Q == Near(f, 0, "block erase", us, es)
           R == Near(f, 0, "erasing", us, es)
           a == Command(u, "20")
           w == Command(u, "D0")
<1>1. /\ w \in WritesTo(f.width, 0) /\ w.cmd = "D0" /\ w.unit = u /\ w \in Writes
      /\ a \in WritesTo(f.width, 0) /\ a.cmd = "20" /\ 0 \in {0, 1}
      /\ P \in SUBSET FlashType /\ Q \in SUBSET FlashType
  <2>1. /\ w \in Writes /\ w.cmd = "D0" /\ w.unit = u
        /\ a \in Writes /\ a.cmd = "20" /\ a.unit = u
    BY CommandIsWrite DEF Codes
  <2> HIDE DEF w, a
  <2> QED
    BY <2>1 DEF WritesTo, Near
<1>2. <<Command(u, "20"), Command(u, "D0")>> = <<a>> \o <<w>>
  OBVIOUS
<1> HIDE DEF a, w
<1>3. Leads(P, <<a>>, Q)
  <2> DEFINE n == "block erase"
  <2>1. n = MicronNext(m, a.cmd) /\ m \in {"read", "status", "id", "count", "buffer"} /\ m # "buffer"
    BY <1>1 DEF MicronNext
  <2> HIDE DEF n
  <2>2. Leads(P, <<a>>, Near(f, 0, n, us, es))
    BY <1>1, <2>1, MicronMoves, ZenonT(60)
  <2> QED
    BY <2>2 DEF n
<1>4. ASSUME NEW g \in Q PROVE AfterWrite(g, w) \subseteq R
  <2>1. /\ g \in FlashType /\ g.kind = "micron" /\ g.mode[0] = "block erase"
        /\ HalfOf(g.width, w.unit) = 0
    BY <1>1, <1>4 DEF Near, WritesTo
  <2>2. AfterWrite(g, w) = {EraseUnits(g, 0, SectorOf(u))}
    BY <1>1, <2>1 DEF AfterWrite, MicronWrite, Busy
  <2> DEFINE j == EraseUnits(g, 0, SectorOf(u))  ns == {}  n == "erasing"  o == "block erase"
             fs == SectorOf(u) \cap InHalf(g, 0)
  <2>3. j \in Near(g, 0, n, ns, fs) /\ ns \subseteq us /\ fs \subseteq es
        /\ g \in Near(f, 0, o, us, es)
    BY <1>4, <2>1, EraseUnitsNear
  <2>4. j \in Near(f, 0, n, us, es)
    <3> HIDE DEF j, ns, fs, n, o
    <3> QED
      BY <1>1, <2>1, <2>3, NearAgain, ZenonT(60)
  <2> QED
    BY <2>2, <2>4
<1> HIDE DEF P, Q, R
<1>5. Leads(Q, <<w>>, R)
  BY <1>1, <1>4, LeadsOne
<1>6. Leads(P, <<a>> \o <<w>>, R)
  BY <1>1, <1>3, <1>5, LeadsThen
<1> QED
  BY <1>2, <1>6 DEF P, R

(* One code that only changes the mode. *)
LEMMA MicronCode ==
    ASSUME NEW f \in FlashType, NEW us, NEW es, f.kind = "micron",
           NEW m \in {"read", "status", "id", "count"}, NEW u \in Int, HalfOf(f.width, u) = 0,
           NEW c \in Codes, NEW n, n = MicronNext(m, c)
    PROVE  Leads(Near(f, 0, m, us, es), <<Command(u, c)>>, Near(f, 0, n, us, es))
<1> DEFINE w == Command(u, c)
<1>1. w \in WritesTo(f.width, 0) /\ w.cmd = c /\ 0 \in {0, 1}
  BY CommandIsWrite DEF WritesTo
<1>2. m \in {"read", "status", "id", "count", "buffer"} /\ m # "buffer"
  OBVIOUS
<1> HIDE DEF w
<1>3. Leads(Near(f, 0, m, us, es), <<w>>, Near(f, 0, n, us, es))
  BY <1>1, <1>2, MicronMoves
<1> QED
  BY <1>3 DEF w

(* The codes of a sequence that lead from a set of chips to itself. *)
LEMMA LeadsAll ==
    ASSUME NEW P \in SUBSET FlashType, NEW n \in Nat, NEW ws \in Seq(Writes), Len(ws) = n,
           \A k \in 1 .. n : Leads(P, <<ws[k]>>, P)
    PROVE  Leads(P, ws, P)
<1> DEFINE Q == [k \in 0 .. n |-> P]
<1>1. Q \in [0 .. n -> SUBSET FlashType] /\ Q[0] = P /\ Q[n] = P
      /\ \A k \in 1 .. n : Leads(Q[k - 1], <<ws[k]>>, Q[k])
  <2>1. \A k \in 1 .. n : k \in 0 .. n /\ k - 1 \in 0 .. n
    OBVIOUS
  <2>2. 0 \in 0 .. n /\ n \in 0 .. n
    OBVIOUS
  <2> QED
    BY <2>1, <2>2
<1> HIDE DEF Q
<1>2. Leads(Q[0], ws, Q[n])
  BY <1>1, LeadsSteps
<1> QED
  BY <1>1, <1>2

(* A buffer is filled and programmed. *)
LEMMA BufferLeads ==
    ASSUME NEW f \in FlashType, NEW us, NEW es, f.kind = "micron", HalfOf(f.width, 0) = 0,
           NEW m \in {"read", "status"}, NEW u \in Int, HalfOf(f.width, u) = 0,
           NEW ws \in Seq(WritesTo(f.width, 0)),
           \A k \in 1 .. Len(ws) : ws[k].cmd = "data" /\ ws[k].unit \in us
    PROVE  Leads(Near(f, 0, m, us, es),
                 <<Command(u, "E8"), Command(u, "count")>> \o ws \o <<Command(u, "D0")>>,
                 Near(f, 0, "programming", us, es))
<1> DEFINE P == Near(f, 0, m, us, es)
           Q == Near(f, 0, "count", us, es)
           R == Near(f, 0, "buffer", us, es)
           S == Near(f, 0, "programming", us, es)
           a == Command(u, "E8")
           b == Command(u, "count")
           c == Command(u, "D0")
<1>1. P \in SUBSET FlashType /\ Q \in SUBSET FlashType /\ R \in SUBSET FlashType /\ 0 \in {0, 1}
  BY DEF Near
<1>2. Leads(P, <<a>>, Q)
  <2>1. /\ m \in {"read", "status", "id", "count"} /\ "E8" \in Codes
        /\ "count" = MicronNext(m, "E8")
    BY DEF MicronNext, Codes
  <2> DEFINE e == "E8"  n == "count"
  <2> HIDE DEF e, n
  <2>2. Leads(P, <<Command(u, e)>>, Near(f, 0, n, us, es))
    BY <2>1, MicronCode DEF e, n
  <2> QED
    BY <2>2 DEF e, n
<1>3. Leads(Q, <<b>>, R)
  <2> DEFINE e == "count"  n == "buffer"
  <2>1. /\ e \in {"read", "status", "id", "count"} /\ e \in Codes /\ n = MicronNext(e, e)
    BY DEF MicronNext, Codes
  <2> HIDE DEF e, n
  <2>2. Leads(Near(f, 0, e, us, es), <<Command(u, e)>>, Near(f, 0, n, us, es))
    BY <2>1, MicronCode
  <2> QED
    BY <2>2 DEF e, n
<1>4. ASSUME NEW w \in WritesTo(f.width, 0), w.cmd = "data", w.unit \in us
      PROVE  Leads(R, <<w>>, R)
  <2>1. ASSUME NEW g \in R PROVE AfterWrite(g, w) \subseteq R
    <3>1. /\ g \in FlashType /\ g.kind = "micron" /\ g.mode[0] = "buffer"
          /\ HalfOf(g.width, w.unit) = 0 /\ w \in Writes
      BY <1>4, <2>1 DEF Near, WritesTo
    <3>2. AfterWrite(g, w) = {[g EXCEPT !.mem[w.unit] = @ \cap w.data]}
      BY <1>4, <3>1 DEF AfterWrite, MicronWrite, Busy
    <3> QED
      BY <1>4, <2>1, <3>1, <3>2, SMTT(60) DEF Near, FlashType
  <2>2. w \in Writes
    BY DEF WritesTo
  <2> HIDE DEF R
  <2> QED
    BY <1>1, <2>1, <2>2, LeadsOne
<1>5. Leads(R, ws, R)
  <2>1. ws \in Seq(Writes) /\ Len(ws) \in Nat
    BY DEF WritesTo
  <2>2. ASSUME NEW k \in 1 .. Len(ws) PROVE Leads(R, <<ws[k]>>, R)
    <3>1. ws[k] \in WritesTo(f.width, 0)
      OBVIOUS
    <3> HIDE DEF R
    <3> QED
      BY <1>4, <3>1
  <2> HIDE DEF R
  <2> QED
    BY <1>1, <2>1, <2>2, LeadsAll
<1>6. Leads(R, <<c>>, S)
  <2>1. /\ c \in WritesTo(f.width, 0) /\ c.cmd = "D0" /\ c.cmd # "data"
    BY CommandIsWrite DEF WritesTo, Codes
  <2> DEFINE n == "programming"  o == "buffer"
  <2>2. n = MicronNext(o, c.cmd) /\ o \in {"read", "status", "id", "count", "buffer"}
    BY <2>1 DEF MicronNext
  <2> HIDE DEF c, n, o
  <2>3. Leads(Near(f, 0, o, us, es), <<c>>, Near(f, 0, n, us, es))
    BY <1>1, <2>1, <2>2, MicronMoves
  <2> QED
    BY <2>3 DEF n, o
<1>7. <<Command(u, "E8"), Command(u, "count")>> = <<a>> \o <<b>>
  OBVIOUS
<1> HIDE DEF P, Q, R, S, a, b
<1>8. Leads(P, <<a>> \o <<b>>, R)
  BY <1>1, <1>2, <1>3, LeadsThen
<1>9. Leads(P, <<a>> \o <<b>> \o ws, R)
  BY <1>1, <1>5, <1>8, LeadsThen
<1>10. Leads(P, <<a>> \o <<b>> \o ws \o <<c>>, S)
  BY <1>1, <1>6, <1>9, LeadsThen
<1> QED
  BY <1>7, <1>10 DEF P, S

(* The AMD unlock means nothing to a Micron chip. *)
LEMMA MicronRequest ==
    ASSUME NEW f \in FlashType, f.width = opt.width, opt.width = 32, NEW us, NEW es,
           f.kind = "micron", NEW m \in {"read", "status", "id"},
           NEW c \in Codes, NEW n, n = MicronNext(m, c)
    PROVE  Leads(Near(f, 0, m, us, es), Request(0, c), Near(f, 0, n, us, es))
<1> DEFINE P == Near(f, 0, m, us, es)
           Q == Near(f, 0, n, us, es)
           a == Command(AddrOdd(opt.width, 0), "AA")
           b == Command(AddrEven(opt.width, 0), "55")
           k == Command(AddrOdd(opt.width, 0), c)
<1>1. /\ "AA" \in Codes /\ m = MicronNext(m, "AA") /\ "55" \in Codes /\ m = MicronNext(m, "55")
      /\ m \in {"read", "status", "id", "count"} /\ P \in SUBSET FlashType
  BY DEF Codes, MicronNext, Near
<1>2. /\ AddrOdd(opt.width, 0) \in Int /\ HalfOf(f.width, AddrOdd(opt.width, 0)) = 0
      /\ AddrEven(opt.width, 0) \in Int /\ HalfOf(f.width, AddrEven(opt.width, 0)) = 0
  BY FlashAssumption DEF AddrOdd, AddrEven, HalfOf
<1>3. Request(0, c) = <<a>> \o <<b>> \o <<k>>
  BY DEF Request, Unlock
<1>4. Leads(P, <<a>>, P)
  BY <1>1, <1>2, MicronCode
<1>5. Leads(P, <<b>>, P)
  BY <1>1, <1>2, MicronCode
<1>6. Leads(P, <<k>>, Q)
  BY <1>1, <1>2, MicronCode
<1> HIDE DEF P, Q, a, b, k
<1>7. Leads(P, <<a>> \o <<b>>, P)
  BY <1>1, <1>4, <1>5, LeadsThen
<1>8. Leads(P, <<a>> \o <<b>> \o <<k>>, Q)
  BY <1>1, <1>6, <1>7, LeadsThen
<1> QED
  BY <1>3, <1>8 DEF P, Q

(* Nor do the rewrites, which mcprog tries all the same. *)
LEMMA MicronProgram ==
    ASSUME NEW f \in FlashType, f.width = opt.width, opt.width = 32, NEW us, NEW es,
           f.kind = "micron", NEW m \in {"read", "status"}, NEW u \in Int, NEW d \in SUBSET Bits
    PROVE  Leads(Near(f, 0, m, us, es), Program(0, u, d), Near(f, 0, m, us, es))
<1> DEFINE P == Near(f, 0, m, us, es)
           w == Data(u, d)
<1>1. /\ "A0" \in Codes /\ m = MicronNext(m, "A0") /\ m = MicronNext(m, "data")
      /\ m \in {"read", "status", "id"} /\ P \in SUBSET FlashType
  BY DEF Codes, MicronNext, Near
<1>2. w \in WritesTo(f.width, 0) /\ w.cmd = "data" /\ 0 \in {0, 1} /\ m # "buffer"
      /\ m \in {"read", "status", "id", "count", "buffer"}
  BY DataIsWrite DEF WritesTo, HalfOf
<1>3. Leads(P, Request(0, "A0"), P)
  BY <1>1, MicronRequest
<1> HIDE DEF w
<1>4. Leads(P, <<w>>, P)
  BY <1>1, <1>2, MicronMoves
<1> HIDE DEF P
<1>5. Leads(P, Request(0, "A0") \o <<w>>, P)
  BY <1>1, <1>3, <1>4, LeadsThen
<1> QED
  BY <1>5 DEF P, w, Program

LEMMA MicronDetectLeads ==
    ASSUME NEW f \in FlashType, f.width = opt.width, opt.width = 32, NEW us, NEW es,
           f.kind = "micron", opt.kind = "micron", NEW m \in {"read", "status"}, NEW n \in Int
    PROVE  Leads(Near(f, 0, m, us, es), DetectWrites(n), Near(f, 0, "read", us, es))
<1> DEFINE P == Near(f, 0, m, us, es)
           Q == Near(f, 0, "id", us, es)
           R == Near(f, 0, "read", us, es)
           w == Command(0, "F0")
           e == Command(0, "FF")
           reset == IF opt.width = 8 \/ n >= 4 THEN Request(0, "F0") ELSE <<w>>
<1>1. P \in SUBSET FlashType /\ Q \in SUBSET FlashType /\ HalfOf(f.width, 0) = 0
  BY DEF Near, HalfOf
<1>2. DetectWrites(n) = Request(0, "90") \o reset \o <<e>>
  BY DEF DetectWrites
<1>3. Leads(P, Request(0, "90"), Q)
  <2> DEFINE c == "90"  k == "id"
  <2>1. c \in Codes /\ k = MicronNext(m, c) /\ m \in {"read", "status", "id"}
    BY DEF Codes, MicronNext
  <2> HIDE DEF c, k
  <2>2. Leads(Near(f, 0, m, us, es), Request(0, c), Near(f, 0, k, us, es))
    BY <2>1, MicronRequest
  <2> QED
    BY <2>2 DEF c, k
<1>4. Leads(Q, Request(0, "F0"), Q) /\ Leads(Q, <<w>>, Q)
  <2> DEFINE c == "F0"  k == "id"
  <2>1. c \in Codes /\ k = MicronNext(k, c) /\ k \in {"read", "status", "id"} /\ 0 \in Int
        /\ k \in {"read", "status", "id", "count"}
    BY DEF Codes, MicronNext
  <2> HIDE DEF c, k
  <2>2. Leads(Near(f, 0, k, us, es), Request(0, c), Near(f, 0, k, us, es))
    BY <2>1, MicronRequest
  <2>3. Leads(Near(f, 0, k, us, es), <<Command(0, c)>>, Near(f, 0, k, us, es))
    BY <1>1, <2>1, MicronCode
  <2> QED
    BY <2>2, <2>3 DEF c, k
<1>5. Leads(Q, <<e>>, R)
  <2> DEFINE c == "FF"  k == "id"  o == "read"
  <2>1. c \in Codes /\ o = MicronNext(k, c) /\ k \in {"read", "status", "id", "count"} /\ 0 \in Int
    BY DEF Codes, MicronNext
  <2> HIDE DEF c, k, o
  <2>2. Leads(Near(f, 0, k, us, es), <<Command(0, c)>>, Near(f, 0, o, us, es))
    BY <1>1, <2>1, MicronCode
  <2> QED
    BY <2>2 DEF c, k, o
<1> HIDE DEF P, Q, R, w, e
<1>6. Leads(Q, reset, Q)
  BY <1>4
<1> HIDE DEF reset
<1>7. Leads(P, Request(0, "90") \o reset, Q)
  BY <1>1, <1>3, <1>6, LeadsThen
<1>8. Leads(P, Request(0, "90") \o reset \o <<e>>, R)
  BY <1>1, <1>5, <1>7, LeadsThen
<1> QED
  BY <1>2, <1>8 DEF P, R

(* FF makes a chip ready to be read again. *)
LEMMA MicronReadLeads ==
    ASSUME NEW f \in FlashType, f.width = 32, NEW us, NEW es, f.kind = "micron", NEW u \in Int
    PROVE  /\ Leads(Near(f, 0, "status", us, es), <<Command(u, "FF")>>, Near(f, 0, "read", us, es))
           /\ Leads(Near(f, 0, "status", us, es), <<Command(u, "70"), Command(u, "FF")>>,
                    Near(f, 0, "read", us, es))
<1> DEFINE P == Near(f, 0, "status", us, es)
           R == Near(f, 0, "read", us, es)
           a == Command(u, "70")
           e == Command(u, "FF")
<1>1. P \in SUBSET FlashType /\ HalfOf(f.width, u) = 0
  BY DEF Near, HalfOf
<1>2. Leads(P, <<a>>, P)
  <2> DEFINE c == "70"  k == "status"
  <2>1. c \in Codes /\ k = MicronNext(k, c) /\ k \in {"read", "status", "id", "count"}
    BY DEF Codes, MicronNext
  <2> HIDE DEF c, k
  <2>2. Leads(Near(f, 0, k, us, es), <<Command(u, c)>>, Near(f, 0, k, us, es))
    BY <1>1, <2>1, MicronCode
  <2> QED
    BY <2>2 DEF c, k
<1>3. Leads(P, <<e>>, R)
  <2> DEFINE c == "FF"  k == "status"  o == "read"
  <2>1. c \in Codes /\ o = MicronNext(k, c) /\ k \in {"read", "status", "id", "count"}
    BY DEF Codes, MicronNext
  <2> HIDE DEF c, k, o
  <2>2. Leads(Near(f, 0, k, us, es), <<Command(u, c)>>, Near(f, 0, o, us, es))
    BY <1>1, <2>1, MicronCode
  <2> QED
    BY <2>2 DEF c, k, o
<1>4. <<Command(u, "70"), Command(u, "FF")>> = <<a>> \o <<e>>
  OBVIOUS
<1> HIDE DEF P, R, a, e
<1>5. Leads(P, <<a>> \o <<e>>, R)
  BY <1>1, <1>2, <1>3, LeadsThen
<1> QED
  BY <1>3, <1>4, <1>5 DEF P, R, e

-----------------------------------------------------------------------------
(* The sequences that are put together of one or two parts. *)
LEMMA FlattenOne ==
    ASSUME NEW q, Len(q) = 1 PROVE FlattenSeq(q) = q[1]
<1> DEFINE Eq(g) == g = [i \in 1 .. Len(q) |-> IF i = 1 THEN q[i] ELSE g[i - 1] \o q[i]]
           h == [i \in 1 .. 1 |-> q[1]]
           fl == CHOOSE g : Eq(g)
<1>1. Eq(h)
  OBVIOUS
<1>2. Eq(fl)
  <2> HIDE DEF Eq, h
  <2> QED
    BY <1>1
<1>3. FlattenSeq(q) = fl[1]
  BY DEF FlattenSeq
<1> HIDE DEF fl
<1>4. fl[1] = q[1]
  BY <1>2
<1> QED
  BY <1>3, <1>4

LEMMA FlattenTwo ==
    ASSUME NEW q, Len(q) = 2 PROVE FlattenSeq(q) = q[1] \o q[2]
<1> DEFINE Eq(g) == g = [i \in 1 .. Len(q) |-> IF i = 1 THEN q[i] ELSE g[i - 1] \o q[i]]
           h == [i \in 1 .. 2 |-> IF i = 1 THEN q[1] ELSE q[1] \o q[2]]
           fl == CHOOSE g : Eq(g)
<1>1. Eq(h)
  <2> DEFINE k == [i \in 1 .. Len(q) |-> IF i = 1 THEN q[i] ELSE h[i - 1] \o q[i]]
  <2>1. h[1] = q[1]
    OBVIOUS
  <2>2. \A i \in 1 .. 2 : h[i] = k[i]
    <3>1. \A i \in 1 .. 2 : i = 1 \/ i = 2
      OBVIOUS
    <3> QED
      BY <2>1, <3>1
  <2> QED
    BY <2>2
<1>2. Eq(fl)
  <2> HIDE DEF Eq, h
  <2> QED
    BY <1>1
<1>3. FlattenSeq(q) = fl[2]
  BY DEF FlattenSeq
<1> HIDE DEF fl
<1>4. fl[1] = q[1]
  BY <1>2
<1>5. fl[2] = fl[1] \o q[2]
  BY <1>2
<1> QED
  BY <1>3, <1>4, <1>5
=============================================================================

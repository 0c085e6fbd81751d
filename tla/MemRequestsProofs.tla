-------------------------- MODULE MemRequestsProofs --------------------------
(***************************************************************************)
(* Memory requests are split correctly, for every address, length and size *)
(* of the memory: the write and the read of the stub are those of bytes.   *)
(*                                                                         *)
(* What rp_getpkt makes of a packet, and that the codecs of gdbproxy.c are *)
(* the inverses of one another, for packets of any length.                 *)
(***************************************************************************)
EXTENDS MemRequests, SequenceTheorems, WellFoundedInduction, TLAPS

-----------------------------------------------------------------------------
(* Induction and recursion, stated about sets and functions. *)

(* A set of numbers that has 0 and each successor has them all. *)
LEMMA Induction ==
    ASSUME NEW S, 0 \in S, \A n \in Nat : n \in S => n + 1 \in S
    PROVE  Nat \subseteq S
<1> DEFINE T == Nat \ S
           R == OpToRel(<, Nat)
<1>1. IsWellFoundedOn(R, Nat)
  BY NatLessThanWellFounded, Zenon DEF R
<1>r. \A x, y \in Nat : x < y => <<x, y>> \in R
  BY DEF OpToRel
<1> HIDE DEF R
<1>2. SUFFICES ASSUME T # {} PROVE FALSE
  OBVIOUS
<1>3. PICK m \in T : \A y \in T : ~(<<y, m>> \in R)
  BY <1>1, <1>2, WFMin
<1>4. m # 0 /\ m \in Nat /\ m - 1 \in Nat /\ m - 1 < m
  BY <1>3
<1>5. m - 1 \in S
  BY <1>3, <1>4, <1>r
<1> QED
  BY <1>3, <1>4, <1>5

(* The same up to a bound. *)
LEMMA BoundedInduction ==
    ASSUME NEW n \in Nat, NEW S, 0 \in S, \A k \in 1 .. n : k - 1 \in S => k \in S
    PROVE  \A k \in 0 .. n : k \in S
<1> DEFINE T == {k \in Nat : k <= n => k \in S}
<1>1. 0 \in T
  OBVIOUS
<1>2. \A k \in Nat : k \in T => k + 1 \in T
  <2> SUFFICES ASSUME NEW k \in Nat, k \in T, k + 1 <= n PROVE k + 1 \in S
    OBVIOUS
  <2>1. k + 1 \in 1 .. n /\ (k + 1) - 1 = k /\ k \in S
    OBVIOUS
  <2> QED
    BY <2>1
<1>3. Nat \subseteq T
  <2> HIDE DEF T
  <2> QED
    BY <1>1, <1>2, Induction
<1> QED
  BY <1>3

(* A recursive function whose step k maps T to itself exists. *)
Recurs(g, F, base, n) ==
    g = [k \in 0 .. n |-> IF k = 0 THEN base ELSE F[k][g[k - 1]]]

LEMMA RecursionExists ==
    ASSUME NEW T, NEW base \in T, NEW n \in Nat, NEW F \in [1 .. n -> [T -> T]]
    PROVE  \E g \in [0 .. n -> T] : Recurs(g, F, base, n)
<1> DEFINE Good(g, k) == g \in [0 .. k -> T] /\ Recurs(g, F, base, k)
           S == {k \in 0 .. n : \E g : Good(g, k)}
<1>1. 0 \in S
  <2>1. Good([k \in 0 .. 0 |-> base], 0) /\ 0 \in 0 .. n
    BY DEF Recurs
  <2> HIDE DEF Good
  <2> QED
    BY <2>1
<1>2. ASSUME NEW k \in 1 .. n, k - 1 \in S
      PROVE  k \in S
  <2>1. PICK g : Good(g, k - 1)
    BY <1>2
  <2> DEFINE h == [j \in 0 .. k |-> IF j = k THEN F[k][g[k - 1]] ELSE g[j]]
  <2>2. h \in [0 .. k -> T]
    BY <2>1
  <2>3. \A j \in 0 .. k : h[j] = IF j = 0 THEN base ELSE F[j][h[j - 1]]
    <3> SUFFICES ASSUME NEW j \in 0 .. k
                 PROVE  h[j] = IF j = 0 THEN base ELSE F[j][h[j - 1]]
      OBVIOUS
    <3>1. CASE j = k
      <4>1. k - 1 \in 0 .. k /\ k - 1 # k /\ j # 0
        BY <3>1
      <4> QED
        BY <3>1, <4>1
    <3>2. CASE j # k
      <4>1. j \in 0 .. k - 1 /\ (j # 0 => j - 1 \in 0 .. k /\ j - 1 # k)
        BY <3>2
      <4>2. g[j] = IF j = 0 THEN base ELSE F[j][g[j - 1]]
        BY <2>1, <4>1 DEF Recurs
      <4> QED
        BY <3>2, <4>1, <4>2
    <3> QED
      BY <3>1, <3>2
  <2>4. Good(h, k)
    <3> HIDE DEF h
    <3>1. h = [j \in 0 .. k |-> h[j]]
      BY <2>2
    <3> QED
      BY <2>2, <2>3, <3>1 DEF Recurs
  <2> HIDE DEF Good
  <2> QED
    BY <2>4
<1>3. n \in S
  <2> HIDE DEF S
  <2>1. \A k \in 0 .. n : k \in S
    BY <1>1, <1>2, BoundedInduction
  <2> QED
    BY <2>1
<1> QED
  BY <1>3

-----------------------------------------------------------------------------
(* The sum of a packet, which wraps. *)
Plus(a, b) == (a + b) % 256

LEMMA SumsWrap == \A a, b \in Byte : Plus(a, b) \in Byte
BY SMT DEF Byte, Plus

LEMMA SumIs ==
    ASSUME NEW s \in Seq(Byte)
    PROVE  \E g \in [0 .. Len(s) -> Byte] :
              /\ Sum(s) = g[Len(s)] /\ g[0] = 0
              /\ \A k \in 1 .. Len(s) : g[k] = Plus(g[k - 1], s[k])
<1> DEFINE Upto[k \in 0 .. Len(s)] == IF k = 0 THEN 0 ELSE (Upto[k - 1] + s[k]) % 256
           F == [k \in 1 .. Len(s) |-> [b \in Byte |-> Plus(b, s[k])]]
<1>0. Len(s) \in Nat /\ Len(s) \in 0 .. Len(s) /\ \A k \in 1 .. Len(s) : s[k] \in Byte
  OBVIOUS
<1>1. Sum(s) = Upto[Len(s)]
  BY DEF Sum
<1>2. F \in [1 .. Len(s) -> [Byte -> Byte]]
  BY <1>0, SumsWrap
<1>3. PICK g \in [0 .. Len(s) -> Byte] : Recurs(g, F, 0, Len(s))
  <2> HIDE DEF F
  <2>1. 0 \in Byte /\ Len(s) \in Nat
    BY DEF Byte
  <2> QED
    BY <1>2, <2>1, RecursionExists
<1>4. g = [k \in 0 .. Len(s) |-> IF k = 0 THEN 0 ELSE Plus(g[k - 1], s[k])]
  <2>1. \A k \in 0 .. Len(s) : k # 0 => k \in 1 .. Len(s) /\ g[k - 1] \in Byte
    OBVIOUS
  <2>2. \A k \in 0 .. Len(s) :
           (IF k = 0 THEN 0 ELSE F[k][g[k - 1]])
              = IF k = 0 THEN 0 ELSE Plus(g[k - 1], s[k])
    BY <2>1
  <2> HIDE DEF F
  <2> QED
    BY <1>3, <2>2 DEF Recurs
<1>5. Upto = [k \in 0 .. Len(s) |-> IF k = 0 THEN 0 ELSE Plus(Upto[k - 1], s[k])]
  BY <1>4, ZenonT(60) DEF Plus
<1>6. \A k \in 0 .. Len(s) : Upto[k] = g[k]
  <2> DEFINE S == {k \in 0 .. Len(s) : Upto[k] = g[k]}
  <2> HIDE DEF Upto, F
  <2>1. 0 \in S
    BY <1>4, <1>5
  <2>2. \A k \in 1 .. Len(s) : k - 1 \in S => k \in S
    BY <1>4, <1>5, SMTT(60)
  <2> HIDE DEF S
  <2>3. \A k \in 0 .. Len(s) : k \in S
    BY <1>0, <2>1, <2>2, BoundedInduction
  <2> QED
    BY <2>3 DEF S
<1> HIDE DEF Upto, F
<1>7. g[0] = 0 /\ \A k \in 1 .. Len(s) : g[k] = Plus(g[k - 1], s[k])
  BY <1>0, <1>4
<1>8. Sum(s) = g[Len(s)]
  BY <1>0, <1>1, <1>6
<1> QED
  BY <1>7, <1>8

-----------------------------------------------------------------------------
(* A character. *)
LEMMA NibbleIs ==
    ASSUME NEW c \in Byte
    PROVE  /\ rp_hex_nibble(c) \in -1 .. 15
           /\ c \in 48 .. 57 \cup 97 .. 102 => IsHex(c)
           /\ IsHex(c) => rp_hex_nibble(c) \in 0 .. 15
BY SMT DEF rp_hex_nibble, IsHex, Byte

LEMMA HexDigit ==
    ASSUME NEW n \in 0 .. 15
    PROVE  /\ HexDigits[n + 1] \in Byte /\ HexDigits[n + 1] \in 48 .. 57 \cup 97 .. 102
           /\ rp_hex_nibble(HexDigits[n + 1]) = n
<1>1. n \in {0, 1, 2, 3, 4, 5, 6, 7, 8, 9, 10, 11, 12, 13, 14, 15}
  OBVIOUS
<1> QED
  BY <1>1, SMT DEF HexDigits, rp_hex_nibble, Byte

LEMMA ByteDigits ==
    ASSUME NEW b \in Byte
    PROVE  /\ b \div 16 \in 0 .. 15 /\ b % 16 \in 0 .. 15
           /\ b = 16 * (b \div 16) + (b % 16)
BY SMT DEF Byte

LEMMA EncodedByte ==
    ASSUME NEW b \in Byte
    PROVE  /\ rp_encode_byte(b) \in Seq(Byte) /\ Len(rp_encode_byte(b)) = 2
           /\ rp_encode_byte(b)[1] = HexDigits[b \div 16 + 1]
           /\ rp_encode_byte(b)[2] = HexDigits[(b % 16) + 1]
BY ByteDigits, HexDigit DEF rp_encode_byte

LEMMA UnescapeTyped == \A c \in Byte : Unescape(c) \in Byte
BY SMT DEF Unescape, Byte



-----------------------------------------------------------------------------
(* The variables of rp_getpkt. *)
Rets == {"none", "packet", "ack", "nak", "ctrlc"}

LEMMA FieldTypes ==
    ASSUME NEW r \in Readers
    PROVE  /\ r.state \in 0 .. 9 /\ r.buf \in Seq(Byte) /\ r.rx \in Byte /\ r.calc \in Byte
           /\ r.seq \in Seq(Byte) /\ r.esc \in BOOLEAN /\ r.ret \in Rets
BY Zenon DEF Readers, Rets

LEMMA SetState == \A r \in Readers, x \in 0 .. 9 : [r EXCEPT !.state = x] \in Readers
BY DEF Readers
LEMMA SetStates ==
    ASSUME NEW r \in Readers
    PROVE  /\ [r EXCEPT !.state = 0] \in Readers /\ [r EXCEPT !.state = 1] \in Readers
           /\ [r EXCEPT !.state = 4] \in Readers /\ [r EXCEPT !.state = 6] \in Readers
           /\ [r EXCEPT !.state = 8] \in Readers /\ [r EXCEPT !.state = 9] \in Readers
<1>1. \A x \in 0 .. 9 : [r EXCEPT !.state = x] \in Readers
  BY SetState
<1> QED
  BY <1>1
LEMMA SetBuf == \A r \in Readers, x \in Seq(Byte) : [r EXCEPT !.buf = x] \in Readers
BY DEF Readers
LEMMA SetRx == \A r \in Readers, x \in Byte : [r EXCEPT !.rx = x] \in Readers
BY DEF Readers
LEMMA SetCalc == \A r \in Readers, x \in Byte : [r EXCEPT !.calc = x] \in Readers
BY DEF Readers
LEMMA SetSeq == \A r \in Readers, x \in Seq(Byte) : [r EXCEPT !.seq = x] \in Readers
BY DEF Readers
LEMMA SetEsc == \A r \in Readers : /\ [r EXCEPT !.esc = TRUE] \in Readers
                                   /\ [r EXCEPT !.esc = FALSE] \in Readers
BY DEF Readers
LEMMA SetRet == \A r \in Readers, x \in Rets : [r EXCEPT !.ret = x] \in Readers
BY DEF Readers, Rets

(* A reader that waits for more. *)
Reading == {r \in Readers : r.ret = "none"}

(* What the properties need to know of it. *)
At(r, st, buf, rx) ==
    r \in Reading /\ r.state = st /\ r.buf = buf /\ r.rx = rx /\ r.seq = <<>>

LEMMA NewIsReading == NewPacket \in Reading /\ NewPacket.state = 0
BY DEF NewPacket, Reading, Readers, Byte

LEMMA StartedAt == \A r \in Readers : At(Started(r), 1, <<>>, 0)
<1> SUFFICES ASSUME NEW r \in Readers PROVE At(Started(r), 1, <<>>, 0)
  OBVIOUS
<1>1. NewPacket \in Readers /\ NewPacket.buf = <<>> /\ NewPacket.rx = 0
      /\ NewPacket.seq = <<>> /\ NewPacket.ret = "none"
  BY NewIsReading DEF NewPacket, Reading
<1> DEFINE p == [NewPacket EXCEPT !.state = 1]
<1>2. p \in Readers
  BY <1>1, SetStates
<1>2a. /\ p.buf = <<>> /\ p.rx = 0 /\ p.seq = <<>> /\ p.ret = "none"
       /\ p.state = 1
  BY <1>1 DEF Readers
<1>3. Started(r) = [p EXCEPT !.esc = r.esc]
  BY Zenon DEF Started
<1>4. r.esc \in {TRUE, FALSE}
  BY FieldTypes, Zenon
<1> HIDE DEF p
<1>5. CASE r.esc = TRUE
  <2> DEFINE q == [p EXCEPT !.esc = TRUE]
  <2>1. Started(r) = q
    BY <1>3, <1>5, Zenon
  <2>2. q \in Readers
    BY <1>2, SetEsc
  <2>3. q.state = 1 /\ q.buf = <<>> /\ q.rx = 0 /\ q.seq = <<>> /\ q.ret = "none"
    BY <1>2, <1>2a DEF Readers
  <2> HIDE DEF q
  <2> QED
    BY <2>1, <2>2, <2>3 DEF At, Reading
<1>6. CASE r.esc = FALSE
  <2> DEFINE q == [p EXCEPT !.esc = FALSE]
  <2>1. Started(r) = q
    BY <1>3, <1>6, Zenon
  <2>2. q \in Readers
    BY <1>2, SetEsc
  <2>3. q.state = 1 /\ q.buf = <<>> /\ q.rx = 0 /\ q.seq = <<>> /\ q.ret = "none"
    BY <1>2, <1>2a DEF Readers
  <2> HIDE DEF q
  <2> QED
    BY <2>1, <2>2, <2>3 DEF At, Reading
<1> QED
  BY <1>4, <1>5, <1>6

StoredFrom(p, r, c, st) ==
    /\ p \in Readers /\ p.state = st
    /\ p.buf = Append(r.buf, c) /\ 1 \in DOMAIN p.buf
    /\ p.rx = Plus(r.rx, c) /\ p.seq = r.seq /\ p.ret = r.ret

LEMMA StoredIs ==
    ASSUME NEW r \in Readers, NEW c \in Byte, NEW st \in 0 .. 9
    PROVE  StoredFrom(Stored(r, c, st), r, c, st)
<1>1. /\ Plus(r.rx, c) \in Byte /\ Append(r.buf, c) \in Seq(Byte)
      /\ 1 \in DOMAIN Append(r.buf, c)
  BY FieldTypes, SumsWrap
<1> DEFINE p == [r EXCEPT !.buf = Append(r.buf, c)]
           q == [p EXCEPT !.rx = Plus(r.rx, c)]
<1>2. p \in Readers /\ p.rx = r.rx
  BY <1>1, SetBuf DEF Readers
<1>3. q \in Readers
  <2> HIDE DEF p
  <2> QED
    BY <1>1, <1>2, SetRx
<1>4. Stored(r, c, st) = [q EXCEPT !.state = st]
  BY DEF Stored, Readers, Plus
<1>5. /\ q.buf = Append(r.buf, c) /\ q.rx = Plus(r.rx, c)
      /\ q.seq = r.seq /\ q.ret = r.ret
  BY DEF Readers
<1> HIDE DEF q
<1>6. [q EXCEPT !.state = st] \in Readers
  BY <1>3, SetState
<1>7. /\ [q EXCEPT !.state = st].state = st /\ [q EXCEPT !.state = st].buf = q.buf
      /\ [q EXCEPT !.state = st].rx = q.rx /\ [q EXCEPT !.state = st].seq = q.seq
      /\ [q EXCEPT !.state = st].ret = q.ret
  BY <1>3 DEF Readers
<1> QED
  BY <1>1, <1>4, <1>5, <1>6, <1>7, Zenon DEF StoredFrom

LEMMA StoredEscape ==
    \A r \in Readers : \A c, st : ~ r.esc => ~ Stored(r, c, st).esc
BY DEF Stored, Readers

LEMMA StoredTyped ==
    ASSUME NEW r \in Readers, NEW c \in Byte, NEW st \in 0 .. 9
    PROVE  Stored(r, c, st) \in Readers /\ 1 \in DOMAIN Stored(r, c, st).buf
BY StoredIs DEF StoredFrom

LEMMA AsHexIs ==
    ASSUME NEW r \in Readers, NEW c \in Byte, NEW d \in Byte
    PROVE  /\ AsHex(r, c, d) \in Readers
           /\ AsHex(r, c, d).buf = r.buf \o rp_encode_byte(c)
           /\ AsHex(r, c, d).rx = Plus(r.rx, d)
           /\ AsHex(r, c, d).state = r.state
           /\ AsHex(r, c, d).seq = r.seq /\ AsHex(r, c, d).ret = r.ret
           /\ ~ r.esc => ~ AsHex(r, c, d).esc
<1>1. Plus(r.rx, d) \in Byte /\ r.buf \o rp_encode_byte(c) \in Seq(Byte)
  BY FieldTypes, SumsWrap, EncodedByte
<1> DEFINE p == [r EXCEPT !.buf = r.buf \o rp_encode_byte(c)]
<1>2. p \in Readers /\ p.rx = r.rx
  BY <1>1, SetBuf DEF Readers
<1>3. AsHex(r, c, d) = [p EXCEPT !.rx = Plus(r.rx, d)]
  BY DEF AsHex, Readers, Plus
<1>4. [p EXCEPT !.rx = Plus(r.rx, d)] \in Readers
  <2> HIDE DEF p
  <2> QED
    BY <1>1, <1>2, SetRx
<1>5. /\ AsHex(r, c, d).buf = r.buf \o rp_encode_byte(c)
      /\ AsHex(r, c, d).rx = Plus(r.rx, d)
      /\ AsHex(r, c, d).state = r.state
      /\ AsHex(r, c, d).seq = r.seq /\ AsHex(r, c, d).ret = r.ret
  BY DEF AsHex, Readers, Plus
<1>6. ~ r.esc => ~ AsHex(r, c, d).esc
  BY DEF AsHex, Readers, Plus
<1> QED
  BY <1>3, <1>4, <1>5, <1>6, Zenon


(* A '#' ends what is summed; every other character is stored as otherwise. *)
LEMMA HashIs ==
    ASSUME NEW r \in Readers
    PROVE  /\ [r EXCEPT !.state = 8] \in Readers /\ [r EXCEPT !.state = 8].state = 8
           /\ [r EXCEPT !.state = 8].buf = r.buf /\ [r EXCEPT !.state = 8].rx = r.rx
           /\ [r EXCEPT !.state = 8].seq = r.seq /\ [r EXCEPT !.state = 8].ret = r.ret
<1>1. [r EXCEPT !.state = 8] \in Readers
  BY SetStates
<1>2. /\ [r EXCEPT !.state = 8].state = 8
      /\ [r EXCEPT !.state = 8].buf = r.buf /\ [r EXCEPT !.state = 8].rx = r.rx
      /\ [r EXCEPT !.state = 8].seq = r.seq /\ [r EXCEPT !.state = 8].ret = r.ret
  BY DEF Readers
<1> QED
  BY <1>1, <1>2

LEMMA WaitingTyped ==
    ASSUME NEW r \in Readers, NEW c \in Byte
    PROVE  Waiting(r, c) \in Readers
BY StartedAt, SetRet DEF Waiting, At, Reading, Rets

LEMMA ThirdCharTyped ==
    ASSUME NEW r \in Readers, NEW c \in Byte
    PROVE  ThirdChar(r, c) \in Readers
<1> DEFINE p == [r EXCEPT !.seq = r.buf]
           q == [p EXCEPT !.buf = <<>>]
<1>1. p \in Readers /\ <<>> \in Seq(Byte)
  BY FieldTypes, SetSeq
<1>2. q \in Readers
  <2> HIDE DEF p
  <2> QED
    BY <1>1, SetBuf
<1>3. [q EXCEPT !.state = 4] \in Readers
  <2> HIDE DEF q
  <2> QED
    BY <1>2, SetStates
<1>4. [r EXCEPT !.seq = r.buf, !.buf = <<>>, !.state = 4] = [q EXCEPT !.state = 4]
  OBVIOUS
<1>5. Stored(r, c, 4) \in Readers
  BY StoredTyped
<1> HIDE DEF q
<1> QED
  BY <1>3, <1>4, <1>5 DEF ThirdChar

(* "X" of a binary write is replaced by "M". *)
LEMMA FourthCharIs ==
    ASSUME NEW r \in Readers, NEW c \in Byte
    PROVE  LET s == Stored(r, c, 5)
               f == FourthChar(r, c)
           IN  /\ f \in Readers
               /\ s.buf[1] # 88 => f = s
               /\ s.buf[1] = 88 =>
                     /\ f.state = 6 /\ ~ f.esc /\ f.buf = [s.buf EXCEPT ![1] = 77]
                     /\ f.rx = s.rx /\ f.seq = s.seq /\ f.ret = s.ret
<1> DEFINE s == Stored(r, c, 5)
           b == [s.buf EXCEPT ![1] = 77]
           p == [s EXCEPT !.buf = b]
           q == [p EXCEPT !.esc = FALSE]
           t == [q EXCEPT !.state = 6]
<1>1. s \in Readers /\ s.buf \in Seq(Byte) /\ 1 \in DOMAIN s.buf
  <2>1. s \in Readers /\ 1 \in DOMAIN s.buf
    <3>1. 5 \in 0 .. 9
      OBVIOUS
    <3> QED
      BY <3>1, StoredTyped, Zenon
  <2> QED
    BY <2>1, FieldTypes, Zenon
<1>2. FourthChar(r, c) = IF s.buf[1] = 88
                         THEN [s EXCEPT !.buf[1] = 77, !.esc = FALSE, !.state = 6] ELSE s
  BY DEF FourthChar
<1> HIDE DEF s
<1>3. [s EXCEPT !.buf[1] = 77, !.esc = FALSE, !.state = 6] = t
  OBVIOUS
<1>4. b \in Seq(Byte)
  BY <1>1 DEF Byte
<1>5. p \in Readers
  <2> HIDE DEF b
  <2> QED
    BY <1>1, <1>4, SetBuf
<1>5a. p.buf = b /\ p.rx = s.rx /\ p.seq = s.seq /\ p.ret = s.ret
  BY <1>1 DEF Readers
<1> HIDE DEF p
<1>6. q \in Readers
  BY <1>5, SetEsc
<1>6a. ~ q.esc /\ q.buf = b /\ q.rx = s.rx /\ q.seq = s.seq /\ q.ret = s.ret
  BY <1>5, <1>5a DEF Readers
<1> HIDE DEF q
<1>7. t \in Readers
  BY <1>6, SetStates
<1>7a. /\ t.state = 6 /\ ~ t.esc /\ t.buf = b /\ t.rx = s.rx /\ t.seq = s.seq
       /\ t.ret = s.ret
  BY <1>6, <1>6a DEF Readers
<1> HIDE DEF t
<1> QED
  BY <1>1, <1>2, <1>3, <1>7, <1>7a, Zenon DEF s

EscapeFrom(e, r, c) ==
    /\ e \in Readers /\ e.esc /\ e.rx = Plus(r.rx, c)
    /\ e.state = r.state /\ e.buf = r.buf /\ e.seq = r.seq /\ e.ret = r.ret

LEMMA EscapeStarts ==
    ASSUME NEW r \in Readers, NEW c \in Byte
    PROVE  EscapeFrom([r EXCEPT !.rx = (@ + c) % 256, !.esc = TRUE], r, c)
<1> DEFINE p == [r EXCEPT !.rx = Plus(r.rx, c)]
           e == [p EXCEPT !.esc = TRUE]
<1>1. p \in Readers
  BY FieldTypes, SumsWrap, SetRx
<1>2. /\ p.rx = Plus(r.rx, c) /\ p.state = r.state /\ p.buf = r.buf /\ p.seq = r.seq
      /\ p.ret = r.ret
  BY DEF Readers
<1>3. [r EXCEPT !.rx = (@ + c) % 256, !.esc = TRUE] = e
  BY DEF Plus
<1> HIDE DEF p
<1>4. e \in Readers
  BY <1>1, SetEsc
<1>5. /\ e.esc /\ e.rx = Plus(r.rx, c) /\ e.state = r.state /\ e.buf = r.buf
      /\ e.seq = r.seq /\ e.ret = r.ret
  BY <1>1, <1>2 DEF Readers
<1> QED
  BY <1>3, <1>4, <1>5, Zenon DEF EscapeFrom

LEMMA EscapeEnds ==
    ASSUME NEW r \in Readers, NEW c \in Byte
    PROVE  LET e == [AsHex(r, Unescape(c), c) EXCEPT !.esc = FALSE]
           IN  /\ e \in Readers /\ ~ e.esc /\ e.rx = Plus(r.rx, c)
               /\ e.state = r.state /\ e.buf = r.buf \o rp_encode_byte(Unescape(c))
               /\ e.seq = r.seq /\ e.ret = r.ret
<1> DEFINE p == AsHex(r, Unescape(c), c)
           e == [p EXCEPT !.esc = FALSE]
<1>1. /\ p \in Readers /\ p.rx = Plus(r.rx, c) /\ p.state = r.state
      /\ p.buf = r.buf \o rp_encode_byte(Unescape(c)) /\ p.seq = r.seq /\ p.ret = r.ret
  BY AsHexIs, UnescapeTyped
<1> HIDE DEF p
<1>2. e \in Readers
  BY <1>1, SetEsc
<1>3. /\ ~ e.esc /\ e.rx = Plus(r.rx, c) /\ e.state = r.state
      /\ e.buf = r.buf \o rp_encode_byte(Unescape(c)) /\ e.seq = r.seq /\ e.ret = r.ret
  BY <1>1 DEF Readers
<1> QED
  BY <1>2, <1>3, Zenon DEF p

LEMMA Digit1Is ==
    ASSUME NEW r \in Readers, NEW c \in Byte
    PROVE  /\ Digit1(r, c) \in Readers /\ Digit1(r, c).state \in {0, 9}
           /\ Digit1(r, c).state = 9 =>
                 /\ IsHex(c) /\ Digit1(r, c).calc = rp_hex_nibble(c)
                 /\ Digit1(r, c).buf = r.buf /\ Digit1(r, c).rx = r.rx
           /\ IsHex(c) => Digit1(r, c).state = 9
           /\ Digit1(r, c).seq = r.seq /\ Digit1(r, c).ret = r.ret
<1>1. CASE IsHex(c)
  <2> DEFINE x == rp_hex_nibble(c)
             p == [r EXCEPT !.calc = x]
  <2>1. x \in Byte
    BY <1>1, NibbleIs, SMTT(60) DEF Byte
  <2> HIDE DEF x
  <2>2. p \in Readers
    BY <2>1, SetCalc
  <2>3. p.calc = x /\ p.buf = r.buf /\ p.rx = r.rx /\ p.seq = r.seq /\ p.ret = r.ret
    BY DEF Readers
  <2>4. Digit1(r, c) = [p EXCEPT !.state = 9]
    BY <1>1 DEF Digit1, x
  <2> HIDE DEF p
  <2>5. [p EXCEPT !.state = 9] \in Readers
    BY <2>2, SetStates
  <2>6. LET d == [p EXCEPT !.state = 9]
        IN  d.state = 9 /\ d.calc = x /\ d.buf = r.buf /\ d.rx = r.rx
            /\ d.seq = r.seq /\ d.ret = r.ret
    BY <2>2, <2>3 DEF Readers
  <2> QED
    BY <1>1, <2>4, <2>5, <2>6 DEF x
<1>2. CASE ~ IsHex(c)
  <2>1. Digit1(r, c) = [r EXCEPT !.state = 0]
    BY <1>2 DEF Digit1
  <2>2. [r EXCEPT !.state = 0] \in Readers
    BY SetStates
  <2>3. LET d == [r EXCEPT !.state = 0]
        IN  d.state = 0 /\ d.seq = r.seq /\ d.ret = r.ret
    BY DEF Readers
  <2> QED
    BY <1>2, <2>1, <2>2, <2>3
<1> QED
  BY <1>1, <1>2

(* The packet is whole where the digits are those of the sum. *)
LEMMA Digit2Is ==
    ASSUME NEW r \in Readers, NEW c \in Byte
    PROVE  LET right == IsHex(c) /\ 16 * r.calc + rp_hex_nibble(c) = r.rx
               d == Digit2(r, c)
           IN  /\ d \in Readers
               /\ right => d.ret = "packet" /\ d.buf = r.buf /\ d.seq = r.seq
               /\ ~ right => d.ret = r.ret /\ d.state = 0
<1> DEFINE right == IsHex(c) /\ 16 * r.calc + rp_hex_nibble(c) = r.rx
<1>1. CASE right
  <2> DEFINE p == [r EXCEPT !.calc = r.rx]
  <2>1. p \in Readers
    BY FieldTypes, SetCalc
  <2>2. p.buf = r.buf /\ p.seq = r.seq
    BY DEF Readers
  <2>3. Digit2(r, c) = [p EXCEPT !.ret = "packet"]
    BY <1>1 DEF Digit2
  <2> HIDE DEF p
  <2>4. [p EXCEPT !.ret = "packet"] \in Readers
    BY <2>1, SetRet DEF Rets
  <2>5. LET d == [p EXCEPT !.ret = "packet"]
        IN  d.ret = "packet" /\ d.buf = r.buf /\ d.seq = r.seq
    BY <2>1, <2>2 DEF Readers
  <2> QED
    BY <1>1, <2>3, <2>4, <2>5
<1>2. CASE ~ right
  <2>1. Digit2(r, c) = [r EXCEPT !.state = 0]
    BY <1>2 DEF Digit2
  <2>2. [r EXCEPT !.state = 0] \in Readers
    BY SetStates
  <2>3. LET d == [r EXCEPT !.state = 0] IN d.state = 0 /\ d.ret = r.ret
    BY DEF Readers
  <2> QED
    BY <1>2, <2>1, <2>2, <2>3
<1> QED
  BY <1>1, <1>2


(* rp_getpkt keeps the types of its variables. *)
LEMMA CharTyped ==
    ASSUME NEW was \in Readers, NEW c \in Byte
    PROVE  rp_getpkt_char(was, c) \in Readers
<1> DEFINE r == IF c = Dollar /\ was.state # 0 THEN Started(was) ELSE was
<1>1. r \in Readers
  BY StartedAt DEF At, Reading
<1>2. rp_getpkt_char(was, c) =
        CASE r.state = 0 -> Waiting(r, c)
          [] r.state \in {1, 2} -> Next8(r, c, Stored(r, c, r.state + 1))
          [] r.state = 3 -> Next8(r, c, ThirdChar(r, c))
          [] r.state = 4 -> Next8(r, c, FourthChar(r, c))
          [] r.state = 5 -> Next8(r, c, Stored(r, c, 5))
          [] r.state = 6 -> Stored(r, c, IF c = Colon THEN 7 ELSE 6)
          [] r.state = 7 -> BinaryChar(r, c)
          [] r.state = 8 -> Digit1(r, c)
          [] r.state = 9 -> Digit2(r, c)
  BY DEF rp_getpkt_char
<1> HIDE DEF r
<1>3. r.state \in 0 .. 9
  BY <1>1, FieldTypes
<1>4. \A q \in Readers : Next8(r, c, q) \in Readers
  BY <1>1, HashIs DEF Next8
<1>5. \A st \in 0 .. 9 : Stored(r, c, st) \in Readers
  BY <1>1, StoredTyped
<1>6. BinaryChar(r, c) \in Readers
  <2>1. AsHex(r, c, c) \in Readers
    BY <1>1, AsHexIs
  <2> QED
    BY <1>1, <1>4, <2>1, EscapeEnds, EscapeStarts, ZenonT(60) DEF BinaryChar, EscapeFrom
<1>7. /\ Waiting(r, c) \in Readers /\ ThirdChar(r, c) \in Readers
      /\ FourthChar(r, c) \in Readers /\ Digit1(r, c) \in Readers /\ Digit2(r, c) \in Readers
  BY <1>1, WaitingTyped, ThirdCharTyped, FourthCharIs, Digit1Is, Digit2Is
<1>8. /\ r.state \in {1, 2} => Stored(r, c, r.state + 1) \in Readers
      /\ Stored(r, c, 5) \in Readers
      /\ Stored(r, c, IF c = Colon THEN 7 ELSE 6) \in Readers
  BY <1>5
<1> QED
  BY <1>2, <1>3, <1>4, <1>6, <1>7, <1>8

-----------------------------------------------------------------------------
(* The loop over the characters. *)
ReadNext(was, c, k) ==
    IF was.r.ret # "none" THEN was ELSE [r |-> rp_getpkt_char(was.r, c), n |-> k]

Loops(g, r, s) ==
    /\ g \in [0 .. Len(s) -> [r : Readers, n : Nat]]
    /\ g[0] = [r |-> r, n |-> 0]
    /\ \A k \in 1 .. Len(s) : g[k] = ReadNext(g[k - 1], s[k], k)

LEMMA GetpktIs ==
    ASSUME NEW r \in Readers, NEW s \in Seq(Byte)
    PROVE  \E g : Loops(g, r, s) /\ rp_getpkt(r, s) = g[Len(s)]
<1> DEFINE T == [r : Readers, n : Nat]
           B == [r |-> r, n |-> 0]
           After[k \in 0 .. Len(s)] ==
               IF k = 0 THEN B
               ELSE LET before == After[k - 1]
                    IN  IF before.r.ret # "none" THEN before
                        ELSE [r |-> rp_getpkt_char(before.r, s[k]), n |-> k]
           F == [k \in 1 .. Len(s) |-> [b \in T |-> ReadNext(b, s[k], k)]]
<1>0. Len(s) \in Nat /\ Len(s) \in 0 .. Len(s) /\ \A k \in 1 .. Len(s) : s[k] \in Byte
  OBVIOUS
<1>1. rp_getpkt(r, s) = After[Len(s)]
  BY DEF rp_getpkt
<1>2. F \in [1 .. Len(s) -> [T -> T]] /\ B \in T
  <2>1. \A k \in 1 .. Len(s), b \in T : ReadNext(b, s[k], k) \in T
    BY <1>0, CharTyped DEF ReadNext
  <2> HIDE DEF T
  <2> QED
    BY <2>1 DEF T
<1>3. PICK g \in [0 .. Len(s) -> T] : Recurs(g, F, B, Len(s))
  <2> HIDE DEF F, T, B
  <2> QED
    BY <1>0, <1>2, RecursionExists
<1>4. g = [k \in 0 .. Len(s) |-> IF k = 0 THEN B ELSE ReadNext(g[k - 1], s[k], k)]
  <2>1. \A k \in 0 .. Len(s) : k # 0 => k \in 1 .. Len(s) /\ g[k - 1] \in T
    OBVIOUS
  <2>2. \A k \in 0 .. Len(s) :
           (IF k = 0 THEN B ELSE F[k][g[k - 1]])
              = IF k = 0 THEN B ELSE ReadNext(g[k - 1], s[k], k)
    BY <2>1
  <2> HIDE DEF F, T, B
  <2> QED
    BY <1>3, <2>2 DEF Recurs
<1>5. After = [k \in 0 .. Len(s) |-> IF k = 0 THEN B ELSE ReadNext(After[k - 1], s[k], k)]
  BY <1>4, ZenonT(60) DEF ReadNext
<1>6. \A k \in 0 .. Len(s) : After[k] = g[k]
  <2> DEFINE S == {k \in 0 .. Len(s) : After[k] = g[k]}
  <2> HIDE DEF After, F, T, B
  <2>1. 0 \in S
    BY <1>4, <1>5
  <2>2. \A k \in 1 .. Len(s) : k - 1 \in S => k \in S
    BY <1>4, <1>5, SMTT(60)
  <2> HIDE DEF S
  <2>3. \A k \in 0 .. Len(s) : k \in S
    BY <1>0, <2>1, <2>2, BoundedInduction
  <2> QED
    BY <2>3 DEF S
<1> HIDE DEF After, F
<1>7. Loops(g, r, s)
  BY <1>0, <1>4, SMTT(60) DEF Loops
<1> QED
  BY <1>0, <1>1, <1>6, <1>7

(* Two loops that read the same agree. *)
LEMMA LoopsAgree ==
    ASSUME NEW r \in Readers, NEW s \in Seq(Byte), NEW t \in Seq(Byte), NEW n \in Nat,
           n <= Len(s), n <= Len(t), \A k \in 1 .. n : s[k] = t[k],
           NEW g, NEW h, Loops(g, r, s), Loops(h, r, t)
    PROVE  \A k \in 0 .. n : g[k] = h[k]
<1> DEFINE S == {k \in 0 .. n : g[k] = h[k]}
<1>0. Len(s) \in Nat /\ Len(t) \in Nat
  OBVIOUS
<1>1. 0 \in S
  BY DEF Loops
<1>2. \A k \in 1 .. n : k - 1 \in S => k \in S
  <2> SUFFICES ASSUME NEW k \in 1 .. n, k - 1 \in S PROVE g[k] = h[k]
    OBVIOUS
  <2>1. k \in 1 .. Len(s) /\ k \in 1 .. Len(t)
    BY <1>0
  <2>2. g[k] = ReadNext(g[k - 1], s[k], k) /\ h[k] = ReadNext(h[k - 1], t[k], k)
    BY <2>1 DEF Loops
  <2> QED
    BY <2>2
<1> HIDE DEF S
<1>3. \A k \in 0 .. n : k \in S
  BY <1>1, <1>2, BoundedInduction
<1> QED
  BY <1>3 DEF S

LEMMA GetpktNone == \A r \in Readers : rp_getpkt(r, <<>>) = [r |-> r, n |-> 0]
<1> SUFFICES ASSUME NEW r \in Readers PROVE rp_getpkt(r, <<>>) = [r |-> r, n |-> 0]
  OBVIOUS
<1>1. <<>> \in Seq(Byte) /\ Len(<<>>) = 0
  OBVIOUS
<1>2. PICK g : Loops(g, r, <<>>) /\ rp_getpkt(r, <<>>) = g[Len(<<>>)]
  BY <1>1, GetpktIs
<1> QED
  BY <1>1, <1>2 DEF Loops

(* One character more. *)
LEMMA GetpktAppend ==
    ASSUME NEW r \in Readers, NEW s \in Seq(Byte), NEW c \in Byte
    PROVE  rp_getpkt(r, Append(s, c)) = ReadNext(rp_getpkt(r, s), c, Len(s) + 1)
<1> DEFINE t == Append(s, c)
<1>1. /\ t \in Seq(Byte) /\ Len(t) = Len(s) + 1 /\ t[Len(s) + 1] = c /\ Len(s) \in Nat
      /\ Len(s) \in 0 .. Len(s) /\ Len(s) + 1 \in 1 .. Len(t)
      /\ (Len(s) + 1) - 1 = Len(s)
      /\ \A k \in 1 .. Len(s) : s[k] = t[k]
  OBVIOUS
<1> HIDE DEF t
<1>2. PICK g : Loops(g, r, s) /\ rp_getpkt(r, s) = g[Len(s)]
  BY GetpktIs
<1>3. PICK h : Loops(h, r, t) /\ rp_getpkt(r, t) = h[Len(t)]
  BY <1>1, GetpktIs
<1>4. g[Len(s)] = h[Len(s)]
  BY <1>1, <1>2, <1>3, LoopsAgree
<1>5. h[Len(s) + 1] = ReadNext(h[(Len(s) + 1) - 1], t[Len(s) + 1], Len(s) + 1)
  BY <1>1, <1>3 DEF Loops
<1> QED
  BY <1>1, <1>2, <1>3, <1>4, <1>5, Zenon DEF t


-----------------------------------------------------------------------------
(* A set of sequences that has the empty one and each longer one has all. *)
LEMMA SeqInduction ==
    ASSUME NEW X, NEW P, <<>> \in P, \A s \in Seq(X), c \in X : s \in P => Append(s, c) \in P
    PROVE  \A s \in Seq(X) : s \in P
<1> DEFINE S == {n \in Nat : \A s \in Seq(X) : Len(s) = n => s \in P}
<1>1. 0 \in S
  <2>1. \A s \in Seq(X) : Len(s) = 0 => s = <<>>
    OBVIOUS
  <2> QED
    BY <2>1
<1>2. \A n \in Nat : n \in S => n + 1 \in S
  <2> SUFFICES ASSUME NEW n \in Nat, n \in S, NEW s \in Seq(X), Len(s) = n + 1
               PROVE  s \in P
    OBVIOUS
  <2>1. s = Append(SubSeq(s, 1, n), s[n + 1]) /\ SubSeq(s, 1, n) \in Seq(X)
        /\ s[n + 1] \in X /\ Len(SubSeq(s, 1, n)) = n
    OBVIOUS
  <2> QED
    BY <2>1
<1>3. Nat \subseteq S
  <2> HIDE DEF S
  <2> QED
    BY <1>1, <1>2, Induction
<1> QED
  BY <1>3

Reads(r, s) == rp_getpkt(r, s).r

LEMMA GetpktTyped ==
    ASSUME NEW r \in Reading, NEW s \in Seq(Byte)
    PROVE  /\ rp_getpkt(r, s) \in [r : Readers, n : Nat]
           /\ rp_getpkt(r, s).n <= Len(s)
           /\ rp_getpkt(r, s).r.ret = "none" => rp_getpkt(r, s).n = Len(s)
<1> DEFINE Good(x) == /\ rp_getpkt(r, x) \in [r : Readers, n : Nat]
                      /\ rp_getpkt(r, x).n <= Len(x)
                      /\ rp_getpkt(r, x).r.ret = "none" => rp_getpkt(r, x).n = Len(x)
           P == {x \in Seq(Byte) : Good(x)}
<1>0. r \in Readers
  BY DEF Reading
<1>1. <<>> \in P
  BY <1>0, GetpktNone
<1>2. ASSUME NEW x \in Seq(Byte), NEW c \in Byte, x \in P PROVE Append(x, c) \in P
  <2> DEFINE a == rp_getpkt(r, x)
  <2>1. Append(x, c) \in Seq(Byte) /\ Len(Append(x, c)) = Len(x) + 1 /\ Len(x) \in Nat
    OBVIOUS
  <2>2. rp_getpkt(r, Append(x, c)) = ReadNext(a, c, Len(x) + 1)
    BY <1>0, GetpktAppend
  <2>3. /\ a \in [r : Readers, n : Nat] /\ a.n <= Len(x)
        /\ a.r.ret = "none" => a.n = Len(x)
    BY <1>2
  <2> HIDE DEF a
  <2>4. rp_getpkt_char(a.r, c) \in Readers
    BY <2>3, CharTyped
  <2>5. CASE a.r.ret # "none"
    <3>1. ReadNext(a, c, Len(x) + 1) = a
      BY <2>5 DEF ReadNext
    <3> QED
      BY <2>1, <2>2, <2>3, <2>5, <3>1
  <2>6. CASE a.r.ret = "none"
    <3>1. ReadNext(a, c, Len(x) + 1) = [r |-> rp_getpkt_char(a.r, c), n |-> Len(x) + 1]
      BY <2>6 DEF ReadNext
    <3> QED
      BY <2>1, <2>2, <2>4, <3>1
  <2> QED
    BY <2>5, <2>6
<1> HIDE DEF P
<1>3. \A x \in Seq(Byte) : x \in P
  BY <1>1, <1>2, SeqInduction
<1> QED
  BY <1>3 DEF P

(* What has not returned yet reads on. *)
LEMMA GetpktConcat ==
    ASSUME NEW r \in Reading, NEW s \in Seq(Byte), NEW t \in Seq(Byte)
    PROVE  /\ Reads(r, s).ret = "none" =>
                /\ Reads(r, s \o t) = Reads(Reads(r, s), t)
                /\ rp_getpkt(r, s \o t).n = Len(s) + rp_getpkt(Reads(r, s), t).n
           /\ Reads(r, s).ret # "none" => rp_getpkt(r, s \o t) = rp_getpkt(r, s)
<1> DEFINE a == rp_getpkt(r, s)
           Good(x) == rp_getpkt(r, s \o x) =
                        IF a.r.ret # "none" THEN a
                        ELSE [r |-> rp_getpkt(a.r, x).r, n |-> Len(s) + rp_getpkt(a.r, x).n]
           P == {x \in Seq(Byte) : Good(x)}
<1>0. /\ r \in Readers /\ Len(s) \in Nat /\ a \in [r : Readers, n : Nat]
      /\ a.r.ret = "none" => a.n = Len(s) /\ a.r \in Reading
  BY GetpktTyped DEF Reading
<1> HIDE DEF a
<1>1. <<>> \in P
  <2>1. s \o <<>> = s /\ <<>> \in Seq(Byte)
    OBVIOUS
  <2>2. rp_getpkt(a.r, <<>>) = [r |-> a.r, n |-> 0]
    BY <1>0, GetpktNone
  <2>3. a.r.ret = "none" => a = [r |-> a.r, n |-> Len(s) + 0]
    BY <1>0
  <2> QED
    BY <1>0, <2>1, <2>2, <2>3 DEF a
<1>2. ASSUME NEW x \in Seq(Byte), NEW c \in Byte, x \in P PROVE Append(x, c) \in P
  <2> DEFINE b == rp_getpkt(a.r, x)
             y == Append(x, c)
  <2>1. /\ y \in Seq(Byte) /\ Len(x) \in Nat /\ s \o x \in Seq(Byte)
        /\ s \o y = Append(s \o x, c) /\ Len(s \o x) = Len(s) + Len(x)
    OBVIOUS
  <2>2. rp_getpkt(r, s \o y) = ReadNext(rp_getpkt(r, s \o x), c, Len(s) + Len(x) + 1)
    BY <1>0, <2>1, GetpktAppend
  <2>3. CASE a.r.ret # "none"
    <3>1. rp_getpkt(r, s \o x) = a
      BY <1>2, <2>3
    <3>2. ReadNext(a, c, Len(s) + Len(x) + 1) = a
      BY <2>3 DEF ReadNext
    <3>3. rp_getpkt(r, s \o y) = a
      BY <2>2, <3>1, <3>2
    <3> QED
      BY <2>1, <2>3, <3>3
  <2>4. CASE a.r.ret = "none"
    <3>1. rp_getpkt(r, s \o x) = [r |-> b.r, n |-> Len(s) + b.n]
      BY <1>2, <2>4
    <3>2. rp_getpkt(a.r, y) = ReadNext(b, c, Len(x) + 1)
      BY <1>0, <2>1, GetpktAppend
    <3>3. ReadNext([r |-> b.r, n |-> Len(s) + b.n], c, Len(s) + Len(x) + 1)
            = [r |-> ReadNext(b, c, Len(x) + 1).r, n |-> Len(s) + ReadNext(b, c, Len(x) + 1).n]
      <4> HIDE DEF b
      <4>1. CASE b.r.ret # "none"
        BY <4>1 DEF ReadNext
      <4>2. CASE b.r.ret = "none"
        BY <1>0, <2>1, <4>2 DEF ReadNext
      <4> QED
        BY <4>1, <4>2
    <3>4. Good(y)
      <4> HIDE DEF b, y
      <4> QED
        BY <2>2, <2>4, <3>1, <3>2, <3>3
    <3> QED
      BY <2>1, <3>4
  <2> QED
    BY <2>3, <2>4
<1> HIDE DEF P
<1>3. \A x \in Seq(Byte) : x \in P
  BY <1>1, <1>2, SeqInduction
<1>4. Good(t)
  BY <1>3 DEF P
<1> QED
  BY <1>4 DEF Reads, a

LEMMA GetpktOne ==
    ASSUME NEW r \in Reading, NEW c \in Byte
    PROVE  rp_getpkt(r, <<c>>) = [r |-> rp_getpkt_char(r, c), n |-> 1]
<1>1. <<c>> = Append(<<>>, c) /\ <<>> \in Seq(Byte) /\ Len(<<>>) = 0 /\ r \in Readers
      /\ r.ret = "none"
  BY DEF Reading
<1>2. rp_getpkt(r, <<c>>) = ReadNext([r |-> r, n |-> 0], c, 0 + 1)
  BY <1>1, GetpktAppend, GetpktNone
<1> QED
  BY <1>1, <1>2 DEF ReadNext

LEMMA ReadsOne ==
    ASSUME NEW r \in Reading, NEW c \in Byte
    PROVE  Reads(r, <<c>>) = rp_getpkt_char(r, c)
<1>1. rp_getpkt(r, <<c>>) = [r |-> rp_getpkt_char(r, c), n |-> 1]
  BY GetpktOne
<1> QED
  BY <1>1 DEF Reads

(* One character more, where none has returned. *)
LEMMA ReadsAppend ==
    ASSUME NEW r \in Reading, NEW s \in Seq(Byte), NEW c \in Byte,
           Reads(r, s).ret = "none"
    PROVE  Reads(r, Append(s, c)) = rp_getpkt_char(Reads(r, s), c)
<1>1. r \in Readers
  BY DEF Reading
<1> QED
  BY <1>1, GetpktAppend DEF Reads, ReadNext

LEMMA SumAppend ==
    ASSUME NEW s \in Seq(Byte), NEW c \in Byte
    PROVE  Sum(Append(s, c)) = Plus(Sum(s), c)
<1> DEFINE t == Append(s, c)
<1>1. /\ t \in Seq(Byte) /\ Len(t) = Len(s) + 1 /\ t[Len(s) + 1] = c /\ Len(s) \in Nat
      /\ Len(s) \in 0 .. Len(s) /\ Len(s) + 1 \in 1 .. Len(t)
      /\ (Len(s) + 1) - 1 = Len(s)
      /\ \A k \in 1 .. Len(s) : s[k] = t[k] /\ k \in 1 .. Len(t)
  OBVIOUS
<1> HIDE DEF t
<1>2. PICK g \in [0 .. Len(s) -> Byte] :
         /\ Sum(s) = g[Len(s)] /\ g[0] = 0
         /\ \A k \in 1 .. Len(s) : g[k] = Plus(g[k - 1], s[k])
  BY SumIs
<1>3. PICK h \in [0 .. Len(t) -> Byte] :
         /\ Sum(t) = h[Len(t)] /\ h[0] = 0
         /\ \A k \in 1 .. Len(t) : h[k] = Plus(h[k - 1], t[k])
  BY <1>1, SumIs
<1>4. \A k \in 0 .. Len(s) : g[k] = h[k]
  <2> DEFINE S == {k \in 0 .. Len(s) : g[k] = h[k]}
  <2>1. 0 \in S
    BY <1>1, <1>2, <1>3
  <2>2. \A k \in 1 .. Len(s) : k - 1 \in S => k \in S
    BY <1>1, <1>2, <1>3
  <2> HIDE DEF S
  <2>3. \A k \in 0 .. Len(s) : k \in S
    BY <1>1, <2>1, <2>2, BoundedInduction
  <2> QED
    BY <2>3 DEF S
<1>5. h[Len(s) + 1] = Plus(h[(Len(s) + 1) - 1], t[Len(s) + 1])
  BY <1>1, <1>3
<1>6. Sum(t) = Plus(Sum(s), c)
  BY <1>1, <1>2, <1>3, <1>4, <1>5
<1> QED
  BY <1>6 DEF t

LEMMA SumNone == Sum(<<>>) = 0
<1>1. <<>> \in Seq(Byte) /\ Len(<<>>) = 0
  OBVIOUS
<1> QED
  BY <1>1, SumIs

LEMMA SumTyped == \A s \in Seq(Byte) : Sum(s) \in Byte
<1> SUFFICES ASSUME NEW s \in Seq(Byte) PROVE Sum(s) \in Byte
  OBVIOUS
<1>1. Len(s) \in 0 .. Len(s)
  OBVIOUS
<1> QED
  BY <1>1, SumIs


LEMMA PlusAssociates ==
    ASSUME NEW a \in Byte, NEW b \in Byte, NEW c \in Byte
    PROVE  Plus(Plus(a, b), c) = Plus(a, Plus(b, c)) /\ Plus(a, 0) = a
BY SMT DEF Plus, Byte

LEMMA SumConcat ==
    ASSUME NEW s \in Seq(Byte), NEW t \in Seq(Byte)
    PROVE  Sum(s \o t) = Plus(Sum(s), Sum(t))
<1> DEFINE Good(x) == Sum(s \o x) = Plus(Sum(s), Sum(x))
           P == {x \in Seq(Byte) : Good(x)}
<1>1. <<>> \in P
  <2>1. s \o <<>> = s /\ <<>> \in Seq(Byte)
    OBVIOUS
  <2>2. Sum(s) = Plus(Sum(s), 0)
    BY SumTyped, PlusAssociates
  <2>3. Good(<<>>)
    BY <2>1, <2>2, SumNone
  <2> QED
    BY <2>1, <2>3
<1>2. ASSUME NEW x \in Seq(Byte), NEW c \in Byte, x \in P PROVE Append(x, c) \in P
  <2>1. /\ s \o Append(x, c) = Append(s \o x, c) /\ s \o x \in Seq(Byte)
        /\ Append(x, c) \in Seq(Byte)
    OBVIOUS
  <2>2. Sum(s \o Append(x, c)) = Plus(Sum(s \o x), c)
    BY <2>1, SumAppend
  <2>3. Sum(Append(x, c)) = Plus(Sum(x), c)
    BY SumAppend
  <2>4. Sum(s \o x) = Plus(Sum(s), Sum(x))
    BY <1>2
  <2>5. Plus(Plus(Sum(s), Sum(x)), c) = Plus(Sum(s), Plus(Sum(x), c))
    BY SumTyped, PlusAssociates
  <2>6. Good(Append(x, c))
    BY <2>2, <2>3, <2>4, <2>5
  <2> QED
    BY <2>1, <2>6
<1> HIDE DEF P
<1>3. \A x \in Seq(Byte) : x \in P
  BY <1>1, <1>2, SeqInduction
<1> QED
  BY <1>3 DEF P

-----------------------------------------------------------------------------
(* A packet, character by character. *)

(* Out of a packet its start is a start; inside it is stored as well. *)
LEMMA StartRead ==
    ASSUME NEW r \in Reading
    PROVE  /\ r.state = 0 => At(rp_getpkt_char(r, Dollar), 1, <<>>, 0)
           /\ r.state # 0 => At(rp_getpkt_char(r, Dollar), 2, <<Dollar>>, Dollar)
<1>0. r \in Readers /\ Dollar \in Byte /\ Dollar # HashMark
  BY DEF Reading, Dollar, Byte, HashMark
<1>1. CASE r.state = 0
  <2>1. rp_getpkt_char(r, Dollar) = Waiting(r, Dollar)
    BY <1>1 DEF rp_getpkt_char
  <2>2. Waiting(r, Dollar) = Started(r)
    BY DEF Waiting, Dollar, CtrlC, PlusSign, MinusSign
  <2> QED
    BY <1>0, <1>1, <2>1, <2>2, StartedAt
<1>2. CASE r.state # 0
  <2> DEFINE q == Started(r)
             p == Stored(q, Dollar, 2)
  <2>1. q \in Readers /\ q.state = 1 /\ q.buf = <<>> /\ q.rx = 0 /\ q.seq = <<>>
        /\ q.ret = "none"
    BY <1>0, StartedAt DEF At, Reading
  <2>2. rp_getpkt_char(r, Dollar) = Next8(q, Dollar, p)
    BY <1>2, <2>1 DEF rp_getpkt_char
  <2> HIDE DEF q
  <2>3. p \in Readers /\ p.state = 2 /\ p.buf = Append(q.buf, Dollar)
        /\ p.rx = Plus(q.rx, Dollar) /\ p.seq = q.seq /\ p.ret = q.ret
    <3>1. 2 \in 0 .. 9 /\ q \in Readers /\ Dollar \in Byte
      BY <1>0, <2>1
    <3> QED
      BY <3>1, StoredIs DEF StoredFrom
  <2> HIDE DEF p
  <2>4. Append(<<>>, Dollar) = <<Dollar>> /\ Plus(0, Dollar) = Dollar
    BY DEF Dollar, Plus
  <2>5. At(p, 2, <<Dollar>>, Dollar)
    BY <2>1, <2>3, <2>4 DEF At, Reading
  <2> QED
    BY <1>0, <1>2, <2>2, <2>5 DEF Next8
<1> QED
  BY <1>1, <1>2

(* The state after n characters of a packet that is not binary. *)
Place(n) == IF n < 4 THEN n + 1 ELSE 5

LEMMA PlainStep ==
    ASSUME NEW r, NEW buf \in Seq(Byte), NEW rx, NEW c \in Byte \ {HashMark, Dollar},
           At(r, Place(Len(buf)), buf, rx),
           Len(buf) = 2 => c # Colon, Len(buf) = 3 => buf[1] # 88
    PROVE  At(rp_getpkt_char(r, c), Place(Len(buf) + 1), Append(buf, c), Plus(rx, c))
<1> DEFINE st == Place(Len(buf) + 1)
           p == Stored(r, c, st)
<1>1. /\ r \in Readers /\ r.state = Place(Len(buf)) /\ r.buf = buf /\ r.rx = rx
      /\ r.seq = <<>> /\ r.ret = "none" /\ c \in Byte /\ Len(buf) \in Nat
  BY DEF At, Reading
<1>2. st \in 0 .. 9
  BY <1>1 DEF Place
<1>3. /\ p \in Readers /\ p.state = st /\ p.buf = Append(buf, c)
      /\ p.rx = Plus(rx, c) /\ p.seq = <<>> /\ p.ret = "none"
  <2> HIDE DEF st
  <2>1. /\ p \in Readers /\ p.state = st /\ p.buf = Append(r.buf, c)
        /\ p.rx = Plus(r.rx, c) /\ p.seq = r.seq /\ p.ret = r.ret
    <3>1. r \in Readers /\ c \in Byte
      BY <1>1
    <3>2. StoredFrom(p, r, c, st)
      BY <1>2, <3>1, StoredIs
    <3> HIDE DEF p
    <3> QED
      BY <3>2 DEF StoredFrom
  <2> HIDE DEF p
  <2> QED
    BY <1>1, <2>1
<1>4. rp_getpkt_char(r, c) = p
  <2>1. CASE Len(buf) \in {0, 1}
    <3>1. r.state \in {1, 2} /\ st = r.state + 1
      <4>1. CASE Len(buf) = 0
        BY <1>1, <4>1 DEF Place
      <4>2. CASE Len(buf) = 1
        BY <1>1, <4>2 DEF Place
      <4> QED
        BY <2>1, <4>1, <4>2
    <3>2. rp_getpkt_char(r, c) = Next8(r, c, Stored(r, c, r.state + 1))
      BY <3>1 DEF rp_getpkt_char
    <3> QED
      BY <3>1, <3>2 DEF Next8
  <2>2. CASE Len(buf) = 2
    <3>1. r.state = 3 /\ st = 4
      BY <1>1, <2>2 DEF Place
    <3>2. rp_getpkt_char(r, c) = Next8(r, c, ThirdChar(r, c))
      BY <3>1 DEF rp_getpkt_char
    <3> QED
      BY <2>2, <3>1, <3>2 DEF Next8, ThirdChar
  <2>3. CASE Len(buf) = 3
    <3>1. r.state = 4 /\ st = 5
      BY <1>1, <2>3 DEF Place
    <3>2. rp_getpkt_char(r, c) = Next8(r, c, FourthChar(r, c))
      BY <3>1 DEF rp_getpkt_char
    <3>3. p.buf[1] # 88
      <4>1. Append(buf, c)[1] = buf[1]
        <5>1. 1 \in 1 .. Len(buf)
          BY <2>3
        <5> QED
          BY <5>1
      <4> HIDE DEF p
      <4> QED
        BY <1>3, <2>3, <4>1
    <3>4. p = Stored(r, c, 5)
      BY <3>1
    <3>5. FourthChar(r, c) = p
      <4> HIDE DEF p, st
      <4> QED
        BY <1>1, <3>3, <3>4, FourthCharIs
    <3> QED
      BY <3>2, <3>5 DEF Next8
  <2>4. CASE Len(buf) > 3
    <3>1. r.state = 5 /\ st = 5
      BY <1>1, <2>4 DEF Place
    <3>2. rp_getpkt_char(r, c) = Next8(r, c, Stored(r, c, 5))
      BY <3>1 DEF rp_getpkt_char
    <3> QED
      BY <3>1, <3>2 DEF Next8
  <2>5. Len(buf) \in {0, 1} \/ Len(buf) = 2 \/ Len(buf) = 3 \/ Len(buf) > 3
    <3>1. \A n \in Nat : n \in {0, 1} \/ n = 2 \/ n = 3 \/ n > 3
      OBVIOUS
    <3> QED
      BY <1>1, <3>1
  <2> QED
    BY <2>1, <2>2, <2>3, <2>4, <2>5, Zenon
<1> HIDE DEF p
<1> QED
  BY <1>3, <1>4 DEF At, Reading

(* A text of a packet without marks, and not binary from its fourth character. *)
Marks == {HashMark, Dollar}

LEMMA PlainRun ==
    ASSUME NEW r, NEW b \in Seq(Byte), NEW s \in Seq(Byte \ Marks),
           At(r, Place(Len(b)), b, Sum(b)),
           Len(b) < 3 /\ Len(b \o s) > 2 => (b \o s)[3] # Colon,
           Len(b \o s) > 3 => (b \o s)[1] # 88
    PROVE  At(Reads(r, s), Place(Len(b \o s)), b \o s, Sum(b \o s))
<1> DEFINE Good(x) == 
              (/\ Len(b) < 3 /\ Len(b \o x) > 2 => (b \o x)[3] # Colon
               /\ Len(b \o x) > 3 => (b \o x)[1] # 88)
              => At(Reads(r, x), Place(Len(b \o x)), b \o x, Sum(b \o x))
           C == Byte \ Marks
           P == {x \in Seq(C) : Good(x)}
<1>0. r \in Reading /\ r \in Readers
  BY DEF At, Reading
<1>1. <<>> \in P
  <2>1. b \o <<>> = b /\ <<>> \in Seq(C)
    OBVIOUS
  <2>2. Reads(r, <<>>) = r
    BY <1>0, GetpktNone DEF Reads
  <2> QED
    BY <2>1, <2>2
<1>2. ASSUME NEW x \in Seq(C), NEW c \in C, x \in P PROVE Append(x, c) \in P
  <2> DEFINE t == b \o x
             y == Append(x, c)
  <2>1. /\ t \in Seq(Byte) /\ b \o y = Append(t, c) /\ y \in Seq(C) /\ x \in Seq(Byte)
        /\ c \in Byte \ {HashMark, Dollar} /\ Len(Append(t, c)) = Len(t) + 1
        /\ Len(t) \in Nat /\ Len(b) \in Nat /\ Len(t) >= Len(b)
        /\ \A i \in 1 .. Len(t) : Append(t, c)[i] = t[i]
        /\ Append(t, c)[Len(t) + 1] = c
    BY SMTT(60) DEF Marks
  <2>2. SUFFICES
          ASSUME /\ Len(b) < 3 /\ Len(b \o y) > 2 => (b \o y)[3] # Colon
                 /\ Len(b \o y) > 3 => (b \o y)[1] # 88
          PROVE  At(Reads(r, y), Place(Len(b \o y)), b \o y, Sum(b \o y))
    BY <2>1
  <2> HIDE DEF t, y
  <2>3. /\ Len(b) < 3 /\ Len(t) > 2 => t[3] # Colon
        /\ Len(t) > 3 => t[1] # 88
    BY <2>1, <2>2, SMTT(60)
  <2>4. At(Reads(r, x), Place(Len(t)), t, Sum(t))
    BY <1>2, <2>3 DEF t
  <2>5. Len(t) = 2 => c # Colon
    BY <2>1, <2>2
  <2>6. Len(t) = 3 => t[1] # 88
    BY <2>1, <2>2
  <2>7. At(rp_getpkt_char(Reads(r, x), c), Place(Len(t) + 1), Append(t, c), Plus(Sum(t), c))
    BY <2>1, <2>4, <2>5, <2>6, PlainStep
  <2>8. Reads(r, y) = rp_getpkt_char(Reads(r, x), c)
    BY <1>0, <2>1, <2>4, ReadsAppend DEF y, At, Reading
  <2>9. Sum(Append(t, c)) = Plus(Sum(t), c)
    BY <2>1, SumAppend
  <2> QED
    BY <2>1, <2>7, <2>8, <2>9
<1> HIDE DEF P
<1>3. \A x \in Seq(C) : x \in P
  <2> HIDE DEF C
  <2> QED
    BY <1>1, <1>2, SeqInduction
<1> QED
  BY <1>3 DEF P


LEMMA MarkBytes == /\ HashMark \in Byte /\ Dollar \in Byte
                   /\ <<HashMark>> \in Seq(Byte) /\ <<Dollar>> \in Seq(Byte)
                   /\ Len(<<HashMark>>) = 1 /\ Len(<<Dollar>>) = 1
<1>1. HashMark \in Byte /\ Dollar \in Byte
  BY DEF HashMark, Dollar, Byte
<1> QED
  BY <1>1

LEMMA TwoBytes ==
    ASSUME NEW e \in Seq(Byte), Len(e) = 2
    PROVE  /\ e = Append(<<e[1]>>, e[2]) /\ e[1] \in Byte /\ e[2] \in Byte
           /\ <<e[1]>> \in Seq(Byte) /\ Len(<<e[1]>>) = 1
OBVIOUS

Join(a, b, c, d) ==
    /\ a \o b \o c \o d = a \o (b \o (c \o d))
    /\ c \o d \in Seq(Byte) /\ b \o (c \o d) \in Seq(Byte)
    /\ a \o (b \o (c \o d)) \in Seq(Byte)
    /\ Len(a \o (b \o (c \o d))) = Len(a) + (Len(b) + (Len(c) + Len(d)))
    /\ Len(c \o d) = Len(c) + Len(d) /\ Len(b) \in Nat

LEMMA FourParts ==
    ASSUME NEW a \in Seq(Byte), NEW b \in Seq(Byte), NEW c \in Seq(Byte), NEW d \in Seq(Byte)
    PROVE  Join(a, b, c, d)
BY SMTT(60) DEF Join

Ending(v) == <<HashMark>> \o rp_encode_byte(v)

LEMMA FrameIs ==
    ASSUME NEW s \in Seq(Byte)
    PROVE  /\ Frame(s) = <<Dollar>> \o (s \o Ending(Sum(s)))
           /\ Ending(Sum(s)) \in Seq(Byte) /\ Len(Ending(Sum(s))) = 3
           /\ s \o Ending(Sum(s)) \in Seq(Byte) /\ Frame(s) \in Seq(Byte)
           /\ Len(Frame(s)) = 1 + (Len(s) + 3) /\ Len(s) \in Nat
<1> DEFINE a == <<Dollar>>
           c == <<HashMark>>
           d == rp_encode_byte(Sum(s))
<1>1. /\ a \in Seq(Byte) /\ c \in Seq(Byte) /\ d \in Seq(Byte)
      /\ Len(a) = 1 /\ Len(c) = 1 /\ Len(d) = 2
  BY MarkBytes, SumTyped, EncodedByte
<1>2. Frame(s) = a \o s \o c \o d /\ Ending(Sum(s)) = c \o d
  BY DEF Frame, Ending
<1> HIDE DEF a, c, d
<1>3. Join(a, s, c, d)
  BY <1>1, FourParts
<1> QED
  BY <1>1, <1>2, <1>3, SMTT(60) DEF a, Join

(* The mark after the text. *)
LEMMA HashStep ==
    ASSUME NEW r, NEW st, NEW buf, NEW rx, At(r, st, buf, rx),
           st \in 1 .. 5 \/ (st = 7 /\ ~ r.esc)
    PROVE  At(rp_getpkt_char(r, HashMark), 8, buf, rx)
<1> DEFINE p == [r EXCEPT !.state = 8]
<1>1. /\ r \in Readers /\ r.state = st /\ r.buf = buf /\ r.rx = rx /\ r.seq = <<>>
      /\ r.ret = "none"
  BY DEF At, Reading
<1>2. rp_getpkt_char(r, HashMark) = p
  <2>1. HashMark # Dollar /\ HashMark # Brace
    BY DEF HashMark, Dollar, Brace
  <2>2. st \in {1, 2} \/ st = 3 \/ st = 4 \/ st = 5 \/ (st = 7 /\ ~ r.esc)
    OBVIOUS
  <2>3. CASE st \in {1, 2}
    BY <1>1, <2>1, <2>3 DEF rp_getpkt_char, Next8
  <2>4. CASE st = 3
    BY <1>1, <2>1, <2>4 DEF rp_getpkt_char, Next8
  <2>5. CASE st = 4
    BY <1>1, <2>1, <2>5 DEF rp_getpkt_char, Next8
  <2>6. CASE st = 5
    BY <1>1, <2>1, <2>6 DEF rp_getpkt_char, Next8
  <2>7. CASE st = 7 /\ ~ r.esc
    <3>1. rp_getpkt_char(r, HashMark) = BinaryChar(r, HashMark)
      BY <1>1, <2>1, <2>7 DEF rp_getpkt_char
    <3> QED
      BY <2>1, <2>7, <3>1 DEF BinaryChar, Next8
  <2> QED
    BY <2>2, <2>3, <2>4, <2>5, <2>6, <2>7, Zenon
<1>3. p \in Readers /\ p.state = 8 /\ p.buf = r.buf /\ p.rx = r.rx /\ p.seq = r.seq
      /\ p.ret = r.ret
  BY <1>1, HashIs
<1> HIDE DEF p
<1> QED
  BY <1>1, <1>2, <1>3 DEF At, Reading

(* What is handed to the main loop. *)
Accepted(r, text) == r.ret = "packet" /\ r.buf = text /\ r.seq = <<>>

(* The digits of v are those of the sum, or the packet is dropped. *)
LEMMA DigitsStep ==
    ASSUME NEW r, NEW buf, NEW rx \in Byte, NEW v \in Byte, At(r, 8, buf, rx)
    PROVE  LET got == rp_getpkt(r, rp_encode_byte(v))
           IN  /\ got.n = 2
               /\ v = rx => Accepted(got.r, buf)
               /\ v # rx => got.r \in Reading /\ got.r.state = 0
<1> DEFINE c == rp_encode_byte(v)[1]
           d == rp_encode_byte(v)[2]
           p == Digit1(r, c)
           q == Digit2(p, d)
<1>1. /\ r \in Reading /\ r \in Readers /\ r.state = 8 /\ r.buf = buf /\ r.rx = rx
      /\ r.seq = <<>> /\ r.ret = "none"
  BY DEF At, Reading
<1>2. /\ c \in 48 .. 57 \cup 97 .. 102 /\ rp_hex_nibble(c) = v \div 16
      /\ d \in 48 .. 57 \cup 97 .. 102 /\ rp_hex_nibble(d) = v % 16
      /\ v \div 16 \in 0 .. 15 /\ v % 16 \in 0 .. 15 /\ v = 16 * (v \div 16) + (v % 16)
  BY EncodedByte, ByteDigits, HexDigit, ZenonT(60)
<1>3. rp_encode_byte(v) = Append(<<c>>, d) /\ <<c>> \in Seq(Byte) /\ Len(<<c>>) = 1
      /\ c \in Byte /\ d \in Byte
  <2>1. rp_encode_byte(v) \in Seq(Byte) /\ Len(rp_encode_byte(v)) = 2
    BY EncodedByte
  <2> QED
    BY <2>1, TwoBytes
<1> HIDE DEF c, d
<1>4. IsHex(c) /\ IsHex(d) /\ c # Dollar /\ d # Dollar
  BY <1>2 DEF IsHex, Dollar
<1>5. /\ p \in Readers /\ p.state = 9 /\ p.calc = v \div 16 /\ p.buf = buf /\ p.rx = rx
      /\ p.seq = <<>> /\ p.ret = "none"
  BY <1>1, <1>2, <1>3, <1>4, Digit1Is
<1>6. rp_getpkt_char(r, c) = p
  BY <1>1, <1>4 DEF rp_getpkt_char
<1> HIDE DEF p
<1>7. rp_getpkt_char(p, d) = q
  BY <1>4, <1>5 DEF rp_getpkt_char
<1>8. rp_getpkt(r, <<c>>) = [r |-> p, n |-> 1]
  BY <1>1, <1>3, <1>6, GetpktOne
<1>9. rp_getpkt(r, rp_encode_byte(v)) = [r |-> q, n |-> 2]
  <2>1. rp_getpkt(r, Append(<<c>>, d)) = ReadNext([r |-> p, n |-> 1], d, 1 + 1)
    BY <1>1, <1>3, <1>8, GetpktAppend
  <2> HIDE DEF q
  <2> QED
    BY <1>3, <1>5, <1>7, <2>1 DEF ReadNext
<1>10. /\ q \in Readers
       /\ 16 * p.calc + rp_hex_nibble(d) = p.rx
             => q.ret = "packet" /\ q.buf = p.buf /\ q.seq = p.seq
       /\ 16 * p.calc + rp_hex_nibble(d) # p.rx => q.ret = p.ret /\ q.state = 0
  BY <1>3, <1>4, <1>5, Digit2Is
<1> HIDE DEF q
<1>11. 16 * p.calc + rp_hex_nibble(d) = v
  BY <1>2, <1>5
<1> QED
  BY <1>5, <1>9, <1>10, <1>11 DEF Accepted, Reading

(* The end of a packet. *)
LEMMA FrameEnds ==
    ASSUME NEW r, NEW st, NEW buf, NEW rx \in Byte, NEW v \in Byte, At(r, st, buf, rx),
           st \in 1 .. 5 \/ (st = 7 /\ ~ r.esc)
    PROVE  LET got == rp_getpkt(r, <<HashMark>> \o rp_encode_byte(v))
           IN  /\ got.n = 3
               /\ v = rx => Accepted(got.r, buf)
               /\ v # rx => got.r \in Reading /\ got.r.state = 0
<1> DEFINE p == rp_getpkt_char(r, HashMark)
           e == rp_encode_byte(v)
<1>1. At(p, 8, buf, rx)
  BY HashStep
<1>2. r \in Reading /\ <<HashMark>> \in Seq(Byte) /\ e \in Seq(Byte) /\ HashMark \in Byte
  BY EncodedByte, MarkBytes DEF At
<1> HIDE DEF p, e
<1>3. rp_getpkt(r, <<HashMark>>) = [r |-> p, n |-> 1]
  BY <1>2, GetpktOne DEF p
<1>4. Reads(r, <<HashMark>>) = p /\ p.ret = "none" /\ Len(<<HashMark>>) = 1
  BY <1>1, <1>3 DEF Reads, At, Reading
<1>5. /\ rp_getpkt(r, <<HashMark>> \o e).r = rp_getpkt(p, e).r
      /\ rp_getpkt(r, <<HashMark>> \o e).n = 1 + rp_getpkt(p, e).n
  BY <1>2, <1>4, GetpktConcat DEF Reads
<1>6. LET got == rp_getpkt(p, e)
      IN  /\ got.n = 2
          /\ v = rx => Accepted(got.r, buf)
          /\ v # rx => got.r \in Reading /\ got.r.state = 0
  BY <1>1, DigitsStep DEF e
<1> QED
  BY <1>5, <1>6 DEF e

(* A whole packet, from its start: what is read before the mark decides. *)
LEMMA FrameReads ==
    ASSUME NEW r \in Reading, NEW s \in Seq(Byte), NEW st, NEW buf, NEW rx \in Byte,
           LET p == Reads(rp_getpkt_char(r, Dollar), s)
           IN  At(p, st, buf, rx) /\ (st \in 1 .. 5 \/ (st = 7 /\ ~ p.esc))
    PROVE  LET got == rp_getpkt(r, Frame(s))
           IN  /\ got.n = Len(Frame(s))
               /\ Sum(s) = rx => Accepted(got.r, buf)
               /\ Sum(s) # rx => got.r \in Reading /\ got.r.state = 0
<1> DEFINE q == rp_getpkt_char(r, Dollar)
           p == Reads(q, s)
           e == Ending(Sum(s))
           d == <<Dollar>>
<1>1. Sum(s) \in Byte
  BY SumTyped
<1>2. /\ e \in Seq(Byte) /\ Len(e) = 3 /\ d \in Seq(Byte) /\ Len(d) = 1
      /\ s \o e \in Seq(Byte) /\ Frame(s) = d \o (s \o e)
      /\ Len(Frame(s)) = 1 + (Len(s) + 3) /\ Len(s) \in Nat
  BY MarkBytes, FrameIs
<1>3. q \in Reading
  BY StartRead DEF At
<1>4. At(p, st, buf, rx) /\ (st \in 1 .. 5 \/ (st = 7 /\ ~ p.esc))
  OBVIOUS
<1> HIDE DEF q, p
<1>5. rp_getpkt(r, d) = [r |-> q, n |-> 1]
  BY GetpktOne, MarkBytes DEF q
<1> DEFINE got == rp_getpkt(p, e)
<1>6. /\ got.n = 3
      /\ Sum(s) = rx => Accepted(got.r, buf)
      /\ Sum(s) # rx => got.r \in Reading /\ got.r.state = 0
  BY <1>1, <1>4, FrameEnds DEF Ending
<1> HIDE DEF got, e, d
<1>7. rp_getpkt(q, s \o e).r = got.r /\ rp_getpkt(q, s \o e).n = Len(s) + got.n
  BY <1>2, <1>3, <1>4, GetpktConcat DEF got, p, Reads, At, Reading
<1> DEFINE u == s \o e
<1> HIDE DEF u
<1>8. rp_getpkt(r, d \o u).r = rp_getpkt(q, u).r
      /\ rp_getpkt(r, d \o u).n = 1 + rp_getpkt(q, u).n
  <2>1. Reads(r, d) = q /\ q.ret = "none"
    BY <1>3, <1>5 DEF Reads, Reading
  <2>2. u \in Seq(Byte) /\ d \in Seq(Byte) /\ Len(d) = 1
    BY <1>2 DEF u
  <2>3. Reads(r, d \o u) = Reads(Reads(r, d), u)
        /\ rp_getpkt(r, d \o u).n = Len(d) + rp_getpkt(Reads(r, d), u).n
    BY <2>1, <2>2, GetpktConcat
  <2> QED
    BY <2>1, <2>2, <2>3 DEF Reads
<1> QED
  BY <1>2, <1>6, <1>7, <1>8 DEF u

(* A packet that is not binary is accepted by a reader outside a packet. *)
LEMMA PlainPacket ==
    ASSUME NEW r \in Reading, r.state = 0, NEW s \in Seq(Byte \ Marks),
           Len(s) > 2 => s[3] # Colon, Len(s) > 3 => s[1] # 88
    PROVE  rp_getpkt(r, Frame(s)).n = Len(Frame(s)) /\ Accepted(Reads(r, Frame(s)), s)
<1> DEFINE q == rp_getpkt_char(r, Dollar)
           got == rp_getpkt(r, Frame(s))
<1>1. s \in Seq(Byte) /\ Sum(s) \in Byte /\ Len(s) \in Nat /\ <<>> \in Seq(Byte)
      /\ <<>> \o s = s /\ Len(<<>>) = 0
  BY SumTyped
<1>2. At(q, 1, <<>>, 0) /\ Sum(<<>>) = 0 /\ Place(Len(<<>>)) = 1
  BY <1>1, StartRead, SumNone DEF Place
<1> HIDE DEF q
<1>3. At(Reads(q, s), Place(Len(<<>> \o s)), <<>> \o s, Sum(<<>> \o s))
  BY <1>1, <1>2, PlainRun
<1>4. At(Reads(q, s), Place(Len(s)), s, Sum(s)) /\ Place(Len(s)) \in 1 .. 5
  BY <1>1, <1>3 DEF Place
<1> HIDE DEF got
<1>5. got.n = Len(Frame(s)) /\ Accepted(got.r, s)
  BY <1>1, <1>4, FrameReads DEF q, got
<1> QED
  BY <1>5 DEF got, Reads

(* In a packet, one is read to its end and dropped: its start is summed too. *)
LEMMA StartSummed == \A a \in Byte : Plus(Dollar, a) # a
BY SMT DEF Plus, Dollar, Byte

LEMMA NestedPacket ==
    ASSUME NEW r \in Reading, r.state # 0, NEW s \in Seq(Byte \ Marks),
           Len(s) > 1 => s[2] # Colon
    PROVE  /\ rp_getpkt(r, Frame(s)).n = Len(Frame(s))
           /\ Reads(r, Frame(s)) \in Reading /\ Reads(r, Frame(s)).state = 0
<1> DEFINE q == rp_getpkt_char(r, Dollar)
           got == rp_getpkt(r, Frame(s))
           d == <<Dollar>>
           t == d \o s
<1>1. s \in Seq(Byte) /\ Sum(s) \in Byte /\ Len(s) \in Nat /\ <<>> \in Seq(Byte)
  BY SumTyped
<1>2. At(q, 2, d, Dollar)
  BY StartRead
<1>3. /\ d \in Seq(Byte) /\ Len(d) = 1 /\ d = Append(<<>>, Dollar) /\ Dollar \in Byte
      /\ t \in Seq(Byte) /\ Len(t) = 1 + Len(s) /\ t[1] = Dollar
      /\ \A k \in 1 .. Len(s) : t[1 + k] = s[k]
  BY <1>1, MarkBytes
<1>4. Sum(d) = Dollar
  <2>1. Sum(d) = Plus(0, Dollar)
    BY <1>1, <1>3, SumAppend, SumNone
  <2> QED
    BY <2>1 DEF Plus, Dollar
<1>5. Place(Len(d)) = 2
  BY <1>3 DEF Place
<1>6. Len(t) > 2 => t[3] # Colon
  <2> SUFFICES ASSUME Len(t) > 2 PROVE t[3] # Colon
    OBVIOUS
  <2>1. 2 \in 1 .. Len(s) /\ 1 + 2 = 3 /\ Len(s) > 1
    BY <1>1, <1>3
  <2>2. t[3] = s[2]
    <3> HIDE DEF t
    <3> QED
      BY <1>3, <2>1
  <2> QED
    BY <2>1, <2>2
<1>7. t[1] # 88
  BY <1>3 DEF Dollar
<1> HIDE DEF d, q
<1>8. At(Reads(q, s), Place(Len(t)), t, Sum(t))
  BY <1>2, <1>3, <1>4, <1>5, <1>6, <1>7, PlainRun
<1>9. Sum(t) = Plus(Dollar, Sum(s)) /\ Sum(t) \in Byte
  BY <1>1, <1>3, <1>4, SumConcat, SumTyped
<1>10. Sum(s) # Sum(t)
  BY <1>1, <1>9, StartSummed
<1>11. Place(Len(t)) \in 1 .. 5
  BY <1>1, <1>3 DEF Place
<1> HIDE DEF t, got
<1>12. got.n = Len(Frame(s)) /\ got.r \in Reading /\ got.r.state = 0
  BY <1>1, <1>8, <1>9, <1>10, <1>11, FrameReads DEF q, got
<1> QED
  BY <1>12 DEF got, Reads


-----------------------------------------------------------------------------
(* A binary write. *)
BinaryAt(r, st, buf, rx) == At(r, st, buf, rx) /\ ~ r.esc

(* The request becomes one in hex. *)
InHex(s) == [s EXCEPT ![1] = 77]

LEMMA InHexIs ==
    ASSUME NEW s \in Seq(Byte), s # <<>>
    PROVE  /\ InHex(s) \in Seq(Byte) /\ Len(InHex(s)) = Len(s)
           /\ InHex(s)[1] = 77 /\ \A i \in 2 .. Len(s) : InHex(s)[i] = s[i]
<1>1. Len(s) \in Nat /\ Len(s) > 0 /\ s = [i \in 1 .. Len(s) |-> s[i]]
      /\ \A i \in 1 .. Len(s) : s[i] \in Byte
  OBVIOUS
<1>0. 77 \in Byte
  BY DEF Byte
<1>2. InHex(s) = [i \in 1 .. Len(s) |-> IF i = 1 THEN 77 ELSE s[i]]
  BY <1>1 DEF InHex
<1>3. \A i \in 1 .. Len(s) : (IF i = 1 THEN 77 ELSE s[i]) \in Byte
  BY <1>0, <1>1
<1> QED
  BY <1>1, <1>2, <1>3

LEMMA InHexAppend ==
    ASSUME NEW s \in Seq(Byte), s # <<>>, NEW c \in Byte
    PROVE  InHex(Append(s, c)) = Append(InHex(s), c)
<1> DEFINE t == Append(s, c)
<1>1. /\ t \in Seq(Byte) /\ t # <<>> /\ Len(t) = Len(s) + 1 /\ Len(s) \in Nat /\ Len(s) > 0
      /\ \A i \in 1 .. Len(s) : t[i] = s[i]
      /\ t[Len(t)] = c
  OBVIOUS
<1> HIDE DEF t
<1>2. /\ InHex(t) \in Seq(Byte) /\ Len(InHex(t)) = Len(s) + 1 /\ InHex(t)[1] = 77
      /\ \A i \in 2 .. Len(s) + 1 : InHex(t)[i] = t[i]
  BY <1>1, InHexIs
<1>3. /\ InHex(s) \in Seq(Byte) /\ Len(InHex(s)) = Len(s) /\ InHex(s)[1] = 77
      /\ \A i \in 2 .. Len(s) : InHex(s)[i] = s[i]
  BY InHexIs
<1>4. \A i \in 1 .. Len(s) + 1 : InHex(t)[i] = Append(InHex(s), c)[i]
  <2> TAKE i \in 1 .. Len(s) + 1
  <2>1. i \in Nat /\ (i = 1 \/ i \in 2 .. Len(s) \/ i = Len(s) + 1)
    BY <1>1
  <2> QED
    BY <1>1, <1>2, <1>3, <2>1
<1>5. Append(InHex(s), c) \in Seq(Byte) /\ Len(Append(InHex(s), c)) = Len(s) + 1
  BY <1>3
<1> QED
  BY <1>2, <1>4, <1>5 DEF t

LEMMA FourthStep ==
    ASSUME NEW r, NEW buf \in Seq(Byte), NEW rx, NEW c \in Byte \ Marks,
           At(r, 4, buf, rx), Len(buf) = 3, buf[1] = 88
    PROVE  BinaryAt(rp_getpkt_char(r, c), 6, InHex(Append(buf, c)), Plus(rx, c))
<1> DEFINE p == Stored(r, c, 5)
           f == FourthChar(r, c)
<1>1. /\ r \in Readers /\ r.state = 4 /\ r.buf = buf /\ r.rx = rx /\ r.seq = <<>>
      /\ r.ret = "none" /\ c \in Byte /\ c # HashMark /\ c # Dollar
  BY DEF At, Reading, Marks
<1>2. rp_getpkt_char(r, c) = f
  BY <1>1 DEF rp_getpkt_char, Next8
<1>3. StoredFrom(p, r, c, 5)
  BY <1>1, StoredIs
<1>4. /\ f \in Readers
      /\ p.buf[1] = 88 => /\ f.state = 6 /\ ~ f.esc /\ f.buf = [p.buf EXCEPT ![1] = 77]
                          /\ f.rx = p.rx /\ f.seq = p.seq /\ f.ret = p.ret
  BY <1>1, FourthCharIs
<1> HIDE DEF p, f
<1>5. p.buf = Append(buf, c) /\ p.rx = Plus(rx, c) /\ p.seq = <<>> /\ p.ret = "none"
  BY <1>1, <1>3 DEF StoredFrom
<1>6. Append(buf, c)[1] = 88
  <2>1. 1 \in 1 .. Len(buf)
    OBVIOUS
  <2> QED
    BY <2>1
<1> QED
  BY <1>2, <1>4, <1>5, <1>6 DEF BinaryAt, At, Reading, InHex

LEMMA HeadStep ==
    ASSUME NEW r, NEW buf \in Seq(Byte), NEW rx, NEW c \in Byte \ Marks,
           BinaryAt(r, 6, buf, rx)
    PROVE  BinaryAt(rp_getpkt_char(r, c), IF c = Colon THEN 7 ELSE 6, Append(buf, c), Plus(rx, c))
<1> DEFINE st == IF c = Colon THEN 7 ELSE 6
           p == Stored(r, c, st)
<1>1. /\ r \in Readers /\ r.state = 6 /\ r.buf = buf /\ r.rx = rx /\ r.seq = <<>>
      /\ r.ret = "none" /\ c \in Byte /\ c # HashMark /\ c # Dollar /\ ~ r.esc
  BY DEF BinaryAt, At, Reading, Marks
<1>2. rp_getpkt_char(r, c) = p
  BY <1>1 DEF rp_getpkt_char
<1>3. st \in 0 .. 9
  OBVIOUS
<1> HIDE DEF st
<1>4. StoredFrom(p, r, c, st)
  BY <1>1, <1>3, StoredIs
<1>5. ~ p.esc
  BY <1>1, StoredEscape
<1> HIDE DEF p
<1>6. At(p, st, Append(buf, c), Plus(rx, c))
  BY <1>1, <1>4 DEF StoredFrom, At, Reading
<1> QED
  BY <1>2, <1>5, <1>6 DEF BinaryAt, st

(* The address and the length, from the fourth character on as a write in hex. *)
HeadRead(q, x) ==
    /\ Len(x) < 4 => At(Reads(q, x), Place(Len(x)), x, Sum(x))
    /\ Len(x) > 3 => BinaryAt(Reads(q, x), 6, InHex(x), Sum(x))

LEMMA BinaryHead ==
    ASSUME NEW q, At(q, 1, <<>>, 0), NEW h \in Seq(Byte \ (Marks \cup {Colon})),
           Len(h) > 3, h[1] = 88
    PROVE  BinaryAt(Reads(q, Append(h, Colon)), 7, Append(InHex(h), Colon),
                    Sum(Append(h, Colon)))
<1> DEFINE C == Byte \ (Marks \cup {Colon})
           P == {x \in Seq(C) : (x # <<>> => x[1] = 88) => HeadRead(q, x)}
<1>0. q \in Reading /\ q \in Readers /\ <<>> \in Seq(C) /\ Len(<<>>) = 0
  BY DEF At, Reading
<1>1. <<>> \in P
  <2>1. Reads(q, <<>>) = q
    BY <1>0, GetpktNone DEF Reads
  <2>2. At(Reads(q, <<>>), Place(Len(<<>>)), <<>>, Sum(<<>>))
    BY <1>0, <2>1, SumNone DEF Place
  <2> QED
    BY <1>0, <2>2 DEF HeadRead
<1>2. ASSUME NEW x \in Seq(C), NEW c \in C, x \in P PROVE Append(x, c) \in P
  <2> DEFINE y == Append(x, c)
             p == Reads(q, x)
  <2>1. /\ y \in Seq(C) /\ x \in Seq(Byte) /\ Len(y) = Len(x) + 1 /\ Len(x) \in Nat
        /\ c \in Byte \ Marks /\ c \in Byte \ {HashMark, Dollar} /\ c \in Byte
        /\ c # Colon
        /\ \A k \in 1 .. Len(x) : y[k] = x[k]
    BY DEF Marks
  <2>2. Sum(y) = Plus(Sum(x), c)
    BY <2>1, SumAppend
  <2>3. p.ret = "none" => Reads(q, y) = rp_getpkt_char(p, c)
    BY <1>0, <2>1, ReadsAppend
  <2> SUFFICES ASSUME y[1] = 88
               PROVE  HeadRead(q, y)
    <3>1. y # <<>>
      BY <2>1
    <3> QED
      BY <2>1, <3>1 DEF HeadRead
  <2>4. y[1] = 88
    OBVIOUS
  <2>5. x # <<>> => x[1] = 88
    <3>1. x # <<>> => 1 \in 1 .. Len(x)
      BY <2>1
    <3> QED
      BY <2>1, <2>4, <3>1
  <2> HIDE DEF y, p
  <2>6. /\ Len(x) < 4 => At(p, Place(Len(x)), x, Sum(x))
        /\ Len(x) > 3 => BinaryAt(p, 6, InHex(x), Sum(x))
    BY <1>2, <2>5 DEF p, HeadRead
  <2>7. CASE Len(x) < 3
    <3>1. At(rp_getpkt_char(p, c), Place(Len(x) + 1), Append(x, c), Plus(Sum(x), c))
      BY <2>1, <2>6, <2>7, PlainStep
    <3>2. p.ret = "none"
      BY <2>6, <2>7 DEF At, Reading
    <3> QED
      BY <2>1, <2>2, <2>3, <2>7, <3>1, <3>2 DEF y, HeadRead
  <2>8. CASE Len(x) = 3
    <3>1. At(p, 4, x, Sum(x)) /\ x[1] = 88
      <4>1. x # <<>> /\ Place(Len(x)) = 4
        BY <2>8 DEF Place
      <4> QED
        BY <2>5, <2>6, <2>8, <4>1
    <3>2. BinaryAt(rp_getpkt_char(p, c), 6, InHex(Append(x, c)), Plus(Sum(x), c))
      BY <2>1, <2>8, <3>1, FourthStep
    <3>3. p.ret = "none"
      BY <3>1 DEF At, Reading
    <3> QED
      BY <2>1, <2>2, <2>3, <2>8, <3>2, <3>3 DEF y, HeadRead
  <2>9. CASE Len(x) > 3
    <3>1. InHex(x) \in Seq(Byte) /\ InHex(Append(x, c)) = Append(InHex(x), c)
      <4>1. x # <<>>
        BY <2>9
      <4> QED
        BY <2>1, <4>1, InHexIs, InHexAppend
    <3>2. BinaryAt(p, 6, InHex(x), Sum(x))
      BY <2>6, <2>9
    <3>3. BinaryAt(rp_getpkt_char(p, c), 6, Append(InHex(x), c), Plus(Sum(x), c))
      BY <2>1, <3>1, <3>2, HeadStep
    <3>4. p.ret = "none"
      BY <3>2 DEF BinaryAt, At, Reading
    <3>5. BinaryAt(Reads(q, y), 6, InHex(y), Sum(y))
      BY <2>2, <2>3, <3>1, <3>3, <3>4 DEF y
    <3>6. ~ (Len(y) < 4)
      BY <2>1, <2>9
    <3> QED
      BY <3>5, <3>6 DEF HeadRead
  <2>10. \A n \in Nat : n < 3 \/ n = 3 \/ n > 3
    OBVIOUS
  <2> QED
    BY <2>1, <2>7, <2>8, <2>9, <2>10
<1>3. h \in P
  <2> HIDE DEF P
  <2>1. \A x \in Seq(C) : x \in P
    <3> HIDE DEF C
    <3> QED
      BY <1>1, <1>2, SeqInduction
  <2> QED
    BY <2>1
<1> DEFINE p == Reads(q, h)
           z == InHex(h)
<1>4. BinaryAt(p, 6, z, Sum(h))
  BY <1>3 DEF HeadRead
<1>5. z \in Seq(Byte) /\ h \in Seq(Byte) /\ Colon \in Byte \ Marks /\ Colon \in Byte
  <2>1. h \in Seq(Byte) /\ h # <<>>
    OBVIOUS
  <2>2. Colon \in Byte \ Marks
    BY DEF Byte, Colon, Marks, HashMark, Dollar
  <2> QED
    BY <2>1, <2>2, InHexIs
<1> HIDE DEF p, z
<1>6. BinaryAt(rp_getpkt_char(p, Colon), 7, Append(z, Colon), Plus(Sum(h), Colon))
  BY <1>4, <1>5, HeadStep
<1>7. p.ret = "none"
  BY <1>4 DEF BinaryAt, At, Reading
<1>8. Reads(q, Append(h, Colon)) = rp_getpkt_char(p, Colon)
  BY <1>0, <1>5, <1>7, ReadsAppend DEF p
<1>9. Sum(Append(h, Colon)) = Plus(Sum(h), Colon)
  BY <1>5, SumAppend
<1> QED
  BY <1>6, <1>8, <1>9 DEF z

(* A byte of the data: what would be a mark or an escape is escaped. *)
EscapedByte(d) ==
    IF d \in {HashMark, Dollar, Brace} THEN <<Brace, Unescape(d)>> ELSE <<d>>

LEMMA EscapedIs ==
    ASSUME NEW d \in Byte
    PROVE  /\ EscapedByte(d) \in Seq(Byte \ Marks)
           /\ d \in {HashMark, Dollar, Brace} =>
                 /\ Unescape(d) \in Byte \ Marks /\ Unescape(Unescape(d)) = d
<1>1. d \in {HashMark, Dollar, Brace} =>
         Unescape(d) \in Byte \ Marks /\ Unescape(Unescape(d)) = d
  BY SMT DEF HashMark, Dollar, Brace, Unescape, Marks, Byte
<1>2. Brace \in Byte \ Marks
  BY SMT DEF HashMark, Dollar, Brace, Marks, Byte
<1> DEFINE C == Byte \ Marks
<1>3. CASE d \in {HashMark, Dollar, Brace}
  <2>1. Unescape(d) \in C /\ Brace \in C
    BY <1>1, <1>2, <1>3
  <2> HIDE DEF C
  <2>2. <<Brace, Unescape(d)>> \in Seq(C)
    BY <2>1
  <2> QED
    BY <1>1, <1>3, <2>2 DEF EscapedByte, C
<1>4. CASE d \notin {HashMark, Dollar, Brace}
  <2>1. d \in C
    BY <1>4 DEF Marks
  <2> HIDE DEF C
  <2>2. <<d>> \in Seq(C)
    BY <2>1
  <2> QED
    BY <1>4, <2>2 DEF EscapedByte, C
<1> QED
  BY <1>3, <1>4

LEMMA BinaryByte ==
    ASSUME NEW r, NEW buf \in Seq(Byte), NEW rx \in Byte, NEW d \in Byte,
           BinaryAt(r, 7, buf, rx)
    PROVE  BinaryAt(Reads(r, EscapedByte(d)), 7, buf \o rp_encode_byte(d),
                    Plus(rx, Sum(EscapedByte(d))))
<1>1. /\ r \in Readers /\ r \in Reading /\ r.state = 7 /\ r.buf = buf /\ r.rx = rx
      /\ r.seq = <<>> /\ r.ret = "none" /\ ~ r.esc
  BY DEF BinaryAt, At, Reading
<1>2. Sum(<<d>>) = d /\ <<d>> \in Seq(Byte)
  <2>1. <<d>> = Append(<<>>, d) /\ <<>> \in Seq(Byte) /\ <<d>> \in Seq(Byte)
    OBVIOUS
  <2>2. Sum(<<d>>) = Plus(0, d)
    BY <2>1, SumAppend, SumNone
  <2> QED
    BY <2>1, <2>2 DEF Plus, Byte
<1>3. CASE d \notin {HashMark, Dollar, Brace}
  <2> DEFINE p == AsHex(r, d, d)
  <2>1. EscapedByte(d) = <<d>>
    BY <1>3 DEF EscapedByte
  <2>2. rp_getpkt_char(r, d) = p
    <3>1. rp_getpkt_char(r, d) = BinaryChar(r, d)
      BY <1>1, <1>3 DEF rp_getpkt_char
    <3> QED
      BY <1>1, <1>3, <3>1 DEF BinaryChar, Next8
  <2>3. /\ p \in Readers /\ p.buf = buf \o rp_encode_byte(d) /\ p.rx = Plus(rx, d)
        /\ p.state = 7 /\ p.seq = <<>> /\ p.ret = "none" /\ ~ p.esc
    BY <1>1, AsHexIs
  <2> HIDE DEF p
  <2>4. Reads(r, <<d>>) = p
    BY <1>1, <2>2, ReadsOne
  <2> QED
    BY <1>2, <2>1, <2>3, <2>4 DEF BinaryAt, At, Reading
<1>4. CASE d \in {HashMark, Dollar, Brace}
  <2> DEFINE u == Unescape(d)
             p == [r EXCEPT !.rx = (@ + Brace) % 256, !.esc = TRUE]
             e == [AsHex(p, Unescape(u), u) EXCEPT !.esc = FALSE]
             b == <<Brace>>
  <2>1. u \in Byte /\ u # HashMark /\ u # Dollar /\ Unescape(u) = d
    BY <1>4, EscapedIs DEF Marks
  <2>2. /\ Brace \in Byte /\ Brace # HashMark /\ Brace # Dollar
    BY DEF Brace, HashMark, Dollar, Byte
  <2>3. EscapedByte(d) = Append(b, u) /\ b \in Seq(Byte) /\ b = Append(<<>>, Brace)
        /\ <<>> \in Seq(Byte)
    BY <1>4, <2>2 DEF EscapedByte
  <2> HIDE DEF u
  <2>4. rp_getpkt_char(r, Brace) = p
    <3>1. rp_getpkt_char(r, Brace) = BinaryChar(r, Brace)
      BY <1>1, <2>2 DEF rp_getpkt_char
    <3> QED
      BY <1>1, <3>1 DEF BinaryChar
  <2>5. /\ p \in Readers /\ p.esc /\ p.rx = Plus(rx, Brace) /\ p.state = 7 /\ p.buf = buf
        /\ p.seq = <<>> /\ p.ret = "none"
    <3>1. EscapeFrom(p, r, Brace)
      BY <1>1, <2>2, EscapeStarts, Zenon
    <3> QED
      BY <1>1, <3>1 DEF EscapeFrom
  <2> HIDE DEF p
  <2>6. Reads(r, b) = p
    BY <1>1, <2>2, <2>4, ReadsOne
  <2>7. rp_getpkt_char(p, u) = e
    <3>1. rp_getpkt_char(p, u) = BinaryChar(p, u)
      BY <2>1, <2>5 DEF rp_getpkt_char
    <3> QED
      BY <2>5, <3>1 DEF BinaryChar
  <2>8. /\ e \in Readers /\ ~ e.esc /\ e.rx = Plus(p.rx, u) /\ e.state = p.state
        /\ e.buf = p.buf \o rp_encode_byte(Unescape(u)) /\ e.seq = p.seq /\ e.ret = p.ret
    BY <2>1, <2>5, EscapeEnds
  <2> HIDE DEF e
  <2>9. Reads(r, Append(b, u)) = e
    BY <1>1, <2>1, <2>3, <2>5, <2>6, <2>7, ReadsAppend
  <2>10. Sum(Append(b, u)) = Plus(Brace, u)
    <3>1. Sum(b) = Plus(0, Brace)
      BY <2>2, <2>3, SumAppend, SumNone
    <3>2. Plus(0, Brace) = Brace
      BY DEF Plus, Brace
    <3>3. u \in Byte /\ b \in Seq(Byte)
      BY <2>1, <2>3, Zenon
    <3> HIDE DEF b
    <3>4. Sum(Append(b, u)) = Plus(Sum(b), u)
      BY <3>3, SumAppend
    <3> QED
      BY <3>1, <3>2, <3>4, Zenon
  <2>11. Plus(Plus(rx, Brace), u) = Plus(rx, Plus(Brace, u))
    BY <2>1, <2>2, PlusAssociates
  <2>12. e.rx = Plus(rx, Plus(Brace, u)) /\ e.buf = buf \o rp_encode_byte(d)
    BY <2>1, <2>5, <2>8, <2>11, Zenon
  <2>13. BinaryAt(e, 7, buf \o rp_encode_byte(d), Plus(rx, Plus(Brace, u)))
    BY <2>5, <2>8, <2>12, Zenon DEF BinaryAt, At, Reading
  <2> QED
    BY <2>3, <2>9, <2>10, <2>13, Zenon
<1> QED
  BY <1>3, <1>4

-----------------------------------------------------------------------------
(* The requests for memory. *)

(* Addresses are words and offsets. *)
LEMMA DivMod ==
    ASSUME NEW n \in Nat
    PROVE  /\ n \div 4 \in Nat /\ n % 4 \in 0 .. 3
           /\ n = 4 * (n \div 4) + (n % 4)
BY SMT

LEMMA Quotient ==
    ASSUME NEW w \in Nat, NEW b \in 0 .. 3
    PROVE  (4 * w + b) \div 4 = w /\ (4 * w + b) % 4 = b
BY SMT

(* What is written before the first whole word ends at a word or at the end. *)
LEMMA HeadEndsWord ==
    ASSUME NEW at \in Nat, NEW n \in Nat
    PROVE  /\ HeadBytes(at, n) \in 0 .. 3 /\ HeadBytes(at, n) <= n
           /\ HeadBytes(at, n) < n => (at + HeadBytes(at, n)) % 4 = 0
           /\ (at % 4) + HeadBytes(at, n) <= 4
           /\ HeadBytes(at, n) = 0 => at % 4 = 0 \/ n = 0
BY DivMod, Quotient, SMT DEF HeadBytes, Lesser

(* Byte b of word w is the one the request names there, or the old one. *)
WrittenAsByte(at, data, w, b) ==
    Written(at, data, w)[b + 1] =
       IF 4 * w + b - at + 1 \in DOMAIN data
         THEN data[4 * w + b - at + 1] ELSE mem[w][b + 1]

(* elvees_write_mem: the parts of a write meet without gap or overlap, and    *)
(* keep what the request does not name.                                       *)
LEMMA WrittenByte ==
    ASSUME MemAssumption,
           mem \in [0 .. Words - 1 -> [1 .. 4 -> Byte]],
           NEW at \in 0 .. Top, NEW data \in Seq(Byte), data # <<>>,
           at + Len(data) - 1 <= Top,
           NEW w \in 0 .. Words - 1, NEW b \in 0 .. 3
    PROVE  WrittenAsByte(at, data, w, b)
<1> SUFFICES Written(at, data, w)[b + 1] =
                IF 4 * w + b - at + 1 \in DOMAIN data
                  THEN data[4 * w + b - at + 1] ELSE mem[w][b + 1]
    BY DEF WrittenAsByte
<1> DEFINE n == Len(data)
           p == at \div 4
           o == at % 4
           head == HeadBytes(at, n)
           body == (n - head) \div 4
           block == (at + head) \div 4
           tail == (n - head) % 4
<1>1. at \in Nat /\ n \in Nat /\ n > 0 /\ DOMAIN data = 1 .. n /\ Top \in Nat
      BY SMT DEF MemAssumption
<1>2. p \in Nat /\ o \in 0 .. 3 /\ at = 4 * p + o
      BY <1>1, DivMod
<1>3. /\ head \in 0 .. 3 /\ head <= n /\ o + head <= 4
      /\ head < n => (at + head) % 4 = 0
      /\ head = 0 => o = 0
  <2> HIDE DEF n
  <2>1. /\ head \in 0 .. 3 /\ head <= n
        /\ head < n => (at + head) % 4 = 0
        /\ o + head <= 4
        /\ head = 0 => o = 0 \/ n = 0
        BY <1>1, HeadEndsWord, Zenon
  <2> HIDE DEF head, o
  <2> QED BY <1>1, <2>1
<1>4. /\ body \in Nat /\ tail \in 0 .. 3 /\ n - head = 4 * body + tail
      /\ block \in Nat /\ at + head = 4 * block + ((at + head) % 4)
      /\ (at + head) % 4 \in 0 .. 3
  <2> HIDE DEF n, head
  <2>1. n - head \in Nat /\ at + head \in Nat
        BY <1>1, <1>3
  <2> QED BY <2>1, DivMod
<1>5. w \in Nat
      BY <1>1, DivMod, SMT DEF Words
<1> HIDE DEF n, p, o, head, body, block, tail
<1>6. Written(at, data, w) =
         IF head > 0 /\ w = p THEN Patched(mem[w], o, SubSeq(data, 1, head))
         ELSE IF w \in block .. block + body - 1
           THEN SubSeq(data, head + 4 * (w - block) + 1, head + 4 * (w - block) + 4)
         ELSE IF tail > 0 /\ w = block + body
           THEN Patched(mem[w], 0, SubSeq(data, head + 4 * body + 1, n))
         ELSE mem[w]
      BY DEF Written, n, p, o, head, body, block, tail
<1>7. \A i, j \in Nat : i > 0 /\ j <= n /\ i <= j =>
         /\ DOMAIN SubSeq(data, i, j) = 1 .. j - i + 1
         /\ \A k \in 1 .. j - i + 1 : SubSeq(data, i, j)[k] = data[i + k - 1]
      BY <1>1, SMTT(60) DEF n
<1>b1. b + 1 \in 1 .. 4
      OBVIOUS
<1>a. CASE head > 0 /\ w = p
  <2> DEFINE j == (b + 1) - o
  <2>0. j \in Int /\ b + 1 = j + o
        BY <1>2
  <2> HIDE DEF j
  <2>1. Written(at, data, w)[b + 1] =
           IF j \in 1 .. head THEN data[j] ELSE mem[w][b + 1]
    <3>1. /\ DOMAIN SubSeq(data, 1, head) = 1 .. head
          /\ \A k \in 1 .. head : SubSeq(data, 1, head)[k] = data[k]
          BY <1>1, <1>3, <1>7, <1>a, SMTT(60)
    <3> DEFINE part == SubSeq(data, 1, head)
    <3>2. Written(at, data, w) = Patched(mem[w], o, part)
          BY <1>6, <1>a
    <3> HIDE DEF part
    <3>3. Patched(mem[w], o, part)[b + 1] =
             IF j \in 1 .. head THEN part[j] ELSE mem[w][b + 1]
      <4>1. DOMAIN part = 1 .. head
            BY <3>1 DEF part
      <4>2. Patched(mem[w], o, part)[b + 1] =
               IF j \in DOMAIN part THEN part[j] ELSE mem[w][b + 1]
            BY <1>2, <1>b1, Zenon DEF Patched, j
      <4> QED BY <4>1, <4>2, Zenon
    <3>4. j \in 1 .. head => part[j] = data[j]
          BY <3>1 DEF part
    <3> QED BY <3>2, <3>3, <3>4
  <2>2. 4 * w + b - at + 1 = j
        BY <1>1, <1>2, <1>a, <2>0
  <2>3. j \in 1 .. n => j \in 1 .. head
    <3>1. head < n => o + head = 4
      <4>1. head < n => 4 * p + (o + head) = 4 * block
            BY <1>1, <1>2, <1>3, <1>4
      <4>2. \A x, y \in Nat, z \in 1 .. 4 : 4 * x + z = 4 * y => z = 4
            BY SMTT(60)
      <4>3. o + head \in 1 .. 4
            BY <1>2, <1>3, <1>a
      <4> QED BY <1>2, <1>4, <4>1, <4>2, <4>3
    <3>2. head = n \/ head < n
          BY <1>1, <1>3
    <3>3. head < n => j <= head
          BY <1>2, <1>3, <2>0, <3>1
    <3> QED BY <1>1, <1>3, <2>0, <3>2, <3>3
  <2> QED BY <1>1, <1>2, <1>3, <2>1, <2>2, <2>3, SMTT(60)
<1>b. CASE ~ (head > 0 /\ w = p) /\ w \in block .. block + body - 1
  <2> DEFINE first == head + 4 * (w - block) + 1
  <2>1. /\ first \in Nat /\ first > 0 /\ first + 3 <= n /\ first + 3 \in Nat
        /\ at + head = 4 * block
        BY <1>1, <1>3, <1>4, <1>5, <1>b, SMT
  <2>2. SubSeq(data, first, first + 3)[b + 1] = data[first + b]
    <3>1. /\ b + 1 \in 1 .. (first + 3) - first + 1 /\ first + (b + 1) - 1 = first + b
          /\ first <= first + 3
          BY <2>1, SMTT(60)
    <3> HIDE DEF first
    <3>2. SubSeq(data, first, first + 3)[b + 1] = data[first + (b + 1) - 1]
          BY <1>7, <2>1, <3>1, Zenon
    <3> QED BY <3>1, <3>2
  <2>3. Written(at, data, w)[b + 1] = data[first + b]
    <3>1. head + 4 * (w - block) + 4 = first + 3
          BY <1>3, <1>4, <1>5, SMT
    <3> QED BY <1>6, <1>b, <2>2, <3>1
  <2>4. 4 * w + b - at + 1 = first + b /\ first + b \in 1 .. n
        BY <1>1, <1>3, <1>4, <1>5, <2>1, SMT
  <2> QED BY <1>1, <2>3, <2>4
<1>c. CASE /\ ~ (head > 0 /\ w = p) /\ w \notin block .. block + body - 1
           /\ tail > 0 /\ w = block + body
  <2> DEFINE first == head + 4 * body + 1
  <2>1. /\ first \in Nat /\ first > 0 /\ n - first + 1 = tail
        /\ at + head = 4 * block
        BY <1>1, <1>3, <1>4, <1>c, SMT
  <2>2. /\ DOMAIN SubSeq(data, first, n) = 1 .. tail
        /\ \A k \in 1 .. tail : SubSeq(data, first, n)[k] = data[first + k - 1]
    <3>1. first <= n /\ n <= n
          BY <1>1, <1>4, <1>c, <2>1, SMTT(60)
    <3> HIDE DEF first
    <3> QED BY <1>1, <1>7, <2>1, <3>1, Zenon
  <2>4. Written(at, data, w)[b + 1] =
           IF b + 1 \in 1 .. tail THEN data[first + b] ELSE mem[w][b + 1]
    <3> DEFINE part == SubSeq(data, first, n)
    <3>1. Written(at, data, w) = Patched(mem[w], 0, part)
          BY <1>6, <1>c
    <3>2. /\ DOMAIN part = 1 .. tail
          /\ b + 1 \in 1 .. tail => part[b + 1] = data[first + (b + 1) - 1]
          BY <2>2
    <3>3. b + 1 - 0 = b + 1 /\ first + (b + 1) - 1 = first + b
          BY <2>1, SMT
    <3> HIDE DEF part, first
    <3>4. Patched(mem[w], 0, part)[b + 1] =
             IF b + 1 - 0 \in 1 .. tail THEN part[b + 1 - 0] ELSE mem[w][b + 1]
      <4>1. Patched(mem[w], 0, part)[b + 1] =
               IF b + 1 - 0 \in DOMAIN part THEN part[b + 1 - 0] ELSE mem[w][b + 1]
            BY <1>b1 DEF Patched
      <4> QED BY <3>2, <4>1
    <3> QED BY <3>1, <3>2, <3>3, <3>4
  <2>5. /\ 4 * w + b - at + 1 = first + b
        /\ b + 1 \in 1 .. tail <=> first + b \in 1 .. n
        BY <1>1, <1>3, <1>4, <1>5, <1>c, <2>1, SMT
  <2> QED BY <1>1, <2>4, <2>5
<1>d. CASE /\ ~ (head > 0 /\ w = p) /\ w \notin block .. block + body - 1
           /\ ~ (tail > 0 /\ w = block + body)
  <2>1. Written(at, data, w)[b + 1] = mem[w][b + 1]
        BY <1>6, <1>d
  <2>2. 4 * w + b - at + 1 \notin 1 .. n
    <3>1. CASE 4 * w + b < at
          BY <1>1, <1>5, <3>1, SMT
    <3>2. CASE 4 * w + b >= at /\ 4 * w + b < at + head
          BY <1>1, <1>2, <1>3, <1>5, <1>d, <3>2, SMT
    <3>3. CASE 4 * w + b >= at + head
          BY <1>1, <1>2, <1>3, <1>4, <1>5, <1>d, <3>3, SMT
    <3> QED BY <1>1, <1>3, <1>5, <3>1, <3>2, <3>3, SMT
  <2> QED BY <1>1, <2>1, <2>2
<1> QED BY <1>a, <1>b, <1>c, <1>d

(* elvees_write_mem: a write is refused as a whole, or it changes exactly the *)
(* bytes it names.                                                            *)
THEOREM WriteIsBytewise ==
    ASSUME MemAssumption,
           mem \in [0 .. Words - 1 -> [1 .. 4 -> Byte]],
           NEW at \in Nat, NEW data \in Seq(Byte)
    PROVE  LET put == elvees_write_mem(at, data)
           IN  /\ put.ok <=> data = <<>> \/ at + Len(data) - 1 <= Top
               /\ put.ok => BytesOf(put.val) =
                     [a \in 0 .. Top |-> IF a - at + 1 \in DOMAIN data
                                          THEN data[a - at + 1] ELSE BytesOf(mem)[a]]
<1> DEFINE put == elvees_write_mem(at, data)
<1>1. Len(data) \in Nat /\ Top \in Nat /\ (Top + 1) % 4 = 0
      BY DEF MemAssumption
<1>2. CASE data = <<>>
  <2>1. put.ok /\ put.val = mem /\ DOMAIN data = {}
        BY <1>2 DEF elvees_write_mem
  <2> QED BY <1>2, <2>1 DEF BytesOf
<1>3. CASE data # <<>> /\ at + Len(data) - 1 > Top
  <2>1. ~ put.ok
        BY <1>3 DEF elvees_write_mem, Failed
  <2> QED BY <1>1, <1>3, <2>1
<1>4. CASE data # <<>> /\ at + Len(data) - 1 <= Top
  <2>1. Len(data) > 0
        BY <1>1, <1>4
  <2>2. at \in 0 .. Top
        BY <1>1, <1>4, <2>1
  <2>3. put.ok /\ put.val = [w \in 0 .. Words - 1 |-> Written(at, data, w)]
        BY <1>1, <1>4, <2>2 DEF elvees_write_mem
  <2>4. ASSUME NEW a \in 0 .. Top
        PROVE  /\ a \div 4 \in 0 .. Words - 1 /\ a % 4 \in 0 .. 3
               /\ a = 4 * (a \div 4) + (a % 4)
    <3>1. a \in Nat /\ Top + 1 \in Nat
          BY <1>1, <2>4
    <3> QED BY <1>1, <2>4, <3>1, DivMod, SMT DEF Words
  <2>5. ASSUME NEW a \in 0 .. Top
        PROVE  put.val[a \div 4][(a % 4) + 1] =
                  IF a - at + 1 \in DOMAIN data
                    THEN data[a - at + 1] ELSE mem[a \div 4][(a % 4) + 1]
    <3> DEFINE w == a \div 4
               b == a % 4
    <3>1. w \in 0 .. Words - 1 /\ b \in 0 .. 3 /\ a = 4 * w + b
          BY <2>4
    <3> HIDE DEF w, b
    <3>2. WrittenAsByte(at, data, w, b)
          BY <1>4, <2>2, <3>1, WrittenByte
    <3>3. put.val[w] = Written(at, data, w)
          BY <2>3, <3>1
    <3>4. put.val[w][b + 1] =
             IF a - at + 1 \in DOMAIN data THEN data[a - at + 1] ELSE mem[w][b + 1]
      <4>1. 4 * w + b - at + 1 = a - at + 1
            BY <3>1
      <4> QED BY <3>2, <3>3, <4>1, Zenon DEF WrittenAsByte
    <3> QED BY <3>4 DEF w, b
  <2> QED BY <1>4, <2>3, <2>5 DEF BytesOf
<1> QED BY <1>1, <1>2, <1>3, <1>4

(* all is s, then t, then u. *)
IsJoin(all, s, t, u) ==
    /\ Len(all) = Len(s) + Len(t) + Len(u)
    /\ \A i \in 1 .. Len(s) + Len(t) + Len(u) :
          all[i] = IF i <= Len(s) THEN s[i]
                   ELSE IF i <= Len(s) + Len(t) THEN t[i - Len(s)]
                   ELSE u[i - Len(s) - Len(t)]

(* The parts of a read, put together. *)
LEMMA Concat3 ==
    ASSUME NEW S, NEW s \in Seq(S), NEW t \in Seq(S), NEW u \in Seq(S),
           NEW all, all = s \o t \o u
    PROVE  all \in Seq(S) /\ IsJoin(all, s, t, u)
<1> DEFINE st == s \o t
<1>1. /\ st \in Seq(S) /\ Len(st) = Len(s) + Len(t)
      /\ \A i \in 1 .. Len(s) + Len(t) :
            st[i] = IF i <= Len(s) THEN s[i] ELSE t[i - Len(s)]
      BY ConcatProperties
<1> HIDE DEF st
<1>2. /\ st \o u \in Seq(S) /\ Len(st \o u) = Len(st) + Len(u)
      /\ \A i \in 1 .. Len(st) + Len(u) :
            (st \o u)[i] = IF i <= Len(st) THEN st[i] ELSE u[i - Len(st)]
  <2>1. st \in Seq(S)
        BY <1>1
  <2> QED BY <2>1, ConcatProperties, Zenon
<1>3. Len(s) \in Nat /\ Len(t) \in Nat /\ Len(u) \in Nat
      OBVIOUS
<1>4. ASSUME NEW i \in 1 .. Len(s) + Len(t) + Len(u)
      PROVE  (st \o u)[i] =
                IF i <= Len(s) THEN s[i]
                ELSE IF i <= Len(s) + Len(t) THEN t[i - Len(s)]
                ELSE u[i - Len(s) - Len(t)]
  <2>1. CASE i <= Len(s) + Len(t)
        BY <1>1, <1>2, <1>3, <1>4, <2>1
  <2>2. CASE i > Len(s) + Len(t)
    <3>1. i - Len(st) = i - Len(s) - Len(t) /\ ~ (i <= Len(s))
          BY <1>1, <1>3, <2>2
    <3> QED BY <1>1, <1>2, <1>3, <1>4, <2>2, <3>1
  <2>3. i <= Len(s) + Len(t) \/ i > Len(s) + Len(t)
        BY <1>3, <1>4
  <2> QED BY <2>1, <2>2, <2>3, Zenon
<1>5. /\ st \o u \in Seq(S)
      /\ Len(st \o u) = Len(s) + Len(t) + Len(u)
      BY <1>1, <1>2
<1>6. all = st \o u
      BY DEF st
<1> QED BY <1>4, <1>5, <1>6, Zenon DEF IsJoin

ByteAt(a) == mem[a \div 4][(a % 4) + 1]

(* s is what the memory holds at m addresses from a on. *)
IsBytes(s, a, m) ==
    /\ s \in Seq(Byte) /\ Len(s) = m
    /\ \A i \in 1 .. m : s[i] = ByteAt(a + i - 1)

LEMMA JoinBytes ==
    ASSUME NEW a \in Nat, NEW k \in Nat, NEW l \in Nat, NEW m \in Nat,
           NEW s, NEW t, NEW u,
           IsBytes(s, a, k), IsBytes(t, a + k, l), IsBytes(u, a + k + l, m),
           NEW all, all = s \o t \o u
    PROVE  IsBytes(all, a, k + l + m)
<1>1. /\ s \in Seq(Byte) /\ t \in Seq(Byte) /\ u \in Seq(Byte)
      /\ Len(s) = k /\ Len(t) = l /\ Len(u) = m
      BY DEF IsBytes
<1>2. /\ all \in Seq(Byte) /\ Len(all) = k + l + m
      /\ \A i \in 1 .. k + l + m :
            all[i] = IF i <= k THEN s[i] ELSE IF i <= k + l THEN t[i - k] ELSE u[i - k - l]
  <2>1. all \in Seq(Byte) /\ IsJoin(all, s, t, u)
        BY <1>1, Concat3, Zenon
  <2> QED BY <1>1, <2>1 DEF IsJoin
<1>3. ASSUME NEW i \in 1 .. k + l + m
      PROVE  all[i] = ByteAt(a + i - 1)
  <2>1. CASE i <= k
        BY <1>2, <1>3, <2>1 DEF IsBytes
  <2>2. CASE i > k /\ i <= k + l
    <3>1. /\ i - k \in 1 .. l /\ a + k + (i - k) - 1 = a + i - 1
          /\ ~ (i <= k)
          BY <2>2
    <3>2. t[i - k] = ByteAt(a + i - 1)
          BY <3>1 DEF IsBytes
    <3> QED BY <1>2, <2>2, <3>1, <3>2
  <2>3. CASE i > k + l
    <3>1. /\ i - k - l \in 1 .. m /\ a + k + l + (i - k - l) - 1 = a + i - 1
          /\ ~ (i <= k) /\ ~ (i <= k + l)
          BY <2>3
    <3>2. u[i - k - l] = ByteAt(a + i - 1)
          BY <3>1 DEF IsBytes
    <3> QED BY <1>2, <3>1, <3>2
  <2>4. i <= k \/ (i > k /\ i <= k + l) \/ i > k + l
        OBVIOUS
  <2> QED BY <2>1, <2>2, <2>3, <2>4, Zenon
<1> QED BY <1>2, <1>3 DEF IsBytes

(* Of no bytes. *)
LEMMA NoBytes ==
    ASSUME NEW a
    PROVE  IsBytes(<<>>, a, 0)
BY DEF IsBytes

(* Part of a word. *)
LEMMA PartOfWord ==
    ASSUME mem \in [0 .. Words - 1 -> [1 .. 4 -> Byte]], Words \in Nat,
           NEW p \in 0 .. Words - 1, NEW o \in 0 .. 3, NEW m \in 1 .. 4, o + m <= 4
    PROVE  IsBytes(SubSeq(mem[p], o + 1, o + m), 4 * p + o, m)
<1> DEFINE v == mem[p]
           s == SubSeq(v, o + 1, o + m)
<1>1. v \in [1 .. 4 -> Byte]
      OBVIOUS
<1> HIDE DEF v
<1>2. /\ s \in Seq(Byte) /\ Len(s) = m
      /\ \A i \in 1 .. m : s[i] = v[o + i]
  <2>1. /\ o + 1 \in Int /\ o + m \in Int /\ o + 1 <= o + m /\ o + m - (o + 1) + 1 = m
        /\ \A i \in o + 1 .. o + m : v[i] \in Byte
        BY <1>1
  <2>2. /\ s \in Seq(Byte)
        /\ Len(s) = IF o + 1 <= o + m THEN o + m - (o + 1) + 1 ELSE 0
        /\ \A i \in 1 .. o + m - (o + 1) + 1 : s[i] = v[o + 1 + i - 1]
        BY <2>1, SubSeqProperties
  <2>3. \A i \in 1 .. m : o + 1 + i - 1 = o + i
        OBVIOUS
  <2> HIDE DEF s
  <2> QED BY <2>1, <2>2, <2>3
<1>3. ASSUME NEW i \in 1 .. m
      PROVE  s[i] = ByteAt(4 * p + o + i - 1)
  <2>1. p \in Nat /\ o + i - 1 \in 0 .. 3 /\ 4 * p + o + i - 1 = 4 * p + (o + i - 1)
        OBVIOUS
  <2>2. (4 * p + (o + i - 1)) \div 4 = p /\ (4 * p + (o + i - 1)) % 4 = o + i - 1
        BY <2>1, Quotient
  <2>3. ByteAt(4 * p + o + i - 1) = mem[p][o + i - 1 + 1]
        BY <2>1, <2>2 DEF ByteAt
  <2>4. o + i - 1 + 1 = o + i
        OBVIOUS
  <2> QED BY <1>2, <2>3, <2>4 DEF v
<1> QED BY <1>2, <1>3 DEF IsBytes, v

(* Whole words. *)
LEMMA WholeWords ==
    ASSUME mem \in [0 .. Words - 1 -> [1 .. 4 -> Byte]], Words \in Nat,
           NEW p \in Nat, NEW m \in Nat, m > 0 => p + m <= Words
    PROVE  IsBytes([i \in 1 .. 4 * m |->
                       target_read_word(4 * p + i - 1)[((i - 1) % 4) + 1]],
                   4 * p, 4 * m)
<1>1. ASSUME NEW i \in 1 .. 4 * m
      PROVE  /\ target_read_word(4 * p + i - 1)[((i - 1) % 4) + 1] = ByteAt(4 * p + i - 1)
             /\ ByteAt(4 * p + i - 1) \in Byte
  <2> DEFINE w == (i - 1) \div 4
             b == (i - 1) % 4
  <2>1. w \in Nat /\ b \in 0 .. 3 /\ i - 1 = 4 * w + b
    <3>1. i - 1 \in Nat
          OBVIOUS
    <3> QED BY <3>1, DivMod
  <2> HIDE DEF w, b
  <2>2. p + w \in 0 .. Words - 1 /\ 4 * p + i - 1 = 4 * (p + w) + b
        BY <2>1
  <2>3. (4 * (p + w) + b) \div 4 = p + w /\ (4 * (p + w) + b) % 4 = b
        BY <2>1, Quotient
  <2>4. ByteAt(4 * p + i - 1) = mem[p + w][b + 1]
        BY <2>2, <2>3 DEF ByteAt
  <2>5. target_read_word(4 * p + i - 1) = mem[p + w]
        BY <2>2, <2>3 DEF target_read_word
  <2>6. mem[p + w][b + 1] \in Byte
        BY <2>1, <2>2
  <2> QED BY <2>4, <2>5, <2>6 DEF b
<1> QED BY <1>1 DEF IsBytes

(* elvees_read_mem (which asserts that bytes are asked for): a read that      *)
(* starts beyond the memory is refused; any other returns                     *)
(* the bytes at the addresses it names that exist, in order.                  *)
THEOREM ReadIsBytewise ==
    ASSUME MemAssumption,
           mem \in [0 .. Words - 1 -> [1 .. 4 -> Byte]],
           NEW at \in Nat, NEW asks \in Nat \ {0}
    PROVE  LET got == elvees_read_mem(at, asks)
           IN  /\ got.ok <=> at <= Top
               /\ got.ok => IsBytes(got.val, at, Truncated(at, asks))
<1> DEFINE got == elvees_read_mem(at, asks)
<1>1. Top \in Nat /\ (Top + 1) % 4 = 0 /\ Words \in Nat /\ Top + 1 = 4 * Words
      BY DivMod DEF MemAssumption, Words
<1>2. CASE at > Top
  <2>1. got = Failed
        BY <1>2 DEF elvees_read_mem
  <2> HIDE DEF got
  <2>2. ~ got.ok /\ ~ (at <= Top)
        BY <1>1, <1>2, <2>1 DEF Failed
  <2> QED BY <2>2 DEF got
<1>3. CASE at <= Top
  <2> DEFINE n == Truncated(at, asks)
             o == at % 4
             p == at \div 4
             head == HeadBytes(at, n)
             body == (n - head) \div 4
             block == at + head
             q == block \div 4
             tail == (n - head) % 4
             first == IF head = 0 THEN <<>>
                      ELSE SubSeq(target_read_word(at - o), o + 1, o + head)
             middle == [i \in 1 .. 4 * body |->
                           target_read_word(block + i - 1)[((i - 1) % 4) + 1]]
             last == IF tail = 0 THEN <<>>
                     ELSE SubSeq(target_read_word(block + 4 * body), 1, tail)
  <2>1. n \in Nat /\ at + n <= 4 * Words
        BY <1>1, <1>3 DEF Truncated
  <2>2. p \in Nat /\ o \in 0 .. 3 /\ at = 4 * p + o
        BY DivMod
  <2>3. /\ head \in 0 .. 3 /\ head <= n /\ o + head <= 4
        /\ head < n => (at + head) % 4 = 0
    <3> HIDE DEF n
    <3> QED BY <2>1, HeadEndsWord
  <2>4. /\ body \in Nat /\ tail \in 0 .. 3 /\ n - head = 4 * body + tail
        /\ q \in Nat /\ block = 4 * q + (block % 4)
    <3> HIDE DEF n, head
    <3>1. n - head \in Nat /\ block \in Nat
          BY <2>1, <2>3
    <3> HIDE DEF block
    <3> QED BY <3>1, DivMod
  <2>5. head < n => block = 4 * q
    <3> HIDE DEF n, head, q
    <3> QED BY <2>3, <2>4
  <2>6. got = [ok |-> TRUE, val |-> first \o middle \o last]
        BY <1>1, <1>3 DEF elvees_read_mem
  <2>7. IsBytes(first, at, head)
    <3> HIDE DEF n, o, p, head
    <3>1. CASE head = 0
          BY <3>1, NoBytes 
    <3>2. CASE head # 0
      <4>1. at - o = 4 * p /\ p \in 0 .. Words - 1
            BY <1>1, <1>3, <2>1, <2>2, <2>3, <3>2
      <4>2. (4 * p) \div 4 = p
            BY <2>2
      <4>3. first = SubSeq(mem[p], o + 1, o + head)
            BY <3>2, <4>1, <4>2 DEF target_read_word
      <4>4. head \in 1 .. 4
            BY <2>3, <3>2
      <4>5. IsBytes(SubSeq(mem[p], o + 1, o + head), 4 * p + o, head)
            BY <1>1, <2>2, <2>3, <4>1, <4>4, PartOfWord
      <4> QED BY <2>2, <4>3, <4>5, Zenon
    <3> QED BY <3>1, <3>2, Zenon
  <2>8. IsBytes(middle, block, 4 * body)
    <3> HIDE DEF n, head, body, tail, q
    <3>1. CASE body = 0
          BY <3>1 DEF IsBytes
    <3>2. CASE body # 0
      <4>1. block = 4 * q /\ q + body <= Words
            BY <1>1, <2>1, <2>3, <2>4, <2>5, <3>2
      <4> DEFINE words == [i \in 1 .. 4 * body |->
                             target_read_word(4 * q + i - 1)[((i - 1) % 4) + 1]]
      <4>2. IsBytes(words, 4 * q, 4 * body)
            BY <1>1, <2>4, <4>1, WholeWords
      <4>3. middle = words
            BY <4>1
      <4> QED BY <4>1, <4>2, <4>3, Zenon
    <3> QED BY <3>1, <3>2, Zenon
  <2>9. IsBytes(last, block + 4 * body, tail)
    <3> HIDE DEF n, head, body, tail, q
    <3>1. CASE tail = 0
          BY <3>1, NoBytes
    <3>2. CASE tail # 0
      <4> DEFINE r == q + body
      <4>1. block + 4 * body = 4 * r + 0 /\ r \in 0 .. Words - 1 /\ tail \in 1 .. 4
            BY <1>1, <2>1, <2>3, <2>4, <2>5, <3>2
      <4>2. (4 * r + 0) \div 4 = r
            BY <2>4
      <4> HIDE DEF r
      <4>3. target_read_word(block + 4 * body) = mem[r]
            BY <4>1, <4>2 DEF target_read_word
      <4>4. last = SubSeq(mem[r], 0 + 1, 0 + tail)
            BY <3>2, <4>3, <4>1
      <4>5. IsBytes(SubSeq(mem[r], 0 + 1, 0 + tail), 4 * r + 0, tail)
            BY <1>1, <4>1, PartOfWord, SMTT(60)
      <4> QED BY <4>1, <4>4, <4>5, Zenon
    <3> QED BY <3>1, <3>2, Zenon
  <2>10. IsBytes(got.val, at, head + 4 * body + tail)
    <3>1. IsBytes(middle, at + head, 4 * body) /\ IsBytes(last, at + head + 4 * body, tail)
          BY <2>8, <2>9
    <3> HIDE DEF got, first, middle, last, head, body, tail, n
    <3>2. got.val = first \o middle \o last
          BY <2>6
    <3>3. at \in Nat /\ head \in Nat /\ 4 * body \in Nat /\ tail \in Nat
          BY <2>3, <2>4
    <3> QED BY <2>7, <3>1, <3>2, <3>3, JoinBytes, Zenon
  <2>11. head + 4 * body + tail = n
    <3> HIDE DEF n, head, body, tail
    <3> QED BY <2>1, <2>3, <2>4
  <2>12. got.ok
        BY <2>6
  <2> HIDE DEF got, head, body, tail
  <2> QED BY <1>3, <2>10, <2>11, <2>12 DEF got
<1> QED BY <1>1, <1>2, <1>3


-----------------------------------------------------------------------------
(* What the debugger writes. *)

Digits == 48 .. 57 \cup 97 .. 102

LEMMA DigitIs ==
    /\ Digits \subseteq Byte \ Marks /\ \A c \in Digits : c # Colon /\ c # Comma
    /\ \A c \in Digits : c # EqualSign
BY SMT DEF Digits, Byte, Marks, HashMark, Dollar, Colon, Comma, EqualSign

LEMMA ByteText ==
    ASSUME NEW b \in Byte
    PROVE  /\ rp_encode_byte(b) \in Seq(Digits) /\ Len(rp_encode_byte(b)) = 2
           /\ rp_encode_byte(b)[1] \in Digits /\ rp_encode_byte(b)[2] \in Digits
<1>1. HexDigits[b \div 16 + 1] \in Digits /\ HexDigits[(b % 16) + 1] \in Digits
  BY ByteDigits, HexDigit DEF Digits
<1> HIDE DEF Digits
<1> QED
  BY <1>1 DEF rp_encode_byte

LEMMA HexText ==
    ASSUME NEW n \in Byte
    PROVE  Hex(n) \in Seq(Digits) /\ Len(Hex(n)) \in {1, 2}
<1>1. CASE n < 16
  <2>1. HexDigits[n + 1] \in Digits
    BY <1>1, HexDigit DEF Digits, Byte
  <2> HIDE DEF Digits
  <2> QED
    BY <1>1, <2>1 DEF Hex
<1>2. CASE ~ (n < 16)
  BY <1>2, ByteText DEF Hex
<1> QED
  BY <1>1, <1>2

(* A byte is a pair of characters. *)
LEMMA Pairs ==
    ASSUME NEW n \in Nat, NEW i \in 1 .. 2 * n
    PROVE  /\ (i + 1) \div 2 \in 1 .. n /\ 2 - (i % 2) \in {1, 2}
           /\ i = 2 * ((i + 1) \div 2) - 2 + (2 - (i % 2))
BY SMT

LEMMA PairIs ==
    ASSUME NEW k \in Nat \ {0}
    PROVE  /\ (2 * k - 1 + 1) \div 2 = k /\ 2 - ((2 * k - 1) % 2) = 1
           /\ (2 * k + 1) \div 2 = k /\ 2 - ((2 * k) % 2) = 2
BY SMT

LEMMA DataText ==
    ASSUME NEW data \in Seq(Byte)
    PROVE  /\ rp_encode_data(data) \in Seq(Digits)
           /\ Len(rp_encode_data(data)) = 2 * Len(data)
           /\ \A k \in 1 .. Len(data) :
                 /\ rp_encode_data(data)[2 * k - 1] = rp_encode_byte(data[k])[1]
                 /\ rp_encode_data(data)[2 * k] = rp_encode_byte(data[k])[2]
<1> DEFINE n == Len(data)
           At2(i) == rp_encode_byte(data[(i + 1) \div 2])[2 - (i % 2)]
           e == [i \in 1 .. 2 * n |-> At2(i)]
<1>1. n \in Nat /\ \A k \in 1 .. n : data[k] \in Byte
  OBVIOUS
<1>2. rp_encode_data(data) = e
  BY DEF rp_encode_data
<1> HIDE DEF n
<1>3. \A i \in 1 .. 2 * n : At2(i) \in Digits
  <2> TAKE i \in 1 .. 2 * n
  <2> DEFINE k == (i + 1) \div 2
             o == 2 - (i % 2)
  <2>1. k \in 1 .. n /\ o \in {1, 2}
    BY <1>1, Pairs
  <2> HIDE DEF k, o
  <2>2. rp_encode_byte(data[k])[o] \in Digits
    BY <1>1, <2>1, ByteText
  <2> QED
    BY <2>2 DEF k, o
<1>4. \A k \in 1 .. n : At2(2 * k - 1) = rp_encode_byte(data[k])[1]
                        /\ At2(2 * k) = rp_encode_byte(data[k])[2]
  BY <1>1, PairIs
<1> HIDE DEF At2, Digits
<1>5. e \in Seq(Digits) /\ Len(e) = 2 * n
  BY <1>1, <1>3
<1>6. \A k \in 1 .. n : 2 * k - 1 \in 1 .. 2 * n /\ 2 * k \in 1 .. 2 * n
  BY <1>1
<1>7. \A k \in 1 .. n : e[2 * k - 1] = At2(2 * k - 1) /\ e[2 * k] = At2(2 * k)
  BY <1>6
<1> HIDE DEF e
<1> QED
  BY <1>2, <1>4, <1>5, <1>7 DEF n

LEMMA NoDataText == rp_encode_data(<<>>) = <<>>
<1>1. <<>> \in Seq(Byte) /\ Len(<<>>) = 0 /\ 2 * 0 = 0
  OBVIOUS
<1>2. rp_encode_data(<<>>) \in Seq(Digits) /\ Len(rp_encode_data(<<>>)) = 0
  BY <1>1, DataText
<1> QED
  BY <1>2

LEMMA DataTextAppend ==
    ASSUME NEW data \in Seq(Byte), NEW d \in Byte
    PROVE  rp_encode_data(Append(data, d)) = rp_encode_data(data) \o rp_encode_byte(d)
<1> DEFINE t == Append(data, d)
           e == rp_encode_data(data)
           f == rp_encode_data(t)
           b == rp_encode_byte(d)
           n == Len(data)
<1>1. /\ t \in Seq(Byte) /\ Len(t) = n + 1 /\ n \in Nat /\ t[n + 1] = d
      /\ \A k \in 1 .. n : t[k] = data[k]
  OBVIOUS
<1> HIDE DEF t
<1>2. /\ e \in Seq(Digits) /\ Len(e) = 2 * n
      /\ \A k \in 1 .. n : e[2 * k - 1] = rp_encode_byte(data[k])[1]
                           /\ e[2 * k] = rp_encode_byte(data[k])[2]
  BY DataText
<1>3. /\ f \in Seq(Digits) /\ Len(f) = 2 * (n + 1)
      /\ \A k \in 1 .. n + 1 : f[2 * k - 1] = rp_encode_byte(t[k])[1]
                               /\ f[2 * k] = rp_encode_byte(t[k])[2]
  BY <1>1, DataText
<1>4. b \in Seq(Digits) /\ Len(b) = 2
  BY ByteText
<1> DEFINE g == e \o b
<1>5. /\ g \in Seq(Digits) /\ Len(g) = 2 * (n + 1)
      /\ \A i \in 1 .. 2 * n : g[i] = e[i]
      /\ g[2 * n + 1] = b[1] /\ g[2 * n + 2] = b[2]
  <2> HIDE DEF e, b, n, Digits
  <2>1. /\ g \in Seq(Digits) /\ Len(g) = Len(e) + Len(b)
        /\ \A i \in 1 .. Len(e) + Len(b) :
              g[i] = IF i <= Len(e) THEN e[i] ELSE b[i - Len(e)]
    BY <1>2, <1>4, ConcatProperties
  <2>2. /\ Len(g) = 2 * (n + 1) /\ \A i \in 1 .. 2 * n : g[i] = e[i]
    BY <1>1, <1>2, <1>4, <2>1
  <2>3. 2 * n + 1 \in 1 .. 2 * n + 2 /\ 2 * n + 2 \in 1 .. 2 * n + 2
        /\ (2 * n + 1) - 2 * n = 1 /\ (2 * n + 2) - 2 * n = 2
        /\ ~ (2 * n + 1 <= 2 * n) /\ ~ (2 * n + 2 <= 2 * n)
    BY <1>1
  <2> QED
    BY <1>2, <1>4, <2>1, <2>2, <2>3, SMTT(60)
<1>6. \A i \in 1 .. 2 * (n + 1) : f[i] = g[i]
  <2> TAKE i \in 1 .. 2 * (n + 1)
  <2> DEFINE k == (i + 1) \div 2
  <2>1. k \in 1 .. n + 1 /\ (i = 2 * k - 1 \/ i = 2 * k)
    BY <1>1, Pairs
  <2> HIDE DEF k, e, f, g, n, b
  <2>2. CASE k \in 1 .. n
    <3>1. f[2 * k - 1] = e[2 * k - 1] /\ f[2 * k] = e[2 * k]
      BY <1>1, <1>2, <1>3, <2>1, <2>2
    <3>2. 2 * k - 1 \in 1 .. 2 * n /\ 2 * k \in 1 .. 2 * n
      BY <1>1, <2>2
    <3> QED
      BY <1>5, <2>1, <3>1, <3>2
  <2>3. CASE k = n + 1
    <3>1. f[2 * k - 1] = b[1] /\ f[2 * k] = b[2]
      BY <1>1, <1>3, <2>1, <2>3 DEF b
    <3>2. 2 * k - 1 = 2 * n + 1 /\ 2 * k = 2 * n + 2
      BY <1>1, <2>3
    <3> QED
      BY <1>5, <2>1, <3>1, <3>2
  <2> QED
    BY <1>1, <2>1, <2>2, <2>3
<1> HIDE DEF e, f, g, n, b, Digits
<1>7. f = g
  BY <1>3, <1>5, <1>6
<1> QED
  BY <1>7 DEF e, f, g, b, t

(* Data with their escapes. *)
MarkFree == Seq(Byte \ Marks)

Then(s, d) == s \o EscapedByte(d)

LEMMA ThenTyped == \A s \in MarkFree, d \in Byte : Then(s, d) \in MarkFree
<1> SUFFICES ASSUME NEW s \in MarkFree, NEW d \in Byte PROVE Then(s, d) \in MarkFree
  OBVIOUS
<1>1. EscapedByte(d) \in MarkFree
  BY EscapedIs DEF MarkFree
<1> QED
  BY <1>1 DEF MarkFree, Then

LEMMA EscapedLoop ==
    ASSUME NEW data \in Seq(Byte)
    PROVE  \E g \in [0 .. Len(data) -> MarkFree] :
              /\ Escaped(data) = g[Len(data)] /\ g[0] = <<>>
              /\ \A k \in 1 .. Len(data) : g[k] = Then(g[k - 1], data[k])
<1> DEFINE n == Len(data)
           Upto[k \in 0 .. Len(data)] ==
               IF k = 0 THEN <<>>
               ELSE Upto[k - 1] \o (IF data[k] \in {HashMark, Dollar, Brace}
                                      THEN <<Brace, Unescape(data[k])>> ELSE <<data[k]>>)
           F == [k \in 1 .. n |-> [b \in MarkFree |-> Then(b, data[k])]]
<1>0. n \in Nat /\ n \in 0 .. n /\ \A k \in 1 .. n : data[k] \in Byte
  OBVIOUS
<1>1. Escaped(data) = Upto[n]
  BY DEF Escaped
<1>2. F \in [1 .. n -> [MarkFree -> MarkFree]]
  <2>1. \A k \in 1 .. n, b \in MarkFree : Then(b, data[k]) \in MarkFree
    BY <1>0, ThenTyped
  <2> QED
    BY <2>1
<1>3. PICK g \in [0 .. n -> MarkFree] : Recurs(g, F, <<>>, n)
  <2>1. <<>> \in MarkFree
    BY DEF MarkFree
  <2> HIDE DEF F, n
  <2> QED
    BY <1>0, <1>2, <2>1, RecursionExists
<1>4. g = [k \in 0 .. n |-> IF k = 0 THEN <<>> ELSE Then(g[k - 1], data[k])]
  <2>1. \A k \in 0 .. n : k # 0 => k \in 1 .. n /\ g[k - 1] \in MarkFree
    BY <1>0
  <2>2. \A k \in 0 .. n :
           (IF k = 0 THEN <<>> ELSE F[k][g[k - 1]])
              = IF k = 0 THEN <<>> ELSE Then(g[k - 1], data[k])
    BY <2>1
  <2> HIDE DEF F
  <2> QED
    BY <1>3, <2>2 DEF Recurs
<1>5. Upto = [k \in 0 .. n |-> IF k = 0 THEN <<>> ELSE Then(Upto[k - 1], data[k])]
  BY <1>4, Zenon DEF Then, EscapedByte
<1>6. \A k \in 0 .. n : Upto[k] = g[k]
  <2> DEFINE S == {k \in 0 .. n : Upto[k] = g[k]}
  <2> HIDE DEF Upto, F, n
  <2>1. 0 \in S
    BY <1>0, <1>4, <1>5
  <2>2. \A k \in 1 .. n : k - 1 \in S => k \in S
    BY <1>0, <1>4, <1>5
  <2> HIDE DEF S
  <2>3. \A k \in 0 .. n : k \in S
    BY <1>0, <2>1, <2>2, BoundedInduction
  <2> QED
    BY <2>3 DEF S
<1> HIDE DEF Upto, F, n
<1>7. g[0] = <<>> /\ \A k \in 1 .. n : g[k] = Then(g[k - 1], data[k])
  BY <1>0, <1>4
<1>8. Escaped(data) = g[n]
  BY <1>0, <1>1, <1>6
<1> QED
  BY <1>7, <1>8 DEF n

LEMMA NoEscaped == Escaped(<<>>) = <<>>
<1>1. <<>> \in Seq(Byte) /\ Len(<<>>) = 0
  OBVIOUS
<1> QED
  BY <1>1, EscapedLoop

LEMMA EscapedTyped == \A data \in Seq(Byte) : Escaped(data) \in MarkFree
<1> SUFFICES ASSUME NEW data \in Seq(Byte) PROVE Escaped(data) \in MarkFree
  OBVIOUS
<1>1. Len(data) \in 0 .. Len(data)
  OBVIOUS
<1> QED
  BY <1>1, EscapedLoop

LEMMA EscapedAppend ==
    ASSUME NEW data \in Seq(Byte), NEW d \in Byte
    PROVE  Escaped(Append(data, d)) = Then(Escaped(data), d)
<1> DEFINE t == Append(data, d)
           n == Len(data)
<1>1. /\ t \in Seq(Byte) /\ Len(t) = n + 1 /\ t[n + 1] = d /\ n \in Nat
      /\ n \in 0 .. n /\ n + 1 \in 1 .. n + 1 /\ (n + 1) - 1 = n
      /\ \A k \in 1 .. n : data[k] = t[k] /\ k \in 1 .. n + 1
  OBVIOUS
<1> HIDE DEF t
<1>2. PICK g \in [0 .. n -> MarkFree] :
         /\ Escaped(data) = g[n] /\ g[0] = <<>>
         /\ \A k \in 1 .. n : g[k] = Then(g[k - 1], data[k])
  BY EscapedLoop
<1>3. PICK h \in [0 .. Len(t) -> MarkFree] :
         /\ Escaped(t) = h[Len(t)] /\ h[0] = <<>>
         /\ \A k \in 1 .. Len(t) : h[k] = Then(h[k - 1], t[k])
  BY <1>1, EscapedLoop, Zenon
<1> HIDE DEF n
<1>4. \A k \in 0 .. n : g[k] = h[k]
  <2> DEFINE S == {k \in 0 .. n : g[k] = h[k]}
  <2>1. 0 \in S
    BY <1>1, <1>2, <1>3
  <2>2. \A k \in 1 .. n : k - 1 \in S => k \in S
    BY <1>1, <1>2, <1>3
  <2> HIDE DEF S
  <2>3. \A k \in 0 .. n : k \in S
    BY <1>1, <2>1, <2>2, BoundedInduction
  <2> QED
    BY <2>3 DEF S
<1>5. h[n + 1] = Then(h[(n + 1) - 1], t[n + 1])
  BY <1>1, <1>3
<1> QED
  BY <1>1, <1>2, <1>3, <1>4, <1>5 DEF t

(* The data of a binary write, which end up in hex. *)
LEMMA DataRun ==
    ASSUME NEW r, NEW buf \in Seq(Byte), NEW rx \in Byte, BinaryAt(r, 7, buf, rx),
           NEW data \in Seq(Byte)
    PROVE  BinaryAt(Reads(r, Escaped(data)), 7, buf \o rp_encode_data(data),
                    Plus(rx, Sum(Escaped(data))))
<1> DEFINE Good(x) == BinaryAt(Reads(r, Escaped(x)), 7, buf \o rp_encode_data(x),
                               Plus(rx, Sum(Escaped(x))))
           P == {x \in Seq(Byte) : Good(x)}
<1>0. r \in Reading /\ r \in Readers
  BY DEF BinaryAt, At, Reading
<1>1. <<>> \in P
  <2>1. Reads(r, <<>>) = r
    BY <1>0, GetpktNone DEF Reads
  <2>2. buf \o <<>> = buf /\ <<>> \in Seq(Byte)
    OBVIOUS
  <2>3. Plus(rx, 0) = rx
    BY PlusAssociates
  <2>4. Good(<<>>)
    BY <2>1, <2>2, <2>3, NoEscaped, NoDataText, SumNone
  <2> QED
    BY <2>2, <2>4
<1>2. ASSUME NEW x \in Seq(Byte), NEW d \in Byte, x \in P PROVE Append(x, d) \in P
  <2> DEFINE p == Reads(r, Escaped(x))
             e == EscapedByte(d)
             b == buf \o rp_encode_data(x)
             y == Plus(rx, Sum(Escaped(x)))
  <2>1. BinaryAt(p, 7, b, y)
    BY <1>2
  <2>2. /\ Escaped(x) \in Seq(Byte) /\ e \in Seq(Byte)
        /\ rp_encode_data(x) \in Seq(Byte) /\ rp_encode_byte(d) \in Seq(Byte)
    <3>1. Escaped(x) \in Seq(Byte \ Marks) /\ e \in Seq(Byte \ Marks)
      BY EscapedTyped, EscapedIs DEF MarkFree
    <3>2. rp_encode_data(x) \in Seq(Digits) /\ rp_encode_byte(d) \in Seq(Digits)
      BY DataText, ByteText
    <3> HIDE DEF e
    <3> QED
      BY <3>1, <3>2, DigitIs
  <2>3. Sum(Escaped(x)) \in Byte /\ Sum(e) \in Byte
    BY <2>2, SumTyped
  <2>4. y \in Byte
    BY <2>3, SumsWrap
  <2>5. b \in Seq(Byte)
    BY <2>2
  <2> HIDE DEF p, e, b, y
  <2>6. BinaryAt(Reads(p, e), 7, b \o rp_encode_byte(d), Plus(y, Sum(e)))
    BY <2>1, <2>4, <2>5, BinaryByte DEF e
  <2>7. Escaped(Append(x, d)) = Escaped(x) \o e
    BY EscapedAppend DEF e, Then
  <2>8. Reads(r, Escaped(x) \o e) = Reads(p, e)
    <3>1. p.ret = "none"
      BY <2>1 DEF BinaryAt, At, Reading
    <3> QED
      BY <1>0, <2>2, <3>1, GetpktConcat DEF p
  <2>9. b \o rp_encode_byte(d) = buf \o rp_encode_data(Append(x, d))
    <3>1. rp_encode_data(Append(x, d)) = rp_encode_data(x) \o rp_encode_byte(d)
      BY DataTextAppend
    <3> QED
      BY <2>2, <3>1, SMTT(60) DEF b
  <2>10. Plus(y, Sum(e)) = Plus(rx, Sum(Escaped(x) \o e))
    <3>1. Sum(Escaped(x) \o e) = Plus(Sum(Escaped(x)), Sum(e))
      BY <2>2, SumConcat
    <3> QED
      BY <2>3, <3>1, PlusAssociates DEF y
  <2>11. Good(Append(x, d))
    BY <2>6, <2>7, <2>8, <2>9, <2>10
  <2>12. Append(x, d) \in Seq(Byte)
    OBVIOUS
  <2> HIDE DEF Good
  <2> QED
    BY <2>11, <2>12
<1> HIDE DEF P
<1>3. \A x \in Seq(Byte) : x \in P
  BY <1>1, <1>2, SeqInduction
<1> QED
  BY <1>3 DEF P

(* A binary write is accepted, as one in hex. *)
BinaryTaken(r, s, h, data) ==
    s = Append(h, Colon) \o Escaped(data) =>
       /\ rp_getpkt(r, Frame(s)).n = Len(Frame(s))
       /\ Accepted(Reads(r, Frame(s)), Append(InHex(h), Colon) \o rp_encode_data(data))

LEMMA BinaryPacket ==
    ASSUME NEW r \in Reading, r.state = 0, NEW h \in Seq(Byte \ (Marks \cup {Colon})),
           Len(h) > 3, h[1] = 88, NEW data \in Seq(Byte), NEW s
    PROVE  BinaryTaken(r, s, h, data)
<1> SUFFICES ASSUME s = Append(h, Colon) \o Escaped(data)
             PROVE  /\ rp_getpkt(r, Frame(s)).n = Len(Frame(s))
                    /\ Accepted(Reads(r, Frame(s)),
                                Append(InHex(h), Colon) \o rp_encode_data(data))
  BY DEF BinaryTaken
<1> DEFINE q == rp_getpkt_char(r, Dollar)
           a == Append(h, Colon)
           e == Escaped(data)
           p == Reads(q, a)
           b == Append(InHex(h), Colon)
           t == b \o rp_encode_data(data)
           got == rp_getpkt(r, Frame(s))
<1>1. /\ h \in Seq(Byte) /\ h # <<>> /\ Colon \in Byte /\ e \in Seq(Byte)
      /\ Digits \subseteq Byte
  <2>1. e \in Seq(Byte \ Marks)
    BY EscapedTyped DEF MarkFree
  <2> HIDE DEF e
  <2> QED
    BY <2>1, DigitIs, SMTT(60) DEF Colon, Byte
<1>2. a \in Seq(Byte) /\ b \in Seq(Byte)
  BY <1>1, InHexIs
<1>3. At(q, 1, <<>>, 0) /\ q \in Reading
  BY StartRead DEF At
<1> HIDE DEF q
<1>4. BinaryAt(p, 7, b, Sum(a))
  BY <1>3, BinaryHead
<1> HIDE DEF p, e, a, b, got
<1>5. Sum(a) \in Byte
  BY <1>2, SumTyped
<1>6. BinaryAt(Reads(p, e), 7, t, Plus(Sum(a), Sum(e)))
  BY <1>2, <1>4, <1>5, DataRun DEF e
<1>7. Reads(q, a \o e) = Reads(p, e)
  <2>1. p.ret = "none"
    BY <1>4 DEF BinaryAt, At, Reading
  <2> QED
    BY <1>1, <1>2, <1>3, <2>1, GetpktConcat DEF p
<1>8. Plus(Sum(a), Sum(e)) = Sum(s) /\ s \in Seq(Byte) /\ s = a \o e
  <2>1. s = a \o e
    BY DEF a, e
  <2>2. s \in Seq(Byte)
    BY <1>1, <1>2, <2>1
  <2>3. Sum(a \o e) = Plus(Sum(a), Sum(e))
    BY <1>1, <1>2, SumConcat
  <2> QED
    BY <2>1, <2>2, <2>3
<1> HIDE DEF t
<1>9. At(Reads(q, s), 7, t, Sum(s)) /\ ~ Reads(q, s).esc
  BY <1>6, <1>7, <1>8 DEF BinaryAt
<1>10. Sum(s) \in Byte
  BY <1>8, SumTyped
<1>11. got.n = Len(Frame(s)) /\ Accepted(got.r, t)
  BY <1>8, <1>9, <1>10, FrameReads, ZenonT(60) DEF q, got
<1> QED
  BY <1>11 DEF got, Reads, t, b

-----------------------------------------------------------------------------
(* The text of a request. *)
WriteHead(c, q) == <<c>> \o Hex(q.at) \o <<Comma>> \o Hex(Len(q.data))

(* What rp_getpkt makes of it: a binary write becomes one in hex. *)
TextOf(q) ==
    IF q.k = "X" THEN WriteHead(77, q) \o <<Colon>> \o rp_encode_data(q.data) ELSE Body(q)

(* A letter, a number and what follows it. *)
Starts(s, C, c, D) ==
    /\ s \in Seq(C) /\ Len(s) > 1 /\ s[1] = c /\ s[2] \in Digits
    /\ Len(s) > 2 => s[3] \in D

LEMMA Letter ==
    ASSUME NEW C, Digits \subseteq C, NEW c \in C, NEW n \in Byte
    PROVE  Starts(<<c>> \o Hex(n), C, c, Digits)
<1> DEFINE h == Hex(n)
           a == <<c>>
           u == a \o h
<1>1. h \in Seq(Digits) /\ Len(h) \in {1, 2} /\ a \in Seq(C) /\ Len(a) = 1 /\ a[1] = c
  BY HexText
<1> HIDE DEF Digits, h, a
<1>2. h \in Seq(C) /\ h[1] \in Digits /\ (Len(h) = 2 => h[2] \in Digits)
  BY <1>1
<1>3. /\ u \in Seq(C) /\ Len(u) = Len(a) + Len(h)
      /\ \A i \in 1 .. Len(a) + Len(h) : u[i] = IF i <= Len(a) THEN a[i] ELSE h[i - Len(a)]
  BY <1>1, <1>2, ConcatProperties
<1> HIDE DEF u
<1>4. u[1] = c /\ u[2] = h[1] /\ (Len(h) = 2 => u[3] = h[2])
  BY <1>1, <1>3
<1> QED
  BY <1>1, <1>2, <1>3, <1>4 DEF Starts, u, a, h

LEMMA Longer ==
    ASSUME NEW C, NEW D, NEW s, NEW c, Starts(s, C, c, D), NEW t \in Seq(C),
           t # <<>> => t[1] \in D
    PROVE  Starts(s \o t, C, c, D) /\ Len(s \o t) = Len(s) + Len(t)
<1> DEFINE u == s \o t
<1>1. /\ s \in Seq(C) /\ Len(s) \in Nat /\ Len(t) \in Nat
      /\ u \in Seq(C) /\ Len(u) = Len(s) + Len(t)
      /\ \A i \in 1 .. Len(s) + Len(t) : u[i] = IF i <= Len(s) THEN s[i] ELSE t[i - Len(s)]
  BY ConcatProperties DEF Starts
<1> HIDE DEF u
<1>2. u[1] = c /\ u[2] \in Digits /\ Len(u) > 1
  BY <1>1 DEF Starts
<1>3. Len(u) > 2 => u[3] \in D
  <2>1. CASE Len(s) > 2
    BY <1>1, <2>1 DEF Starts
  <2>2. CASE Len(s) = 2 /\ Len(u) > 2
    <3>1. t # <<>> /\ 3 \in 1 .. Len(s) + Len(t) /\ ~ (3 <= Len(s)) /\ 3 - Len(s) = 1
      BY <1>1, <2>2
    <3> QED
      BY <1>1, <3>1
  <2>3. Len(s) > 1
    BY DEF Starts
  <2> QED
    BY <1>1, <2>1, <2>2, <2>3
<1> QED
  BY <1>1, <1>2, <1>3 DEF Starts, u

Chars == Byte \ Marks
Seps == Digits \cup {Comma, EqualSign}

Opens(s, c) == Starts(s, Chars, c, Seps)

LEMMA CharFacts ==
    /\ Digits \subseteq Chars /\ {77, 80, 88, 109, 112, 71, 103} \subseteq Chars
    /\ Comma \in Chars /\ EqualSign \in Chars /\ Colon \in Chars
    /\ Digits \subseteq Seps /\ Comma \in Seps /\ EqualSign \in Seps
    /\ \A c \in Seps : c # Colon
<1>1. /\ {77, 80, 88, 109, 112, 71, 103} \subseteq Chars /\ Comma \in Chars
      /\ EqualSign \in Chars /\ Colon \in Chars /\ Comma # Colon /\ EqualSign # Colon
  BY SMT DEF Chars, Byte, Marks, HashMark, Dollar, Comma, EqualSign, Colon
<1> QED
  BY <1>1, DigitIs DEF Chars, Seps

LEMMA Single ==
    ASSUME NEW C, NEW x \in C
    PROVE  <<x>> \in Seq(C) /\ Len(<<x>>) = 1 /\ <<x>>[1] = x
OBVIOUS

LEMMA Lengths ==
    ASSUME NEW C, NEW s \in Seq(C), NEW t \in Seq(C)
    PROVE  s \o t \in Seq(C) /\ Len(s \o t) = Len(s) + Len(t) /\ Len(s) \in Nat /\ Len(t) \in Nat
OBVIOUS

LEMMA Entries ==
    ASSUME NEW C, NEW s \in Seq(C), NEW t \in Seq(C), NEW i \in 1 .. Len(s) + Len(t)
    PROVE  (s \o t)[i] = IF i <= Len(s) THEN s[i] ELSE t[i - Len(s)]
OBVIOUS

LEMMA SomeText ==
    ASSUME NEW n \in Byte, NEW data \in Seq(Byte)
    PROVE  /\ Hex(n) \in Seq(Chars) /\ (Hex(n) # <<>> => Hex(n)[1] \in Seps)
           /\ rp_encode_data(data) \in Seq(Chars)
           /\ rp_encode_data(data) # <<>> => rp_encode_data(data)[1] \in Seps
           /\ Escaped(data) \in Seq(Chars)
<1>1. Hex(n) \in Seq(Digits) /\ rp_encode_data(data) \in Seq(Digits)
  BY HexText, DataText
<1>2. Escaped(data) \in Seq(Chars)
  BY EscapedTyped DEF MarkFree, Chars
<1>3. ASSUME NEW s \in Seq(Digits) PROVE s \in Seq(Chars) /\ (s # <<>> => s[1] \in Seps)
  BY CharFacts
<1> QED
  BY <1>1, <1>2, <1>3

LEMMA OpensLetter ==
    ASSUME NEW c \in Chars, NEW n \in Byte
    PROVE  Opens(<<c>> \o Hex(n), c)
<1>1. Starts(<<c>> \o Hex(n), Chars, c, Digits)
  BY CharFacts, Letter
<1> QED
  BY <1>1, CharFacts DEF Opens, Starts

LEMMA OpensLonger ==
    ASSUME NEW c, NEW s, Opens(s, c), NEW t \in Seq(Chars),
           (t # <<>> => t[1] \in Seps) \/ Len(s) > 2
    PROVE  /\ Opens(s \o t, c) /\ Len(s \o t) = Len(s) + Len(t)
           /\ Len(s) \in Nat /\ Len(t) \in Nat /\ Len(s) > 1
<1>1. s \in Seq(Chars) /\ Len(s) > 1
  BY DEF Opens, Starts
<1>2. CASE t # <<>> => t[1] \in Seps
  <2>1. Starts(s \o t, Chars, c, Seps)
    BY <1>2, Longer DEF Opens
  <2> QED
    BY <1>1, <2>1, Lengths DEF Opens
<1>3. CASE Len(s) > 2
  <2> DEFINE u == s \o t
  <2>1. /\ u \in Seq(Chars) /\ Len(u) = Len(s) + Len(t) /\ Len(s) \in Nat /\ Len(t) \in Nat
    BY <1>1, Lengths
  <2>2. u[1] = s[1] /\ u[2] = s[2] /\ u[3] = s[3]
    BY <1>1, <1>3
  <2> HIDE DEF u
  <2>3. Opens(u, c)
    BY <1>3, <2>1, <2>2 DEF Opens, Starts
  <2> QED
    BY <1>1, <2>1, <2>3 DEF u
<1> QED
  BY <1>2, <1>3

LEMMA HeadOpens ==
    ASSUME NEW c \in Chars, NEW a \in Byte, NEW n \in Byte
    PROVE  LET s == <<c>> \o Hex(a) \o <<Comma>> \o Hex(n)
           IN  Opens(s, c) /\ Len(s) > 3
<1> DEFINE s == <<c>> \o Hex(a)
           t == <<Comma>>
           h == Hex(n)
<1>1. Opens(s, c)
  BY OpensLetter
<1>2. t \in Seq(Chars) /\ t[1] \in Seps /\ Len(t) = 1 /\ h \in Seq(Chars)
      /\ (h # <<>> => h[1] \in Seps) /\ Len(h) > 0
  <2>1. Len(h) \in {1, 2} /\ <<>> \in Seq(Byte)
    BY HexText
  <2>2. Len(h) > 0
    BY <2>1
  <2>3. h \in Seq(Chars) /\ (h # <<>> => h[1] \in Seps)
    BY <2>1, SomeText
  <2>4. t \in Seq(Chars) /\ Len(t) = 1 /\ t[1] = Comma
    BY CharFacts, Single
  <2> HIDE DEF h, t
  <2> QED
    BY <2>2, <2>3, <2>4, CharFacts
<1> HIDE DEF s, t, h
<1>3. Opens(s \o t, c) /\ Len(s \o t) = Len(s) + 1 /\ Len(s) \in Nat /\ Len(s) > 1
  BY <1>1, <1>2, OpensLonger
<1> DEFINE u == s \o t
<1> HIDE DEF u
<1>4. Opens(u \o h, c) /\ Len(u \o h) = Len(u) + Len(h) /\ Len(h) \in Nat
  BY <1>2, <1>3, OpensLonger DEF u
<1>5. Len(u \o h) > 3
  BY <1>2, <1>3, <1>4 DEF u
<1> QED
  BY <1>4, <1>5 DEF u, s, t, h

(* Two parts more. *)
LEMMA OpensOn ==
    ASSUME NEW c, NEW s, Opens(s, c), NEW x \in Chars, NEW t \in Seq(Chars),
           x \in Seps \/ Len(s) > 2
    PROVE  Opens(s \o <<x>> \o t, c)
<1> DEFINE a == <<x>>
           u == s \o a
<1>1. a \in Seq(Chars) /\ Len(a) = 1 /\ a[1] = x
  BY Single
<1> HIDE DEF a
<1>2. /\ Opens(u, c) /\ Len(u) = Len(s) + Len(a) /\ Len(s) \in Nat /\ Len(s) > 1
  BY <1>1, OpensLonger
<1> HIDE DEF u
<1>3. Len(u) > 2
  BY <1>1, <1>2
<1>4. Opens(u \o t, c)
  BY <1>2, <1>3, OpensLonger
<1> QED
  BY <1>4 DEF u, a

(* No marks; the second character is no colon, nor the third. *)
Proper(s) ==
    /\ s \in MarkFree /\ Len(s) > 0
    /\ Len(s) > 1 => s[2] # Colon
    /\ Len(s) > 2 => s[3] # Colon

LEMMA OpensProperly ==
    ASSUME NEW s, NEW c, Opens(s, c) PROVE Proper(s) /\ s[1] = c
<1>1. /\ s \in Seq(Chars) /\ Len(s) > 1 /\ s[1] = c /\ s[2] \in Digits
      /\ Len(s) > 2 => s[3] \in Seps
  BY DEF Opens, Starts
<1>2. s[2] # Colon /\ (Len(s) > 2 => s[3] # Colon)
  BY <1>1, CharFacts
<1>3. s \in MarkFree /\ Len(s) > 0
  <2>1. s \in MarkFree
    BY <1>1 DEF MarkFree, Chars
  <2>2. Len(s) \in Nat
    BY <1>1
  <2> QED
    BY <1>1, <2>1, <2>2
<1> QED
  BY <1>1, <1>2, <1>3 DEF Proper

LEMMA LetterData ==
    ASSUME NEW c \in Chars, NEW e \in Seq(Digits)
    PROVE  Proper(<<c>> \o e) /\ (<<c>> \o e)[1] = c
<1> DEFINE a == <<c>>
           u == a \o e
<1>1. a \in Seq(Chars) /\ Len(a) = 1 /\ a[1] = c
  BY Single
<1>2. e \in Seq(Chars) /\ Len(e) \in Nat /\ \A i \in 1 .. Len(e) : e[i] \in Digits
  BY CharFacts
<1> HIDE DEF a
<1>3. u \in Seq(Chars) /\ Len(u) = Len(a) + Len(e)
  BY <1>1, <1>2, Lengths
<1>4. \A i \in 1 .. Len(a) + Len(e) : u[i] = IF i <= Len(a) THEN a[i] ELSE e[i - Len(a)]
  BY <1>1, <1>2, Entries
<1> HIDE DEF u
<1>5. u[1] = c /\ Len(u) > 0
  BY <1>1, <1>2, <1>3, <1>4
<1>6. Len(u) > 1 => u[2] = e[1] /\ 1 \in 1 .. Len(e)
  BY <1>1, <1>2, <1>3, <1>4, SMTT(60)
<1>7. Len(u) > 2 => u[3] = e[2] /\ 2 \in 1 .. Len(e)
  BY <1>1, <1>2, <1>3, <1>4
<1>8. (Len(u) > 1 => u[2] # Colon) /\ (Len(u) > 2 => u[3] # Colon)
  BY <1>2, <1>6, <1>7, DigitIs
<1>9. u \in MarkFree
  BY <1>3 DEF MarkFree, Chars
<1> QED
  BY <1>5, <1>8, <1>9 DEF Proper, u, a

LEMMA ByteIsNat == \A b \in Byte : b \in Nat
BY DEF Byte

(* The fields of a request. *)
LEMMA RequestFields ==
    ASSUME RequestsAssumption, NEW q \in Requests
    PROVE  /\ q.at \in Nat /\ q.len \in Nat /\ Len(q.data) \in Nat
           /\ q.at \in Byte /\ q.len \in Byte /\ q.data \in Seq(Byte)
           /\ q.k \in {"m", "M", "X", "p", "P", "g", "G"}
           /\ q.k = "P" => Len(q.data) = 4
<1>1. /\ q.at \in Byte /\ q.len \in Byte /\ q.data \in Seq(Byte) /\ Len(q.data) \in Byte
      /\ q.k \in {"m", "M", "X", "p", "P", "g", "G"}
  BY DEF RequestsAssumption
<1>2. q.k = "P" => Len(q.data) = 4
  BY DEF RequestsAssumption
<1> QED
  BY <1>1, <1>2, ByteIsNat, Zenon

LEMMA BodyText ==
    ASSUME RequestsAssumption, NEW q \in Requests
    PROVE  Proper(Body(q)) /\ (q.k # "X" => Body(q)[1] # 88)
<1> DEFINE e == rp_encode_data(q.data)
           n == Len(q.data)
<1>1. /\ q.k \in {"m", "M", "X", "p", "P", "g", "G"} /\ q.at \in Byte /\ q.len \in Byte
      /\ q.data \in Seq(Byte) /\ n \in Byte
  BY DEF RequestsAssumption
<1>2. e \in Seq(Chars) /\ (e # <<>> => e[1] \in Seps) /\ Escaped(q.data) \in Seq(Chars)
  BY <1>1, SomeText
<1>3. ASSUME NEW c \in Chars, NEW t \in Seq(Chars)
      PROVE  Opens(WriteHead(c, q) \o <<Colon>> \o t, c)
  <2>1. Opens(WriteHead(c, q), c) /\ Len(WriteHead(c, q)) > 3
    BY <1>1, <1>3, HeadOpens DEF WriteHead
  <2>2. Len(WriteHead(c, q)) > 2
    BY <2>1 DEF Opens, Starts
  <2> QED
    BY <1>3, <2>1, <2>2, CharFacts, OpensOn
<1>11. ASSUME NEW s, NEW c, Opens(s, c), c # 88 \/ q.k = "X", Body(q) = s
       PROVE  Proper(Body(q)) /\ (q.k # "X" => Body(q)[1] # 88)
  <2>1. Proper(s) /\ s[1] = c
    BY <1>11, OpensProperly
  <2> QED
    BY <1>11, <2>1
<1>4. CASE q.k = "m"
  <2> DEFINE s == <<109>> \o Hex(q.at) \o <<Comma>> \o Hex(q.len)
  <2>1. Opens(s, 109)
    BY <1>1, CharFacts, HeadOpens
  <2>2. Body(q) = s
    BY <1>4 DEF Body
  <2> HIDE DEF s
  <2> QED
    BY <1>11, <2>1, <2>2
<1>5. CASE q.k = "M"
  <2> DEFINE s == WriteHead(77, q) \o <<Colon>> \o e
  <2>1. Opens(s, 77)
    BY <1>2, <1>3, CharFacts
  <2>2. Body(q) = s
    BY <1>5 DEF Body, WriteHead
  <2> HIDE DEF s
  <2> QED
    BY <1>11, <2>1, <2>2
<1>6. CASE q.k = "X"
  <2> DEFINE s == WriteHead(88, q) \o <<Colon>> \o Escaped(q.data)
  <2>1. Opens(s, 88)
    BY <1>2, <1>3, CharFacts
  <2>2. Body(q) = s
    BY <1>6 DEF Body, WriteHead
  <2> HIDE DEF s
  <2> QED
    BY <1>6, <1>11, <2>1, <2>2
<1>7. CASE q.k = "p"
  <2> DEFINE s == <<112>> \o Hex(q.at)
  <2>1. Opens(s, 112)
    BY <1>1, CharFacts, OpensLetter
  <2>2. Body(q) = s
    BY <1>7 DEF Body
  <2> HIDE DEF s
  <2> QED
    BY <1>11, <2>1, <2>2
<1>8. CASE q.k = "P"
  <2> DEFINE s == <<80>> \o Hex(q.at) \o <<EqualSign>> \o e
  <2>1. Opens(<<80>> \o Hex(q.at), 80)
    BY <1>1, CharFacts, OpensLetter
  <2>2. Opens(s, 80)
    BY <1>2, <2>1, CharFacts, OpensOn
  <2>3. Body(q) = s
    BY <1>8 DEF Body
  <2> HIDE DEF s
  <2> QED
    BY <1>11, <2>2, <2>3
<1>9. CASE q.k = "g"
  <2> DEFINE s == <<103>>
  <2>1. s \in Seq(Chars) /\ Len(s) = 1 /\ s[1] = 103
    BY CharFacts, Single
  <2>2. Body(q) = s
    BY <1>9 DEF Body
  <2> HIDE DEF s
  <2>3. s \in MarkFree
    BY <2>1 DEF MarkFree, Chars
  <2>4. Proper(s) /\ s[1] # 88
    BY <2>1, <2>3 DEF Proper
  <2> QED
    BY <2>2, <2>4
<1>10. CASE q.k = "G"
  <2>1. Proper(<<71>> \o e) /\ (<<71>> \o e)[1] = 71
    <3>1. e \in Seq(Digits)
      BY <1>1, DataText
    <3> QED
      BY <3>1, CharFacts, LetterData
  <2> DEFINE u == <<71>> \o e
  <2>2. Body(q) = u
    BY <1>10 DEF Body
  <2> HIDE DEF u
  <2> QED
    BY <2>1, <2>2 DEF u
<1> QED
  BY <1>1, <1>4, <1>5, <1>6, <1>7, <1>8, <1>9, <1>10, Zenon

(* A letter before a text. *)
Prefixed(u, c, t) ==
    /\ Len(u) = 1 + Len(t) /\ Len(t) \in Nat /\ u[1] = c
    /\ \A i \in 2 .. 1 + Len(t) : u[i] = t[i - 1]

LEMMA AfterChar ==
    ASSUME NEW C, NEW c \in C, NEW t \in Seq(C)
    PROVE  <<c>> \o t \in Seq(C) /\ Prefixed(<<c>> \o t, c, t)
<1> DEFINE a == <<c>>
           u == a \o t
<1>1. a \in Seq(C) /\ Len(a) = 1 /\ a[1] = c
  BY Single
<1> HIDE DEF a
<1>2. u \in Seq(C) /\ Len(u) = Len(a) + Len(t) /\ Len(t) \in Nat
  BY <1>1, Lengths
<1>3. \A i \in 1 .. Len(a) + Len(t) : u[i] = IF i <= Len(a) THEN a[i] ELSE t[i - Len(a)]
  BY <1>1, Entries
<1> HIDE DEF u
<1>4. u[1] = c /\ \A i \in 2 .. 1 + Len(t) : u[i] = t[i - 1]
  BY <1>1, <1>2, <1>3
<1> QED
  BY <1>1, <1>2, <1>4 DEF Prefixed, u, a

LEMMA InHexLetter ==
    ASSUME NEW t \in Seq(Byte)
    PROVE  InHex(<<88>> \o t) = <<77>> \o t
<1> DEFINE u == <<88>> \o t
           v == <<77>> \o t
<1>1. 88 \in Byte /\ 77 \in Byte
  BY DEF Byte
<1>2. u \in Seq(Byte) /\ Prefixed(u, 88, t) /\ v \in Seq(Byte) /\ Prefixed(v, 77, t)
  BY <1>1, AfterChar
<1> HIDE DEF u, v
<1>3. u # <<>> /\ Len(u) = Len(v) /\ Len(u) \in Nat
  BY <1>2 DEF Prefixed
<1>4. /\ InHex(u) \in Seq(Byte) /\ Len(InHex(u)) = Len(u)
      /\ InHex(u)[1] = 77 /\ \A i \in 2 .. Len(u) : InHex(u)[i] = u[i]
  BY <1>2, <1>3, InHexIs
<1>5. \A i \in 1 .. Len(u) : InHex(u)[i] = v[i]
  <2> TAKE i \in 1 .. Len(u)
  <2>1. i = 1 \/ i \in 2 .. Len(u)
    BY <1>3
  <2>2. CASE i = 1
    BY <1>2, <1>4, <2>2 DEF Prefixed
  <2>3. CASE i \in 2 .. Len(u)
    BY <1>2, <1>4, <2>3 DEF Prefixed
  <2> QED
    BY <2>1, <2>2, <2>3
<1>6. InHex(u) = v
  <2> DEFINE w == InHex(u)
  <2> HIDE DEF w
  <2>1. w \in Seq(Byte) /\ v \in Seq(Byte) /\ Len(w) = Len(v)
        /\ \A i \in 1 .. Len(v) : w[i] = v[i]
    BY <1>2, <1>3, <1>4, <1>5 DEF w
  <2>2. w = v
    BY <2>1
  <2> QED
    BY <2>2 DEF w
<1> QED
  BY <1>6 DEF u, v

LEMMA WriteHeadIs ==
    ASSUME RequestsAssumption, NEW q \in Requests
    PROVE  /\ WriteHead(88, q) \in Seq(Byte \ (Marks \cup {Colon}))
           /\ Len(WriteHead(88, q)) > 3 /\ WriteHead(88, q)[1] = 88
           /\ InHex(WriteHead(88, q)) = WriteHead(77, q)
<1> DEFINE C == Byte \ (Marks \cup {Colon})
           a == Hex(q.at)
           b == <<Comma>>
           n == Hex(Len(q.data))
           x == <<88>>
           y == <<77>>
<1>1. q.at \in Byte /\ Len(q.data) \in Byte
  BY DEF RequestsAssumption
<1>2. 88 \in Chars /\ 88 \in C /\ Comma \in C /\ 77 \in C /\ Digits \subseteq C /\ C \subseteq Byte
  <2>1. 88 \in C /\ 77 \in C /\ Comma \in C
    <3>1. 88 # Colon /\ 77 # Colon /\ Comma # Colon
      BY DEF Colon, Comma
    <3> QED
      BY <3>1, CharFacts DEF Chars
  <2> QED
    BY <2>1, DigitIs, CharFacts
<1>3. Opens(WriteHead(88, q), 88) /\ Len(WriteHead(88, q)) > 3
  BY <1>1, <1>2, HeadOpens DEF WriteHead
<1>4. WriteHead(88, q)[1] = 88
  BY <1>3, OpensProperly
<1>5. a \in Seq(Digits) /\ n \in Seq(Digits)
  BY <1>1, HexText
<1>6. WriteHead(88, q) = x \o a \o b \o n /\ WriteHead(77, q) = y \o a \o b \o n
  BY DEF WriteHead
<1>7. /\ a \in Seq(C) /\ n \in Seq(C) /\ b \in Seq(C) /\ x \in Seq(C) /\ y \in Seq(C)
      /\ a \in Seq(Byte) /\ n \in Seq(Byte) /\ b \in Seq(Byte)
      /\ x \in Seq(Byte) /\ y \in Seq(Byte)
  <2>1. b \in Seq(C) /\ x \in Seq(C) /\ y \in Seq(C)
    BY <1>2, Single
  <2> HIDE DEF C, a, n, b, x, y
  <2>2. \A s \in Seq(C) : s \in Seq(Byte)
    BY <1>2
  <2>3. \A s \in Seq(Digits) : s \in Seq(C)
    BY <1>2
  <2> QED
    BY <1>5, <2>1, <2>2, <2>3
<1> DEFINE t == a \o (b \o n)
<1> HIDE DEF C, a, n, b, x, y
<1>8. WriteHead(88, q) \in Seq(C)
  <2>1. x \o a \in Seq(C)
    BY <1>7, Lengths
  <2>2. (x \o a) \o b \in Seq(C)
    BY <1>7, <2>1, Lengths
  <2>3. ((x \o a) \o b) \o n \in Seq(C)
    BY <1>7, <2>2, Lengths
  <2> QED
    BY <1>6, <2>3
<1>9. x \o a \o b \o n = x \o t /\ y \o a \o b \o n = y \o t /\ t \in Seq(Byte)
  <2>1. Join(x, a, b, n) /\ Join(y, a, b, n)
    BY <1>7, FourParts
  <2> QED
    BY <2>1, Zenon DEF Join
<1> HIDE DEF t
<1>10. InHex(x \o t) = y \o t
  BY <1>9, InHexLetter DEF x, y
<1> QED
  BY <1>3, <1>4, <1>6, <1>8, <1>9, <1>10 DEF C

(* A request that arrives whole is read to its end: accepted by a reader that *)
(* is outside a packet, dropped by one that is in the middle of another.      *)
Taken(r, q) ==
    LET got == rp_getpkt(r, Frame(Body(q)))
    IN  /\ got.n = Len(Frame(Body(q)))
        /\ r.state = 0 => Accepted(got.r, TextOf(q))
        /\ r.state # 0 => got.r \in Reading /\ got.r.state = 0

LEMMA PacketRead ==
    ASSUME RequestsAssumption, NEW q \in Requests, NEW r \in Reading
    PROVE  Taken(r, q)
<1> DEFINE s == Body(q)
           got == rp_getpkt(r, Frame(s))
<1>1. /\ s \in Seq(Byte \ Marks) /\ Len(s) > 0 /\ (Len(s) > 1 => s[2] # Colon)
      /\ Len(s) > 2 => s[3] # Colon
      /\ q.k # "X" => s[1] # 88
  BY BodyText DEF Proper, MarkFree
<1> HIDE DEF s
<1>2. CASE r.state # 0
  <2>1. got.n = Len(Frame(s)) /\ got.r \in Reading /\ got.r.state = 0
    BY <1>1, <1>2, NestedPacket DEF Reads
  <2> QED
    BY <1>2, <2>1 DEF Taken, s
<1>3. CASE r.state = 0 /\ q.k # "X"
  <2>1. got.n = Len(Frame(s)) /\ Accepted(got.r, s)
    BY <1>1, <1>3, PlainPacket DEF Reads
  <2>2. TextOf(q) = s
    BY <1>3 DEF TextOf, s
  <2> QED
    BY <1>3, <2>1, <2>2 DEF Taken, s
<1>4. CASE r.state = 0 /\ q.k = "X"
  <2> DEFINE h == WriteHead(88, q)
             d == q.data
  <2>1. d \in Seq(Byte)
    BY DEF RequestsAssumption
  <2>2. /\ h \in Seq(Byte \ (Marks \cup {Colon})) /\ Len(h) > 3 /\ h[1] = 88
        /\ InHex(h) = WriteHead(77, q)
    BY WriteHeadIs
  <2>3. s = h \o <<Colon>> \o Escaped(d)
    BY <1>4 DEF s, Body, WriteHead
  <2> HIDE DEF h
  <2>4. h \in Seq(Byte) /\ InHex(h) \in Seq(Byte)
    <3>1. h \in Seq(Byte) /\ h # <<>>
      BY <2>2
    <3> QED
      BY <3>1, InHexIs
  <2>5. ASSUME NEW z \in Seq(Byte) PROVE Append(z, Colon) = z \o <<Colon>>
    OBVIOUS
  <2>6. Append(h, Colon) = h \o <<Colon>> /\ Append(InHex(h), Colon) = InHex(h) \o <<Colon>>
    BY <2>4, <2>5
  <2>7. s = Append(h, Colon) \o Escaped(d)
    BY <2>3, <2>6
  <2>8. /\ rp_getpkt(r, Frame(s)).n = Len(Frame(s))
        /\ Accepted(Reads(r, Frame(s)), Append(InHex(h), Colon) \o rp_encode_data(d))
    <3>1. BinaryTaken(r, s, h, d)
      BY <1>4, <2>1, <2>2, BinaryPacket
    <3> QED
      BY <2>7, <3>1 DEF BinaryTaken
  <2>9. TextOf(q) = Append(InHex(h), Colon) \o rp_encode_data(d)
    <3>1. TextOf(q) = WriteHead(77, q) \o <<Colon>> \o rp_encode_data(d)
      BY <1>4 DEF TextOf
    <3> QED
      BY <2>2, <2>6, <3>1
  <2>10. got.n = Len(Frame(s)) /\ Accepted(got.r, TextOf(q))
    BY <2>8, <2>9 DEF Reads
  <2> QED
    BY <1>4, <2>10 DEF Taken, s
<1> QED
  BY <1>2, <1>3, <1>4

-----------------------------------------------------------------------------
(* What is true of the reader whatever is spoiled. *)
LineTypes ==
    /\ reader \in Reading
    /\ line \in Seq(Byte)
    /\ asked \in Requests \cup {Nothing}

LEMMA FrameTyped == \A s \in Seq(Byte) : Frame(s) \in Seq(Byte)
BY FrameIs

LEMMA PacketTyped ==
    ASSUME RequestsAssumption, Pending, LineTypes
    PROVE  Packet \in Seq(Byte)
<1>1. asked \in Requests
  BY DEF Pending, LineTypes
<1>2. Body(asked) \in Seq(Byte)
  <2>1. Body(asked) \in Seq(Byte \ Marks)
    BY <1>1, BodyText DEF Proper, MarkFree
  <2> DEFINE s == Body(asked)
  <2> HIDE DEF s
  <2> QED
    BY <2>1 DEF s
<1> QED
  BY <1>2, FrameTyped DEF Packet

LEMMA LineTypesStart == Init => LineTypes
BY NewIsReading DEF Init, LineTypes

LEMMA LineTypesStep ==
    ASSUME MemAssumption, RequestsAssumption, LineTypes, [Next]_vars
    PROVE  LineTypes'
<1>1. CASE \E q \in Requests : Ask(q)
  BY <1>1 DEF Ask, LineTypes
<1>2. CASE Send
  BY <1>2, PacketTyped DEF Send, Arrives, LineTypes
<1>3. CASE SendCut
  <2>1. Packet \in Seq(Byte)
    BY <1>3, PacketTyped DEF SendCut, Fault
  <2>2. PICK n \in 1 .. Len(Packet) - 1 : Arrives(SubSeq(Packet, 1, n))
    BY <1>3 DEF SendCut
  <2> DEFINE s == Packet
  <2> HIDE DEF s
  <2>3. SubSeq(s, 1, n) \in Seq(Byte)
    BY <2>1, <2>2 DEF s
  <2> QED
    BY <2>2, <2>3 DEF Arrives, LineTypes, s
<1>4. CASE SendSpoiled
  <2>1. Packet \in Seq(Byte)
    BY <1>4, PacketTyped DEF SendSpoiled, Fault
  <2>2. PICK n \in 1 .. Len(Packet), c \in Spoiling : Arrives([Packet EXCEPT ![n] = c])
    BY <1>4 DEF SendSpoiled
  <2>3. c \in Byte
    BY <2>2 DEF MemAssumption
  <2> DEFINE s == Packet
  <2> HIDE DEF s
  <2>4. [s EXCEPT ![n] = c] \in Seq(Byte)
    BY <2>1, <2>2, <2>3, ExceptSeq DEF s
  <2> QED
    BY <2>2, <2>4 DEF Arrives, LineTypes, s
<1>5. CASE Wait
  <2>1. Got.r \in Readers
    BY GetpktTyped DEF LineTypes, Got
  <2> QED
    BY <1>5, <2>1 DEF Wait, LineTypes, Reading
<1>6. CASE Ignore
  <2>1. SubSeq(line, Got.n + 1, Len(line)) \in Seq(Byte)
    <3>1. Got.n \in Nat
      BY GetpktTyped DEF LineTypes, Got
    <3> QED
      BY <3>1 DEF LineTypes
  <2> QED
    BY <1>6, <2>1, NewIsReading DEF Ignore, LineTypes
<1>7. CASE Serve
  BY <1>7, NewIsReading DEF Serve, LineTypes
<1>8. CASE UNCHANGED vars
  BY <1>8 DEF vars, LineTypes
<1> QED
  BY <1>1, <1>2, <1>3, <1>4, <1>5, <1>6, <1>7, <1>8 DEF Next

(* A request that arrives whole is accepted the first or the second time,     *)
(* whatever cut or spoiled packets have left in the reader.                   *)
THEOREM SecondIsAccepted ==
    ASSUME MemAssumption, RequestsAssumption
    PROVE  Spec => []TwoRepeatsSuffice
<1>1. Init => LineTypes
  BY LineTypesStart
<1>2. LineTypes /\ [Next]_vars => LineTypes'
  BY LineTypesStep
<1>3. LineTypes => TwoRepeatsSuffice
  <2> SUFFICES ASSUME LineTypes, Pending, line = <<>>
               PROVE  LET first == rp_getpkt(reader, Packet).r
                          second == rp_getpkt(first, Packet).r
                      IN  "packet" \in {first.ret, second.ret}
    BY DEF TwoRepeatsSuffice
  <2>1. asked \in Requests /\ reader \in Reading
    BY DEF Pending, LineTypes
  <2> DEFINE first == rp_getpkt(reader, Packet).r
             second == rp_getpkt(first, Packet).r
  <2>2. /\ reader.state = 0 => first.ret = "packet"
        /\ reader.state # 0 => first \in Reading /\ first.state = 0
    BY <2>1, PacketRead DEF Taken, Packet, Accepted
  <2> HIDE DEF first
  <2>3. first \in Reading /\ first.state = 0 => second.ret = "packet"
    BY <2>1, PacketRead DEF Taken, Packet, Accepted
  <2> HIDE DEF second
  <2>4. "packet" \in {first.ret, second.ret}
    BY <2>2, <2>3
  <2> QED
    BY <2>4 DEF first, second
<1> QED
  BY <1>1, <1>2, <1>3, PTL DEF Spec


-----------------------------------------------------------------------------
(* Decoding. *)

LEMMA DigitIsHex ==
    /\ \A c \in Digits : c \in Byte /\ IsHex(c) /\ rp_hex_nibble(c) \in 0 .. 15
    /\ ~ IsHex(Comma) /\ ~ IsHex(Colon) /\ ~ IsHex(EqualSign)
<1>1. \A c \in Digits : c \in Byte /\ IsHex(c)
  BY DigitIs, NibbleIs DEF Digits
<1>2. \A c \in Digits : rp_hex_nibble(c) \in 0 .. 15
  BY <1>1, NibbleIs
<1>3. ~ IsHex(Comma) /\ ~ IsHex(Colon) /\ ~ IsHex(EqualSign)
  BY SMT DEF IsHex, rp_hex_nibble, Comma, Colon, EqualSign
<1> QED
  BY <1>1, <1>2, <1>3

(* Byte by byte, the data come back. *)
LEMMA PairValue ==
    ASSUME NEW b \in Byte
    PROVE  16 * rp_hex_nibble(rp_encode_byte(b)[1]) + rp_hex_nibble(rp_encode_byte(b)[2]) = b
<1>1. /\ rp_encode_byte(b)[1] = HexDigits[b \div 16 + 1]
      /\ rp_encode_byte(b)[2] = HexDigits[(b % 16) + 1]
  BY EncodedByte
<1>2. rp_hex_nibble(HexDigits[b \div 16 + 1]) = b \div 16
      /\ rp_hex_nibble(HexDigits[(b % 16) + 1]) = b % 16
  BY ByteDigits, HexDigit
<1> QED
  BY <1>1, <1>2, ByteDigits

Decoded(data) == [ok |-> TRUE, rest |-> <<>>, val |-> data]

LEMMA DataDecoded ==
    ASSUME NEW data \in Seq(Byte)
    PROVE  rp_decode_data(rp_encode_data(data)) = Decoded(data)
<1> DEFINE s == rp_encode_data(data)
           n == Len(data)
           m == Len(s) \div 2
           val == [i \in 1 .. m |-> 16 * rp_hex_nibble(s[2 * i - 1]) + rp_hex_nibble(s[2 * i])]
<1>1. /\ s \in Seq(Digits) /\ Len(s) = 2 * n
      /\ \A k \in 1 .. n : /\ s[2 * k - 1] = rp_encode_byte(data[k])[1]
                           /\ s[2 * k] = rp_encode_byte(data[k])[2]
  BY DataText
<1>2. n \in Nat /\ \A k \in 1 .. n : data[k] \in Byte
  OBVIOUS
<1> HIDE DEF s, n
<1>3. m = n /\ Len(s) # 1
  <2>1. \A k \in Nat : (2 * k) \div 2 = k /\ 2 * k # 1
    BY SMT
  <2> QED
    BY <1>1, <1>2, <2>1
<1>4. \A i \in 1 .. 2 * m : IsHex(s[i])
  <2>1. \A i \in 1 .. 2 * n : s[i] \in Digits
    BY <1>1, <1>2
  <2> HIDE DEF m
  <2> QED
    BY <1>3, <2>1, DigitIsHex
<1>5. rp_decode_data(s) = [ok |-> TRUE, rest |-> <<>>, val |-> val]
  BY <1>3, <1>4 DEF rp_decode_data
<1>6. val = data
  <2>1. \A k \in 1 .. n : 16 * rp_hex_nibble(s[2 * k - 1]) + rp_hex_nibble(s[2 * k]) = data[k]
    BY <1>1, <1>2, PairValue
  <2>2. data = [k \in 1 .. n |-> data[k]]
    BY DEF n
  <2> HIDE DEF m
  <2>3. val = [k \in 1 .. n |-> data[k]]
    BY <1>3, <2>1
  <2> QED
    BY <2>2, <2>3
<1> QED
  BY <1>5, <1>6 DEF Decoded, s

(* The digits of a number. *)
Step16(b, c) == 16 * b + rp_hex_nibble(c)

LEMMA StepTyped == \A b \in Nat, c \in Digits : Step16(b, c) \in Nat
<1> SUFFICES ASSUME NEW b \in Nat, NEW c \in Digits PROVE Step16(b, c) \in Nat
  OBVIOUS
<1>1. rp_hex_nibble(c) \in 0 .. 15
  BY DigitIsHex
<1> QED
  BY <1>1 DEF Step16

(* Where rp_decode_uint stops: after the digits of h. *)
EndOfNumber(h, t, digits) ==
    LET s == h \o t
    IN  Len(h) = CHOOSE k \in 0 .. Len(s) :
                    /\ \A i \in 1 .. k : IsHex(s[i])
                    /\ k = Len(s) \/ k = digits \/ ~ IsHex(s[k + 1])

LEMMA NumberEnds ==
    ASSUME NEW h \in Seq(Digits), NEW t \in Seq(Byte), NEW digits \in Nat, Len(h) < digits,
           t # <<>> => ~ IsHex(t[1])
    PROVE  EndOfNumber(h, t, digits)
<1> DEFINE s == h \o t
           n == Len(h)
           Ends(k) == /\ \A i \in 1 .. k : IsHex(s[i])
                      /\ k = Len(s) \/ k = digits \/ ~ IsHex(s[k + 1])
<1>1. /\ n \in Nat /\ Len(t) \in Nat /\ Len(s) = n + Len(t)
      /\ \A i \in 1 .. n : s[i] = h[i] /\ h[i] \in Digits
      /\ Len(t) > 0 => s[n + 1] = t[1]
  <2>1. h \in Seq(Byte)
    BY DigitIs
  <2>2. Len(s) = Len(h) + Len(t) /\ Len(h) \in Nat /\ Len(t) \in Nat
    BY <2>1, Lengths
  <2>3. \A i \in 1 .. Len(h) + Len(t) : s[i] = IF i <= Len(h) THEN h[i] ELSE t[i - Len(h)]
    BY <2>1, Entries
  <2>4. \A i \in 1 .. Len(h) : h[i] \in Digits
    OBVIOUS
  <2> HIDE DEF s
  <2> QED
    BY <2>2, <2>3, <2>4, SMTT(60)
<1> HIDE DEF s, n
<1>2. n \in 0 .. Len(s) /\ Ends(n)
  <2>1. \A i \in 1 .. n : IsHex(s[i])
    BY <1>1, DigitIsHex
  <2>2. n = Len(s) \/ ~ IsHex(s[n + 1])
    <3>1. CASE Len(t) = 0
      BY <1>1, <3>1
    <3>2. CASE Len(t) > 0
      BY <1>1, <3>2
    <3> QED
      BY <1>1, <3>1, <3>2
  <2> QED
    BY <1>1, <2>1, <2>2
<1>3. ASSUME NEW k \in 0 .. Len(s), Ends(k) PROVE k = n
  <2>1. CASE k < n
    <3>1. k + 1 \in 1 .. n /\ k # Len(s) /\ k # digits
      BY <1>1, <2>1 DEF n
    <3> QED
      BY <1>1, <1>3, <3>1, DigitIsHex
  <2>2. CASE k > n
    <3>1. n + 1 \in 1 .. k /\ Len(t) > 0 /\ t # <<>>
      BY <1>1, <1>3, <2>2
    <3> QED
      BY <1>1, <1>3, <3>1
  <2> QED
    BY <1>1, <2>1, <2>2
<1> HIDE DEF Ends
<1>4. n = CHOOSE k \in 0 .. Len(s) : Ends(k)
  BY <1>2, <1>3
<1> QED
  BY <1>4 DEF EndOfNumber, Ends, n, s

(* A part of a sequence. *)
IsPart(u, C, s, o, m) ==
    u \in Seq(C) /\ Len(u) = m /\ \A i \in 1 .. m : u[i] = s[o + i]

LEMMA PartIs ==
    ASSUME NEW C, NEW s \in Seq(C), NEW o \in Nat, NEW m \in Nat, o + m <= Len(s)
    PROVE  IsPart(SubSeq(s, o + 1, o + m), C, s, o, m)
<1> DEFINE lo == o + 1
           hi == o + m
           u == SubSeq(s, lo, hi)
<1>1. lo \in Int /\ hi \in Int /\ hi - lo + 1 = m /\ (lo <= hi <=> m # 0)
      /\ lo > 0 /\ hi <= Len(s) /\ \A i \in Int : lo + i - 1 = o + i
  OBVIOUS
<1> HIDE DEF lo, hi
<1>2. \A i \in lo .. hi : s[i] \in C
  BY <1>1
<1>3. /\ u \in Seq(C) /\ Len(u) = (IF lo <= hi THEN hi - lo + 1 ELSE 0)
      /\ \A i \in 1 .. hi - lo + 1 : u[i] = s[lo + i - 1]
  BY <1>1, <1>2, SubSeqProperties
<1> HIDE DEF u
<1>4. Len(u) = m
  BY <1>1, <1>3
<1>5. \A i \in 1 .. m : u[i] = s[o + i]
  BY <1>1, <1>3, SMTT(60)
<1> QED
  BY <1>3, <1>4, <1>5 DEF IsPart, u, lo, hi

(* A part of two. *)
LEMMA Cut ==
    ASSUME NEW C, NEW h \in Seq(C), NEW t \in Seq(C)
    PROVE  /\ SubSeq(h \o t, 1, Len(h)) = h
           /\ SubSeq(h \o t, Len(h) + 1, Len(h \o t)) = t
<1> DEFINE s == h \o t
           n == Len(h)
           m == Len(t)
<1>1. s \in Seq(C) /\ Len(s) = n + m /\ n \in Nat /\ m \in Nat
  BY Lengths
<1>2. \A i \in 1 .. n + m : s[i] = IF i <= n THEN h[i] ELSE t[i - n]
  BY Entries
<1>h. h \in Seq(C) /\ Len(h) = n /\ t \in Seq(C) /\ Len(t) = m
  OBVIOUS
<1> HIDE DEF s, n, m
<1>3. SubSeq(s, 1, n) = h
  <2> DEFINE u == SubSeq(s, 1, n)
  <2>1. IsPart(SubSeq(s, 0 + 1, 0 + n), C, s, 0, n)
    BY <1>1, PartIs
  <2>2. 0 + 1 = 1 /\ 0 + n = n /\ \A i \in 1 .. n : 0 + i = i
    BY <1>1
  <2>3. u \in Seq(C) /\ Len(u) = n /\ \A i \in 1 .. n : u[i] = s[i]
    BY <2>1, <2>2 DEF IsPart
  <2> HIDE DEF u
  <2>4. \A i \in 1 .. n : u[i] = h[i]
    BY <1>1, <1>2, <2>3
  <2> QED
    BY <1>h, <2>3, <2>4, SeqEqual DEF u
<1>4. SubSeq(s, n + 1, n + m) = t
  <2> DEFINE u == SubSeq(s, n + 1, n + m)
  <2>1. u \in Seq(C) /\ Len(u) = m /\ \A i \in 1 .. m : u[i] = s[n + i]
    <3>1. IsPart(SubSeq(s, n + 1, n + m), C, s, n, m)
      BY <1>1, PartIs
    <3> QED
      BY <3>1 DEF IsPart
  <2> HIDE DEF u
  <2>2. \A i \in 1 .. m : s[n + i] = t[i]
    <3> TAKE i \in 1 .. m
    <3>1. n + i \in 1 .. n + m /\ ~ (n + i <= n) /\ (n + i) - n = i
      BY <1>1
    <3> QED
      BY <1>2, <3>1
  <2> QED
    BY <1>h, <2>1, <2>2, SeqEqual DEF u
<1> QED
  BY <1>1, <1>3, <1>4 DEF s, n, m

(* The value of one or two digits. *)
LEMMA HexValue ==
    ASSUME NEW v \in Byte
    PROVE  \/ Len(Hex(v)) = 1 /\ Step16(0, Hex(v)[1]) = v
           \/ Len(Hex(v)) = 2 /\ Step16(Step16(0, Hex(v)[1]), Hex(v)[2]) = v
<1>1. CASE v < 16
  <2>1. rp_hex_nibble(HexDigits[v + 1]) = v
    BY <1>1, HexDigit DEF Byte
  <2>2. Hex(v) = <<HexDigits[v + 1]>>
    BY <1>1 DEF Hex
  <2>3. Len(Hex(v)) = 1 /\ Hex(v)[1] = HexDigits[v + 1]
    BY <2>2
  <2> QED
    BY <2>1, <2>3 DEF Step16, Byte
<1>2. CASE ~ (v < 16)
  <2>1. Hex(v) = rp_encode_byte(v)
    BY <1>2 DEF Hex
  <2>2. /\ Len(Hex(v)) = 2
        /\ 16 * rp_hex_nibble(Hex(v)[1]) + rp_hex_nibble(Hex(v)[2]) = v
        /\ rp_hex_nibble(Hex(v)[1]) \in 0 .. 15
    <3>1. Hex(v)[1] \in Digits
      BY <2>1, ByteText
    <3> QED
      BY <2>1, <3>1, PairValue, ByteText, DigitIsHex
  <2> QED
    BY <2>2 DEF Step16
<1> QED
  BY <1>1, <1>2

(* rp_decode_uint: a number, its stop and the rest. *)
Number(v, rest) == [ok |-> TRUE, val |-> v, rest |-> rest]

StopsAt(stop, rest) ==
    \/ stop = <<>> /\ rest = <<>>
    \/ stop \in {<<Comma>>, <<EqualSign>>}

LEMMA NumberDecoded ==
    ASSUME NEW v \in Byte, NEW digits \in {8, 16}, NEW stop, NEW rest \in Seq(Byte),
           StopsAt(stop, rest)
    PROVE  rp_decode_uint(Hex(v) \o (stop \o rest), stop, digits) = Number(v, rest)
<1> DEFINE h == Hex(v)
           t == stop \o rest
           s == h \o t
           n == CHOOSE k \in 0 .. Len(s) :
                   /\ \A i \in 1 .. k : IsHex(s[i])
                   /\ k = Len(s) \/ k = digits \/ ~ IsHex(s[k + 1])
           Num[k \in 0 .. n] == IF k = 0 THEN 0 ELSE 16 * Num[k - 1] + rp_hex_nibble(s[k])
           left == SubSeq(s, n + 1, Len(s))
           at == IF left = <<>> THEN <<>> ELSE <<left[1]>>
<1>1. rp_decode_uint(s, stop, digits) =
         IF s = <<>> \/ at # stop THEN Failed
         ELSE [ok |-> TRUE, val |-> Num[n], rest |-> SubSeq(left, Len(stop) + 1, Len(left))]
  BY DEF rp_decode_uint
<1>2. h \in Seq(Digits) /\ Len(h) \in {1, 2} /\ h \in Seq(Byte)
  <2>1. h \in Seq(Digits) /\ Len(h) \in {1, 2}
    BY HexText
  <2> HIDE DEF h
  <2> QED
    BY <2>1, DigitIs
<1>3. /\ stop \in Seq(Byte) /\ t \in Seq(Byte) /\ Len(stop) \in Nat
      /\ t = <<>> => stop = <<>>
      /\ t # <<>> => stop = <<t[1]>> /\ ~ IsHex(t[1])
  <2>1. CASE stop = <<>> /\ rest = <<>>
    <3>1. t = <<>> /\ <<>> \in Seq(Byte) /\ Len(<<>>) = 0
      BY <2>1
    <3> QED
      BY <2>1, <3>1
  <2>2. ASSUME NEW c \in {Comma, EqualSign}, stop = <<c>>
        PROVE  /\ stop \in Seq(Byte) /\ t \in Seq(Byte) /\ Len(stop) \in Nat
               /\ t # <<>> /\ stop = <<t[1]>> /\ ~ IsHex(t[1])
    <3>1. c \in Byte /\ ~ IsHex(c)
      BY DigitIsHex DEF Comma, EqualSign, Byte
    <3>2. stop \in Seq(Byte) /\ Len(stop) = 1
      BY <2>2, <3>1, Single
    <3>3. <<c>> \o rest \in Seq(Byte) /\ Prefixed(<<c>> \o rest, c, rest)
      BY <3>1, AfterChar
    <3>4. t \in Seq(Byte) /\ t[1] = c /\ Len(t) > 0
      BY <2>2, <3>3 DEF Prefixed
    <3> HIDE DEF t
    <3> QED
      BY <2>2, <3>1, <3>2, <3>4
  <2> QED
    BY <2>1, <2>2 DEF StopsAt
<1>4. n = Len(h)
  <2> HIDE DEF h, t
  <2>1. digits \in Nat /\ Len(h) < digits
    <3>1. \A k \in {1, 2}, d \in {8, 16} : d \in Nat /\ k < d
      OBVIOUS
    <3> QED
      BY <1>2, <3>1, Zenon
  <2>2. EndOfNumber(h, t, digits)
    BY <1>2, <1>3, <2>1, NumberEnds
  <2> QED
    BY <2>2 DEF EndOfNumber
<1>5. \A k \in 1 .. Len(h) : s[k] = h[k] /\ s[k] \in Digits
  <2>1. \A i \in 1 .. Len(h) + Len(t) : s[i] = IF i <= Len(h) THEN h[i] ELSE t[i - Len(h)]
    <3> HIDE DEF h, t
    <3> QED
      BY <1>2, <1>3, Entries
  <2>2. \A i \in 1 .. Len(h) : h[i] \in Digits
    BY <1>2
  <2>3. Len(h) \in Nat /\ Len(t) \in Nat
    BY <1>2, <1>3
  <2> HIDE DEF s, h, t
  <2> QED
    BY <2>1, <2>2, <2>3
<1>6. left = t /\ s # <<>>
  <2> HIDE DEF h, t
  <2>1. SubSeq(s, Len(h) + 1, Len(s)) = t
    BY <1>2, <1>3, Cut
  <2>2. Len(s) > 0
    BY <1>2, <1>3, Lengths
  <2> HIDE DEF s, n
  <2> QED
    BY <1>4, <2>1, <2>2
<1>7. at = stop
  <2> HIDE DEF left, t
  <2> QED
    BY <1>3, <1>6
<1>8. SubSeq(left, Len(stop) + 1, Len(left)) = rest
  <2> HIDE DEF left, t
  <2>1. SubSeq(stop \o rest, Len(stop) + 1, Len(stop \o rest)) = rest
    BY <1>3, Cut
  <2> QED
    BY <1>6, <2>1 DEF t
<1>9. Num[n] = v
  <2> DEFINE F == [k \in 1 .. n |-> [b \in Nat |-> Step16(b, s[k])]]
  <2> HIDE DEF s, h, t
  <2>1. n \in {1, 2} /\ n \in Nat
    <3> HIDE DEF n, F
    <3> QED
      BY <1>2, <1>4 DEF h
  <2>2. \A k \in 1 .. n : s[k] \in Digits /\ s[k] = h[k]
    BY <1>4, <1>5
  <2> HIDE DEF n
  <2>3. F \in [1 .. n -> [Nat -> Nat]]
    BY <2>2, StepTyped
  <2>4. PICK g \in [0 .. n -> Nat] : Recurs(g, F, 0, n)
    <3> HIDE DEF F
    <3> QED
      BY <2>1, <2>3, RecursionExists
  <2>5. g = [k \in 0 .. n |-> IF k = 0 THEN 0 ELSE Step16(g[k - 1], s[k])]
    <3>1. \A k \in 0 .. n : k # 0 => k \in 1 .. n /\ g[k - 1] \in Nat
      BY <2>1
    <3>2. \A k \in 0 .. n :
             (IF k = 0 THEN 0 ELSE F[k][g[k - 1]])
                = IF k = 0 THEN 0 ELSE Step16(g[k - 1], s[k])
      BY <3>1
    <3> HIDE DEF F
    <3> QED
      BY <2>4, <3>2 DEF Recurs
  <2>6. Num = [k \in 0 .. n |-> IF k = 0 THEN 0 ELSE Step16(Num[k - 1], s[k])]
    BY <2>5, Zenon DEF Step16
  <2> HIDE DEF Num
  <2>7. Num[0] = 0 /\ Num[1] = Step16(Num[0], s[1])
    BY <2>1, <2>6
  <2>8. n = 2 => Num[2] = Step16(Num[1], s[2])
    BY <2>6
  <2>9. s[1] = h[1] /\ (n = 2 => s[2] = h[2])
    BY <2>1, <2>2
  <2> QED
    BY <1>4, <2>7, <2>8, <2>9, HexValue DEF h
<1> HIDE DEF left, at, Num, n
<1> QED
  BY <1>1, <1>6, <1>7, <1>8, <1>9 DEF Number


-----------------------------------------------------------------------------
(* What the decoders of the handlers make of a request. *)

LEMMA HexBytes ==
    ASSUME NEW v \in Byte, NEW data \in Seq(Byte)
    PROVE  Hex(v) \in Seq(Byte) /\ rp_encode_data(data) \in Seq(Byte)
<1>1. Hex(v) \in Seq(Digits) /\ rp_encode_data(data) \in Seq(Digits)
  BY HexText, DataText
<1>2. \A s \in Seq(Digits) : s \in Seq(Byte)
  BY DigitIs
<1> QED
  BY <1>1, <1>2

LEMMA LastNumber ==
    ASSUME NEW v \in Byte, NEW digits \in {8, 16}
    PROVE  rp_decode_uint(Hex(v), <<>>, digits) = Number(v, <<>>)
<1> DEFINE h == Hex(v)
           e == <<>>
<1>1. e \in Seq(Byte) /\ StopsAt(e, e)
  BY DEF StopsAt
<1>2. rp_decode_uint(h \o (e \o e), e, digits) = Number(v, e)
  <2> HIDE DEF e
  <2> QED
    BY <1>1, NumberDecoded DEF h
<1>3. h \o (e \o e) = h
  <2>1. h \in Seq(Byte)
    BY HexBytes, NoDataText, <1>1
  <2> HIDE DEF h
  <2> QED
    BY <2>1
<1> QED
  BY <1>2, <1>3

AddrLen(at, len) == Hex(at) \o (<<Comma>> \o Hex(len))

AddrLenDecoded(at, len) ==
    rp_decode_mem(AddrLen(at, len)) = [ok |-> TRUE, addr |-> at, len |-> len]

LEMMA MemDecoded ==
    ASSUME NEW at \in Byte, NEW len \in Byte
    PROVE  AddrLenDecoded(at, len)
<1> DEFINE s == AddrLen(at, len)
           addr == rp_decode_uint64(s, <<Comma>>)
<1>1. addr = Number(at, Hex(len))
  <2>1. Hex(len) \in Seq(Byte) /\ StopsAt(<<Comma>>, Hex(len))
    BY HexText, DigitIs DEF StopsAt
  <2>2. rp_decode_uint(Hex(at) \o (<<Comma>> \o Hex(len)), <<Comma>>, 16) = Number(at, Hex(len))
    BY <2>1, NumberDecoded
  <2> QED
    BY <2>2 DEF rp_decode_uint64, AddrLen
<1>2. rp_decode_uint32(Hex(len), <<>>) = Number(len, <<>>)
  BY LastNumber DEF rp_decode_uint32
<1>3. rp_decode_mem(s) = [ok |-> addr.ok /\ rp_decode_uint32(addr.rest, <<>>).ok,
                          addr |-> addr.val, len |-> rp_decode_uint32(addr.rest, <<>>).val]
  BY DEF rp_decode_mem
<1> HIDE DEF addr, s
<1>4. /\ addr.ok = TRUE /\ addr.val = at /\ addr.rest = Hex(len)
  BY <1>1 DEF Number
<1>5. /\ rp_decode_uint32(addr.rest, <<>>).ok = TRUE
      /\ rp_decode_uint32(addr.rest, <<>>).val = len
  BY <1>2, <1>4 DEF Number
<1> QED
  BY <1>3, <1>4, <1>5 DEF AddrLenDecoded, s

RegData(r, data) == Hex(r) \o (<<EqualSign>> \o rp_encode_data(data))

RegDataDecoded(r, data) ==
    rp_decode_reg_assignment(RegData(r, data)) = [ok |-> TRUE, reg |-> r, data |-> data]

LEMMA AssignmentDecoded ==
    ASSUME NEW r \in Byte, NEW data \in Seq(Byte)
    PROVE  RegDataDecoded(r, data)
<1> DEFINE s == RegData(r, data)
           e == rp_encode_data(data)
           reg == rp_decode_uint32(s, <<EqualSign>>)
<1>1. reg = Number(r, e)
  <2>1. e \in Seq(Byte) /\ StopsAt(<<EqualSign>>, e)
    BY HexBytes DEF StopsAt
  <2>2. rp_decode_uint(Hex(r) \o (<<EqualSign>> \o e), <<EqualSign>>, 8) = Number(r, e)
    <3> HIDE DEF e
    <3> QED
      BY <2>1, NumberDecoded
  <2> QED
    BY <2>2 DEF rp_decode_uint32, RegData
<1>2. rp_decode_data(e) = Decoded(data)
  BY DataDecoded
<1>3. rp_decode_reg_assignment(s) =
         [ok |-> reg.ok /\ rp_decode_data(reg.rest).ok, reg |-> reg.val,
          data |-> rp_decode_data(reg.rest).val]
  BY DEF rp_decode_reg_assignment
<1> HIDE DEF reg, s, e
<1>4. reg.ok = TRUE /\ reg.val = r /\ reg.rest = e
  BY <1>1 DEF Number
<1>5. rp_decode_data(reg.rest).ok = TRUE /\ rp_decode_data(reg.rest).val = data
  BY <1>2, <1>4 DEF Decoded
<1> QED
  BY <1>3, <1>4, <1>5 DEF RegDataDecoded, s

(* The text after the letter. *)
AfterLetter(s, c, t) == s # <<>> /\ s[1] = c /\ Tail(s) = t

LEMMA LetterIs ==
    ASSUME NEW c \in Byte, NEW t \in Seq(Byte)
    PROVE  AfterLetter(<<c>> \o t, c, t)
<1> DEFINE u == <<c>> \o t
<1>1. u \in Seq(Byte) /\ Prefixed(u, c, t)
  BY AfterChar
<1>2. SubSeq(<<c>> \o t, Len(<<c>>) + 1, Len(<<c>> \o t)) = t
  BY Single, Cut
<1>3. Len(<<c>>) + 1 = 2
  OBVIOUS
<1> HIDE DEF u
<1>4. u # <<>> /\ u[1] = c
  BY <1>1 DEF Prefixed
<1>5. Tail(u) = SubSeq(u, 2, Len(u))
  BY <1>1, <1>4, TailIsSubSeq
<1> QED
  BY <1>2, <1>3, <1>4, <1>5 DEF AfterLetter, u

(* The first colon ends the head of a write. *)
ColonOf(s) ==
    LET cp == {i \in 2 .. Len(s) : s[i] = Colon}
    IN  CHOOSE i \in cp : \A j \in cp : i <= j

Splits(s, h, e) ==
    /\ s # <<>> /\ s[1] = h[1]
    /\ {i \in 2 .. Len(s) : s[i] = Colon} # {}
    /\ SubSeq(s, 2, ColonOf(s) - 1) = Tail(h)
    /\ SubSeq(s, ColonOf(s) + 1, Len(s)) = e

LEMMA FirstColon ==
    ASSUME NEW h \in Seq(Byte \ {Colon}), NEW e \in Seq(Byte \ {Colon}), h # <<>>
    PROVE  Splits(h \o <<Colon>> \o e, h, e)
<1> DEFINE a == <<Colon>>
           x == h \o a
           s == x \o e
           n == Len(h)
           m == Len(e)
           cp == {i \in 2 .. Len(s) : s[i] = Colon}
<1>1. /\ h \in Seq(Byte) /\ e \in Seq(Byte) /\ n \in Nat \ {0} /\ m \in Nat
      /\ \A i \in 1 .. n : h[i] # Colon
      /\ \A i \in 1 .. m : e[i] # Colon
  OBVIOUS
<1>2. a \in Seq(Byte) /\ Len(a) = 1 /\ a[1] = Colon
  BY CharFacts, Single DEF Chars
<1> HIDE DEF a
<1>3. x \in Seq(Byte) /\ Len(x) = n + 1
  BY <1>1, <1>2, Lengths
<1>4. \A i \in 1 .. n + 1 : x[i] = IF i <= n THEN h[i] ELSE a[i - n]
  BY <1>1, <1>2, Entries, ZenonT(60)
<1> HIDE DEF x
<1>5. s \in Seq(Byte) /\ Len(s) = n + 1 + m
  BY <1>1, <1>3, Lengths
<1>6. \A i \in 1 .. n + 1 + m : s[i] = IF i <= n + 1 THEN x[i] ELSE e[i - (n + 1)]
  BY <1>1, <1>3, Entries
<1>7. SubSeq(s, n + 1 + 1, Len(s)) = e
  BY <1>1, <1>3, Cut
<1> HIDE DEF s, n, m
<1>8. /\ \A i \in 1 .. n : s[i] = h[i] /\ s[i] # Colon
      /\ s[n + 1] = Colon
      /\ \A i \in n + 2 .. n + 1 + m : s[i] # Colon
  <2>1. ASSUME NEW i \in 1 .. n PROVE s[i] = h[i] /\ s[i] # Colon
    <3>1. i \in 1 .. n + 1 + m /\ i <= n + 1 /\ i <= n /\ i \in 1 .. n + 1
      BY <1>1
    <3> QED
      BY <1>1, <1>4, <1>6, <3>1
  <2>2. s[n + 1] = Colon
    <3>1. n + 1 \in 1 .. n + 1 + m /\ n + 1 <= n + 1 /\ ~ (n + 1 <= n)
          /\ n + 1 \in 1 .. n + 1 /\ n + 1 - n = 1
      BY <1>1
    <3>2. s[n + 1] = x[n + 1]
      BY <1>6, <3>1
    <3>3. x[n + 1] = a[n + 1 - n]
      BY <1>1, <1>4, <3>1
    <3> QED
      BY <1>2, <3>1, <3>2, <3>3
  <2>3. ASSUME NEW i \in n + 2 .. n + 1 + m PROVE s[i] # Colon
    <3>1. i \in 1 .. n + 1 + m /\ ~ (i <= n + 1) /\ i - (n + 1) \in 1 .. m
      BY <1>1
    <3> QED
      BY <1>1, <1>6, <3>1
  <2> QED
    BY <2>1, <2>2, <2>3
<1>9. cp = {n + 1}
  <2>1. n + 1 \in cp
    BY <1>1, <1>5, <1>8
  <2>2. ASSUME NEW i \in cp PROVE i = n + 1
    <3>1. i \in 1 .. n \/ i = n + 1 \/ i \in n + 2 .. n + 1 + m
      BY <1>1, <1>5, SMTT(60)
    <3>2. s[i] = Colon
      OBVIOUS
    <3> QED
      BY <1>8, <3>1, <3>2
  <2> HIDE DEF cp
  <2> QED
    BY <2>1, <2>2
<1>10. ColonOf(s) = n + 1
  <2>1. ColonOf(s) = CHOOSE i \in cp : \A j \in cp : i <= j
    BY DEF ColonOf
  <2> HIDE DEF cp
  <2> QED
    BY <1>1, <1>9, <2>1
<1>11. SubSeq(s, 2, n) = Tail(h)
  <2> DEFINE k == n - 1
             u == SubSeq(s, 2, n)
             v == SubSeq(h, 2, n)
  <2>1. k \in Nat /\ 1 + k = n /\ 1 + k <= Len(s) /\ 1 + 1 = 2 /\ n = Len(h)
    BY <1>1, <1>5 DEF n
  <2> HIDE DEF k
  <2>2. IsPart(SubSeq(s, 1 + 1, 1 + k), Byte, s, 1, k)
    BY <1>5, <2>1, PartIs
  <2>3. IsPart(SubSeq(h, 1 + 1, 1 + k), Byte, h, 1, k)
    <3>1. 1 + k <= Len(h)
      BY <1>1, <2>1
    <3> QED
      BY <1>1, <2>1, <3>1, PartIs
  <2>4. \A i \in 1 .. k : s[1 + i] = h[1 + i]
    <3> TAKE i \in 1 .. k
    <3>1. 1 + i \in 1 .. n
      BY <1>1, <2>1
    <3> QED
      BY <1>8, <3>1
  <2>5. /\ u \in Seq(Byte) /\ v \in Seq(Byte) /\ Len(u) = Len(v) /\ Len(v) = k
        /\ \A i \in 1 .. k : u[i] = s[1 + i] /\ v[i] = h[1 + i]
    BY <2>1, <2>2, <2>3 DEF IsPart
  <2> HIDE DEF u, v
  <2>6. u = v
    BY <2>4, <2>5, SeqEqual
  <2>7. Tail(h) = SubSeq(h, 2, Len(h))
    BY <1>1, TailIsSubSeq
  <2> QED
    BY <2>1, <2>6, <2>7 DEF u, v
<1> QED
  <2>1. Splits(s, h, e)
    <3>1. cp # {}
      BY <1>9
    <3>2. SubSeq(s, 2, ColonOf(s) - 1) = Tail(h)
      <4>1. ColonOf(s) - 1 = n
        BY <1>1, <1>10
      <4> QED
        BY <1>11, <4>1, Zenon
    <3>3. SubSeq(s, ColonOf(s) + 1, Len(s)) = e
      BY <1>7, <1>10, Zenon
    <3>4. 1 \in 1 .. n /\ Len(s) # 0
      BY <1>1, <1>5
    <3>5. s # <<>> /\ s[1] = h[1]
      BY <1>5, <1>8, <3>4
    <3> QED
      BY <3>1, <3>2, <3>3, <3>5, Zenon DEF Splits
  <2> QED
    BY <2>1 DEF s, x, a

-----------------------------------------------------------------------------
(* What the handlers do with a request that has arrived. *)
Fetched(q) == elvees_read_mem(q.at, Lesser(q.len, Limit))
StoredMem(q) == elvees_write_mem(q.at, q.data)

ReadsBack(s, q) ==
    Handled(s) = Says(IF Fetched(q).ok THEN rp_encode_data(Fetched(q).val) ELSE ErrText)

LEMMA ReadHandled ==
    ASSUME NEW q, q.at \in Byte, q.len \in Byte,
           NEW s, AfterLetter(s, 109, AddrLen(q.at, q.len))
    PROVE  ReadsBack(s, q)
<1>1. s # <<>> /\ s[1] = 109 /\ Tail(s) = AddrLen(q.at, q.len)
  BY DEF AfterLetter
<1>2. Handled(s) = HandleReadMemory(s)
  BY <1>1 DEF Handled
<1> DEFINE d == rp_decode_mem(Tail(s))
<1>3. d = [ok |-> TRUE, addr |-> q.at, len |-> q.len]
  <2>1. AddrLenDecoded(q.at, q.len)
    BY MemDecoded
  <2> QED
    BY <1>1, <2>1 DEF AddrLenDecoded
<1>4. HandleReadMemory(s) =
        Says(IF d.ok /\ elvees_read_mem(d.addr, Lesser(d.len, Limit)).ok
             THEN rp_encode_data(elvees_read_mem(d.addr, Lesser(d.len, Limit)).val)
             ELSE ErrText)
  BY DEF HandleReadMemory
<1> HIDE DEF d
<1>5. d.ok = TRUE /\ d.addr = q.at /\ d.len = q.len
  BY <1>3
<1>6. HandleReadMemory(s) =
        Says(IF TRUE /\ Fetched(q).ok THEN rp_encode_data(Fetched(q).val) ELSE ErrText)
  BY <1>4, <1>5, Zenon DEF Fetched
<1> QED
  BY <1>2, <1>6, Zenon DEF ReadsBack

WritesIt(s, q) ==
    Handled(s) = IF StoredMem(q).ok THEN Effect(StoredMem(q).val, regs, {OkText})
                 ELSE Says(ErrText)

LEMMA WriteHandled ==
    ASSUME NEW q, q.at \in Byte, q.data \in Seq(Byte), Len(q.data) \in Byte,
           NEW s, s = << 77 >> \o AddrLen(q.at, Len(q.data)) \o <<Colon>> \o rp_encode_data(q.data)
    PROVE  WritesIt(s, q)
<1> DEFINE t == AddrLen(q.at, Len(q.data))
           h == <<77>> \o t
           e == rp_encode_data(q.data)
           C == Byte \ {Colon}
<1>1. t \in Seq(C) /\ e \in Seq(C) /\ 77 \in C
  <2>1. /\ Digits \subseteq C /\ Comma \in C /\ 77 \in C
    <3>1. 77 # Colon /\ Comma # Colon /\ \A c \in Digits : c # Colon
      BY DigitIs DEF Colon, Comma
    <3> QED
      BY <3>1, CharFacts DEF Chars
  <2>2. e \in Seq(Digits) /\ Hex(q.at) \in Seq(Digits) /\ Hex(Len(q.data)) \in Seq(Digits)
    BY DataText, HexText
  <2>3. <<Comma>> \in Seq(C)
    BY <2>1, Single
  <2> HIDE DEF C, e
  <2>4. \A x \in Seq(Digits) : x \in Seq(C)
    BY <2>1
  <2>5. <<Comma>> \o Hex(Len(q.data)) \in Seq(C)
    BY <2>2, <2>3, <2>4, Lengths
  <2>6. t \in Seq(C)
    BY <2>2, <2>4, <2>5, Lengths DEF AddrLen
  <2> QED
    BY <2>1, <2>2, <2>4, <2>6, SMTT(60)
<1> HIDE DEF t, e
<1>2. h \in Seq(C) /\ Prefixed(h, 77, t)
  BY <1>1, AfterChar
<1>3. AfterLetter(h, 77, t)
  <2>1. t \in Seq(Byte) /\ 77 \in Byte
    BY <1>1
  <2> QED
    BY <2>1, LetterIs
<1>4. s = h \o <<Colon>> \o e
  BY DEF t, e
<1> HIDE DEF h
<1>5. h # <<>> /\ Tail(h) = t /\ h[1] = 77
  BY <1>3 DEF AfterLetter
<1>6. Splits(s, h, e)
  <2> HIDE DEF C
  <2>1. Splits(h \o <<Colon>> \o e, h, e)
    BY <1>1, <1>2, <1>5, FirstColon DEF C
  <2> QED
    BY <1>4, <2>1
<1>7. s # <<>> /\ s[1] = 77
  BY <1>5, <1>6 DEF Splits
<1> DEFINE cp == {i \in 2 .. Len(s) : s[i] = Colon}
           d == rp_decode_mem(SubSeq(s, 2, ColonOf(s) - 1))
           g == rp_decode_data(SubSeq(s, ColonOf(s) + 1, Len(s)))
           put == elvees_write_mem(d.addr, g.val)
<1>8. d = [ok |-> TRUE, addr |-> q.at, len |-> Len(q.data)]
  <2>1. AddrLenDecoded(q.at, Len(q.data))
    BY MemDecoded
  <2>2. SubSeq(s, 2, ColonOf(s) - 1) = AddrLen(q.at, Len(q.data))
    BY <1>5, <1>6 DEF Splits, t
  <2> QED
    BY <2>1, <2>2 DEF AddrLenDecoded
<1>9. g = Decoded(q.data)
  BY <1>6, DataDecoded DEF Splits, e
<1>10. Handled(s) = HandleWriteMemory(s)
  BY <1>7 DEF Handled
<1>11. HandleWriteMemory(s) =
          IF cp = {} \/ ~ d.ok \/ ~ g.ok \/ d.len # Len(g.val) \/ ~ put.ok
          THEN Says(ErrText) ELSE Effect(put.val, regs, {OkText})
  BY DEF HandleWriteMemory, ColonOf
<1> HIDE DEF d, g
<1>12. cp # {} /\ d.ok = TRUE /\ d.addr = q.at /\ d.len = Len(q.data)
       /\ g.ok = TRUE /\ g.val = q.data
  BY <1>6, <1>8, <1>9 DEF Splits, Decoded
<1>13. put = StoredMem(q)
  BY <1>12 DEF StoredMem
<1> HIDE DEF cp, put
<1> QED
  BY <1>10, <1>11, <1>12, <1>13, Zenon DEF WritesIt

TellsRegister(s, q) ==
    Handled(s) = Says(IF q.at < NumRegs THEN rp_encode_data(regs[q.at]) ELSE ErrText)

LEMMA RegisterReadHandled ==
    ASSUME MemAssumption, NEW q, q.at \in Byte, NEW s, AfterLetter(s, 112, Hex(q.at))
    PROVE  TellsRegister(s, q)
<1>1. s # <<>> /\ s[1] = 112 /\ Tail(s) = Hex(q.at)
  BY DEF AfterLetter
<1>2. Handled(s) = HandleReadRegister(s)
  BY <1>1 DEF Handled
<1> DEFINE d == rp_decode_uint32(Tail(s), <<>>)
           got == elvees_read_single_register(d.val)
<1>3. d = Number(q.at, <<>>)
  BY <1>1, LastNumber DEF rp_decode_uint32
<1>4. HandleReadRegister(s) = Says(IF d.ok /\ got.ok THEN rp_encode_data(got.val) ELSE ErrText)
  BY DEF HandleReadRegister
<1> HIDE DEF d
<1>5. d.ok = TRUE /\ d.val = q.at
  BY <1>3 DEF Number
<1>6. got = IF q.at >= NumRegs THEN Failed ELSE [ok |-> TRUE, val |-> regs[q.at]]
  BY <1>5 DEF elvees_read_single_register
<1> HIDE DEF got
<1>7. CASE q.at < NumRegs
  <2>1. ~ (q.at >= NumRegs)
    BY <1>7 DEF MemAssumption, Byte
  <2>2. got.ok = TRUE /\ got.val = regs[q.at]
    BY <1>6, <2>1
  <2> QED
    BY <1>2, <1>4, <1>5, <1>7, <2>2, Zenon DEF TellsRegister
<1>8. CASE ~ (q.at < NumRegs)
  <2>1. q.at >= NumRegs
    BY <1>8 DEF MemAssumption, Byte
  <2>2. got.ok = FALSE
    BY <1>6, <2>1 DEF Failed
  <2> QED
    BY <1>2, <1>4, <1>5, <1>8, <2>2, Zenon DEF TellsRegister
<1> QED
  BY <1>7, <1>8

SetsRegister(s, q) ==
    Handled(s) = IF q.at < NumRegs THEN Effect(mem, [regs EXCEPT ![q.at] = q.data], {OkText})
                 ELSE Says(ErrText)

LEMMA RegisterWriteHandled ==
    ASSUME MemAssumption, NEW q, q.at \in Byte, q.data \in Seq(Byte),
           NEW s, AfterLetter(s, 80, RegData(q.at, q.data))
    PROVE  SetsRegister(s, q)
<1>0. q.at < NumRegs <=> ~ (q.at >= NumRegs)
  <2>1. q.at \in Nat /\ NumRegs \in Nat
    <3>1. NumRegs \in Nat
      BY DEF MemAssumption
    <3>2. \A b \in Byte : b \in Nat
      BY DEF Byte
    <3> QED
      BY <3>1, <3>2, Zenon
  <2>2. \A x, y \in Nat : x < y <=> ~ (x >= y)
    OBVIOUS
  <2> QED
    BY <2>1, <2>2, Zenon
<1>1. s # <<>> /\ s[1] = 80 /\ Tail(s) = RegData(q.at, q.data)
  BY DEF AfterLetter
<1>2. Handled(s) = HandleWriteRegister(s)
  BY <1>1 DEF Handled
<1> DEFINE d == rp_decode_reg_assignment(Tail(s))
           put == elvees_write_single_register(d.reg, d.data)
<1>3. d = [ok |-> TRUE, reg |-> q.at, data |-> q.data]
  <2>1. RegDataDecoded(q.at, q.data)
    BY AssignmentDecoded
  <2> QED
    BY <1>1, <2>1 DEF RegDataDecoded
<1>4. HandleWriteRegister(s) =
         IF d.ok /\ put.ok THEN Effect(mem, put.val, {OkText}) ELSE Says(ErrText)
  BY DEF HandleWriteRegister
<1> HIDE DEF d
<1>5. d.ok = TRUE /\ d.reg = q.at /\ d.data = q.data
  BY <1>3
<1>6. put = IF q.at >= NumRegs THEN Failed
            ELSE [ok |-> TRUE, val |-> [regs EXCEPT ![q.at] = q.data]]
  BY <1>5 DEF elvees_write_single_register
<1> HIDE DEF put
<1>7. CASE q.at < NumRegs
  <2>1. ~ (q.at >= NumRegs)
    BY <1>0, <1>7
  <2>2. put.ok = TRUE /\ put.val = [regs EXCEPT ![q.at] = q.data]
    BY <1>6, <2>1
  <2> QED
    BY <1>2, <1>4, <1>5, <1>7, <2>2, Zenon DEF SetsRegister
<1>8. CASE ~ (q.at < NumRegs)
  <2>1. q.at >= NumRegs
    BY <1>0, <1>8
  <2>2. put.ok = FALSE
    BY <1>6, <2>1 DEF Failed
  <2> QED
    BY <1>2, <1>4, <1>5, <1>8, <2>2, Zenon DEF SetsRegister
<1> QED
  BY <1>7, <1>8

LEMMA RegistersWriteHandled ==
    ASSUME NEW data \in Seq(Byte), NEW s, AfterLetter(s, 71, rp_encode_data(data))
    PROVE  Handled(s) = Effect(mem, elvees_write_registers(data), {OkText})
<1>1. s # <<>> /\ s[1] = 71 /\ Tail(s) = rp_encode_data(data)
  BY DEF AfterLetter
<1>2. Handled(s) = HandleWriteRegisters(s)
  BY <1>1 DEF Handled
<1> DEFINE d == rp_decode_data(Tail(s))
<1>3. d = Decoded(data)
  BY <1>1, DataDecoded
<1>4. HandleWriteRegisters(s) =
         IF d.ok THEN Effect(mem, elvees_write_registers(d.val), {OkText}) ELSE Says(ErrText)
  BY DEF HandleWriteRegisters
<1> HIDE DEF d
<1>5. d.ok = TRUE /\ d.val = data
  BY <1>3 DEF Decoded
<1> QED
  BY <1>2, <1>4, <1>5, Zenon

(* What becomes of a request. *)
Outcome(q) ==
    CASE q.k = "m" -> Says(IF Fetched(q).ok THEN rp_encode_data(Fetched(q).val) ELSE ErrText)
      [] q.k \in {"M", "X"} -> IF StoredMem(q).ok
                               THEN Effect(StoredMem(q).val, regs, {OkText})
                               ELSE Says(ErrText)
      [] q.k = "p" -> Says(IF q.at < NumRegs THEN rp_encode_data(regs[q.at]) ELSE ErrText)
      [] q.k = "P" -> IF q.at < NumRegs
                      THEN Effect(mem, [regs EXCEPT ![q.at] = q.data], {OkText})
                      ELSE Says(ErrText)
      [] q.k = "g" -> HandleReadRegisters
      [] q.k = "G" -> Effect(mem, elvees_write_registers(q.data), {OkText})

Handles(q) == Handled(TextOf(q)) = Outcome(q)

LEMMA HandledIs ==
    ASSUME MemAssumption, RequestsAssumption, NEW q \in Requests
    PROVE  Handles(q)
<1>1. /\ q.k \in {"m", "M", "X", "p", "P", "g", "G"} /\ q.at \in Byte /\ q.len \in Byte
      /\ q.data \in Seq(Byte) /\ Len(q.data) \in Byte
  BY DEF RequestsAssumption
<1>2. /\ Hex(q.at) \in Seq(Byte) /\ Hex(q.len) \in Seq(Byte) /\ Hex(Len(q.data)) \in Seq(Byte)
      /\ rp_encode_data(q.data) \in Seq(Byte)
      /\ <<Comma>> \in Seq(Byte) /\ <<EqualSign>> \in Seq(Byte)
  <2>1. Comma \in Byte /\ EqualSign \in Byte
    BY CharFacts DEF Chars
  <2> QED
    BY <1>1, <2>1, HexBytes, Single
<1>3. ASSUME NEW c \in Byte PROVE <<c>> \in Seq(Byte)
  OBVIOUS
<1>4. {77, 80, 109, 112, 71, 103} \subseteq Byte
  BY CharFacts DEF Chars
<1>5. CASE q.k = "m"
  <2>1. Join(<<109>>, Hex(q.at), <<Comma>>, Hex(q.len))
    BY <1>2, <1>3, <1>4, FourParts
  <2>2. TextOf(q) = <<109>> \o AddrLen(q.at, q.len)
    BY <1>5, <2>1 DEF TextOf, Body, AddrLen, Join
  <2>3. AddrLen(q.at, q.len) \in Seq(Byte)
    BY <2>1 DEF AddrLen, Join
  <2>4. AfterLetter(TextOf(q), 109, AddrLen(q.at, q.len))
    BY <1>4, <2>2, <2>3, LetterIs
  <2>5. ReadsBack(TextOf(q), q)
    BY <1>1, <2>4, ReadHandled
  <2> QED
    BY <1>5, <2>5 DEF ReadsBack, Handles, Outcome
<1>6. CASE q.k \in {"M", "X"}
  <2>1. Join(<<77>>, Hex(q.at), <<Comma>>, Hex(Len(q.data)))
    BY <1>2, <1>3, <1>4, FourParts
  <2>2. WriteHead(77, q) = <<77>> \o AddrLen(q.at, Len(q.data))
    BY <2>1 DEF WriteHead, AddrLen, Join
  <2>3. TextOf(q) = WriteHead(77, q) \o <<Colon>> \o rp_encode_data(q.data)
    BY <1>6 DEF TextOf, Body, WriteHead
  <2>4. TextOf(q) = <<77>> \o AddrLen(q.at, Len(q.data)) \o <<Colon>> \o rp_encode_data(q.data)
    BY <2>2, <2>3, Zenon
  <2>5. WritesIt(TextOf(q), q)
    BY <1>1, <2>4, WriteHandled
  <2> QED
    BY <1>6, <2>5 DEF WritesIt, Handles, Outcome
<1>7. CASE q.k = "p"
  <2>1. TextOf(q) = <<112>> \o Hex(q.at)
    BY <1>7 DEF TextOf, Body
  <2>2. AfterLetter(TextOf(q), 112, Hex(q.at))
    BY <1>2, <1>4, <2>1, LetterIs
  <2>3. TellsRegister(TextOf(q), q)
    BY <1>1, <2>2, RegisterReadHandled
  <2> QED
    BY <1>7, <2>3 DEF TellsRegister, Handles, Outcome
<1>8. CASE q.k = "P"
  <2>1. Join(<<80>>, Hex(q.at), <<EqualSign>>, rp_encode_data(q.data))
    BY <1>2, <1>3, <1>4, FourParts
  <2>2. TextOf(q) = <<80>> \o RegData(q.at, q.data)
    BY <1>8, <2>1 DEF TextOf, Body, RegData, Join
  <2>3. RegData(q.at, q.data) \in Seq(Byte)
    BY <2>1 DEF RegData, Join
  <2>4. AfterLetter(TextOf(q), 80, RegData(q.at, q.data))
    BY <1>4, <2>2, <2>3, LetterIs
  <2>5. SetsRegister(TextOf(q), q)
    BY <1>1, <2>4, RegisterWriteHandled
  <2> QED
    BY <1>8, <2>5 DEF SetsRegister, Handles, Outcome
<1>9. CASE q.k = "g"
  <2>1. TextOf(q) = <<103>>
    BY <1>9 DEF TextOf, Body
  <2>2. Handled(<<103>>) = HandleReadRegisters
    BY DEF Handled
  <2> QED
    BY <1>9, <2>1, <2>2 DEF Handles, Outcome
<1>10. CASE q.k = "G"
  <2>1. TextOf(q) = <<71>> \o rp_encode_data(q.data)
    BY <1>10 DEF TextOf, Body
  <2>2. AfterLetter(TextOf(q), 71, rp_encode_data(q.data))
    BY <1>2, <1>4, <2>1, LetterIs
  <2>3. Handled(TextOf(q)) = Effect(mem, elvees_write_registers(q.data), {OkText})
    BY <1>1, <2>2, RegistersWriteHandled
  <2> QED
    BY <1>10, <2>3 DEF Handles, Outcome
<1> QED
  BY <1>1, <1>5, <1>6, <1>7, <1>8, <1>9, <1>10


-----------------------------------------------------------------------------
(* What of a packet has arrived is read to its end, and only a whole one that *)
(* the reader meets outside a packet is accepted.                             *)
PartTaken(r, q, s) ==
    /\ rp_getpkt(r, s).r.ret \in {"none", "packet"}
    /\ rp_getpkt(r, s).r.ret = "packet" => Accepted(rp_getpkt(r, s).r, TextOf(q))

LEMMA PrefixRead ==
    ASSUME RequestsAssumption, NEW q \in Requests, NEW r \in Reading,
           NEW n \in 1 .. Len(Frame(Body(q)))
    PROVE  PartTaken(r, q, SubSeq(Frame(Body(q)), 1, n))
<1> DEFINE p == Frame(Body(q))
           m == Len(p)
           s == SubSeq(p, 1, n)
           t == SubSeq(p, n + 1, m)
<1>1. Taken(r, q)
  BY PacketRead
<1>2. p \in Seq(Byte) /\ m \in Nat
  <2>1. Body(q) \in Seq(Byte)
    <3> DEFINE b == Body(q)
    <3>1. b \in Seq(Byte \ Marks)
      BY BodyText DEF Proper, MarkFree
    <3> HIDE DEF b
    <3>2. b \in Seq(Byte)
      BY <3>1
    <3> QED
      BY <3>2 DEF b
  <2>2. p \in Seq(Byte)
    BY <2>1, FrameTyped
  <2> HIDE DEF p
  <2> QED
    BY <2>2
<1>3. /\ rp_getpkt(r, p).n = m
      /\ rp_getpkt(r, p).r.ret = "packet" => Accepted(rp_getpkt(r, p).r, TextOf(q))
      /\ rp_getpkt(r, p).r.ret \in {"none", "packet"}
  BY <1>1 DEF Taken, Accepted, Reading
<1> HIDE DEF p
<1>4. CASE n = m
  <2>1. s = p
    BY <1>2, <1>4, SubSeqFull
  <2> QED
    BY <1>3, <2>1 DEF PartTaken, p
<1>5. CASE n < m
  <2>1. s \in Seq(Byte) /\ Len(s) = n /\ t \in Seq(Byte) /\ s \o t = p
    <3>1. n \in Nat /\ n <= Len(p) /\ m = Len(p)
      BY <1>2, <1>5
    <3> HIDE DEF m
    <3> QED
      BY <1>2, <3>1
  <2> HIDE DEF s, t, m
  <2>2. rp_getpkt(r, s).n <= n
    BY <2>1, GetpktTyped
  <2>3. rp_getpkt(r, s).n \in Nat
    BY <2>1, GetpktTyped
  <2>4. rp_getpkt(r, s).r.ret # "none" => rp_getpkt(r, p) = rp_getpkt(r, s)
    <3>1. Reads(r, s).ret # "none" => rp_getpkt(r, s \o t) = rp_getpkt(r, s)
      BY <2>1, GetpktConcat
    <3> QED
      BY <2>1, <3>1 DEF Reads
  <2>5. rp_getpkt(r, s).r.ret = "none"
    <3>1. rp_getpkt(r, s).n # m
      BY <1>2, <1>5, <2>2, <2>3
    <3> QED
      BY <1>3, <2>4, <3>1, Zenon
  <2> QED
    BY <2>5 DEF PartTaken, s, p
<1> QED
  BY <1>2, <1>4, <1>5 DEF p

-----------------------------------------------------------------------------
(* Words stay words of four bytes. *)
Word == [1 .. 4 -> Byte]

MemTypes ==
    /\ mem \in [0 .. Words - 1 -> [1 .. 4 -> Byte]]
    /\ regs \in [0 .. NumRegs - 1 -> [1 .. 4 -> Byte]]

(* A function on an interval from 1 is a sequence. *)
LEMMA IntervalSeq ==
    ASSUME NEW S, NEW n \in Nat, NEW f \in [1 .. n -> S]
    PROVE  f \in Seq(S) /\ Len(f) = n
<1>1. f \in Seq(S)
  BY SeqDef
<1>2. DOMAIN f = 1 .. Len(f) /\ Len(f) \in Nat /\ DOMAIN f = 1 .. n
  BY <1>1, LenProperties
<1>3. \A m \in Nat : 1 .. m = 1 .. n => m = n
  <2> TAKE m \in Nat
  <2> HAVE 1 .. m = 1 .. n
  <2>1. CASE m < n
    <3>1. n \in 1 .. n /\ n \notin 1 .. m
      BY <2>1
    <3> QED
      BY <3>1
  <2>2. CASE n < m
    <3>1. m \in 1 .. m /\ m \notin 1 .. n
      BY <2>2
    <3> QED
      BY <3>1
  <2> QED
    BY <2>1, <2>2
<1> QED
  BY <1>1, <1>2, <1>3

LEMMA WordIsSeq ==
    /\ \A w \in Word : w \in Seq(Byte) /\ Len(w) = 4
    /\ \A s \in Seq(Byte) : Len(s) = 4 => s \in Word
<1>1. ASSUME NEW w \in Word PROVE w \in Seq(Byte) /\ Len(w) = 4
  <2> DEFINE n == 4
  <2>1. n \in Nat /\ w \in [1 .. n -> Byte]
    BY DEF Word
  <2> HIDE DEF n
  <2>2. w \in Seq(Byte) /\ Len(w) = n
    BY <2>1, IntervalSeq, Zenon
  <2> QED
    BY <2>2 DEF n
<1>2. ASSUME NEW s \in Seq(Byte), Len(s) = 4 PROVE s \in Word
  <2>1. s \in [1 .. Len(s) -> Byte]
    BY LenProperties
  <2>2. s \in [1 .. 4 -> Byte]
    BY <1>2, <2>1, Zenon
  <2> QED
    BY <2>2, Zenon DEF Word
<1> QED
  BY <1>1, <1>2

LEMMA PatchedTyped ==
    ASSUME NEW v \in Word, NEW from \in Int, NEW d \in Seq(Byte)
    PROVE  Patched(v, from, d) \in Word
<1>1. ASSUME NEW i \in 1 .. 4
      PROVE  (IF i - from \in DOMAIN d THEN d[i - from] ELSE v[i]) \in Byte
  <2>1. v[i] \in Byte
    BY DEF Word
  <2>2. \A j \in DOMAIN d : d[j] \in Byte
    OBVIOUS
  <2> QED
    BY <2>1, <2>2
<1>2. Patched(v, from, d) = [i \in 1 .. 4 |-> IF i - from \in DOMAIN d THEN d[i - from] ELSE v[i]]
  BY DEF Patched
<1> QED
  BY <1>1, <1>2 DEF Word

LEMMA PartTyped ==
    ASSUME NEW s \in Seq(Byte), NEW o \in Nat, NEW m \in Nat, o + m <= Len(s)
    PROVE  /\ SubSeq(s, o + 1, o + m) \in Seq(Byte)
           /\ m = 4 => SubSeq(s, o + 1, o + m) \in Word
<1> DEFINE u == SubSeq(s, o + 1, o + m)
<1>1. IsPart(u, Byte, s, o, m)
  BY PartIs
<1> HIDE DEF u
<1>2. u \in Seq(Byte) /\ Len(u) = m
  BY <1>1 DEF IsPart
<1> QED
  BY <1>2, WordIsSeq DEF u

LEMMA WrittenTyped ==
    ASSUME MemAssumption, MemTypes, NEW at \in Nat, NEW data \in Seq(Byte),
           NEW w \in 0 .. Words - 1
    PROVE  Written(at, data, w) \in Word
<1> DEFINE n == Len(data)
           o == at % 4
           head == HeadBytes(at, n)
           body == (n - head) \div 4
           block == (at + head) \div 4
           tail == (n - head) % 4
           mid == head + 4 * (w - block)
           end == head + 4 * body
<1>1. n \in Nat
  OBVIOUS
<1>2. o \in 0 .. 3
  BY DivMod
<1>3. head \in 0 .. 3 /\ head <= n
  <2> HIDE DEF n
  <2>1. HeadBytes(at, n) \in 0 .. 3 /\ HeadBytes(at, n) <= n
    BY <1>1, HeadEndsWord
  <2> QED
    BY <2>1
<1> HIDE DEF n, head, o
<1>4. n - head \in Nat /\ at + head \in Nat
  BY <1>1, <1>3
<1>5. body \in Nat /\ tail \in 0 .. 3 /\ n - head = 4 * body + tail /\ block \in Nat
  BY <1>4, DivMod
<1>6. Written(at, data, w) =
         IF head > 0 /\ w = at \div 4 THEN Patched(mem[w], o, SubSeq(data, 1, head))
         ELSE IF w \in block .. block + body - 1
           THEN SubSeq(data, mid + 1, mid + 4)
         ELSE IF tail > 0 /\ w = block + body
           THEN Patched(mem[w], 0, SubSeq(data, end + 1, n))
         ELSE mem[w]
  BY DEF Written, n, o, head
<1>7. mem[w] \in Word
  BY DEF MemTypes, Word
<1> HIDE DEF body, block, tail
<1>8. Patched(mem[w], o, SubSeq(data, 1, head)) \in Word
  <2>1. 0 + head <= Len(data) /\ head \in Nat /\ 0 + 1 = 1 /\ 0 + head = head
    BY <1>3, <1>1 DEF n
  <2>2. SubSeq(data, 0 + 1, 0 + head) \in Seq(Byte)
    BY <2>1, PartTyped
  <2>3. SubSeq(data, 1, head) \in Seq(Byte) /\ o \in Int
    BY <1>2, <2>1, <2>2
  <2> QED
    BY <1>7, <2>3, PatchedTyped
<1>9. CASE w \in block .. block + body - 1
  <2>1. mid \in Nat /\ mid + 4 <= Len(data)
    <3>1. mid \in Nat /\ mid + 4 <= n
      BY <1>1, <1>3, <1>5, <1>9, SMTT(60)
    <3> QED
      BY <3>1 DEF n
  <2> HIDE DEF mid
  <2>2. SubSeq(data, mid + 1, mid + 4) \in Word
    BY <2>1, PartTyped
  <2> QED
    BY <1>6, <1>8, <1>9, <2>2
<1>10. Patched(mem[w], 0, SubSeq(data, end + 1, n)) \in Word
  <2>1. end \in Nat /\ end + tail <= Len(data) /\ end + tail = n /\ tail \in Nat
    <3>1. end \in Nat /\ end + tail = n /\ n <= n
      BY <1>1, <1>3, <1>5
    <3> QED
      BY <1>5, <3>1 DEF n
  <2> HIDE DEF end
  <2>2. SubSeq(data, end + 1, end + tail) \in Seq(Byte)
    BY <2>1, PartTyped
  <2>3. SubSeq(data, end + 1, n) \in Seq(Byte) /\ 0 \in Int
    BY <2>1, <2>2
  <2> QED
    BY <1>7, <2>3, PatchedTyped
<1> HIDE DEF mid, end
<1> QED
  BY <1>6, <1>7, <1>8, <1>9, <1>10

LEMMA Texts ==
    ASSUME MemAssumption
    PROVE  /\ OkText \in Seq(Byte) /\ ErrText \in Seq(Byte)
           /\ \A u \in Uninitialized : u \in Seq(Byte)
<1>1. 79 \in Byte /\ 75 \in Byte /\ 69 \in Byte /\ 48 \in Byte /\ 120 \in Byte
  BY DEF Byte
<1>2. OkText \in Seq(Byte) /\ ErrText \in Seq(Byte)
  BY <1>1 DEF OkText, ErrText
<1>3. ASSUME NEW u \in Uninitialized PROVE u \in Seq(Byte)
  <2>1. PICK c \in {48, 120} : u = [i \in 1 .. 8 * (NumRegs - Fp0) |-> c]
    BY DEF Uninitialized
  <2> DEFINE n == 8 * (NumRegs - Fp0)
  <2>2. n \in Nat
    BY DEF MemAssumption
  <2> HIDE DEF n
  <2>3. u \in [1 .. n -> Byte]
    BY <1>1, <2>1 DEF n
  <2> QED
    BY <2>2, <2>3, IntervalSeq
<1> QED
  BY <1>2, <1>3

LEMMA RegisterBytes ==
    ASSUME MemAssumption, MemTypes
    PROVE  /\ elvees_read_registers \in Seq(Byte)
           /\ Len(elvees_read_registers) = 4 * Fp0 /\ 4 * Fp0 \in Nat
           /\ \A i \in 1 .. 4 * Fp0 : (i - 1) \div 4 \in 0 .. Fp0 - 1
<1> DEFINE n == 4 * Fp0
           f == [i \in 1 .. n |-> regs[(i - 1) \div 4][((i - 1) % 4) + 1]]
<1>1. Fp0 \in Nat /\ NumRegs \in Nat /\ Fp0 <= NumRegs /\ n \in Nat
  BY DEF MemAssumption
<1>2. ASSUME NEW i \in 1 .. n
      PROVE  (i - 1) \div 4 \in 0 .. Fp0 - 1 /\ ((i - 1) % 4) + 1 \in 1 .. 4
  <2>1. i - 1 \in Nat /\ i - 1 < 4 * Fp0
    BY <1>1
  <2>2. /\ (i - 1) \div 4 \in Nat /\ (i - 1) % 4 \in 0 .. 3
        /\ i - 1 = 4 * ((i - 1) \div 4) + ((i - 1) % 4)
    BY <2>1, DivMod
  <2> QED
    BY <1>1, <2>1, <2>2
<1> HIDE DEF n
<1>3. \A i \in 1 .. n : regs[(i - 1) \div 4][((i - 1) % 4) + 1] \in Byte
  <2> TAKE i \in 1 .. n
  <2>1. (i - 1) \div 4 \in 0 .. NumRegs - 1
    BY <1>1, <1>2
  <2>2. regs[(i - 1) \div 4] \in [1 .. 4 -> Byte]
    BY <2>1 DEF MemTypes
  <2> QED
    BY <1>2, <2>2
<1>4. f \in [1 .. n -> Byte]
  BY <1>3
<1>5. elvees_read_registers = f
  BY DEF elvees_read_registers, n
<1> HIDE DEF f
<1>6. f \in Seq(Byte) /\ Len(f) = n
  BY <1>1, <1>4, IntervalSeq
<1> QED
  BY <1>1, <1>2, <1>5, <1>6 DEF n

LEMMA FetchedIs ==
    ASSUME MemAssumption, MemTypes, RequestsAssumption, NEW q \in Requests, q.k = "m"
    PROVE  /\ Fetched(q).ok <=> q.at <= Top
           /\ Fetched(q).ok =>
                IsBytes(Fetched(q).val, q.at, Truncated(q.at, Lesser(q.len, Limit)))
<1>1. q.at \in Byte /\ q.len \in Byte /\ q.len > 0
  BY DEF RequestsAssumption
<1>2. q.at \in Nat /\ Lesser(q.len, Limit) \in Nat \ {0}
  <2>2. q.at \in Nat /\ q.len \in Nat
    BY RequestFields
  <2>3. Limit \in Nat \ {0}
    BY DEF MemAssumption
  <2> QED
    BY <1>1, <2>2, <2>3 DEF Lesser
<1> QED
  BY <1>2, ReadIsBytewise DEF MemTypes, Fetched

OutcomeTypes(q) ==
    /\ Outcome(q).mem \in [0 .. Words - 1 -> Word]
    /\ Outcome(q).regs \in [0 .. NumRegs - 1 -> Word]
    /\ \A text \in Outcome(q).texts : text \in Seq(Byte)

LEMMA EffectFields ==
    ASSUME NEW m, NEW r, NEW ts
    PROVE  Effect(m, r, ts).mem = m /\ Effect(m, r, ts).regs = r /\ Effect(m, r, ts).texts = ts
BY DEF Effect

LEMMA SaysFields ==
    ASSUME NEW text
    PROVE  Says(text).mem = mem /\ Says(text).regs = regs /\ Says(text).texts = {text}
BY EffectFields DEF Says

LEMMA OutcomeTyped ==
    ASSUME MemAssumption, MemTypes, RequestsAssumption, NEW q \in Requests
    PROVE  OutcomeTypes(q)
<1>1. /\ q.k \in {"m", "M", "X", "p", "P", "g", "G"} /\ q.at \in Nat
      /\ q.data \in Seq(Byte) /\ (q.k = "P" => Len(q.data) = 4)
  BY RequestFields
<1>2. mem \in [0 .. Words - 1 -> Word] /\ regs \in [0 .. NumRegs - 1 -> Word]
  BY DEF MemTypes, Word
<1>3. ASSUME NEW text \in Seq(Byte), Outcome(q) = Says(text) PROVE OutcomeTypes(q)
  BY <1>2, <1>3, SaysFields DEF OutcomeTypes
<1>4. ASSUME NEW m \in [0 .. Words - 1 -> Word], NEW r \in [0 .. NumRegs - 1 -> Word],
             NEW ts, \A text \in ts : text \in Seq(Byte), Outcome(q) = Effect(m, r, ts)
      PROVE  OutcomeTypes(q)
  BY <1>4, EffectFields DEF OutcomeTypes
<1>5. OkText \in Seq(Byte) /\ ErrText \in Seq(Byte) /\ \A u \in Uninitialized : u \in Seq(Byte)
  BY Texts
<1>13. ASSUME NEW m \in [0 .. Words - 1 -> Word], NEW r \in [0 .. NumRegs - 1 -> Word],
             Outcome(q) = Effect(m, r, {OkText})
      PROVE  OutcomeTypes(q)
  <2>1. \A text \in {OkText} : text \in Seq(Byte)
    BY <1>5
  <2> QED
    BY <1>4, <1>13, <2>1
<1>6. \A s \in Seq(Byte) : rp_encode_data(s) \in Seq(Byte)
  BY DataText, DigitIs
<1>7. CASE q.k = "m"
  <2> DEFINE text == IF Fetched(q).ok THEN rp_encode_data(Fetched(q).val) ELSE ErrText
  <2>1. Fetched(q).ok => Fetched(q).val \in Seq(Byte)
    BY <1>7, FetchedIs DEF IsBytes
  <2>2. text \in Seq(Byte)
    BY <1>5, <1>6, <2>1
  <2>3. Outcome(q) = Says(text)
    BY <1>7 DEF Outcome
  <2> HIDE DEF text
  <2> QED
    BY <1>3, <2>2, <2>3
<1>8. CASE q.k \in {"M", "X"}
  <2>1. CASE StoredMem(q).ok
    <3> DEFINE m == StoredMem(q).val
    <3>1. m \in [0 .. Words - 1 -> Word]
      <4>1. CASE q.data = <<>>
        BY <1>2, <4>1 DEF StoredMem, elvees_write_mem
      <4>2. CASE q.data # <<>>
        <5>1. m = [w \in DOMAIN mem |-> Written(q.at, q.data, w)]
          BY <2>1, <4>2 DEF StoredMem, elvees_write_mem, Failed
        <5>2. \A w \in 0 .. Words - 1 : Written(q.at, q.data, w) \in Word
          BY <1>1, WrittenTyped
        <5> QED
          BY <1>2, <5>1, <5>2
      <4> QED
        BY <4>1, <4>2
    <3>2. Outcome(q) = Effect(m, regs, {OkText})
      BY <1>8, <2>1 DEF Outcome
    <3> HIDE DEF m
    <3> QED
      BY <1>2, <1>13, <3>1, <3>2, Zenon
  <2>2. CASE ~ StoredMem(q).ok
    BY <1>3, <1>5, <1>8, <2>2 DEF Outcome
  <2> QED
    BY <2>1, <2>2
<1>9. CASE q.k = "p"
  <2> DEFINE text == IF q.at < NumRegs THEN rp_encode_data(regs[q.at]) ELSE ErrText
  <2>1. q.at < NumRegs => regs[q.at] \in Seq(Byte)
    <3>1. q.at < NumRegs => q.at \in 0 .. NumRegs - 1
      BY <1>1 DEF MemAssumption
    <3> QED
      BY <1>2, <3>1, WordIsSeq
  <2>2. text \in Seq(Byte)
    BY <1>5, <1>6, <2>1
  <2>3. Outcome(q) = Says(text)
    BY <1>9 DEF Outcome
  <2> HIDE DEF text
  <2> QED
    BY <1>3, <2>2, <2>3
<1>10. CASE q.k = "P"
  <2>1. CASE q.at < NumRegs
    <3> DEFINE r == [regs EXCEPT ![q.at] = q.data]
    <3>1. q.data \in Word
      BY <1>1, <1>10, WordIsSeq
    <3>2. r \in [0 .. NumRegs - 1 -> Word]
      BY <1>2, <3>1
    <3>3. Outcome(q) = Effect(mem, r, {OkText})
      BY <1>10, <2>1 DEF Outcome
    <3> HIDE DEF r
    <3> QED
      BY <1>2, <1>13, <3>2, <3>3, Zenon
  <2>2. CASE ~ (q.at < NumRegs)
    BY <1>3, <1>5, <1>10, <2>2 DEF Outcome
  <2> QED
    BY <2>1, <2>2
<1>11. CASE q.k = "g"
  <2> DEFINE ts == {rp_encode_data(elvees_read_registers) \o u : u \in Uninitialized}
  <2>1. \A text \in ts : text \in Seq(Byte)
    <3> DEFINE e == rp_encode_data(elvees_read_registers)
    <3>1. e \in Seq(Byte)
      BY <1>6, RegisterBytes
    <3> HIDE DEF e
    <3>2. \A u \in Uninitialized : e \o u \in Seq(Byte)
      BY <1>5, <3>1
    <3> QED
      BY <3>2 DEF e
  <2>2. Outcome(q) = Effect(mem, regs, ts)
    BY <1>11 DEF Outcome, HandleReadRegisters
  <2> HIDE DEF ts
  <2> QED
    BY <1>2, <1>4, <2>1, <2>2
<1>12. CASE q.k = "G"
  <2> DEFINE r == elvees_write_registers(q.data)
  <2>1. ASSUME NEW i \in 0 .. NumRegs - 1, 4 * i + 4 <= Len(q.data)
        PROVE  SubSeq(q.data, 4 * i + 1, 4 * i + 4) \in Word
    <3> DEFINE o == 4 * i
    <3>1. o \in Nat /\ o + 4 <= Len(q.data)
      BY <2>1 DEF MemAssumption
    <3> HIDE DEF o
    <3>2. SubSeq(q.data, o + 1, o + 4) \in Word
      BY <1>1, <3>1, PartTyped
    <3> QED
      BY <3>2 DEF o
  <2>2. r \in [0 .. NumRegs - 1 -> Word]
    BY <1>2, <2>1 DEF elvees_write_registers
  <2>3. Outcome(q) = Effect(mem, r, {OkText})
    BY <1>12 DEF Outcome
  <2> HIDE DEF r
  <2> QED
    BY <1>2, <1>13, <2>2, <2>3, Zenon
<1> QED
  BY <1>1, <1>7, <1>8, <1>9, <1>10, <1>11, <1>12

-----------------------------------------------------------------------------
(* On a line that only cuts, what has arrived is a part of the packet asked   *)
(* for, from its start.                                                       *)
Arrived ==
    line # <<>> => Pending /\ \E n \in 1 .. Len(Packet) : line = SubSeq(Packet, 1, n)

MemInv == TypeOK /\ Arrived

LEMMA InvTypes == TypeOK => LineTypes /\ MemTypes
BY DEF TypeOK, LineTypes, MemTypes, Reading

LEMMA PendingAsks == TypeOK /\ Pending => asked \in Requests
BY DEF TypeOK, Pending

(* What is read of it. *)
LEMMA GotIs ==
    ASSUME RequestsAssumption, MemInv, line # <<>>
    PROVE  /\ Pending /\ asked \in Requests
           /\ Got.r.ret \in {"none", "packet"}
           /\ Got.r.ret = "packet" => Accepted(Got.r, TextOf(asked))
<1>1. Pending /\ asked \in Requests /\ reader \in Reading
  BY PendingAsks, InvTypes DEF MemInv, Arrived, LineTypes
<1>2. PICK n \in 1 .. Len(Packet) : line = SubSeq(Packet, 1, n)
  BY DEF MemInv, Arrived
<1>3. PartTaken(reader, asked, line)
  BY <1>1, <1>2, PrefixRead DEF Packet
<1> QED
  BY <1>1, <1>3 DEF PartTaken, Got

Reply(text) == (<<PlusSign>> \o <<>>) \o Frame(text)

Served(q, text) ==
    /\ text \in Outcome(q).texts /\ out' = Reply(text)
    /\ mem' = Outcome(q).mem /\ regs' = Outcome(q).regs

LEMMA ServeIs ==
    ASSUME MemAssumption, RequestsAssumption, MemInv, Serve
    PROVE  /\ Pending /\ asked \in Requests
           /\ \E text : Served(asked, text)
<1>1. line # <<>> /\ Got.r.ret = "packet"
  BY DEF Serve
<1>2. Pending /\ asked \in Requests /\ Accepted(Got.r, TextOf(asked))
  BY <1>1, GotIs
<1>3. Handled(Got.r.buf) = Outcome(asked)
  BY <1>2, HandledIs DEF Accepted, Handles
<1>4. /\ mem' = Handled(Got.r.buf).mem /\ regs' = Handled(Got.r.buf).regs
      /\ \E text \in Handled(Got.r.buf).texts : out' = Acknowledgement(Got.r) \o Frame(text)
  BY DEF Serve
<1>5. PICK text \in Handled(Got.r.buf).texts : out' = Acknowledgement(Got.r) \o Frame(text)
  BY <1>4
<1>6. Acknowledgement(Got.r) = <<PlusSign>> \o <<>>
  BY <1>2 DEF Accepted, Acknowledgement
<1>7. Served(asked, text)
  BY <1>3, <1>4, <1>5, <1>6, Zenon DEF Served, Reply
<1> QED
  BY <1>2, <1>7

LEMMA ReplyTyped ==
    ASSUME NEW text \in Seq(Byte)
    PROVE  Reply(text) \in Seq(Byte)
<1>1. <<PlusSign>> \o <<>> \in Seq(Byte)
  BY SMT DEF PlusSign, Byte
<1>2. Frame(text) \in Seq(Byte)
  BY FrameTyped
<1> HIDE DEF Byte
<1> QED
  BY <1>1, <1>2, Lengths DEF Reply

LEMMA MemInvStart ==
    ASSUME MemAssumption, Init PROVE MemInv
<1>1. mem \in [0 .. Words - 1 -> [1 .. 4 -> Byte]] /\ regs \in [0 .. NumRegs - 1 -> [1 .. 4 -> Byte]]
  <2>1. \A n \in Int : n % 256 \in Byte
    BY DEF Byte
  <2>2. \A w \in 0 .. Words - 1, i \in 1 .. 4 : 16 * w + 160 + i \in Int /\ 16 * w + i \in Int
    BY DEF Byte
  <2>3. \A w \in 0 .. NumRegs - 1, i \in 1 .. 4 : 16 * w + i \in Int
    BY DEF Byte
  <2> QED
    BY <2>1, <2>2, <2>3, ZenonT(60) DEF Init
<1>2. reader \in Readers /\ reader.ret = "none"
  BY NewIsReading DEF Init, Reading
<1>3. count \in 0 .. MaxRequests /\ faults \in 0 .. MaxFaults
  BY DEF Init, MemAssumption
<1>4. line \in Seq(Byte) /\ out \in Seq(Byte) /\ asked \in Requests \cup {Nothing}
  BY DEF Init
<1> QED
  BY <1>1, <1>2, <1>3, <1>4 DEF MemInv, TypeOK, Arrived, Init

LEMMA ArrivesKeeps ==
    ASSUME MemInv, Pending, RequestsAssumption, NEW n \in 1 .. Len(Packet),
           Arrives(SubSeq(Packet, 1, n)), faults' \in 0 .. MaxFaults
    PROVE  MemInv'
<1>1. Packet \in Seq(Byte)
  BY InvTypes, PacketTyped DEF MemInv
<1>2. SubSeq(Packet, 1, n) \in Seq(Byte)
  <2> DEFINE s == Packet
  <2> HIDE DEF s
  <2>1. SubSeq(s, 1, n) \in Seq(Byte)
    BY <1>1 DEF s
  <2> QED
    BY <2>1 DEF s
<1>3. TypeOK'
  BY <1>2 DEF MemInv, TypeOK, Arrives
<1>4. Packet' = Packet /\ Pending' /\ line' = SubSeq(Packet, 1, n)
  BY DEF Arrives, Packet, Pending
<1>5. Arrived'
  BY <1>4 DEF Arrived
<1> QED
  BY <1>3, <1>5 DEF MemInv

LEMMA MemInvStep ==
    ASSUME MemAssumption, RequestsAssumption, Spoiling = {}, MemInv, [Next]_vars
    PROVE  MemInv'
<1>1. ASSUME NEW q \in Requests, Ask(q) PROVE MemInv'
  <2>1. line = <<>> /\ line' = <<>>
    BY <1>1 DEF Ask, MemInv, Arrived
  <2>2. count' \in 0 .. MaxRequests
    BY <1>1 DEF Ask, MemInv, TypeOK, MemAssumption
  <2>3. TypeOK'
    BY <1>1, <2>2 DEF Ask, MemInv, TypeOK
  <2> QED
    BY <2>1, <2>3 DEF MemInv, Arrived
<1>2. CASE Send
  <2> DEFINE m == Len(Packet)
  <2>1. Packet \in Seq(Byte)
    BY <1>2, InvTypes, PacketTyped DEF MemInv, Send
  <2>2. m \in 1 .. m /\ SubSeq(Packet, 1, m) = Packet
    <3>1. Body(asked) \in Seq(Byte)
      BY <1>2, PendingAsks, BodyText, SeqMonotonic DEF MemInv, Send, Proper, MarkFree
    <3>2. m = 1 + (Len(Body(asked)) + 3) /\ Len(Body(asked)) \in Nat
      BY <3>1, FrameIs DEF Packet
    <3>3. m \in 1 .. m
      BY <3>2
    <3> QED
      BY <2>1, <3>3, SubSeqFull
  <2>3. faults' \in 0 .. MaxFaults
    BY <1>2 DEF Send, MemInv, TypeOK
  <2>4. Pending /\ Arrives(SubSeq(Packet, 1, m))
    BY <1>2, <2>2 DEF Send
  <2> QED
    BY <2>2, <2>3, <2>4, ArrivesKeeps
<1>3. CASE SendCut
  <2>1. PICK n \in 1 .. Len(Packet) - 1 : Arrives(SubSeq(Packet, 1, n))
    BY <1>3 DEF SendCut
  <2>2. n \in 1 .. Len(Packet)
    <3>1. Packet \in Seq(Byte)
      BY <1>3, InvTypes, PacketTyped DEF MemInv, SendCut, Fault
    <3>2. Len(Packet) \in Nat
      BY <3>1, LenProperties
    <3> QED
      BY <3>2
  <2>3. Pending /\ faults' \in 0 .. MaxFaults
    BY <1>3 DEF SendCut, Fault, MemInv, TypeOK, MemAssumption
  <2> QED
    BY <2>1, <2>2, <2>3, ArrivesKeeps
<1>4. CASE SendSpoiled
  BY <1>4 DEF SendSpoiled
<1>5. CASE Wait
  <2>1. Got.r \in Readers
    BY InvTypes, GetpktTyped DEF MemInv, LineTypes, Got
  <2>2. TypeOK'
    BY <1>5, <2>1 DEF Wait, MemInv, TypeOK
  <2> QED
    BY <1>5, <2>2 DEF Wait, MemInv, Arrived
<1>6. CASE Ignore
  BY <1>6, GotIs DEF Ignore
<1>7. CASE Serve
  <2>1. PICK text : Served(asked, text)
    BY <1>7, ServeIs
  <2>2. asked \in Requests /\ OutcomeTypes(asked)
    BY <1>7, ServeIs, OutcomeTyped, InvTypes DEF MemInv
  <2>3. mem' \in [0 .. Words - 1 -> [1 .. 4 -> Byte]] /\ regs' \in [0 .. NumRegs - 1 -> [1 .. 4 -> Byte]]
    BY <2>1, <2>2 DEF Served, OutcomeTypes, Word
  <2>4. out' \in Seq(Byte)
    BY <2>1, <2>2, ReplyTyped DEF Served, OutcomeTypes
  <2>5. reader' \in Readers /\ reader'.ret = "none"
    BY <1>7, NewIsReading DEF Serve, Reading
  <2>6. line' = <<>> /\ UNCHANGED <<asked, count, faults>>
    BY <1>7 DEF Serve
  <2>7. TypeOK'
    BY <2>3, <2>4, <2>5, <2>6 DEF MemInv, TypeOK
  <2> QED
    BY <2>6, <2>7 DEF MemInv, Arrived
<1>8. CASE UNCHANGED vars
  BY <1>8 DEF vars, MemInv, TypeOK, Arrived, Pending, Packet
<1> QED
  BY <1>1, <1>2, <1>3, <1>4, <1>5, <1>6, <1>7, <1>8 DEF Next

(* The memory and the registers of the stub (remote-elvees.c:466) keep whole  *)
(* words of bytes, and rp_getpkt waits with one of its own states, whatever   *)
(* is asked and wherever the line cuts a packet.                              *)
THEOREM WordsStayWords ==
    ASSUME MemAssumption, RequestsAssumption, Spoiling = {}
    PROVE  Spec => []TypeOK
<1>1. Init => MemInv
  BY MemInvStart
<1>2. MemInv /\ [Next]_vars => MemInv'
  BY MemInvStep
<1>3. MemInv => TypeOK
  BY DEF MemInv
<1> QED
  BY <1>1, <1>2, <1>3, PTL DEF Spec


-----------------------------------------------------------------------------
(* What the debugger makes of a reply. *)
ReplyParts(text) ==
    LET o == Reply(text)
    IN  /\ o # <<>> /\ o[1] = PlusSign /\ o[2] = Dollar /\ o[Len(o) - 2] = HashMark
        /\ SubSeq(o, 3, Len(o) - 3) = text
        /\ rp_decode_data(SubSeq(o, Len(o) - 1, Len(o))) = Decoded(<<Sum(text)>>)

LEMMA ByteDecoded ==
    ASSUME NEW v \in Byte
    PROVE  rp_decode_data(rp_encode_byte(v)) = Decoded(<<v>>)
<1> DEFINE d == <<v>>
           e == rp_encode_data(d)
           b == rp_encode_byte(v)
<1>1. d \in Seq(Byte) /\ Len(d) = 1 /\ d[1] = v
  BY Single
<1> HIDE DEF d
<1>2. /\ e \in Seq(Digits) /\ Len(e) = 2
      /\ e[1] = b[1] /\ e[2] = b[2]
  <2>1. /\ e \in Seq(Digits) /\ Len(e) = 2 * Len(d)
        /\ \A k \in 1 .. Len(d) : /\ e[2 * k - 1] = rp_encode_byte(d[k])[1]
                                  /\ e[2 * k] = rp_encode_byte(d[k])[2]
    BY <1>1, DataText
  <2> HIDE DEF e
  <2>2. 1 \in 1 .. Len(d) /\ 2 * 1 - 1 = 1 /\ 2 * 1 = 2 /\ 2 * Len(d) = 2
    BY <1>1
  <2>3. e[2 * 1 - 1] = rp_encode_byte(d[1])[1] /\ e[2 * 1] = rp_encode_byte(d[1])[2]
    BY <2>1, <2>2
  <2> QED
    BY <1>1, <2>1, <2>2, <2>3
<1>3. b \in Seq(Digits) /\ Len(b) = 2
  BY ByteText
<1> HIDE DEF e, b
<1>4. e = b
  BY <1>2, <1>3, SeqEqual
<1>5. rp_decode_data(e) = Decoded(d)
  BY <1>1, DataDecoded DEF e
<1> QED
  BY <1>4, <1>5 DEF d, b

LEMMA ReplyIs ==
    ASSUME NEW text \in Seq(Byte)
    PROVE  ReplyParts(text)
<1> DEFINE x == <<PlusSign>> \o <<>>
           a == <<Dollar>>
           c == <<HashMark>>
           d == rp_encode_byte(Sum(text))
           e == c \o d
           y == x \o a
           z == y \o text
           o == z \o e
           n == Len(text)
<1>1. Sum(text) \in Byte
  BY SumTyped
<1>2. /\ x \in Seq(Byte) /\ Len(x) = 1 /\ x[1] = PlusSign
      /\ a \in Seq(Byte) /\ Len(a) = 1 /\ a[1] = Dollar
      /\ c \in Seq(Byte) /\ Len(c) = 1 /\ c[1] = HashMark
  <2>1. PlusSign \in Byte /\ Dollar \in Byte /\ HashMark \in Byte
    BY DEF PlusSign, Dollar, HashMark, Byte
  <2>2. x = <<PlusSign>>
    OBVIOUS
  <2> QED
    BY <2>1, <2>2, Single
<1>3. d \in Seq(Byte) /\ Len(d) = 2
  BY <1>1, EncodedByte
<1>4. Reply(text) = x \o (a \o (text \o e))
  BY FrameIs DEF Reply, Ending
<1>5. rp_decode_data(d) = Decoded(<<Sum(text)>>)
  BY <1>1, ByteDecoded
<1> HIDE DEF x, a, c, d
<1>6. e \in Seq(Byte) /\ Len(e) = 3 /\ e[1] = HashMark /\ e[2] = d[1] /\ e[3] = d[2]
  <2>1. e \in Seq(Byte) /\ Len(e) = Len(c) + Len(d)
    BY <1>2, <1>3, Lengths
  <2>2. \A i \in 1 .. Len(c) + Len(d) : e[i] = IF i <= Len(c) THEN c[i] ELSE d[i - Len(c)]
    BY <1>2, <1>3, Entries
  <2> HIDE DEF e
  <2> QED
    BY <1>2, <1>3, <2>1, <2>2
<1> HIDE DEF e
<1>7. Reply(text) = o
  <2>1. Join(x, a, text, e)
    BY <1>2, <1>6, FourParts
  <2> QED
    BY <1>4, <2>1 DEF Join
<1>8. y \in Seq(Byte) /\ Len(y) = 2 /\ y[1] = PlusSign /\ y[2] = Dollar
  <2>1. y \in Seq(Byte) /\ Len(y) = Len(x) + Len(a)
    BY <1>2, Lengths
  <2>2. \A i \in 1 .. Len(x) + Len(a) : y[i] = IF i <= Len(x) THEN x[i] ELSE a[i - Len(x)]
    BY <1>2, Entries
  <2> HIDE DEF y
  <2> QED
    BY <1>2, <2>1, <2>2
<1> HIDE DEF y
<1>9. z \in Seq(Byte) /\ Len(z) = 2 + n /\ n \in Nat
  BY <1>8, Lengths
<1>10. \A i \in 1 .. 2 + n : z[i] = IF i <= 2 THEN y[i] ELSE text[i - 2]
  <2>1. \A i \in 1 .. Len(y) + Len(text) : z[i] = IF i <= Len(y) THEN y[i] ELSE text[i - Len(y)]
    BY <1>8, Entries
  <2> HIDE DEF z
  <2> QED
    BY <1>8, <2>1
<1> HIDE DEF z
<1>11. o \in Seq(Byte) /\ Len(o) = 2 + n + 3
  BY <1>6, <1>9, Lengths, ZenonT(60)
<1>12. \A i \in 1 .. 2 + n + 3 : o[i] = IF i <= 2 + n THEN z[i] ELSE e[i - (2 + n)]
  <2>1. \A i \in 1 .. Len(z) + Len(e) : o[i] = IF i <= Len(z) THEN z[i] ELSE e[i - Len(z)]
    <3> HIDE DEF n
    <3> QED
      BY <1>6, <1>9, Entries
  <2> HIDE DEF o, n
  <2> QED
    BY <1>6, <1>9, <2>1
<1>t. text \in Seq(Byte) /\ Len(text) = n
  OBVIOUS
<1> HIDE DEF o, n
<1>13. o # <<>> /\ o[1] = PlusSign /\ o[2] = Dollar
  <2>1. 1 \in 1 .. 2 + n /\ 2 \in 1 .. 2 + n /\ 1 \in 1 .. 2 + n + 3 /\ 2 \in 1 .. 2 + n + 3
        /\ Len(o) # 0
    BY <1>9, <1>11
  <2>2. o[1] = z[1] /\ o[2] = z[2]
    BY <1>9, <1>12, <2>1
  <2>3. z[1] = y[1] /\ z[2] = y[2]
    BY <1>9, <1>10, <2>1
  <2> QED
    BY <1>8, <1>11, <2>1, <2>2, <2>3
<1>14. \A i \in 1 .. n : o[2 + i] = text[i]
  <2> TAKE i \in 1 .. n
  <2>1. 2 + i \in 1 .. 2 + n + 3 /\ 2 + i <= 2 + n /\ 2 + i \in 1 .. 2 + n
        /\ ~ (2 + i <= 2) /\ 2 + i - 2 = i
    BY <1>9
  <2>2. o[2 + i] = z[2 + i]
    BY <1>12, <2>1
  <2> QED
    BY <1>10, <2>1, <2>2
<1>15. \A i \in 1 .. 3 : o[2 + n + i] = e[i]
  <2> TAKE i \in 1 .. 3
  <2> DEFINE j == 2 + n + i
  <2>1. j \in 1 .. 2 + n + 3 /\ ~ (j <= 2 + n) /\ j - (2 + n) = i
    BY <1>9
  <2> HIDE DEF j
  <2>2. o[j] = e[j - (2 + n)]
    BY <1>12, <2>1
  <2> QED
    BY <2>1, <2>2 DEF j
<1>16. SubSeq(o, 3, 2 + n) = text
  <2> DEFINE u == SubSeq(o, 2 + 1, 2 + n)
  <2>1. 2 + n <= Len(o) /\ 2 \in Nat
    BY <1>9, <1>11
  <2>2. IsPart(u, Byte, o, 2, n)
    BY <1>9, <1>11, <2>1, PartIs
  <2> HIDE DEF u
  <2>3. u \in Seq(Byte) /\ Len(u) = n /\ \A i \in 1 .. n : u[i] = text[i]
    BY <1>14, <2>2 DEF IsPart
  <2>4. u = text
    BY <1>t, <2>3, SeqEqual
  <2> QED
    BY <2>4 DEF u
<1>17. SubSeq(o, n + 4, n + 5) = d
  <2> DEFINE k == n + 3
             u == SubSeq(o, k + 1, k + 2)
  <2>1. k \in Nat /\ k + 2 <= Len(o) /\ 2 \in Nat /\ k + 1 = n + 4 /\ k + 2 = n + 5
        /\ \A i \in 1 .. 2 : 1 + i \in 1 .. 3 /\ k + i = 2 + n + (1 + i)
    BY <1>9, <1>11
  <2> HIDE DEF k
  <2>2. IsPart(u, Byte, o, k, 2)
    BY <1>11, <2>1, PartIs
  <2>3. SubSeq(o, n + 4, n + 5) = u
    BY <2>1
  <2> HIDE DEF u
  <2>4. u \in Seq(Byte) /\ Len(u) = 2 /\ \A i \in 1 .. 2 : u[i] = o[k + i]
    BY <2>2 DEF IsPart
  <2>5. \A i \in 1 .. 2 : u[i] = e[1 + i]
    BY <1>15, <2>1, <2>4
  <2>6. \A i \in 1 .. 2 : u[i] = d[i]
    BY <1>6, <2>5
  <2>7. u = d
    BY <1>3, <2>4, <2>6, SeqEqual
  <2> QED
    BY <2>3, <2>7
<1>18. Len(o) - 2 = 2 + n + 1 /\ Len(o) - 3 = 2 + n /\ Len(o) - 1 = n + 4 /\ Len(o) = n + 5
  BY <1>9, <1>11
<1>19. o[Len(o) - 2] = HashMark
  <2>1. o[2 + n + 1] = e[1]
    BY <1>15
  <2> QED
    BY <1>6, <1>18, <2>1
<1>20. /\ SubSeq(o, 3, Len(o) - 3) = text
       /\ SubSeq(o, Len(o) - 1, Len(o)) = d
  BY <1>16, <1>17, <1>18, Zenon
<1> QED
  BY <1>5, <1>7, <1>13, <1>19, <1>20, Zenon DEF ReplyParts

(* The text of the reply, understood. *)
Understood(q, text) ==
    LET digits == IF q.k = "g" THEN SubSeq(text, 1, 8 * Fp0) ELSE text
        data == rp_decode_data(digits)
        kind == IF text = OkText THEN "OK" ELSE IF text = ErrText THEN "ERR"
                ELSE IF data.ok THEN "data" ELSE "garbled"
    IN  [k |-> kind, data |-> IF kind = "data" THEN data.val ELSE <<>>]

LEMMA AnswerIs ==
    ASSUME NEW text \in Seq(Byte), out' = Reply(text), asked' # Nothing
    PROVE  Answer' = Understood(asked', text)
<1>1. /\ out' # <<>> /\ out'[1] = PlusSign /\ out'[2] = Dollar /\ out'[Len(out') - 2] = HashMark
      /\ SubSeq(out', 3, Len(out') - 3) = text
      /\ rp_decode_data(SubSeq(out', Len(out') - 1, Len(out'))) = Decoded(<<Sum(text)>>)
  BY ReplyIs DEF ReplyParts
<1> DEFINE t == SubSeq(out', 3, Len(out') - 3)
           sum == rp_decode_data(SubSeq(out', Len(out') - 1, Len(out')))
           digits == IF asked'.k = "g" THEN SubSeq(text, 1, 8 * Fp0) ELSE text
           data == rp_decode_data(digits)
           kind == IF text = OkText THEN "OK" ELSE IF text = ErrText THEN "ERR"
                   ELSE IF data.ok THEN "data" ELSE "garbled"
           framed == out'[1] = PlusSign /\ out'[2] = Dollar /\ out'[Len(out') - 2] = HashMark
           tkind == CASE asked' = Nothing -> "none"
                      [] Pending' -> "pending"
                      [] OTHER -> IF ~ framed \/ ~ sum.ok \/ sum.val # <<Sum(t)>> THEN "garbled"
                                  ELSE kind
<1>2. ~ Pending' /\ framed
  BY <1>1 DEF Pending
<1>3. sum.ok = TRUE /\ sum.val = <<Sum(text)>> /\ t = text
  BY <1>1 DEF Decoded
<1>4. Answer' = [k |-> tkind, data |-> IF tkind = "data" THEN data.val ELSE <<>>]
  BY <1>3, Zenon DEF Answer
<1> HIDE DEF t, sum, framed, kind, data
<1>5. tkind = kind
  BY <1>2, <1>3
<1> HIDE DEF tkind
<1> QED
  BY <1>4, <1>5, Zenon DEF Understood, kind, data

LEMMA AnswerPending ==
    /\ Pending => Answer = [k |-> "pending", data |-> <<>>]
    /\ Pending' => Answer' = [k |-> "pending", data |-> <<>>]
    /\ ~ Pending => Answer.k # "pending"
BY DEF Answer, Pending

(* The three kinds of reply. *)
LEMMA OkUnderstood ==
    ASSUME NEW q PROVE Understood(q, OkText) = [k |-> "OK", data |-> <<>>]
BY DEF Understood

LEMMA TextsDiffer ==
    /\ OkText # ErrText
    /\ \A e \in Seq(Digits) : e # OkText /\ e # ErrText
<1>1. OkText[1] = 79 /\ ErrText[1] = 69 /\ Len(OkText) = 2 /\ Len(ErrText) = 3
  BY DEF OkText, ErrText
<1>2. 79 \notin Digits /\ 69 \notin Digits
  BY DEF Digits
<1>3. ASSUME NEW e \in Seq(Digits) PROVE e # OkText /\ e # ErrText
  <2>1. Len(e) > 0 => e[1] \in Digits
    OBVIOUS
  <2> QED
    BY <1>1, <1>2, <2>1
<1> QED
  BY <1>1, <1>3

LEMMA ErrUnderstood ==
    ASSUME NEW q PROVE Understood(q, ErrText) = [k |-> "ERR", data |-> <<>>]
BY TextsDiffer DEF Understood

LEMMA DataUnderstood ==
    ASSUME NEW q, q.k # "g", NEW d \in Seq(Byte)
    PROVE  Understood(q, rp_encode_data(d)) = [k |-> "data", data |-> d]
<1> DEFINE e == rp_encode_data(d)
<1>1. e \in Seq(Digits) /\ rp_decode_data(e) = Decoded(d)
  BY DataText, DataDecoded
<1>2. e # OkText /\ e # ErrText
  BY <1>1, TextsDiffer
<1> HIDE DEF e
<1>3. rp_decode_data(e).ok = TRUE /\ rp_decode_data(e).val = d
  BY <1>1 DEF Decoded
<1>4. Understood(q, e) = [k |-> "data", data |-> d]
  BY <1>2, <1>3 DEF Understood
<1> QED
  BY <1>4 DEF e

LEMMA AllUnderstood ==
    ASSUME MemAssumption, NEW q, q.k = "g", NEW d \in Seq(Byte), Len(d) = 4 * Fp0,
           NEW u \in Seq(Byte)
    PROVE  Understood(q, rp_encode_data(d) \o u) = [k |-> "data", data |-> d]
<1> DEFINE e == rp_encode_data(d)
           text == e \o u
<1>1. e \in Seq(Digits) /\ rp_decode_data(e) = Decoded(d) /\ Len(e) = 8 * Fp0
  <2>1. e \in Seq(Digits) /\ rp_decode_data(e) = Decoded(d) /\ Len(e) = 2 * Len(d)
    BY DataText, DataDecoded
  <2>2. Fp0 \in Nat
    BY DEF MemAssumption
  <2> HIDE DEF e
  <2> QED
    BY <2>1, <2>2
<1>2. Fp0 \in Nat \ {0}
  BY DEF MemAssumption
<1> HIDE DEF e
<1>3. e \in Seq(Byte) /\ 8 * Fp0 > 0 /\ e[1] \in Digits
  <2>1. e \in Seq(Byte)
    BY <1>1, DigitIs
  <2>2. 8 * Fp0 > 0
    BY <1>2
  <2>3. 1 \in 1 .. Len(e)
    BY <1>1, <1>2
  <2> QED
    BY <1>1, <2>1, <2>2, <2>3
<1>4. SubSeq(text, 1, 8 * Fp0) = e
  BY <1>1, <1>3, Cut
<1>5. text[1] = e[1]
  <2>1. 1 \in 1 .. Len(e) + Len(u) /\ 1 <= Len(e)
    <3>1. Len(u) \in Nat
      OBVIOUS
    <3> QED
      BY <1>1, <1>2, <3>1
  <2> QED
    BY <1>3, <2>1, Entries
<1> HIDE DEF text
<1>6. text # OkText /\ text # ErrText
  <2>1. OkText[1] = 79 /\ ErrText[1] = 69 /\ 79 \notin Digits /\ 69 \notin Digits
    BY DEF OkText, ErrText, Digits
  <2> QED
    BY <1>3, <1>5, <2>1, SMTT(60)
<1>7. rp_decode_data(e).ok = TRUE /\ rp_decode_data(e).val = d
  BY <1>1 DEF Decoded
<1>8. Understood(q, text) = [k |-> "data", data |-> d]
  BY <1>4, <1>6, <1>7 DEF Understood
<1> QED
  BY <1>8 DEF text, e


-----------------------------------------------------------------------------
(* Each handler does what the bytes ask for. *)

(* A read: the bytes that exist, up to the limit. *)
LEMMA ReadValue ==
    ASSUME MemAssumption, MemTypes, RequestsAssumption, NEW q \in Requests, q.k = "m",
           q.at <= Top
    PROVE  /\ Fetched(q).ok /\ Fetched(q).val \in Seq(Byte)
           /\ Fetched(q).val =
                [i \in {j \in 1 .. q.len : j <= Limit /\ q.at + j - 1 <= Top}
                    |-> BytesOf(mem)[q.at + i - 1]]
<1> DEFINE v == Fetched(q).val
           m == Truncated(q.at, Lesser(q.len, Limit))
           S == {j \in 1 .. q.len : j <= Limit /\ q.at + j - 1 <= Top}
<1>1. q.at \in Nat /\ q.len \in Nat /\ Limit \in Nat /\ Top \in Nat
  <2>1. q.at \in Nat /\ q.len \in Nat
    BY RequestFields
  <2> QED
    BY <2>1 DEF MemAssumption
<1>2. Fetched(q).ok /\ IsBytes(v, q.at, m)
  BY FetchedIs
<1>3. S = 1 .. m /\ \A i \in S : q.at + i - 1 \in 0 .. Top
  BY <1>1, SMTT(60) DEF Truncated, Lesser
<1> HIDE DEF v, m, S
<1>4. v \in Seq(Byte) /\ Len(v) = m /\ \A i \in 1 .. m : v[i] = ByteAt(q.at + i - 1)
  BY <1>2 DEF IsBytes
<1>5. \A i \in 1 .. m : v[i] = BytesOf(mem)[q.at + i - 1]
  BY <1>3, <1>4 DEF ByteAt, BytesOf
<1>6. v = [i \in 1 .. m |-> v[i]]
  BY <1>4
<1>7. v = [i \in S |-> BytesOf(mem)[q.at + i - 1]]
  BY <1>3, <1>5, <1>6
<1> QED
  BY <1>2, <1>4, <1>7 DEF v, S

(* All registers of the CPU, one after the other. *)
LEMMA RegistersFlat ==
    ASSUME MemAssumption, MemTypes
    PROVE  Expected!Flat([r \in 1 .. Fp0 |-> regs[r - 1]]) = elvees_read_registers
<1> DEFINE rs == [r \in 1 .. Fp0 |-> regs[r - 1]]
<1>1. Fp0 \in Nat /\ NumRegs \in Nat /\ Fp0 <= NumRegs
  BY DEF MemAssumption
<1>2. rs \in [1 .. Fp0 -> Word]
  <2>1. \A r \in 1 .. Fp0 : r - 1 \in 0 .. NumRegs - 1
    BY <1>1
  <2> QED
    BY <2>1 DEF MemTypes, Word
<1>3. Len(rs) = Fp0
  <2> HIDE DEF rs
  <2> QED
    BY <1>1, <1>2, IntervalSeq
<1>4. \A i \in 1 .. 4 * Fp0 : (i + 3) \div 4 \in 1 .. Fp0 /\ (i + 3) \div 4 - 1 = (i - 1) \div 4
  BY <1>1, SMT
<1>5. \A i \in 1 .. 4 * Fp0 : rs[(i + 3) \div 4] = regs[(i - 1) \div 4]
  BY <1>4
<1>6. Expected!Flat(rs) = [i \in 1 .. 4 * Len(rs) |-> rs[(i + 3) \div 4][((i - 1) % 4) + 1]]
  BY DEF Expected!Flat
<1> HIDE DEF rs
<1> QED
  BY <1>3, <1>5, <1>6 DEF elvees_read_registers, rs

(* What Serve leaves. *)
LEMMA ServeAnswers ==
    ASSUME MemAssumption, RequestsAssumption, MemInv, Serve
    PROVE  \E text \in Seq(Byte) :
              /\ Served(asked, text) /\ asked \in Requests /\ Pending
              /\ asked' = asked /\ Answer' = Understood(asked, text)
<1>1. Pending /\ asked \in Requests
  BY ServeIs
<1>2. PICK text : Served(asked, text)
  BY ServeIs
<1>3. text \in Seq(Byte)
  BY <1>1, <1>2, OutcomeTyped, InvTypes DEF MemInv, OutcomeTypes, Served
<1>4. asked' = asked /\ out' = Reply(text) /\ asked' # Nothing
  BY <1>1, <1>2 DEF Serve, Served, Pending
<1>5. Answer' = Understood(asked, text)
  BY <1>3, <1>4, AnswerIs
<1> QED
  BY <1>1, <1>2, <1>3, <1>4, <1>5

LEMMA ReadAnswered ==
    ASSUME MemAssumption, RequestsAssumption, MemInv, asked \in Requests, asked.k = "m",
           NEW text \in Seq(Byte), Served(asked, text), Answer' = Understood(asked, text)
    PROVE  Expected!ReadMemory(asked)
<1> DEFINE q == asked
           t == IF Fetched(q).ok THEN rp_encode_data(Fetched(q).val) ELSE ErrText
<1>1. MemTypes
  BY InvTypes DEF MemInv
<1>2. Outcome(q) = Says(t)
  BY DEF Outcome
<1>3. text = t /\ mem' = mem /\ regs' = regs
  BY <1>2, SaysFields DEF Served
<1>4. UNCHANGED <<BytesOf(mem), regs>>
  BY <1>3 DEF BytesOf
<1>5. CASE q.at > Top
  <2>1. ~ Fetched(q).ok
    <3>1. q.at \in Nat /\ Top \in Nat
      <4>1. q.at \in Nat
        BY RequestFields
      <4> QED
        BY <4>1 DEF MemAssumption
    <3>2. ~ (q.at <= Top)
      BY <1>5, <3>1
    <3> QED
      BY <1>1, <3>2, FetchedIs
  <2>2. Answer' = [k |-> "ERR", data |-> <<>>]
    BY <1>3, <2>1, ErrUnderstood
  <2> QED
    BY <1>4, <1>5, <2>2 DEF Expected!ReadMemory, Expected!Refused
<1>6. CASE ~ (q.at > Top)
  <2> DEFINE v == [i \in {j \in 1 .. q.len : j <= Limit /\ q.at + j - 1 <= Top}
                      |-> BytesOf(mem)[q.at + i - 1]]
  <2>1. q.at <= Top
    <3>1. q.at \in Nat /\ Top \in Nat
      <4>1. q.at \in Nat
        BY RequestFields
      <4> QED
        BY <4>1 DEF MemAssumption
    <3> QED
      BY <1>6, <3>1
  <2>2. Fetched(q).ok /\ Fetched(q).val \in Seq(Byte) /\ Fetched(q).val = v
    BY <1>1, <2>1, ReadValue
  <2>3. Understood(q, rp_encode_data(Fetched(q).val)) = [k |-> "data", data |-> Fetched(q).val]
    BY <2>2, DataUnderstood
  <2>4. Answer' = [k |-> "data", data |-> v]
    BY <1>3, <2>2, <2>3
  <2> QED
    BY <1>4, <1>6, <2>4 DEF Expected!ReadMemory, Expected!Told
<1> QED
  BY <1>5, <1>6

LEMMA WriteAnswered ==
    ASSUME MemAssumption, RequestsAssumption, MemInv, asked \in Requests, asked.k \in {"M", "X"},
           NEW text \in Seq(Byte), Served(asked, text), Answer' = Understood(asked, text)
    PROVE  Expected!WriteMemory(asked)
<1> DEFINE q == asked
           put == StoredMem(q)
<1>1. /\ put.ok <=> q.data = <<>> \/ q.at + Len(q.data) - 1 <= Top
      /\ put.ok => BytesOf(put.val) =
            [a \in 0 .. Top |-> IF a - q.at + 1 \in DOMAIN q.data
                                  THEN q.data[a - q.at + 1] ELSE BytesOf(mem)[a]]
  <2>1. q.at \in Nat /\ q.data \in Seq(Byte)
    BY RequestFields
  <2>2. MemTypes
    BY InvTypes DEF MemInv
  <2> QED
    BY <2>1, <2>2, WriteIsBytewise DEF StoredMem, MemTypes
<1>2. q.data = <<>> \/ q.at + Len(q.data) - 1 <= Top
         <=> ~ (q.data # <<>> /\ q.at + Len(q.data) - 1 > Top)
  <2>1. q.at \in Nat /\ Len(q.data) \in Nat /\ Top \in Nat
    <3>1. q.at \in Nat /\ Len(q.data) \in Nat
      BY RequestFields
    <3> QED
      BY <3>1 DEF MemAssumption
  <2>2. q.at + Len(q.data) - 1 <= Top <=> ~ (q.at + Len(q.data) - 1 > Top)
    BY <2>1
  <2> QED
    BY <2>2
<1>3. CASE put.ok
  <2>1. Outcome(q) = Effect(put.val, regs, {OkText})
    BY <1>3 DEF Outcome
  <2>2. text = OkText /\ mem' = put.val /\ regs' = regs
    BY <2>1, EffectFields DEF Served
  <2>3. Answer' = [k |-> "OK", data |-> <<>>]
    BY <2>2, OkUnderstood
  <2>4. BytesOf(mem)' = BytesOf(put.val)
    BY <2>2 DEF BytesOf
  <2> HIDE DEF put
  <2> QED
    BY <1>1, <1>2, <1>3, <2>2, <2>3, <2>4 DEF Expected!WriteMemory, Expected!Done
<1>4. CASE ~ put.ok
  <2>1. Outcome(q) = Says(ErrText)
    BY <1>4 DEF Outcome
  <2>2. text = ErrText /\ mem' = mem /\ regs' = regs
    BY <2>1, SaysFields DEF Served
  <2>3. Answer' = [k |-> "ERR", data |-> <<>>]
    BY <2>2, ErrUnderstood
  <2>4. BytesOf(mem)' = BytesOf(mem)
    BY <2>2 DEF BytesOf
  <2> HIDE DEF put
  <2> QED
    BY <1>1, <1>2, <1>4, <2>2, <2>3, <2>4 DEF Expected!WriteMemory, Expected!Refused
<1> QED
  BY <1>3, <1>4

LEMMA RegisterCompared ==
    ASSUME MemAssumption, RequestsAssumption, NEW q \in Requests
    PROVE  /\ q.at < NumRegs <=> ~ (q.at >= NumRegs)
           /\ q.at < NumRegs => q.at \in 0 .. NumRegs - 1
<1>1. q.at \in Nat
  BY RequestFields
<1>2. q.at \in Nat /\ NumRegs \in Nat
  BY <1>1 DEF MemAssumption
<1>3. \A x, y \in Nat : (x < y <=> ~ (x >= y)) /\ (x < y => x \in 0 .. y - 1)
  OBVIOUS
<1> QED
  BY <1>2, <1>3

LEMMA RegisterReadAnswered ==
    ASSUME MemAssumption, RequestsAssumption, MemInv, asked \in Requests, asked.k = "p",
           NEW text \in Seq(Byte), Served(asked, text), Answer' = Understood(asked, text)
    PROVE  Expected!ReadRegister(asked)
<1> DEFINE q == asked
           t == IF q.at < NumRegs THEN rp_encode_data(regs[q.at]) ELSE ErrText
<1>1. Outcome(q) = Says(t)
  BY DEF Outcome
<1>2. text = t /\ mem' = mem /\ regs' = regs
  BY <1>1, SaysFields DEF Served
<1>3. UNCHANGED <<BytesOf(mem), regs>>
  BY <1>2 DEF BytesOf
<1>4. CASE q.at < NumRegs
  <2>1. regs[q.at] \in Seq(Byte)
    BY <1>4, RegisterCompared, InvTypes, WordIsSeq DEF MemInv, MemTypes, Word
  <2>2. Understood(q, rp_encode_data(regs[q.at])) = [k |-> "data", data |-> regs[q.at]]
    BY <2>1, DataUnderstood
  <2>3. Answer' = [k |-> "data", data |-> regs[q.at]]
    BY <1>2, <1>4, <2>2
  <2> QED
    BY <1>3, <1>4, <2>3, RegisterCompared DEF Expected!ReadRegister, Expected!Told
<1>5. CASE ~ (q.at < NumRegs)
  <2>1. Answer' = [k |-> "ERR", data |-> <<>>]
    BY <1>2, <1>5, ErrUnderstood
  <2> QED
    BY <1>3, <1>5, <2>1, RegisterCompared DEF Expected!ReadRegister, Expected!Refused
<1> QED
  BY <1>4, <1>5

LEMMA RegisterWriteAnswered ==
    ASSUME MemAssumption, RequestsAssumption, MemInv, asked \in Requests, asked.k = "P",
           NEW text \in Seq(Byte), Served(asked, text), Answer' = Understood(asked, text)
    PROVE  Expected!WriteRegister(asked)
<1> DEFINE q == asked
<1>1. CASE q.at < NumRegs
  <2>1. Outcome(q) = Effect(mem, [regs EXCEPT ![q.at] = q.data], {OkText})
    BY <1>1 DEF Outcome
  <2>2. text = OkText /\ mem' = mem /\ regs' = [regs EXCEPT ![q.at] = q.data]
    BY <2>1, EffectFields DEF Served
  <2>3. Answer' = [k |-> "OK", data |-> <<>>] /\ UNCHANGED BytesOf(mem)
    BY <2>2, OkUnderstood DEF BytesOf
  <2> QED
    BY <1>1, <2>2, <2>3, RegisterCompared DEF Expected!WriteRegister, Expected!Done
<1>2. CASE ~ (q.at < NumRegs)
  <2>1. Outcome(q) = Says(ErrText)
    BY <1>2 DEF Outcome
  <2>2. text = ErrText /\ mem' = mem /\ regs' = regs
    BY <2>1, SaysFields DEF Served
  <2>3. Answer' = [k |-> "ERR", data |-> <<>>] /\ UNCHANGED BytesOf(mem)
    BY <2>2, ErrUnderstood DEF BytesOf
  <2> QED
    BY <1>2, <2>2, <2>3, RegisterCompared DEF Expected!WriteRegister, Expected!Refused
<1> QED
  BY <1>1, <1>2

LEMMA RegistersReadAnswered ==
    ASSUME MemAssumption, RequestsAssumption, MemInv, asked \in Requests, asked.k = "g",
           NEW text \in Seq(Byte), Served(asked, text), Answer' = Understood(asked, text)
    PROVE  Expected!ReadRegisters(asked)
<1> DEFINE d == elvees_read_registers
           ts == {rp_encode_data(d) \o u : u \in Uninitialized}
<1>1. Outcome(asked) = Effect(mem, regs, ts)
  BY DEF Outcome, HandleReadRegisters
<1> HIDE DEF d, ts
<1>2. text \in ts /\ mem' = mem /\ regs' = regs
  <2>1. Outcome(asked).texts = ts /\ Outcome(asked).mem = mem /\ Outcome(asked).regs = regs
    BY <1>1, EffectFields
  <2> QED
    BY <2>1 DEF Served
<1>3. UNCHANGED <<BytesOf(mem), regs>>
  BY <1>2 DEF BytesOf
<1>4. PICK u \in Uninitialized : text = rp_encode_data(d) \o u
  BY <1>2 DEF ts
<1>5. u \in Seq(Byte) /\ d \in Seq(Byte) /\ Len(d) = 4 * Fp0
  BY InvTypes, RegisterBytes, Texts DEF MemInv, d
<1>6. Answer' = [k |-> "data", data |-> d]
  BY <1>4, <1>5, AllUnderstood
<1>7. d = Expected!Flat([r \in 1 .. Fp0 |-> regs[r - 1]])
  BY InvTypes, RegistersFlat DEF MemInv, d
<1> QED
  BY <1>3, <1>6, <1>7 DEF Expected!ReadRegisters, Expected!Told

LEMMA RegistersWriteAnswered ==
    ASSUME MemAssumption, RequestsAssumption, MemInv, asked \in Requests, asked.k = "G",
           NEW text \in Seq(Byte), Served(asked, text), Answer' = Understood(asked, text)
    PROVE  Expected!WriteRegisters(asked)
<1>1. Outcome(asked) = Effect(mem, elvees_write_registers(asked.data), {OkText})
  BY DEF Outcome
<1>2. text = OkText /\ mem' = mem /\ regs' = elvees_write_registers(asked.data)
  BY <1>1, EffectFields DEF Served
<1>3. Answer' = [k |-> "OK", data |-> <<>>] /\ UNCHANGED BytesOf(mem)
  BY <1>2, OkUnderstood DEF BytesOf
<1>4. DOMAIN regs = 0 .. NumRegs - 1
  BY InvTypes DEF MemInv, MemTypes
<1>5. regs' = [r \in 0 .. NumRegs - 1 |->
                 IF 4 * r + 4 <= Len(asked.data)
                   THEN SubSeq(asked.data, 4 * r + 1, 4 * r + 4) ELSE regs[r]]
  BY <1>2, <1>4 DEF elvees_write_registers
<1> QED
  BY <1>3, <1>5, Zenon DEF Expected!WriteRegisters, Expected!Done

(* Serve answers; a question asks; nothing else shows. *)
LEMMA MemStep ==
    ASSUME MemAssumption, RequestsAssumption, Spoiling = {}, MemInv, [Next]_vars
    PROVE  [Expected!BMNext]_(Expected!bmvars)
<1>1. ASSUME NEW q \in Requests, Ask(q) PROVE Expected!Ask(q)
  <2>1. ~ Pending /\ asked' = q /\ out' = <<>> /\ mem' = mem /\ regs' = regs
    BY <1>1 DEF Ask
  <2>2. q # Nothing
    <3>1. q.k # "none"
      BY DEF RequestsAssumption
    <3> QED
      BY <3>1 DEF Nothing
  <2>3. Answer.k # "pending" /\ Answer' = [k |-> "pending", data |-> <<>>]
    BY <2>1, <2>2, AnswerPending DEF Pending
  <2>4. UNCHANGED <<BytesOf(mem), regs>>
    BY <2>1 DEF BytesOf
  <2> QED
    BY <2>1, <2>3, <2>4 DEF Expected!Ask, Expected!Pending
<1>2. ASSUME UNCHANGED <<mem, regs, out, asked>> PROVE UNCHANGED Expected!bmvars
  <2>1. Answer' = Answer
    BY <1>2 DEF Answer, Pending
  <2>2. UNCHANGED <<BytesOf(mem), regs, asked>>
    BY <1>2 DEF BytesOf
  <2> QED
    BY <2>1, <2>2 DEF Expected!bmvars
<1>3. CASE Send \/ SendCut \/ SendSpoiled
  <2>1. UNCHANGED <<mem, regs, out, asked>>
    BY <1>3 DEF Send, SendCut, SendSpoiled, Arrives
  <2> QED
    BY <1>2, <2>1
<1>4. CASE Wait \/ Ignore \/ UNCHANGED vars
  <2>1. UNCHANGED <<mem, regs, out, asked>>
    BY <1>4 DEF Wait, Ignore, vars
  <2> QED
    BY <1>2, <2>1
<1>5. CASE Serve
  <2>1. PICK text \in Seq(Byte) :
           /\ Served(asked, text) /\ asked \in Requests /\ Pending
           /\ asked' = asked /\ Answer' = Understood(asked, text)
    BY <1>5, ServeAnswers
  <2>2. asked.k \in {"m", "M", "X", "p", "P", "g", "G"}
    BY <2>1 DEF RequestsAssumption
  <2>3. \/ Expected!ReadMemory(asked) \/ Expected!WriteMemory(asked)
        \/ Expected!ReadRegister(asked) \/ Expected!WriteRegister(asked)
        \/ Expected!ReadRegisters(asked) \/ Expected!WriteRegisters(asked)
    BY <2>1, <2>2, ReadAnswered, WriteAnswered, RegisterReadAnswered, RegisterWriteAnswered,
       RegistersReadAnswered, RegistersWriteAnswered
  <2>4. Answer = [k |-> "pending", data |-> <<>>]
    BY <2>1, AnswerPending
  <2>5. Expected!Answer
    BY <2>1, <2>3, <2>4, Zenon DEF Expected!Answer, Expected!Pending
  <2> QED
    BY <2>5 DEF Expected!BMNext
<1> QED
  BY <1>1, <1>3, <1>4, <1>5 DEF Next, Expected!BMNext

(* gdbproxy.c and remote-elvees.c: over a line that cuts packets anywhere and *)
(* however often, each request has its effect on the bytes once, when it is   *)
(* acknowledged, and its reply tells the debugger what the bytes were.        *)
THEOREM BytesImplemented ==
    ASSUME MemAssumption, RequestsAssumption, Spoiling = {}
    PROVE  Spec => ImplementsByteMemory
<1>1. Init => MemInv
  BY MemInvStart
<1>2. MemInv /\ [Next]_vars => MemInv'
  BY MemInvStep
<1>3. MemInv /\ [Next]_vars => [Expected!BMNext]_(Expected!bmvars)
  BY MemStep
<1> QED
  BY <1>1, <1>2, <1>3, PTL DEF Spec, ImplementsByteMemory
=============================================================================

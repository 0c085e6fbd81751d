---------------------------- MODULE BuffersProofs ----------------------------
(***************************************************************************)
(* No adapter'ad buffer overflows, whatever target.c asks of it.            *)
(*                                                                         *)
(* What fills a buffer does not depend on the chip: a command for the      *)
(* MPSSE is weighed by its bytes and by those of its reply, a packet for   *)
(* USB is as long as the list of its commands.                             *)
(***************************************************************************)
EXTENDS JtagTarget, TLAPS

-----------------------------------------------------------------------------
(* Sequences of anything. *)
IsSeq(q) == \E S : q \in Seq(S)

LEMMA OneOfOne == \A x : TheOne({x}) = x
  BY DEF TheOne

LEMMA SeqFacts ==
    ASSUME NEW q, IsSeq(q)
    PROVE  Len(q) \in Nat /\ DOMAIN q = 1 .. Len(q)
  BY DEF IsSeq

LEMMA EmptySeq == IsSeq(<<>>) /\ Len(<<>>) = 0
<1>1. <<>> \in Seq({}) /\ Len(<<>>) = 0
  OBVIOUS
<1> QED
  BY <1>1 DEF IsSeq

LEMMA OneSeq == \A x : IsSeq(<<x>>) /\ Len(<<x>>) = 1 /\ <<x>>[1] = x
<1> TAKE x
<1>1. <<x>> \in Seq({x}) /\ Len(<<x>>) = 1 /\ <<x>>[1] = x
  OBVIOUS
<1> QED
  BY <1>1 DEF IsSeq

LEMMA BothSeq ==
    ASSUME NEW p, NEW q, IsSeq(p), IsSeq(q)
    PROVE  /\ IsSeq(p \o q) /\ Len(p \o q) = Len(p) + Len(q)
           /\ \A k \in 1 .. Len(p) : (p \o q)[k] = p[k]
           /\ \A k \in 1 .. Len(q) : (p \o q)[Len(p) + k] = q[k]
<1>1. PICK S : p \in Seq(S)
  BY DEF IsSeq
<1>2. PICK T : q \in Seq(T)
  BY DEF IsSeq
<1> DEFINE U == S \cup T
<1>3. p \in Seq(U) /\ q \in Seq(U)
  BY <1>1, <1>2
<1> HIDE DEF U
<1>4. p \o q \in Seq(U) /\ Len(p \o q) = Len(p) + Len(q)
  BY <1>3
<1>5. \A k \in 1 .. Len(p) : (p \o q)[k] = p[k]
  BY <1>3
<1>6. \A k \in 1 .. Len(q) : (p \o q)[Len(p) + k] = q[k]
  BY <1>3
<1> QED
  BY <1>4, <1>5, <1>6 DEF IsSeq

LEMMA TwoSeq ==
    ASSUME NEW x, NEW y
    PROVE  <<x>> \o <<y>> = <<x, y>>
<1> DEFINE S == {x, y}
           p == <<x>> \o <<y>>
           q == <<x, y>>
<1>1. <<x>> \in Seq(S) /\ <<y>> \in Seq(S) /\ q \in Seq(S) /\ Len(q) = 2 /\ q[1] = x /\ q[2] = y
  OBVIOUS
<1>2. p \in Seq(S) /\ Len(p) = 2
  BY <1>1
<1>3. p[1] = x
  BY <1>1
<1>4. p[2] = y
  BY <1>1
<1> HIDE DEF p, q
<1>5. \A k \in 1 .. 2 : p[k] = q[k]
  <2>1. \A k \in 1 .. 2 : k = 1 \/ k = 2
    OBVIOUS
  <2> QED
    BY <1>1, <1>3, <1>4, <2>1
<1>6. p = q
  BY <1>1, <1>2, <1>5
<1> QED
  BY <1>6 DEF p, q

LEMMA AppendSeq ==
    ASSUME NEW p, NEW x, IsSeq(p)
    PROVE  IsSeq(Append(p, x)) /\ Len(Append(p, x)) = Len(p) + 1
<1>1. PICK S : p \in Seq(S)
  BY DEF IsSeq
<1> DEFINE U == S \cup {x}
<1>2. p \in Seq(U) /\ x \in U
  BY <1>1
<1> HIDE DEF U
<1>3. Append(p, x) \in Seq(U) /\ Len(Append(p, x)) = Len(p) + 1
  BY <1>2
<1> QED
  BY <1>3 DEF IsSeq

LEMMA ListSeq ==
    ASSUME NEW n \in Nat, NEW q, q = [k \in 1 .. n |-> q[k]]
    PROVE  IsSeq(q) /\ Len(q) = n
<1> DEFINE S == {q[k] : k \in 1 .. n}
<1>1. q \in [1 .. n -> S]
  OBVIOUS
<1> HIDE DEF S
<1>2. q \in Seq(S) /\ Len(q) = n
  BY <1>1
<1> QED
  BY <1>2 DEF IsSeq

LEMMA PartSeq ==
    ASSUME NEW q, IsSeq(q), NEW a \in Nat \ {0}, NEW b \in Nat, b <= Len(q)
    PROVE  IsSeq(SubSeq(q, a, b)) /\ Len(SubSeq(q, a, b)) = IF a <= b THEN b - a + 1 ELSE 0
<1>1. PICK S : q \in Seq(S)
  BY DEF IsSeq
<1>2. \A k \in a .. b : q[k] \in S
  BY <1>1
<1>3. SubSeq(q, a, b) \in Seq(S)
  BY <1>1, <1>2
<1>4. Len(SubSeq(q, a, b)) = IF a <= b THEN b - a + 1 ELSE 0
  BY <1>1
<1> QED
  BY <1>3, <1>4 DEF IsSeq

-----------------------------------------------------------------------------
(* Sequences one after the other, all of the same length. *)
Joined(env, done, seq) == done \o seq
LongAs(len, k, done) == IsSeq(done) /\ Len(done) = len * k
OfLength(len, k, seq) == IsSeq(seq) /\ Len(seq) = len

ByLength == INSTANCE ForeachProofs WITH Step <- Joined, Holds <- LongAs, On <- OfLength

LEMMA ConcatLength ==
    ASSUME NEW n \in Nat, NEW seqs, IsSeq(seqs),
           \A k \in 1 .. Len(seqs) : IsSeq(seqs[k]) /\ Len(seqs[k]) = n
    PROVE  IsSeq(Concat(seqs)) /\ Len(Concat(seqs)) = n * Len(seqs)
<1>1. Concat(seqs) = ByLength!Folded(n, <<>>, seqs)
  BY DEF ByLength!Folded, Concat, Foreach, ByLength!Foreach, Joined, TheOne, ByLength!TheOne
<1>2. LongAs(n, 0, <<>>)
  BY EmptySeq DEF LongAs
<1>3. \A k \in 1 .. Len(seqs) : OfLength(n, k, seqs[k])
  BY DEF OfLength
<1>4. ASSUME NEW k \in Nat, NEW x, NEW e, LongAs(n, k, x), OfLength(n, k + 1, e)
      PROVE  LongAs(n, k + 1, Joined(n, x, e))
  <2>1. IsSeq(x \o e) /\ Len(x \o e) = Len(x) + Len(e)
    BY <1>4, BothSeq DEF LongAs, OfLength
  <2>2. n * k + n = n * (k + 1) /\ Len(x) = n * k /\ Len(e) = n
    BY <1>4 DEF LongAs, OfLength
  <2> QED
    BY <2>1, <2>2 DEF LongAs, Joined
<1>5. Len(seqs) \in Nat
  BY SeqFacts
<1>6. LongAs(n, Len(seqs), ByLength!Folded(n, <<>>, seqs))
  BY <1>2, <1>3, <1>4, <1>5, ByLength!Preserved
<1> QED
  BY <1>1, <1>6 DEF LongAs

-----------------------------------------------------------------------------
(* Commands for the MPSSE: how many bytes they are and how many they are
   answered with. *)
Replied(cmd) == IF ~cmd.reads THEN 0 ELSE IF cmd.op = "bytes" THEN cmd.n \div 8 ELSE 1

Sums(cmds, c, d) ==
    /\ c[0] = 0 /\ d[0] = 0
    /\ \A k \in 0 .. Len(cmds) : c[k] \in Nat /\ d[k] \in Nat
    /\ \A k \in 1 .. Len(cmds) :
          /\ cmds[k].n \in Nat /\ cmds[k].size \in Nat /\ Replied(cmds[k]) \in Nat
          /\ c[k] = c[k - 1] + cmds[k].size
          /\ d[k] = d[k - 1] + Replied(cmds[k])

Weigh(cmds, bytes, replies) ==
    /\ IsSeq(cmds)
    /\ \E c, d : Sums(cmds, c, d) /\ c[Len(cmds)] = bytes /\ d[Len(cmds)] = replies

LEMMA WeighNone == Weigh(<<>>, 0, 0)
<1> DEFINE c == [k \in {0} |-> 0]
<1>1. \A k \in 0 .. 0 : k = 0
  OBVIOUS
<1>2. Sums(<<>>, c, c) /\ c[0] = 0
  BY EmptySeq, <1>1 DEF Sums
<1> QED
  BY <1>2, EmptySeq DEF Weigh

LEMMA WeighOne ==
    ASSUME NEW cmd, cmd.n \in Nat, cmd.size \in Nat, Replied(cmd) \in Nat
    PROVE  Weigh(<<cmd>>, cmd.size, Replied(cmd))
<1> DEFINE c == [k \in {0, 1} |-> IF k = 0 THEN 0 ELSE cmd.size]
           d == [k \in {0, 1} |-> IF k = 0 THEN 0 ELSE Replied(cmd)]
           q == <<cmd>>
<1>1. IsSeq(q) /\ Len(q) = 1 /\ q[1] = cmd
  BY OneSeq
<1>2. c[0] = 0 /\ d[0] = 0 /\ c[1] = cmd.size /\ d[1] = Replied(cmd)
  OBVIOUS
<1> HIDE DEF c, d, q
<1>3. 0 .. 1 = {0, 1} /\ 1 .. 1 = {1} /\ 1 - 1 = 0
  OBVIOUS
<1>4. Sums(q, c, d)
  BY <1>1, <1>2, <1>3 DEF Sums
<1> QED
  BY <1>1, <1>2, <1>4 DEF Weigh, q

LEMMA WeighBoth ==
    ASSUME NEW p, NEW q, NEW m \in Nat, NEW n \in Nat, NEW i \in Nat, NEW j \in Nat,
           Weigh(p, m, i), Weigh(q, n, j)
    PROVE  Weigh(p \o q, m + n, i + j)
<1> DEFINE u == Len(p)
           v == Len(q)
<1>1. IsSeq(p) /\ IsSeq(q)
  BY DEF Weigh
<1>2. u \in Nat /\ v \in Nat /\ IsSeq(p \o q) /\ Len(p \o q) = u + v
  BY <1>1, SeqFacts, BothSeq
<1>3. PICK a, b : Sums(p, a, b) /\ a[u] = m /\ b[u] = i
  BY DEF Weigh
<1>4. PICK c, d : Sums(q, c, d) /\ c[v] = n /\ d[v] = j
  BY DEF Weigh
<1> DEFINE e == [k \in 0 .. u + v |-> IF k <= u THEN a[k] ELSE m + c[k - u]]
           f == [k \in 0 .. u + v |-> IF k <= u THEN b[k] ELSE i + d[k - u]]
<1>9. \A k \in 1 .. u : (p \o q)[k] = p[k]
  BY <1>1, BothSeq
<1>10. \A k \in 1 .. v : (p \o q)[u + k] = q[k]
  BY <1>1, BothSeq
<1> DEFINE pq == p \o q
<1> HIDE DEF u, v, pq
<1>5. e[0] = 0 /\ f[0] = 0
  BY <1>2, <1>3 DEF Sums
<1>l. \A k \in 1 .. v : e[u + k] = m + c[k] /\ f[u + k] = i + d[k]
  <2> TAKE k \in 1 .. v
  <2>1. u + k \in 0 .. u + v /\ ~(u + k <= u) /\ (u + k) - u = k
    BY <1>2
  <2> QED
    BY <2>1
<1>m. e[u + 0] = m + c[0] /\ f[u + 0] = i + d[0]
  BY <1>2, <1>3, <1>4 DEF Sums
<1>ad. \A k \in 0 .. u : e[k] = a[k] /\ f[k] = b[k]
  BY <1>2
<1> HIDE DEF e, f
<1>6. ASSUME NEW k \in 0 .. u + v PROVE e[k] \in Nat /\ f[k] \in Nat
  <2>1. CASE k <= u
    <3>1. k \in 0 .. Len(p)
      BY <1>2, <2>1 DEF u
    <3>2. a[k] \in Nat /\ b[k] \in Nat
      BY <3>1, <1>3 DEF Sums
    <3> QED
      BY <3>1, <3>2, <1>ad DEF u
  <2>2. CASE ~(k <= u)
    <3> DEFINE x == k - u
    <3>1. x \in 1 .. v /\ u + x = k /\ x \in 0 .. Len(q)
      BY <1>2, <2>2 DEF v
    <3> HIDE DEF x
    <3>2. c[x] \in Nat /\ d[x] \in Nat
      BY <3>1, <1>4 DEF Sums
    <3>3. e[k] = m + c[x] /\ f[k] = i + d[x]
      BY <3>1, <1>l
    <3> QED
      BY <3>2, <3>3
  <2> QED
    BY <2>1, <2>2
<1>7. ASSUME NEW k \in 1 .. u + v
      PROVE  /\ pq[k].n \in Nat /\ pq[k].size \in Nat /\ Replied(pq[k]) \in Nat
             /\ e[k] = e[k - 1] + pq[k].size
             /\ f[k] = f[k - 1] + Replied(pq[k])
  <2>1. CASE k <= u
    <3>1. k \in 1 .. Len(p) /\ k \in 0 .. u /\ k - 1 \in 0 .. u /\ k \in 1 .. u
      BY <1>2, <2>1 DEF u
    <3>2. pq[k] = p[k]
      BY <3>1, <1>9 DEF pq
    <3>3. /\ p[k].n \in Nat /\ p[k].size \in Nat /\ Replied(p[k]) \in Nat
          /\ a[k] = a[k - 1] + p[k].size /\ b[k] = b[k - 1] + Replied(p[k])
      BY <3>1, <1>3 DEF Sums
    <3> QED
      BY <3>1, <3>2, <3>3, <1>ad
  <2>2. CASE ~(k <= u)
    <3> DEFINE x == k - u
               y == x - 1
    <3>1. x \in 1 .. v /\ u + x = k /\ y \in 0 .. v /\ u + y = k - 1 /\ y = x - 1 /\ v = Len(q)
      BY <1>2, <2>2 DEF v
    <3> HIDE DEF x, y
    <3>2. pq[k] = q[x]
      BY <3>1, <1>10 DEF pq
    <3>3. /\ q[x].n \in Nat /\ q[x].size \in Nat /\ Replied(q[x]) \in Nat
          /\ c[x] = c[y] + q[x].size /\ d[x] = d[y] + Replied(q[x])
      BY <3>1, <1>4 DEF Sums
    <3>4. c[y] \in Nat /\ d[y] \in Nat /\ c[x] \in Nat /\ d[x] \in Nat
      <4>1. x \in 0 .. v
        BY <3>1
      <4> QED
        BY <3>1, <4>1, <1>4 DEF Sums
    <3>5. e[k] = m + c[x] /\ f[k] = i + d[x]
      BY <3>1, <1>l
    <3>6. e[k - 1] = m + c[y] /\ f[k - 1] = i + d[y]
      <4>1. CASE y = 0
        BY <4>1, <3>1, <1>m
      <4>2. CASE y # 0
        <5>1. y \in 1 .. v
          BY <4>2, <3>1, <1>2
        <5> QED
          BY <3>1, <5>1, <1>l
      <4> QED
        BY <4>1, <4>2
    <3>7. /\ m + (c[y] + q[x].size) = (m + c[y]) + q[x].size
          /\ i + (d[y] + Replied(q[x])) = (i + d[y]) + Replied(q[x])
      BY <3>3, <3>4
    <3> QED
      BY <3>2, <3>3, <3>5, <3>6, <3>7
  <2> QED
    BY <2>1, <2>2
<1>8. Sums(pq, e, f)
  BY <1>2, <1>5, <1>6, <1>7 DEF Sums, pq
<1>11. e[u + v] = m + n /\ f[u + v] = i + j
  <2>1. CASE v = 0
    BY <1>2, <1>4, <1>m, <2>1 DEF Sums
  <2>2. CASE v # 0
    <3>1. v \in 1 .. v
      BY <1>2, <2>2
    <3> QED
      BY <1>4, <1>l, <3>1
  <2> QED
    BY <2>1, <2>2
<1> QED
  BY <1>2, <1>8, <1>11 DEF Weigh, pq

Added(c, sum, cmd) == sum + cmd.size
SumIs(c, k, sum) == sum = c[k]
Adds(c, k, cmd) == c[k] = c[k - 1] + cmd.size

BySize == INSTANCE ForeachProofs WITH Step <- Added, Holds <- SumIs, On <- Adds

LEMMA SizesWeighed ==
    ASSUME NEW cmds, NEW bytes, NEW replies, Weigh(cmds, bytes, replies)
    PROVE  SumSizes(cmds) = bytes
<1>1. PICK c, d : Sums(cmds, c, d) /\ c[Len(cmds)] = bytes
  BY DEF Weigh
<1>2. SumSizes(cmds) = BySize!Folded(c, 0, cmds)
  BY DEF BySize!Folded, SumSizes, Foreach, BySize!Foreach, Added, TheOne, BySize!TheOne
<1>3. Len(cmds) \in Nat
  BY SeqFacts DEF Weigh
<1>4. SumIs(c, 0, 0)
  BY <1>1 DEF SumIs, Sums
<1>5. \A k \in 1 .. Len(cmds) : Adds(c, k, cmds[k])
  BY <1>1 DEF Adds, Sums
<1>6. \A k \in Nat : \A x, e : SumIs(c, k, x) /\ Adds(c, k + 1, e) => SumIs(c, k + 1, Added(c, x, e))
  <2>1. \A k \in Nat : (k + 1) - 1 = k
    OBVIOUS
  <2> QED
    BY <2>1 DEF SumIs, Adds, Added
<1>7. SumIs(c, Len(cmds), BySize!Folded(c, 0, cmds))
  BY <1>3, <1>4, <1>5, <1>6, BySize!Preserved
<1> QED
  BY <1>1, <1>2, <1>7 DEF SumIs

Obeying(d, r, cmd) == Ft2232(r, cmd)
Answered(d, k, r) == IsSeq(r.input) /\ Len(r.input) = d[k]
Answering(d, k, cmd) == cmd.n \in Nat /\ d[k] = d[k - 1] + Replied(cmd)

ByReply == INSTANCE ForeachProofs WITH Step <- Obeying, Holds <- Answered, On <- Answering

LEMMA ReplyLength ==
    ASSUME NEW cmd, NEW tdo, cmd.n \in Nat
    PROVE  IsSeq(MpsseReply(cmd, tdo)) /\ Len(MpsseReply(cmd, tdo)) = Replied(cmd)
<1>1. CASE ~cmd.reads
  BY <1>1, EmptySeq DEF MpsseReply, Replied
<1>2. CASE cmd.reads /\ cmd.op = "bytes"
  <2> DEFINE q == [b \in 1 .. cmd.n \div 8 |-> ShiftedDown(tdo \cap (0 .. 8 * b - 1), 8 * (b - 1))]
             m == cmd.n \div 8
  <2>1. q = [b \in 1 .. m |-> q[b]] /\ m \in Nat
    OBVIOUS
  <2>2. MpsseReply(cmd, tdo) = q /\ Replied(cmd) = m
    BY <1>2 DEF MpsseReply, Replied
  <2> HIDE DEF q, m
  <2> QED
    BY <2>1, <2>2, ListSeq
<1>3. CASE cmd.reads /\ cmd.op # "bytes"
  BY <1>3, OneSeq DEF MpsseReply, Replied
<1> QED
  BY <1>1, <1>2, <1>3

LEMMA RepliesWeighed ==
    ASSUME NEW ad, NEW bytes, NEW replies, Weigh(ad.output, bytes, replies)
    PROVE  Len(Performed(ad).input) = replies
<1> DEFINE cmds == ad.output
           r == [chip |-> ad.chip, input |-> <<>>]
<1>1. PICK c, d : Sums(cmds, c, d) /\ d[Len(cmds)] = replies
  BY DEF Weigh
<1>2. Performed(ad) = ByReply!Folded(d, r, cmds)
  BY DEF ByReply!Folded, Performed, Foreach, ByReply!Foreach, Obeying, TheOne, ByReply!TheOne
<1>3. Len(cmds) \in Nat
  BY SeqFacts DEF Weigh
<1>4. Answered(d, 0, r)
  BY <1>1, EmptySeq DEF Answered, Sums
<1>5. \A k \in 1 .. Len(cmds) : Answering(d, k, cmds[k])
  BY <1>1 DEF Answering, Sums
<1>6. ASSUME NEW k \in Nat, NEW x, NEW e, Answered(d, k, x), Answering(d, k + 1, e)
      PROVE  Answered(d, k + 1, Obeying(d, x, e))
  <2> DEFINE done == Ticks(x.chip, MpsseEdges(e))
             z == MpsseReply(e, done.tdo)
             y == [chip |-> done.chip, input |-> x.input \o z]
  <2>1. Ft2232(x, e) = TheOne({y})
    BY DEF Ft2232
  <2>2. Obeying(d, x, e) = y /\ y.input = x.input \o z
    BY <2>1, OneOfOne DEF Obeying
  <2> HIDE DEF done, y
  <2>3. IsSeq(z) /\ Len(z) = Replied(e)
    BY <1>6, ReplyLength DEF Answering
  <2> HIDE DEF z
  <2>4. IsSeq(y.input) /\ Len(y.input) = Len(x.input) + Replied(e)
    <3> DEFINE p == x.input
    <3>1. IsSeq(p)
      BY <1>6 DEF Answered
    <3>2. Len(z) = Replied(e) /\ y.input = p \o z
      BY <2>2, <2>3
    <3> HIDE DEF p
    <3>3. IsSeq(p \o z) /\ Len(p \o z) = Len(p) + Len(z)
      BY <2>3, <3>1, BothSeq
    <3> QED
      BY <3>2, <3>3 DEF p
  <2>5. d[k + 1] = d[k] + Replied(e)
    BY <1>6 DEF Answering
  <2> QED
    BY <1>6, <2>2, <2>4, <2>5 DEF Answered
<1> HIDE DEF r
<1>7. Answered(d, Len(cmds), ByReply!Folded(d, r, cmds))
  BY <1>3, <1>4, <1>5, <1>6, ByReply!Preserved
<1> QED
  BY <1>1, <1>2, <1>7 DEF Answered

-----------------------------------------------------------------------------
(* The packets of the MPSSE: a scan is at most 23 bytes. *)
Fits(cmds, most, replies) == \E bytes \in Nat : bytes <= most /\ Weigh(cmds, bytes, replies)

LEMMA FitsBoth ==
    ASSUME NEW p, NEW q, NEW m \in Nat, NEW n \in Nat, NEW i \in Nat, NEW j \in Nat,
           Fits(p, m, i), Fits(q, n, j)
    PROVE  Fits(p \o q, m + n, i + j)
<1>1. PICK a \in Nat : a <= m /\ Weigh(p, a, i)
  BY DEF Fits
<1>2. PICK b \in Nat : b <= n /\ Weigh(q, b, j)
  BY DEF Fits
<1>3. Weigh(p \o q, a + b, i + j) /\ a + b <= m + n /\ a + b \in Nat
  BY <1>1, <1>2, WeighBoth
<1> QED
  BY <1>3 DEF Fits

LEMMA TmsFits ==
    ASSUME NEW n \in Nat, NEW tms, NEW tdi, NEW reads \in BOOLEAN
    PROVE  Fits(<<MpsseTms(n, tms, tdi, reads)>>, 3, IF reads THEN 1 ELSE 0)
<1> DEFINE cmd == MpsseTms(n, tms, tdi, reads)
<1>1. cmd.n \in Nat /\ cmd.size = 3 /\ Replied(cmd) = IF reads THEN 1 ELSE 0
  BY DEF MpsseTms, Replied
<1> HIDE DEF cmd
<1>2. Weigh(<<cmd>>, 3, IF reads THEN 1 ELSE 0)
  <2>1. cmd.size \in Nat /\ Replied(cmd) \in Nat
    BY <1>1
  <2> QED
    BY <1>1, <2>1, WeighOne
<1> QED
  BY <1>2 DEF Fits, cmd

LEMMA SilentTms ==
    ASSUME NEW n \in Nat, NEW tms, NEW tdi
    PROVE  Fits(<<MpsseTms(n, tms, tdi, FALSE)>>, 3, 0)
<1> DEFINE reads == FALSE
<1>1. reads \in BOOLEAN /\ (IF reads THEN 1 ELSE 0) = 0
  OBVIOUS
<1> HIDE DEF reads
<1>2. Fits(<<MpsseTms(n, tms, tdi, reads)>>, 3, IF reads THEN 1 ELSE 0)
  BY <1>1, TmsFits
<1> QED
  BY <1>1, <1>2 DEF reads

LEMMA BitsFit ==
    ASSUME NEW n \in Nat, NEW bits, NEW reads \in BOOLEAN
    PROVE  Fits(<<MpsseBits(n, bits, reads)>>, 3, IF reads THEN 1 ELSE 0)
<1> DEFINE cmd == MpsseBits(n, bits, reads)
<1>1. cmd.n \in Nat /\ cmd.size = 3 /\ Replied(cmd) = IF reads THEN 1 ELSE 0
  BY DEF MpsseBits, Replied
<1> HIDE DEF cmd
<1>2. Weigh(<<cmd>>, 3, IF reads THEN 1 ELSE 0)
  <2>1. cmd.size \in Nat /\ Replied(cmd) \in Nat
    BY <1>1
  <2> QED
    BY <1>1, <2>1, WeighOne
<1> QED
  BY <1>2 DEF Fits, cmd

LEMMA BytesFit ==
    ASSUME NEW n \in Nat, NEW bits, NEW reads \in BOOLEAN
    PROVE  Fits(<<MpsseBytes(n, bits, reads)>>, 3 + n, IF reads THEN n ELSE 0)
<1> DEFINE cmd == MpsseBytes(n, bits, reads)
<1>0. (8 * n) \div 8 = n
  OBVIOUS
<1>1. cmd.n \in Nat /\ cmd.size = 3 + n /\ Replied(cmd) = IF reads THEN n ELSE 0
  BY <1>0 DEF MpsseBytes, Replied
<1> HIDE DEF cmd
<1>2. Weigh(<<cmd>>, 3 + n, IF reads THEN n ELSE 0)
  <2>1. cmd.size \in Nat /\ Replied(cmd) \in Nat
    BY <1>1
  <2> QED
    BY <1>1, <2>1, WeighOne
<1> QED
  BY <1>2 DEF Fits, cmd

LEMMA NoneFits == Fits(<<>>, 0, 0)
  BY WeighNone DEF Fits

LEMMA PrologFits ==
    ASSUME NEW n \in 0 .. 14, NEW tms
    PROVE  Fits(Prolog(n, tms), 6, 0)
<1>1. CASE n = 0
  <2>1. Prolog(n, tms) = <<>>
    BY <1>1 DEF Prolog
  <2> QED
    BY <2>1, WeighNone DEF Fits
<1>2. CASE n # 0 /\ n < 8
  <2>1. Prolog(n, tms) = <<MpsseTms(n, tms, FALSE, FALSE)>>
    BY <1>2 DEF Prolog
  <2>2. Fits(Prolog(n, tms), 3, 0)
    <3>1. n \in Nat
      OBVIOUS
    <3>2. Fits(<<MpsseTms(n, tms, FALSE, FALSE)>>, 3, 0)
      BY <3>1, SilentTms
    <3> QED
      BY <2>1, <3>2
  <2> QED
    BY <2>2 DEF Fits
<1>3. CASE ~(n < 8)
  <2> DEFINE p == <<MpsseTms(7, tms \cap (0 .. 6), FALSE, FALSE)>>
             q == <<MpsseTms(n - 7, ShiftedDown(tms, 7), FALSE, FALSE)>>
  <2>1. Prolog(n, tms) = p \o q
    <3>1. Prolog(n, tms) = <<MpsseTms(7, tms \cap (0 .. 6), FALSE, FALSE),
                             MpsseTms(n - 7, ShiftedDown(tms, 7), FALSE, FALSE)>>
      <4>1. n # 0 /\ ~(n < 8)
        BY <1>3
      <4> QED
        BY <4>1, Zenon DEF Prolog
    <3> QED
      BY <3>1, TwoSeq
  <2>2. Fits(p, 3, 0) /\ Fits(q, 3, 0)
    <3>1. n - 7 \in Nat
      BY <1>3
    <3> QED
      BY <3>1, SilentTms
  <2> HIDE DEF p, q
  <2>3. Fits(p \o q, 3 + 3, 0 + 0)
    BY <2>2, FitsBoth
  <2> QED
    BY <2>1, <2>3
<1> QED
  BY <1>1, <1>2, <1>3

(* The bytes a scan of nbits is answered with. *)
RepliesTo(nbits) ==
    (nbits - 1) \div 8 + (IF (nbits - 1) % 8 > 0 THEN 1 ELSE 0) + 1

LEMMA FramedFits ==
    ASSUME NEW nbits \in 1 .. 41, NEW bits, NEW reads \in BOOLEAN
    PROVE  Fits(Framed(nbits, bits, reads), 14 + 3, IF reads THEN RepliesTo(nbits) ELSE 0)
<1> DEFINE n == (nbits - 1) \div 8
           rest == (nbits - 1) % 8
           p == IF n > 0 THEN <<MpsseBytes(n, bits \cap (0 .. 8 * n - 1), reads)>> ELSE <<>>
           q == IF rest > 0 THEN <<MpsseBits(rest, ShiftedDown(bits, 8 * n), reads)>> ELSE <<>>
           r == <<MpsseTms(2, {0, 1}, nbits - 1 \in bits, reads)>>
           one == IF reads THEN 1 ELSE 0
           some == IF rest > 0 THEN one ELSE 0
           most == IF reads THEN n ELSE 0
<1>1. Framed(nbits, bits, reads) = (p \o q) \o r
  BY DEF Framed
<1>2. n \in 0 .. 5 /\ rest \in 0 .. 7
  OBVIOUS
<1> HIDE DEF n, rest
<1>3. Fits(p, 8, most)
  <2>1. CASE n > 0
    <3>1. p = <<MpsseBytes(n, bits \cap (0 .. 8 * n - 1), reads)>> /\ n \in Nat
      BY <2>1, <1>2
    <3>2. Fits(p, 3 + n, most)
      BY <3>1, BytesFit
    <3> QED
      BY <3>2, <1>2 DEF Fits
  <2>2. CASE ~(n > 0)
    <3>1. p = <<>> /\ most = 0
      BY <2>2, <1>2
    <3> QED
      BY <3>1, WeighNone DEF Fits
  <2> QED
    BY <2>1, <2>2
<1>4. Fits(q, 3, some)
  <2>1. CASE rest > 0
    <3>1. q = <<MpsseBits(rest, ShiftedDown(bits, 8 * n), reads)>> /\ rest \in Nat /\ some = one
      BY <2>1, <1>2
    <3> QED
      BY <3>1, BitsFit
  <2>2. CASE ~(rest > 0)
    <3>1. q = <<>> /\ some = 0
      BY <2>2
    <3> QED
      BY <3>1, WeighNone DEF Fits
  <2> QED
    BY <2>1, <2>2
<1>5. Fits(r, 3, one)
  BY TmsFits
<1>6. most \in Nat /\ some \in Nat /\ one \in Nat /\ most + some \in Nat
  BY <1>2
<1>7. (most + some) + one = IF reads THEN RepliesTo(nbits) ELSE 0
  BY <1>2 DEF RepliesTo, n, rest
<1> HIDE DEF p, q, r, most, some, one
<1>8. Fits(p \o q, 8 + 3, most + some)
  BY <1>3, <1>4, <1>6, FitsBoth
<1>9. Fits((p \o q) \o r, 11 + 3, (most + some) + one)
  BY <1>5, <1>6, <1>8, FitsBoth
<1>10. Fits((p \o q) \o r, 17, (most + some) + one)
  BY <1>9 DEF Fits
<1> QED
  BY <1>1, <1>7, <1>10

LEMMA ScanFits ==
    ASSUME NEW m \in {0, 1, 6}, NEW prolog, NEW nbits \in {4, 9, 32, 41}, NEW bits, NEW reads \in BOOLEAN
    PROVE  Fits(MpsseCmds(MpsseScan(m, prolog, nbits, bits, reads)), 23,
                IF reads THEN RepliesTo(nbits) ELSE 0)
<1> DEFINE p == Prolog(m + 3, prolog \cup {m})
           q == Framed(nbits, bits, reads)
           r == IF reads THEN RepliesTo(nbits) ELSE 0
<1>1. MpsseCmds(MpsseScan(m, prolog, nbits, bits, reads)) = p \o q
  BY DEF MpsseCmds, MpsseScan
<1>2. Fits(p, 6, 0)
  <2>1. m + 3 \in 0 .. 14
    OBVIOUS
  <2> QED
    BY <2>1, PrologFits
<1>3. Fits(q, 17, r)
  <2>1. nbits \in 1 .. 41
    OBVIOUS
  <2> QED
    BY <2>1, FramedFits
<1>4. r \in Nat
  BY DEF RepliesTo
<1> HIDE DEF p, q, r
<1>5. Fits(p \o q, 6 + 17, 0 + r)
  BY <1>2, <1>3, <1>4, FitsBoth
<1>6. 6 + 17 = 23 /\ 0 + r = r
  BY <1>4
<1> QED
  BY <1>1, <1>5, <1>6 DEF r

LEMMA SilentScan ==
    ASSUME NEW m \in {0, 1, 6}, NEW prolog, NEW nbits \in {4, 9, 32, 41}, NEW bits
    PROVE  Fits(MpsseCmds(MpsseScan(m, prolog, nbits, bits, FALSE)), 23, 0)
<1> DEFINE reads == FALSE
<1>1. reads \in BOOLEAN /\ (IF reads THEN RepliesTo(nbits) ELSE 0) = 0
  OBVIOUS
<1> HIDE DEF reads
<1>2. Fits(MpsseCmds(MpsseScan(m, prolog, nbits, bits, reads)), 23,
           IF reads THEN RepliesTo(nbits) ELSE 0)
  BY <1>1, ScanFits
<1> QED
  BY <1>1, <1>2 DEF reads

LEMMA AnsweredScan ==
    ASSUME NEW m \in {0, 1, 6}, NEW prolog, NEW nbits \in {4, 9, 32, 41}, NEW bits
    PROVE  Fits(MpsseCmds(MpsseScan(m, prolog, nbits, bits, TRUE)), 23, RepliesTo(nbits))
<1> DEFINE reads == TRUE
<1>1. reads \in BOOLEAN /\ (IF reads THEN RepliesTo(nbits) ELSE 0) = RepliesTo(nbits)
  OBVIOUS
<1> HIDE DEF reads
<1>2. Fits(MpsseCmds(MpsseScan(m, prolog, nbits, bits, reads)), 23,
           IF reads THEN RepliesTo(nbits) ELSE 0)
  BY <1>1, ScanFits
<1> QED
  BY <1>1, <1>2 DEF reads

LEMMA ManyReplies == RepliesTo(4) = 2 /\ RepliesTo(32) = 5 /\ RepliesTo(41) = 6
  BY DEF RepliesTo

-----------------------------------------------------------------------------
(* The adapter with the MPSSE, when at most so many bytes of replies are to
   come for what is collected. *)
Fields == {"kind", "sysrst", "chip", "oscr", "output", "size", "input", "fix", "value",
           "over", "failed"}

Loaded(ad, waiting) ==
    /\ DOMAIN ad = Fields /\ ad.kind = "mpsse" /\ ad.over = FALSE
    /\ ad.size \in Nat /\ ad.size <= OutSize
    /\ \E replies \in Nat : replies <= waiting /\ Weigh(ad.output, ad.size, replies)

LEMMA Flushed ==
    ASSUME NEW ad, NEW waiting \in 0 .. 62, Loaded(ad, waiting)
    PROVE  Loaded(mpsse_flush_output(ad), 0) /\ mpsse_flush_output(ad).size = 0
<1>1. PICK replies \in Nat : replies <= waiting /\ Weigh(ad.output, ad.size, replies)
  BY DEF Loaded
<1>2. CASE ad.output = <<>>
  <2>1. mpsse_flush_output(ad) = ad
    BY <1>2 DEF mpsse_flush_output
  <2>2. replies = 0 /\ ad.size = 0
    <3>1. Weigh(<<>>, ad.size, replies)
      BY <1>1, <1>2
    <3>2. PICK c, d : Sums(<<>>, c, d) /\ c[Len(<<>>)] = ad.size /\ d[Len(<<>>)] = replies
      BY <3>1 DEF Weigh
    <3> QED
      BY <3>2, EmptySeq DEF Sums
  <2> QED
    BY <1>1, <2>1, <2>2 DEF Loaded
<1>3. CASE ad.output # <<>>
  <2> DEFINE done == Performed(ad)
             overflows == ad.over \/ ad.size > OutSize \/ Len(done.input) + 2 > 64
             t == [ad EXCEPT !.chip = done.chip, !.input = done.input,
                            !.output = <<>>, !.size = 0, !.over = overflows]
  <2>1. mpsse_flush_output(ad) = TheOne({t})
    BY <1>3 DEF mpsse_flush_output
  <2>2. mpsse_flush_output(ad) = t
    BY <2>1, OneOfOne
  <2>3. Len(done.input) = replies
    BY <1>1, RepliesWeighed
  <2>4. overflows = FALSE
    BY <1>1, <2>3, OutAssumption DEF Loaded
  <2> HIDE DEF done, overflows
  <2>5. DOMAIN t = Fields /\ t.kind = "mpsse" /\ t.over = FALSE /\ t.size = 0 /\ t.output = <<>>
    BY <2>4 DEF Loaded, Fields
  <2> HIDE DEF t
  <2>6. Weigh(t.output, t.size, 0)
    BY <2>5, WeighNone
  <2> QED
    BY <2>2, <2>5, <2>6, OutAssumption DEF Loaded
<1> QED
  BY <1>2, <1>3

LEMMA CollectedLoads ==
    ASSUME NEW ad, NEW scan, NEW waiting \in 0 .. 62, NEW replies \in Nat, NEW most \in 0 .. 62,
           Loaded(ad, waiting), Fits(MpsseCmds(scan), 23, replies), waiting + replies <= most
    PROVE  Loaded(Collected(ad, scan), most)
<1> DEFINE t == IF ad.size > OutSize - 23 THEN mpsse_flush_output(ad) ELSE ad
           cmds == MpsseCmds(scan)
           u == [t EXCEPT !.output = @ \o cmds, !.size = @ + SumSizes(cmds),
                          !.fix = IF scan.reads THEN FixOf(scan.nbits) ELSE @]
           New(x, y) == [x EXCEPT !.output = @ \o y, !.size = @ + SumSizes(y),
                                  !.fix = IF scan.reads THEN FixOf(scan.nbits) ELSE @]
<1>1. Collected(ad, scan) = TheOne({New(x, y) : x \in {t}, y \in {cmds}})
  BY DEF Collected
<1>2. Collected(ad, scan) = u
  <2> HIDE DEF t, cmds
  <2>1. u = New(t, cmds)
    OBVIOUS
  <2> HIDE DEF u, New
  <2>2. {New(x, y) : x \in {t}, y \in {cmds}} = {New(t, cmds)}
    OBVIOUS
  <2>3. TheOne({New(t, cmds)}) = New(t, cmds)
    BY OneOfOne
  <2> QED
    BY <1>1, <2>1, <2>2, <2>3
<1>3. PICK bytes \in Nat : bytes <= 23 /\ Weigh(cmds, bytes, replies)
  BY DEF Fits
<1>4. Loaded(t, waiting) /\ t.size <= OutSize - 23
  <2>1. CASE ad.size > OutSize - 23
    <3>1. Loaded(mpsse_flush_output(ad), 0) /\ mpsse_flush_output(ad).size = 0
      BY Flushed
    <3>2. t = mpsse_flush_output(ad)
      BY <2>1
    <3>3. \A x : Loaded(x, 0) => Loaded(x, waiting)
      BY DEF Loaded
    <3> QED
      BY <3>1, <3>2, <3>3, OutAssumption
  <2>2. CASE ~(ad.size > OutSize - 23)
    BY <2>2, OutAssumption DEF Loaded
  <2> QED
    BY <2>1, <2>2
<1> HIDE DEF t, cmds
<1>5. SumSizes(cmds) = bytes
  BY <1>3, SizesWeighed
<1>6. PICK r \in Nat : r <= waiting /\ Weigh(t.output, t.size, r)
  BY <1>4 DEF Loaded
<1>7. t.size \in Nat
  BY <1>4 DEF Loaded
<1>8. Weigh(t.output \o cmds, t.size + bytes, r + replies)
  BY <1>3, <1>6, <1>7, WeighBoth
<1>9. /\ DOMAIN u = Fields /\ u.kind = "mpsse" /\ u.over = FALSE
      /\ u.output = t.output \o cmds /\ u.size = t.size + bytes
  BY <1>4, <1>5 DEF Loaded, Fields
<1> HIDE DEF u
<1>10. Weigh(u.output, u.size, r + replies) /\ r + replies \in Nat /\ r + replies <= most
  BY <1>6, <1>8, <1>9
<1>11. u.size \in Nat /\ u.size <= OutSize
  BY <1>3, <1>4, <1>7, <1>9, OutAssumption
<1> QED
  BY <1>2, <1>9, <1>10, <1>11 DEF Loaded

(* Several scans: w[k] bounds what is to come after k of them. *)
Collecting(w, ad, scan) == Collected(ad, scan)
LoadedBy(w, k, ad) == Loaded(ad, w[k])
WithinLoad(w, k, scan) ==
    /\ w[k - 1] \in 0 .. 62 /\ w[k] \in 0 .. 62
    /\ \E replies \in Nat :
          Fits(MpsseCmds(scan), 23, replies) /\ w[k - 1] + replies <= w[k]

ByScan == INSTANCE ForeachProofs WITH Step <- Collecting, Holds <- LoadedBy, On <- WithinLoad

LEMMA SendLoads ==
    ASSUME NEW ad, NEW scans, Len(scans) \in Nat, NEW w, Loaded(ad, w[0]),
           \A k \in 1 .. Len(scans) : WithinLoad(w, k, scans[k])
    PROVE  Loaded(mpsse_send(ad, scans), w[Len(scans)])
<1>1. mpsse_send(ad, scans) = ByScan!Folded(w, ad, scans)
  BY DEF ByScan!Folded, mpsse_send, Foreach, ByScan!Foreach, Collecting, TheOne, ByScan!TheOne
<1>2. LoadedBy(w, 0, ad)
  BY DEF LoadedBy
<1>3. ASSUME NEW k \in Nat, NEW x, NEW e, LoadedBy(w, k, x), WithinLoad(w, k + 1, e)
      PROVE  LoadedBy(w, k + 1, Collecting(w, x, e))
  <2>1. (k + 1) - 1 = k
    OBVIOUS
  <2>2. PICK replies \in Nat : Fits(MpsseCmds(e), 23, replies) /\ w[k] + replies <= w[k + 1]
    BY <1>3, <2>1 DEF WithinLoad
  <2>3. w[k] \in 0 .. 62 /\ w[k + 1] \in 0 .. 62 /\ Loaded(x, w[k])
    BY <1>3, <2>1 DEF WithinLoad, LoadedBy
  <2> DEFINE a == w[k]
             b == w[k + 1]
  <2> HIDE DEF a, b
  <2>4. Loaded(Collected(x, e), b)
    <3>1. a \in 0 .. 62 /\ b \in 0 .. 62 /\ Loaded(x, a) /\ a + replies <= b
      BY <2>2, <2>3 DEF a, b
    <3> QED
      BY <2>2, <3>1, CollectedLoads
  <2> QED
    BY <2>4 DEF LoadedBy, Collecting, b
<1>4. LoadedBy(w, Len(scans), ByScan!Folded(w, ad, scans))
  BY <1>2, <1>3, ByScan!Preserved
<1> QED
  BY <1>1, <1>4 DEF LoadedBy

-----------------------------------------------------------------------------
(* An adapter between two calls: for the MPSSE, no reply is to come. *)
Ready(kind, ad) ==
    /\ DOMAIN ad = Fields /\ ad.kind = kind /\ ad.over = FALSE
    /\ kind = "mpsse" => Loaded(ad, 0)

LEMMA LoadedStays ==
    ASSUME NEW ad, NEW waiting, Loaded(ad, waiting), NEW v
    PROVE  /\ Loaded([ad EXCEPT !.value = v], waiting)
           /\ Loaded([ad EXCEPT !.chip = v], waiting)
           /\ Loaded([ad EXCEPT !.input = v], waiting)
           /\ Loaded([ad EXCEPT !.oscr = v], waiting)
           /\ Loaded([ad EXCEPT !.failed = v], waiting)
  BY DEF Loaded, Fields

LEMMA ReadyStays ==
    ASSUME NEW ad, NEW kind, Ready(kind, ad), NEW v
    PROVE  /\ Ready(kind, [ad EXCEPT !.value = v])
           /\ Ready(kind, [ad EXCEPT !.chip = v])
           /\ Ready(kind, [ad EXCEPT !.input = v])
           /\ Ready(kind, [ad EXCEPT !.oscr = v])
           /\ Ready(kind, [ad EXCEPT !.failed = v])
<1>1. CASE kind = "mpsse"
  <2>1. Loaded(ad, 0)
    BY <1>1 DEF Ready
  <2> QED
    BY <1>1, <2>1, LoadedStays DEF Ready, Fields
<1>2. CASE kind # "mpsse"
  BY <1>2 DEF Ready, Fields
<1> QED
  BY <1>1, <1>2

LEMMA ReadyMpsse == \A ad : Ready("mpsse", ad) <=> Loaded(ad, 0)
  BY DEF Ready, Loaded

LEMMA SendOne ==
    ASSUME NEW ad, Loaded(ad, 0), NEW scan, NEW replies \in 0 .. 62,
           Fits(MpsseCmds(scan), 23, replies)
    PROVE  Loaded(mpsse_send(ad, <<scan>>), replies)
<1> DEFINE w == [k \in {0, 1} |-> IF k = 0 THEN 0 ELSE replies]
           scans == <<scan>>
<1>1. w[0] = 0 /\ w[1] = replies
  OBVIOUS
<1>2. Len(scans) = 1 /\ scans[1] = scan /\ 1 .. 1 = {1} /\ 1 - 1 = 0
  BY OneSeq
<1> HIDE DEF w, scans
<1>3. WithinLoad(w, 1, scan)
  BY <1>1, <1>2 DEF WithinLoad
<1>4. Loaded(mpsse_send(ad, scans), w[Len(scans)])
  <2>1. Loaded(ad, w[0]) /\ Len(scans) \in Nat
    BY <1>1, <1>2
  <2>2. \A k \in 1 .. Len(scans) : WithinLoad(w, k, scans[k])
    BY <1>2, <1>3
  <2> QED
    BY <2>1, <2>2, SendLoads
<1> QED
  BY <1>1, <1>2, <1>4 DEF scans

LEMMA SendThree ==
    ASSUME NEW ad, NEW before \in 0 .. 62, Loaded(ad, before), NEW after \in 0 .. 62,
           NEW a, NEW b, NEW c, NEW replies \in Nat, before + replies <= after,
           Fits(MpsseCmds(a), 23, 0), Fits(MpsseCmds(b), 23, 0), Fits(MpsseCmds(c), 23, replies)
    PROVE  Loaded(mpsse_send(ad, <<a, b, c>>), after)
<1> DEFINE w == [k \in 0 .. 3 |-> IF k = 3 THEN after ELSE before]
           scans == <<a, b, c>>
<1>1. w[0] = before /\ w[1] = before /\ w[2] = before /\ w[3] = after
  OBVIOUS
<1>2. /\ Len(scans) = 3 /\ scans[1] = a /\ scans[2] = b /\ scans[3] = c
      /\ 1 .. 3 = {1, 2, 3} /\ 1 - 1 = 0 /\ 2 - 1 = 1 /\ 3 - 1 = 2
  OBVIOUS
<1> HIDE DEF w, scans
<1>3. WithinLoad(w, 1, a) /\ WithinLoad(w, 2, b)
  BY <1>1, <1>2 DEF WithinLoad
<1>4. WithinLoad(w, 3, c)
  BY <1>1, <1>2 DEF WithinLoad
<1>5. Loaded(mpsse_send(ad, scans), w[Len(scans)])
  <2>1. Loaded(ad, w[0]) /\ Len(scans) \in Nat
    BY <1>1, <1>2
  <2>2. \A k \in 1 .. Len(scans) : WithinLoad(w, k, scans[k])
    BY <1>2, <1>3, <1>4
  <2> QED
    BY <2>1, <2>2, SendLoads
<1> QED
  BY <1>1, <1>2, <1>5 DEF scans

LEMMA Received ==
    ASSUME NEW ad, NEW waiting \in 0 .. 62, Loaded(ad, waiting)
    PROVE  Loaded(mpsse_recv(ad), 0)
<1> DEFINE New(t) == [t EXCEPT !.value = mpsse_fix_data(t, 0), !.input = <<>>]
           f == mpsse_flush_output(ad)
<1>1. mpsse_recv(ad) = TheOne({New(t) : t \in {mpsse_flush_output(u) : u \in {ad}}})
  BY DEF mpsse_recv
<1>2. {mpsse_flush_output(u) : u \in {ad}} = {f}
  OBVIOUS
<1>3. Loaded(f, 0)
  BY Flushed
<1> HIDE DEF f
<1>4. Loaded(New(f), 0)
  <2>1. Loaded([f EXCEPT !.value = mpsse_fix_data(f, 0)], 0)
    BY <1>3, LoadedStays
  <2>2. Loaded([[f EXCEPT !.value = mpsse_fix_data(f, 0)] EXCEPT !.input = <<>>], 0)
    BY <2>1, LoadedStays
  <2>3. New(f) = [[f EXCEPT !.value = mpsse_fix_data(f, 0)] EXCEPT !.input = <<>>]
    OBVIOUS
  <2> QED
    BY <2>2, <2>3
<1> HIDE DEF New
<1>5. {New(t) : t \in {f}} = {New(f)}
  OBVIOUS
<1> QED
  BY <1>1, <1>2, <1>4, <1>5, OneOfOne

-----------------------------------------------------------------------------
(* The functions of adapter-mpsse.c. *)
LEMMA MpsseWrites ==
    ASSUME NEW ad, Loaded(ad, 0), NEW ird, NEW reglen \in {0, 32}, NEW value
    PROVE  Loaded(mpsse_oncd_write(ad, ird, reglen, value), 0)
<1> DEFINE scan == WriteScan(ird, reglen, value)
<1>1. Fits(MpsseCmds(scan), 23, 0)
  <2>1. 9 + reglen \in {4, 9, 32, 41} /\ 0 \in {0, 1, 6}
    OBVIOUS
  <2> QED
    BY <2>1, SilentScan DEF WriteScan
<1> HIDE DEF scan
<1>2. Loaded(mpsse_send(ad, <<scan>>), 0)
  BY <1>1, SendOne
<1> QED
  BY <1>2 DEF mpsse_oncd_write, scan

LEMMA ReadScanFits == \A reg : Fits(MpsseCmds(ReadScan(reg, 32)), 23, 6)
<1> TAKE reg
<1>1. 9 + 32 = 41 /\ 41 \in {4, 9, 32, 41} /\ 0 \in {0, 1, 6}
  OBVIOUS
<1>2. Fits(MpsseCmds(MpsseScan(0, {}, 41, IRd(reg, {READ}), TRUE)), 23, RepliesTo(41))
  BY <1>1, AnsweredScan
<1> QED
  BY <1>1, <1>2, ManyReplies DEF ReadScan

LEMMA MpsseReads ==
    ASSUME NEW ad, Loaded(ad, 0), NEW reg
    PROVE  Loaded(mpsse_oncd_read(ad, reg, 32), 0)
<1> DEFINE scan == ReadScan(reg, 32)
           t == mpsse_send(ad, <<scan>>)
           u == mpsse_recv(t)
<1>1. Fits(MpsseCmds(scan), 23, 6)
  BY ReadScanFits
<1> HIDE DEF scan
<1>2. Loaded(t, 6)
  BY <1>1, SendOne
<1> HIDE DEF t
<1>3. Loaded(u, 0)
  BY <1>2, Received
<1> HIDE DEF u
<1>4. Loaded([u EXCEPT !.value = ShiftedDown(@, 9)], 0)
  BY <1>3, LoadedStays
<1> QED
  BY <1>4 DEF mpsse_oncd_read, u, t, scan

LEMMA MpsseInstructs ==
    ASSUME NEW ad, Loaded(ad, 0), NEW ir
    PROVE  /\ Loaded(mpsse_recv(mpsse_ir(ad, ir)), 0)
           /\ Loaded(mpsse_send(ad, <<MpsseScan(1, {0}, 4, Bits(ir), FALSE)>>), 0)
           /\ Loaded(mpsse_get_idcode(ad), 0)
           /\ Loaded(mpsse_open(ad), 0)
           /\ Loaded(mpsse_reset_cpu(ad), 0)
<1> DEFINE a == MpsseScan(1, {0}, 4, Bits(ir), TRUE)
           b == MpsseScan(1, {0}, 4, Bits(ir), FALSE)
           c == MpsseScan(6, 0 .. 4, 32, {}, TRUE)
           d == MpsseScan(6, 0 .. 4, 0, {}, FALSE)
<1>1. Fits(MpsseCmds(a), 23, 2)
  BY AnsweredScan, ManyReplies
<1>2. Fits(MpsseCmds(b), 23, 0)
  BY SilentScan
<1>3. Fits(MpsseCmds(c), 23, 5)
  BY AnsweredScan, ManyReplies
<1>4. Fits(MpsseCmds(d), 23, 0)
  <2>1. MpsseCmds(d) = Prolog(6, 0 .. 4)
    BY DEF MpsseCmds, MpsseScan
  <2> DEFINE cmds == Prolog(6, 0 .. 4)
  <2>2. Fits(cmds, 6, 0)
    BY PrologFits
  <2> HIDE DEF cmds
  <2>3. Fits(cmds, 23, 0)
    BY <2>2 DEF Fits
  <2> QED
    BY <2>1, <2>3 DEF cmds
<1>5. mpsse_ir(ad, ir) = mpsse_send(ad, <<a>>) /\ mpsse_open(ad) = mpsse_send(ad, <<d>>)
  BY DEF mpsse_ir, mpsse_open
<1>6. mpsse_get_idcode(ad) = mpsse_recv(mpsse_send(ad, <<c>>))
  BY DEF mpsse_get_idcode
<1> HIDE DEF a, b, c, d
<1>7. Loaded(mpsse_send(ad, <<a>>), 2)
  BY <1>1, SendOne
<1>8. Loaded(mpsse_recv(mpsse_send(ad, <<a>>)), 0)
  BY <1>7, Received
<1>9. Loaded(mpsse_send(ad, <<b>>), 0) /\ Loaded(mpsse_send(ad, <<d>>), 0)
  BY <1>2, <1>4, SendOne
<1>10. Loaded(mpsse_send(ad, <<c>>), 5)
  BY <1>3, SendOne
<1>11. Loaded(mpsse_recv(mpsse_send(ad, <<c>>)), 0)
  BY <1>10, Received
<1>12. Loaded(mpsse_reset_cpu(ad), 0)
  <2> DEFINE f == mpsse_flush_output(ad)
  <2>1. Loaded(f, 0)
    BY Flushed
  <2> HIDE DEF f
  <2>2. Loaded([f EXCEPT !.chip = SystemReset(@)], 0)
    BY <2>1, LoadedStays
  <2> QED
    BY <2>2 DEF mpsse_reset_cpu, f
<1>13. Loaded(mpsse_send(ad, <<MpsseScan(1, {0}, 4, Bits(ir), FALSE)>>), 0)
  BY <1>9 DEF b
<1> QED
  BY <1>5, <1>6, <1>8, <1>9, <1>11, <1>12, <1>13

-----------------------------------------------------------------------------
(* Blocks of the MPSSE. *)
LEMMA PiecesFit ==
    ASSUME NEW q, IsSeq(q), NEW size \in Nat \ {0}
    PROVE  /\ IsSeq(Pieces(q, size)) /\ Len(Pieces(q, size)) \in Nat
           /\ \A k \in 1 .. Len(Pieces(q, size)) :
                 IsSeq(Pieces(q, size)[k]) /\ Len(Pieces(q, size)[k]) \in 0 .. size
<1> DEFINE n == (Len(q) + size - 1) \div size
           End(k) == IF size * k < Len(q) THEN size * k ELSE Len(q)
           p == [k \in 1 .. n |-> SubSeq(q, size * (k - 1) + 1, End(k))]
<1>1. Len(q) \in Nat
  BY SeqFacts
<1>2. n \in Nat
  <2> DEFINE x == Len(q) + size - 1
  <2>1. x \in Nat
    BY <1>1
  <2> HIDE DEF x
  <2>2. x \div size \in Nat
    BY <2>1
  <2> QED
    BY <2>2 DEF x
<1>3. Pieces(q, size) = p
  BY DEF Pieces
<1>4. p = [k \in 1 .. n |-> p[k]]
  OBVIOUS
<1>5. \A k \in 1 .. n : p[k] = SubSeq(q, size * (k - 1) + 1, End(k))
  OBVIOUS
<1> HIDE DEF n, p
<1>6. IsSeq(p) /\ Len(p) = n
  BY <1>2, <1>4, ListSeq
<1>7. ASSUME NEW k \in 1 .. n PROVE IsSeq(p[k]) /\ Len(p[k]) \in 0 .. size
  <2> DEFINE x == size * (k - 1)
             y == size * k
  <2>1. k \in Nat /\ k - 1 \in Nat /\ k = (k - 1) + 1
    BY <1>2
  <2>2. x \in Nat /\ y = x + size
    BY <2>1
  <2>3. p[k] = SubSeq(q, x + 1, End(k)) /\ End(k) = IF y < Len(q) THEN y ELSE Len(q)
    BY <1>5
  <2> HIDE DEF x, y, End
  <2>4. End(k) \in Nat /\ End(k) <= Len(q) /\ End(k) <= y /\ x + 1 \in Nat \ {0}
    BY <1>1, <2>2, <2>3
  <2> DEFINE b == End(k)
             a == x + 1
  <2>5. a \in Nat \ {0} /\ b \in Nat /\ b <= Len(q)
    BY <2>4
  <2>6. a <= b => b - a + 1 \in 0 .. size
    BY <2>2, <2>4
  <2> HIDE DEF a, b
  <2>7. IsSeq(SubSeq(q, a, b)) /\ Len(SubSeq(q, a, b)) = IF a <= b THEN b - a + 1 ELSE 0
    BY <2>5, PartSeq
  <2>8. p[k] = SubSeq(q, a, b)
    BY <2>3 DEF a, b
  <2> DEFINE part == SubSeq(q, a, b)
  <2> HIDE DEF part
  <2>9. IsSeq(part) /\ Len(part) \in 0 .. size
    <3>1. CASE a <= b
      BY <2>6, <2>7, <3>1 DEF part
    <3>2. CASE ~(a <= b)
      BY <2>7, <3>2 DEF part
    <3> QED
      BY <3>1, <3>2
  <2> QED
    BY <2>8, <2>9 DEF part
<1> QED
  BY <1>2, <1>3, <1>6, <1>7

LEMMA AddressesSeq ==
    ASSUME NEW addr, NEW n \in Nat
    PROVE  IsSeq(Addresses(addr, n)) /\ Len(Addresses(addr, n)) = n
<1> DEFINE q == [k \in 1 .. n |-> addr + 4 * (k - 1)]
<1>1. q = [k \in 1 .. n |-> q[k]] /\ Addresses(addr, n) = q
  BY DEF Addresses
<1> HIDE DEF q
<1> QED
  BY <1>1, ListSeq

LEMMA BlockSeq ==
    ASSUME NEW addr, NEW data, IsSeq(data)
    PROVE  IsSeq(Block(addr, data)) /\ Len(Block(addr, data)) = Len(data)
<1> DEFINE n == Len(data)
           q == [k \in 1 .. n |-> <<addr + 4 * (k - 1), data[k]>>]
<1>1. q = [k \in 1 .. n |-> q[k]] /\ Block(addr, data) = q /\ n \in Nat
  BY SeqFacts DEF Block
<1> HIDE DEF q, n
<1>2. IsSeq(q) /\ Len(q) = n
  BY <1>1, ListSeq
<1> QED
  BY <1>1, <1>2 DEF n

ReadingWord(env, t, addr) ==
    mpsse_send(t, <<WriteScan(Bits(OnCD_OMAR), 32, Bits(addr)),
                    WriteScan(Bits(OnCD_MEM), 0, {}), ReadScan(OnCD_OMDR, 32)>>)
SixEach(env, k, t) == k <= GroupWords => Loaded(t, 6 * k)
Any(env, k, e) == TRUE

ByWordRead == INSTANCE ForeachProofs WITH Step <- ReadingWord, Holds <- SixEach, On <- Any

LEMMA SilentWrites ==
    ASSUME NEW ird, NEW reglen \in {0, 32}, NEW value
    PROVE  Fits(MpsseCmds(WriteScan(ird, reglen, value)), 23, 0)
<1>1. 9 + reglen \in {4, 9, 32, 41} /\ 0 \in {0, 1, 6}
  OBVIOUS
<1> QED
  BY <1>1, SilentScan DEF WriteScan

(* A word is read by three scans, of which the last is answered. *)
LEMMA WordLoads ==
    ASSUME NEW t, NEW addr, NEW k \in 0 .. 9, Loaded(t, 6 * k)
    PROVE  Loaded(ReadingWord(0, t, addr), 6 * (k + 1))
<1> DEFINE a == WriteScan(Bits(OnCD_OMAR), 32, Bits(addr))
           b == WriteScan(Bits(OnCD_MEM), 0, {})
           c == ReadScan(OnCD_OMDR, 32)
           before == 6 * k
           after == 6 * (k + 1)
<1>1. Fits(MpsseCmds(a), 23, 0) /\ Fits(MpsseCmds(b), 23, 0) /\ Fits(MpsseCmds(c), 23, 6)
  BY SilentWrites, ReadScanFits
<1>2. before \in 0 .. 62 /\ after \in 0 .. 62 /\ before + 6 <= after
  OBVIOUS
<1>3. ReadingWord(0, t, addr) = mpsse_send(t, <<a, b, c>>)
  BY DEF ReadingWord
<1> HIDE DEF a, b, c, before, after
<1>4. Loaded(t, before)
  BY DEF before
<1>5. Loaded(mpsse_send(t, <<a, b, c>>), after)
  BY <1>1, <1>2, <1>4, SendThree
<1> QED
  BY <1>3, <1>5 DEF after

LEMMA GroupReads ==
    ASSUME NEW ad, Loaded(ad, 0), NEW addrs, IsSeq(addrs), Len(addrs) <= GroupWords
    PROVE  Loaded(ReadGroup(ad, addrs), 0)
<1> DEFINE n == Len(addrs)
           read == ByWordRead!Folded(0, ad, addrs)
           f == mpsse_flush_output(read)
           Fixed(t, i) == ShiftedDown(mpsse_fix_data(t, (i - 1) * t.fix.bytes_per_word), 9)
           New(t) == [t EXCEPT !.value = @ \o [i \in DOMAIN addrs |-> Fixed(t, i)], !.input = <<>>]
<1>1. n \in Nat /\ n <= 10
  BY SeqFacts DEF GroupWords
<1>2. SixEach(0, 0, ad)
  BY DEF SixEach
<1>3. ASSUME NEW k \in Nat, NEW x, NEW e, SixEach(0, k, x), Any(0, k + 1, e)
      PROVE  SixEach(0, k + 1, ReadingWord(0, x, e))
  <2> SUFFICES ASSUME k + 1 <= 10 PROVE Loaded(ReadingWord(0, x, e), 6 * (k + 1))
    BY DEF SixEach, GroupWords
  <2>1. k \in 0 .. 9 /\ k <= 10
    OBVIOUS
  <2>2. Loaded(x, 6 * k)
    BY <1>3, <2>1 DEF SixEach, GroupWords
  <2> QED
    BY <2>1, <2>2, WordLoads
<1>4. SixEach(0, n, read)
  <2>1. \A k \in 1 .. n : Any(0, k, addrs[k])
    BY DEF Any
  <2> QED
    BY <1>1, <1>2, <1>3, <2>1, ByWordRead!Preserved
<1> DEFINE w == 6 * n
<1>5. Loaded(read, w) /\ w \in 0 .. 62
  <2>2. n <= GroupWords
    OBVIOUS
  <2> HIDE DEF read, n
  <2>1. w \in 0 .. 62
    BY <1>1
  <2> QED
    BY <1>4, <2>1, <2>2 DEF SixEach
<1>6. ReadGroup(ad, addrs) = TheOne({New(t) : t \in {mpsse_flush_output(u) : u \in {read}}})
  BY DEF ReadGroup, ByWordRead!Folded, Foreach, ByWordRead!Foreach, ReadingWord, TheOne,
         ByWordRead!TheOne
<1> HIDE DEF read
<1>7. Loaded(f, 0)
  <2> HIDE DEF w
  <2> QED
    BY <1>5, Flushed
<1>8. {mpsse_flush_output(u) : u \in {read}} = {f}
  OBVIOUS
<1> HIDE DEF f, Fixed
<1>9. Loaded(New(f), 0)
  <2> DEFINE words == f.value \o [i \in DOMAIN addrs |-> Fixed(f, i)]
             g == [f EXCEPT !.value = words]
  <2>1. New(f) = [g EXCEPT !.input = <<>>]
    OBVIOUS
  <2>2. Loaded(g, 0)
    BY <1>7, LoadedStays
  <2> HIDE DEF g
  <2> QED
    BY <2>1, <2>2, LoadedStays
<1> HIDE DEF New
<1>10. {New(t) : t \in {f}} = {New(f)}
  OBVIOUS
<1>11. ReadGroup(ad, addrs) = TheOne({New(t) : t \in {f}})
  BY <1>6, <1>8
<1> QED
  BY <1>9, <1>10, <1>11, OneOfOne

ReadingGroup(env, ad, addrs) == ReadGroup(ad, addrs)
AtRest(env, k, ad) == Loaded(ad, 0)
IsGroup(env, k, addrs) == IsSeq(addrs) /\ Len(addrs) <= GroupWords

ByGroup == INSTANCE ForeachProofs WITH Step <- ReadingGroup, Holds <- AtRest, On <- IsGroup

LEMMA Selects ==
    ASSUME NEW ad, Loaded(ad, 0), NEW oscr_new
    PROVE  Loaded(Selecting(ad, oscr_new), 0)
<1>1. CASE oscr_new = ad.oscr
  BY <1>1 DEF Selecting
<1>2. CASE oscr_new # ad.oscr
  <2> DEFINE t == [ad EXCEPT !.oscr = oscr_new]
  <2>1. Loaded(t, 0)
    BY LoadedStays
  <2>2. Selecting(ad, oscr_new) = mpsse_oncd_write(t, Bits(OnCD_OSCR), 32, oscr_new)
    BY <1>2 DEF Selecting
  <2> HIDE DEF t
  <2> QED
    BY <2>1, <2>2, MpsseWrites
<1> QED
  BY <1>1, <1>2

LEMMA MpsseReadsBlock ==
    ASSUME NEW ad, Loaded(ad, 0), NEW addr, NEW n \in Nat
    PROVE  Loaded(mpsse_read_block(ad, addr, n), 0)
<1> DEFINE t == Selecting(ad, Readable(ad.oscr))
           f == mpsse_flush_output(t)
           first == [f EXCEPT !.value = <<>>]
           groups == Pieces(Addresses(addr, n), GroupWords)
<1>1. Loaded(t, 0)
  BY Selects
<1>2. mpsse_read_block(ad, addr, n) = ByGroup!Folded(0, [TheOne({f}) EXCEPT !.value = <<>>], groups)
  <2>1. {mpsse_flush_output(x) : x \in {t}} = {f}
    OBVIOUS
  <2> HIDE DEF t, f, groups
  <2>2. mpsse_read_block(ad, addr, n) =
            Foreach(ReadGroup, [TheOne({mpsse_flush_output(x) : x \in {t}}) EXCEPT !.value = <<>>], groups)
    BY DEF mpsse_read_block, t, groups
  <2>3. mpsse_read_block(ad, addr, n) = Foreach(ReadGroup, [TheOne({f}) EXCEPT !.value = <<>>], groups)
    BY <2>1, <2>2
  <2> QED
    BY <2>3 DEF ByGroup!Folded, Foreach, ByGroup!Foreach, ReadingGroup, TheOne, ByGroup!TheOne
<1> HIDE DEF t
<1>3. Loaded(f, 0)
  BY <1>1, Flushed
<1> HIDE DEF f
<1>4. Loaded(first, 0)
  BY <1>3, LoadedStays
<1>5. [TheOne({f}) EXCEPT !.value = <<>>] = first
  BY OneOfOne
<1>6. Len(groups) \in Nat /\ \A k \in 1 .. Len(groups) : IsGroup(0, k, groups[k])
  <2> DEFINE q == Addresses(addr, n)
  <2>1. IsSeq(q)
    BY AddressesSeq
  <2> HIDE DEF q
  <2>2. GroupWords \in Nat \ {0}
    BY DEF GroupWords
  <2>3. /\ Len(Pieces(q, GroupWords)) \in Nat
        /\ \A k \in 1 .. Len(Pieces(q, GroupWords)) :
              /\ IsSeq(Pieces(q, GroupWords)[k])
              /\ Len(Pieces(q, GroupWords)[k]) \in 0 .. GroupWords
    BY <2>1, <2>2, PiecesFit
  <2> QED
    BY <2>3, <2>2 DEF IsGroup, q
<1> HIDE DEF first, groups
<1>7. AtRest(0, Len(groups), ByGroup!Folded(0, first, groups))
  <2>1. AtRest(0, 0, first)
    BY <1>4 DEF AtRest
  <2>2. \A k \in Nat : \A x, e : AtRest(0, k, x) /\ IsGroup(0, k + 1, e)
                                    => AtRest(0, k + 1, ReadingGroup(0, x, e))
    BY GroupReads DEF AtRest, IsGroup, ReadingGroup
  <2> QED
    BY <1>6, <2>1, <2>2, ByGroup!Preserved
<1> QED
  BY <1>2, <1>5, <1>7 DEF AtRest

WritingPair(env, t, pair) ==
    mpsse_send(t, <<WriteScan(Bits(OnCD_OMAR), 32, Bits(pair[1])),
                    WriteScan(Bits(OnCD_OMDR), 32, pair[2]),
                    WriteScan(Bits(OnCD_MEM), 0, {})>>)

ByPair == INSTANCE ForeachProofs WITH Step <- WritingPair, Holds <- AtRest, On <- Any

LEMMA MpsseWritesPairs ==
    ASSUME NEW ad, Loaded(ad, 0), NEW pairs, Len(pairs) \in Nat
    PROVE  Loaded(mpsse_write_pairs(ad, pairs), 0)
<1> DEFINE t == Selecting(ad, Writable(ad.oscr))
<1>1. Loaded(t, 0)
  BY Selects
<1>2. mpsse_write_pairs(ad, pairs) = ByPair!Folded(0, t, pairs)
  BY DEF mpsse_write_pairs, ByPair!Folded, Foreach, ByPair!Foreach, WritingPair, TheOne,
         ByPair!TheOne
<1> HIDE DEF t
<1>3. ASSUME NEW x, NEW e, Loaded(x, 0) PROVE Loaded(WritingPair(0, x, e), 0)
  <2> DEFINE a == WriteScan(Bits(OnCD_OMAR), 32, Bits(e[1]))
             b == WriteScan(Bits(OnCD_OMDR), 32, e[2])
             c == WriteScan(Bits(OnCD_MEM), 0, {})
  <2>1. Fits(MpsseCmds(a), 23, 0) /\ Fits(MpsseCmds(b), 23, 0) /\ Fits(MpsseCmds(c), 23, 0)
    BY SilentWrites
  <2>2. WritingPair(0, x, e) = mpsse_send(x, <<a, b, c>>)
    BY DEF WritingPair
  <2> HIDE DEF a, b, c
  <2>3. 0 \in 0 .. 62 /\ 0 + 0 <= 0 /\ 0 \in Nat
    OBVIOUS
  <2>4. Loaded(mpsse_send(x, <<a, b, c>>), 0)
    BY <1>3, <2>1, <2>3, SendThree
  <2> QED
    BY <2>2, <2>4
<1>4. AtRest(0, Len(pairs), ByPair!Folded(0, t, pairs))
  <2>1. AtRest(0, 0, t)
    BY <1>1 DEF AtRest
  <2>2. \A k \in 1 .. Len(pairs) : Any(0, k, pairs[k])
    BY DEF Any
  <2>3. \A k \in Nat : \A x, e : AtRest(0, k, x) /\ Any(0, k + 1, e)
                                    => AtRest(0, k + 1, WritingPair(0, x, e))
    BY <1>3 DEF AtRest
  <2> QED
    BY <2>1, <2>2, <2>3, ByPair!Preserved
<1> QED
  BY <1>2, <1>4 DEF AtRest

-----------------------------------------------------------------------------
(* The other adapters.  What bitbang sends at once is at most 128 samples. *)
LEMMA BitbangSends ==
    ASSUME NEW kind, kind # "mpsse", NEW ad, Ready(kind, ad),
           NEW steps, IsSeq(steps), Len(steps) <= 63
    PROVE  Ready(kind, bitbang_send_recv(ad, steps))
<1> DEFINE done == Ticks(ad.chip, steps)
           value == {2 * k : k \in done.tdo} \cup {2 * k + 1 : k \in done.tdo}
           over == ad.over \/ 2 * Len(steps) + 1 > 128
           t == [ad EXCEPT !.chip = done.chip, !.value = value, !.over = over]
<1>1. bitbang_send_recv(ad, steps) = TheOne({t})
  BY DEF bitbang_send_recv
<1>2. over = FALSE
  BY SeqFacts DEF Ready
<1> HIDE DEF done, value, over
<1>3. Ready(kind, t)
  BY <1>2 DEF Ready, Fields
<1> HIDE DEF t
<1> QED
  BY <1>1, <1>3, OneOfOne

LEMMA StepsSeq ==
    ASSUME NEW path, IsSeq(path)
    PROVE  IsSeq(bitbang_step(path)) /\ Len(bitbang_step(path)) = Len(path)
<1> DEFINE n == Len(path)
           q == [k \in 1 .. n |-> Pins(path[k], TRUE)]
<1>1. q = [k \in 1 .. n |-> q[k]] /\ bitbang_step(path) = q /\ n \in Nat
  BY SeqFacts DEF bitbang_step
<1> HIDE DEF q, n
<1>2. IsSeq(q) /\ Len(q) = n
  BY <1>1, ListSeq
<1> QED
  BY <1>1, <1>2 DEF n

LEMMA BitsSeq ==
    ASSUME NEW n \in Nat, NEW bits
    PROVE  IsSeq(bitbang_bits(n, bits)) /\ Len(bitbang_bits(n, bits)) = n
<1> DEFINE q == [k \in 1 .. n |-> Pins(IF k = n THEN 1 ELSE 0, k - 1 \in bits)]
<1>1. q = [k \in 1 .. n |-> q[k]] /\ bitbang_bits(n, bits) = q
  BY DEF bitbang_bits
<1> HIDE DEF q
<1> QED
  BY <1>1, ListSeq

(* A walk to a Shift state, data, and a step away from it. *)
LEMMA WalkSeq ==
    ASSUME NEW path, IsSeq(path), NEW n \in Nat, NEW bits, Len(path) + n + 1 <= 63
    PROVE  LET steps == bitbang_step(path) \o bitbang_bits(n, bits) \o bitbang_step(<<1>>)
           IN  IsSeq(steps) /\ Len(steps) <= 63
<1> DEFINE p == bitbang_step(path)
           q == bitbang_bits(n, bits)
           r == bitbang_step(<<1>>)
<1>1. IsSeq(p) /\ Len(p) = Len(path) /\ IsSeq(q) /\ Len(q) = n
  BY StepsSeq, BitsSeq
<1>2. IsSeq(r) /\ Len(r) = 1
  <2>1. IsSeq(<<1>>) /\ Len(<<1>>) = 1
    BY OneSeq
  <2> QED
    BY <2>1, StepsSeq
<1> HIDE DEF p, q, r
<1>3. IsSeq(p \o q) /\ Len(p \o q) = Len(p) + Len(q)
  BY <1>1, BothSeq
<1>4. IsSeq((p \o q) \o r) /\ Len((p \o q) \o r) = Len(p \o q) + Len(r)
  BY <1>2, <1>3, BothSeq
<1>5. Len((p \o q) \o r) <= 63
  BY <1>1, <1>2, <1>3, <1>4, SeqFacts
<1> QED
  BY <1>4, <1>5 DEF p, q, r

LEMMA PathSeqs ==
    /\ IsSeq(<<1, 0, 0>>) /\ Len(<<1, 0, 0>>) = 3
    /\ IsSeq(<<1, 1, 0, 0>>) /\ Len(<<1, 1, 0, 0>>) = 4
    /\ IsSeq(<<1, 1, 1, 1, 1, 0>>) /\ Len(<<1, 1, 1, 1, 1, 0>>) = 6
    /\ IsSeq(<<1, 1, 1, 1, 1, 0, 1, 1, 0, 0>>) /\ Len(<<1, 1, 1, 1, 1, 0, 1, 1, 0, 0>>) = 10
<1>1. <<1, 0, 0>> \in Seq({0, 1}) /\ Len(<<1, 0, 0>>) = 3
  OBVIOUS
<1>2. <<1, 1, 0, 0>> \in Seq({0, 1}) /\ Len(<<1, 1, 0, 0>>) = 4
  OBVIOUS
<1>3. <<1, 1, 1, 1, 1, 0>> \in Seq({0, 1}) /\ Len(<<1, 1, 1, 1, 1, 0>>) = 6
  OBVIOUS
<1>4. <<1, 1, 1, 1, 1, 0, 1, 1, 0, 0>> \in Seq({0, 1}) /\ Len(<<1, 1, 1, 1, 1, 0, 1, 1, 0, 0>>) = 10
  OBVIOUS
<1> QED
  BY <1>1, <1>2, <1>3, <1>4 DEF IsSeq

LEMMA BitbangReads ==
    ASSUME NEW kind, NEW ad, Ready(kind, ad), NEW offset, NEW nbits
    PROVE  Ready(kind, bitbang_read(ad, offset, nbits))
  BY ReadyStays DEF bitbang_read

LEMMA TapData ==
    ASSUME NEW kind, kind # "mpsse", NEW ad, Ready(kind, ad), NEW nbits \in 0 .. 41, NEW bits
    PROVE  Ready(kind, tap_data(ad, nbits, bits))
<1> DEFINE path == <<1, 0, 0>>
           steps == bitbang_step(path) \o bitbang_bits(nbits, bits) \o bitbang_step(<<1>>)
           t == bitbang_send_recv(ad, steps)
<1>1. IsSeq(steps) /\ Len(steps) <= 63
  <2>1. IsSeq(path) /\ Len(path) = 3
    BY PathSeqs
  <2> HIDE DEF path
  <2>2. nbits \in Nat /\ Len(path) + nbits + 1 <= 63
    BY <2>1
  <2> QED
    BY <2>1, <2>2, WalkSeq
<1> HIDE DEF steps
<1>2. Ready(kind, t)
  BY <1>1, BitbangSends
<1> HIDE DEF t
<1>3. Ready(kind, bitbang_read(t, 6, nbits))
  BY <1>2, BitbangReads
<1> QED
  BY <1>3 DEF tap_data, t, steps, path

LEMMA BitbangReady ==
    ASSUME NEW kind, kind # "mpsse", NEW ad, Ready(kind, ad)
    PROVE  /\ \A ir : Ready(kind, tap_instr(ad, ir))
           /\ Ready(kind, bitbang_open(ad))
           /\ Ready(kind, bitbang_get_idcode(ad))
           /\ \A reg : Ready(kind, bitbang_oncd_read(ad, reg, 32))
           /\ \A ird, value : \A nbits \in {0, 32} :
                 Ready(kind, bitbang_oncd_write(ad, ird, nbits, value))
<1>1. ASSUME NEW ir PROVE Ready(kind, tap_instr(ad, ir))
  <2> DEFINE bits == Bits(ir)
             path == <<1, 1, 0, 0>>
             steps == bitbang_step(path) \o bitbang_bits(4, bits) \o bitbang_step(<<1>>)
             t == bitbang_send_recv(ad, steps)
  <2>1. IsSeq(steps) /\ Len(steps) <= 63
    <3>1. IsSeq(path) /\ Len(path) = 4
      BY PathSeqs
    <3> HIDE DEF path
    <3>2. 4 \in Nat /\ Len(path) + 4 + 1 <= 63
      BY <3>1
    <3> QED
      BY <3>1, <3>2, WalkSeq
  <2>2. tap_instr(ad, ir) = bitbang_read(t, 8, 4)
    BY DEF tap_instr
  <2> HIDE DEF steps
  <2>3. Ready(kind, t)
    BY <2>1, BitbangSends
  <2> HIDE DEF t
  <2> QED
    BY <2>2, <2>3, BitbangReads
<1>2. Ready(kind, bitbang_open(ad))
  <2> DEFINE path == <<1, 1, 1, 1, 1, 0>>
  <2>1. IsSeq(path) /\ Len(path) = 6
    BY PathSeqs
  <2>2. bitbang_open(ad) = bitbang_send_recv(ad, bitbang_step(path))
    BY DEF bitbang_open
  <2> HIDE DEF path
  <2>3. IsSeq(bitbang_step(path)) /\ Len(bitbang_step(path)) = Len(path)
    BY <2>1, StepsSeq
  <2> DEFINE steps == bitbang_step(path)
  <2> HIDE DEF steps
  <2>4. IsSeq(steps) /\ Len(steps) <= 63
    BY <2>1, <2>3 DEF steps
  <2> QED
    BY <2>2, <2>4, BitbangSends DEF steps
<1>3. Ready(kind, bitbang_get_idcode(ad))
  <2> DEFINE bits == Bits(TAP_IDCODE)
             path == <<1, 1, 1, 1, 1, 0, 1, 1, 0, 0>>
             steps == bitbang_step(path) \o bitbang_bits(4, bits) \o bitbang_step(<<1>>)
             t == bitbang_send_recv(ad, steps)
  <2>1. IsSeq(steps) /\ Len(steps) <= 63
    <3>1. IsSeq(path) /\ Len(path) = 10
      BY PathSeqs
    <3> HIDE DEF path
    <3>2. 4 \in Nat /\ Len(path) + 4 + 1 <= 63
      BY <3>1
    <3> QED
      BY <3>1, <3>2, WalkSeq
  <2>2. bitbang_get_idcode(ad) = tap_data(t, 32, {})
    BY DEF bitbang_get_idcode
  <2> HIDE DEF steps
  <2>3. Ready(kind, t)
    BY <2>1, BitbangSends
  <2> HIDE DEF t
  <2>4. 32 \in 0 .. 41
    OBVIOUS
  <2>5. \A bits1 : Ready(kind, tap_data(t, 32, bits1))
    BY <2>3, <2>4, TapData
  <2> QED
    BY <2>2, <2>5
<1>4. ASSUME NEW reg PROVE Ready(kind, bitbang_oncd_read(ad, reg, 32))
  <2> DEFINE bits == Command(reg, {READ}, {})
             t == tap_data(ad, 41, bits)
  <2>1. bitbang_oncd_read(ad, reg, 32) = [t EXCEPT !.value = ShiftedDown(@, 9)]
    <3>1. 9 + 32 = 41
      OBVIOUS
    <3> QED
      BY <3>1 DEF bitbang_oncd_read
  <2>2. Ready(kind, t)
    BY TapData
  <2> HIDE DEF t
  <2>3. Ready(kind, [t EXCEPT !.value = ShiftedDown(@, 9)])
    BY <2>2, ReadyStays
  <2> QED
    BY <2>1, <2>3
<1>5. ASSUME NEW ird, NEW value, NEW nbits \in {0, 32}
      PROVE  Ready(kind, bitbang_oncd_write(ad, ird, nbits, value))
  <2> DEFINE bits == ird \cup ShiftedUp(value, 9)
  <2>1. bitbang_oncd_write(ad, ird, nbits, value) = tap_data(ad, 9 + nbits, bits)
    BY DEF bitbang_oncd_write
  <2>2. 9 + nbits \in 0 .. 41
    OBVIOUS
  <2> HIDE DEF bits
  <2> QED
    BY <2>1, <2>2, TapData
<1> QED
  BY <1>1, <1>2, <1>3, <1>4, <1>5

LEMMA Scans ==
    ASSUME NEW kind, NEW ad, Ready(kind, ad), NEW there, NEW nbits, NEW bits, NEW back
    PROVE  Ready(kind, Scan(ad, there, nbits, bits, back))
<1> DEFINE done == Ticks(ad.chip, Path(there) \o DataBits(nbits, bits) \o Path(back))
           value == ShiftedDown(done.tdo \cap (0 .. Len(there) + nbits - 1), Len(there))
           u == [ad EXCEPT !.chip = done.chip]
           t == [ad EXCEPT !.chip = done.chip, !.value = value]
<1>1. Scan(ad, there, nbits, bits, back) = TheOne({t})
  BY DEF Scan
<1> HIDE DEF done, value
<1>2. t = [u EXCEPT !.value = value]
  OBVIOUS
<1>3. Ready(kind, u)
  BY ReadyStays
<1> HIDE DEF u
<1>4. Ready(kind, t)
  BY <1>2, <1>3, ReadyStays
<1> HIDE DEF t
<1> QED
  BY <1>1, <1>4, OneOfOne

LEMMA LptReady ==
    ASSUME NEW kind, NEW ad, Ready(kind, ad)
    PROVE  /\ \A nbits, bits : Ready(kind, WriteIR(ad, nbits, bits)) /\ Ready(kind, WriteDR(ad, nbits, bits))
           /\ \A ir : Ready(kind, set_ir(ad, ir))
           /\ Ready(kind, lpt_open(ad))
           /\ Ready(kind, lpt_get_idcode(ad))
           /\ \A reg, nbits : Ready(kind, lpt_oncd_read(ad, reg, nbits))
           /\ \A ird, nbits, value : Ready(kind, lpt_oncd_write(ad, ird, nbits, value))
<1>1. \A nbits, bits : Ready(kind, WriteIR(ad, nbits, bits)) /\ Ready(kind, WriteDR(ad, nbits, bits))
  BY Scans DEF WriteIR, WriteDR
<1>2. \A ir : Ready(kind, set_ir(ad, ir))
  BY <1>1 DEF set_ir
<1>3. Ready(kind, lpt_open(ad))
  BY ReadyStays DEF lpt_open
<1>4. Ready(kind, lpt_get_idcode(ad))
  <2> DEFINE t == [ad EXCEPT !.chip = Ticks(@, Path(<<1, 1, 1, 0>>)).chip]
  <2>1. Ready(kind, t)
    BY ReadyStays
  <2>2. lpt_get_idcode(ad) = set_dr(t, 32, {})
    BY DEF lpt_get_idcode
  <2> HIDE DEF t
  <2> QED
    BY <2>1, <2>2, Scans DEF set_dr
<1>5. ASSUME NEW len, NEW data PROVE Ready(kind, oncd_io(ad, len, data))
  <2> DEFINE t == WriteDR(ad, len + 1, (data \cap (0 .. 7)) \cup ShiftedUp(data \ (0 .. 7), 1))
  <2>1. Ready(kind, t)
    BY <1>1
  <2> HIDE DEF t
  <2>2. Ready(kind, [t EXCEPT !.value = (@ \cap (0 .. 7)) \cup ShiftedUp(ShiftedDown(@, 9), 8)])
    BY <2>1, ReadyStays
  <2> QED
    BY <2>2 DEF oncd_io, t
<1>6. ASSUME NEW reg, NEW nbits PROVE Ready(kind, lpt_oncd_read(ad, reg, nbits))
  <2> DEFINE t == oncd_io(ad, 8 + nbits, IRd(reg, {READ}))
  <2>1. Ready(kind, t)
    BY <1>5
  <2> HIDE DEF t
  <2>2. Ready(kind, [t EXCEPT !.value = ShiftedDown(@, 8)])
    BY <2>1, ReadyStays
  <2> QED
    BY <2>2 DEF lpt_oncd_read, t
<1>7. \A ird, nbits, value : Ready(kind, lpt_oncd_write(ad, ird, nbits, value))
  BY <1>5 DEF lpt_oncd_write
<1> QED
  BY <1>1, <1>2, <1>3, <1>4, <1>6, <1>7

-----------------------------------------------------------------------------
(* Packets for USB: no command touches the buffers of the host. *)
Progress(kind, k, r) == DOMAIN r = {"s", "addr", "reply"} /\ Ready(kind, r.s)
Executing(kind, r, cmd) == Obeyed(r, cmd)

ByCmd == INSTANCE ForeachProofs WITH Step <- Executing, Holds <- Progress, On <- Any

LEMMA LinesReady ==
    ASSUME NEW kind, NEW ad, Ready(kind, ad), NEW h
    PROVE  Ready(kind, ResetLines(ad, h))
<1> DEFINE t == IF IsActive(h, H_TRST) THEN lpt_open(Scan(ad, <<1, 1, 1, 1>>, 1, {0}, <<>>)) ELSE ad
           New(x) == IF IsActive(h, H_SYSRST) /\ ad.sysrst
                       THEN [x EXCEPT !.chip = SystemReset(@)] ELSE x
<1>1. ResetLines(ad, h) = TheOne({New(x) : x \in {t}})
  BY DEF ResetLines
<1>2. Ready(kind, t)
  <2>1. CASE IsActive(h, H_TRST)
    <3> DEFINE u == Scan(ad, <<1, 1, 1, 1>>, 1, {0}, <<>>)
    <3>1. Ready(kind, u)
      BY Scans
    <3>2. t = lpt_open(u)
      BY <2>1
    <3> HIDE DEF u, t
    <3> QED
      BY <3>1, <3>2, LptReady
  <2>2. CASE ~IsActive(h, H_TRST)
    BY <2>2
  <2> QED
    BY <2>1, <2>2
<1> HIDE DEF t
<1>3. Ready(kind, New(t))
  <2>1. Ready(kind, [t EXCEPT !.chip = SystemReset(@)])
    BY <1>2, ReadyStays
  <2> QED
    BY <1>2, <2>1
<1> HIDE DEF New
<1>4. {New(x) : x \in {t}} = {New(t)}
  OBVIOUS
<1> QED
  BY <1>1, <1>3, <1>4, OneOfOne

LEMMA ObeyedReady ==
    ASSUME NEW kind, NEW r, Progress(kind, 0, r), NEW cmd
    PROVE  Progress(kind, 0, Obeyed(r, cmd))
<1> DEFINE ad == r.s
           reg == RegOf(cmd.ird)
           which == cmd.h \cap {0, 1}
           reads == READ \in cmd.ird
           Ir(t) == [r EXCEPT !.s = t, !.reply = Append(@, t.value)]
           Dr(t) == [r EXCEPT !.s = t,
                              !.reply = IF reads /\ reg # OnCD_GO
                                          THEN Append(@, ShiftedDown(t.value, 9)) ELSE @]
           Word(c) == [s |-> [ad EXCEPT !.chip = c], addr |-> Next4(r.addr),
                       reply |-> IF reads THEN Append(r.reply, c.omdr) ELSE r.reply]
           ir == WriteIR(ResetLines(ad, cmd.h), 8, cmd.ird)
           dr == WriteDR(ResetLines(ad, cmd.h), 9 + Width(cmd.h), cmd.ird \cup ShiftedUp(cmd.data, 9))
           id == WriteDR(ad, 32, {})
           c0 == Access(ad.chip, r.addr, cmd.data, IF reads THEN {SlctMEM, RO} ELSE {SlctMEM})
           A == 7 \in cmd.h
           B == 7 \notin cmd.h /\ which = {}
           C == 7 \notin cmd.h /\ which = H_IDCODE /\ reg = TAP_IDCODE
           D == 7 \notin cmd.h /\ which # {} /\ reg = OnCD_OMAR
           E == 7 \notin cmd.h /\ which # {} /\ reg = OnCD_OMDR
           Sa == {Ir(t) : t \in {ir}}
           Sb == {Dr(t) : t \in {dr}}
           Sc == {Ir(t) : t \in {id}}
           Sd == {[r EXCEPT !.addr = cmd.data]}
           Se == {Word(c) : c \in {c0}}
<1>0. Obeyed(r, cmd) =
        TheOne(CASE A -> Sa [] B -> Sb [] C -> Sc [] D -> Sd [] E -> Se [] OTHER -> {r})
  BY DEF Obeyed
<1>1. Ready(kind, ad) /\ DOMAIN r = {"s", "addr", "reply"}
  BY DEF Progress
<1>2. \A t : Ready(kind, t) => Progress(kind, 0, Ir(t)) /\ Progress(kind, 0, Dr(t))
  BY <1>1 DEF Progress
<1>3. Ready(kind, ir) /\ Ready(kind, dr) /\ Ready(kind, id)
  <2> DEFINE u == ResetLines(ad, cmd.h)
  <2>1. Ready(kind, u)
    BY <1>1, LinesReady
  <2> HIDE DEF ad, u
  <2> QED
    BY <1>1, <2>1, LptReady DEF u
<1>4. \A c : Progress(kind, 0, Word(c))
  <2> TAKE c
  <2>1. Ready(kind, [ad EXCEPT !.chip = c])
    BY <1>1, ReadyStays
  <2> QED
    BY <2>1 DEF Progress
<1>5. Progress(kind, 0, [r EXCEPT !.addr = cmd.data])
  BY <1>1 DEF Progress
<1> HIDE DEF Ir, Dr, Word, ir, dr, id, c0, ad, reg, which, reads
<1>6. Sa = {Ir(ir)} /\ Sb = {Dr(dr)} /\ Sc = {Ir(id)} /\ Se = {Word(c0)}
  OBVIOUS
<1> HIDE DEF A, B, C, D, E, Sa, Sb, Sc, Se
<1>7. (CASE A -> Sa [] B -> Sb [] C -> Sc [] D -> Sd [] E -> Se [] OTHER -> {r})
        \in {Sa, Sb, Sc, Sd, Se, {r}}
  OBVIOUS
<1>8. \A x : Progress(kind, 0, x) => Progress(kind, 0, TheOne({x}))
  BY OneOfOne
<1> DEFINE P == (CASE A -> Sa [] B -> Sb [] C -> Sc [] D -> Sd [] E -> Se [] OTHER -> {r})
           d0 == [r EXCEPT !.addr = cmd.data]
<1>9. Obeyed(r, cmd) = TheOne(P) /\ P \in {Sa, Sb, Sc, {d0}, Se, {r}}
  BY <1>0, <1>7
<1> HIDE DEF P, d0
<1>10. Progress(kind, 0, d0)
  BY <1>5 DEF d0
<1>11. \E x : P = {x} /\ Progress(kind, 0, x)
  BY <1>2, <1>3, <1>4, <1>6, <1>9, <1>10
<1> QED
  BY <1>8, <1>9, <1>11

LEMMA PacketReady ==
    ASSUME NEW kind, kind # "mpsse", NEW ad, Ready(kind, ad),
           NEW cmds, IsSeq(cmds), NEW room, Len(cmds) <= room, room \in Nat
    PROVE  Ready(kind, Packet(ad, cmds, room))
<1> DEFINE r == [s |-> ad, addr |-> {}, reply |-> <<>>]
           done == ByCmd!Folded(kind, r, cmds)
           over == done.s.over \/ Len(cmds) > room
           t == [done.s EXCEPT !.value = done.reply, !.over = over]
<1>1. Packet(ad, cmds, room) = TheOne({t})
  BY DEF Packet, ByCmd!Folded, Foreach, ByCmd!Foreach, Executing, TheOne, ByCmd!TheOne
<1>2. Progress(kind, 0, r)
  BY DEF Progress
<1> HIDE DEF r
<1>3. Progress(kind, Len(cmds), done)
  <2>1. \A k \in 1 .. Len(cmds) : Any(kind, k, cmds[k])
    BY DEF Any
  <2>2. \A k \in Nat : \A x, e : Progress(kind, k, x) /\ Any(kind, k + 1, e)
                                    => Progress(kind, k + 1, Executing(kind, x, e))
    BY ObeyedReady DEF Progress, Executing
  <2>3. Len(cmds) \in Nat
    BY SeqFacts
  <2> QED
    BY <1>2, <2>1, <2>2, <2>3, ByCmd!Preserved
<1> HIDE DEF done
<1>4. Ready(kind, done.s)
  BY <1>3 DEF Progress
<1>5. over = FALSE
  BY <1>4, SeqFacts DEF Ready
<1> HIDE DEF over
<1>6. Ready(kind, t)
  BY <1>4, <1>5 DEF Ready, Fields
<1> HIDE DEF t
<1> QED
  BY <1>1, <1>6, OneOfOne

LEMMA TransferReady ==
    ASSUME NEW kind, kind # "mpsse", NEW ad, Ready(kind, ad),
           NEW cmds, IsSeq(cmds), NEW room \in Nat, Len(cmds) + 1 <= room
    PROVE  Ready(kind, Transferred(ad, cmds, room))
<1> DEFINE all == Append(cmds, Cmd(HDR(H_32), IRd(OnCD_OSCR, {READ}), {}))
           p == Packet(ad, all, room)
           New(t) == [t EXCEPT !.failed = @ \/ RDYm \notin t.value[Len(t.value)]]
<1>1. Transferred(ad, cmds, room) = TheOne({New(t) : t \in {p}})
  BY DEF Transferred
<1>2. IsSeq(all) /\ Len(all) = Len(cmds) + 1
  BY AppendSeq
<1> HIDE DEF all
<1>3. Ready(kind, p)
  BY <1>2, PacketReady
<1> HIDE DEF p
<1>4. Ready(kind, New(p))
  BY <1>3, ReadyStays
<1> HIDE DEF New
<1>5. {New(t) : t \in {p}} = {New(p)}
  OBVIOUS
<1> QED
  BY <1>1, <1>4, <1>5, OneOfOne

LEMMA OneCmd ==
    ASSUME NEW kind, kind # "mpsse", NEW ad, Ready(kind, ad), NEW cmd
    PROVE  Ready(kind, Packet(ad, <<cmd>>, 1)) /\ Ready(kind, Reply(Packet(ad, <<cmd>>, 1)))
<1> DEFINE cmds == <<cmd>>
           p == Packet(ad, cmds, 1)
<1>1. IsSeq(cmds) /\ Len(cmds) <= 1
  BY OneSeq
<1> HIDE DEF cmds
<1>2. Ready(kind, p)
  BY <1>1, PacketReady
<1>3. Ready(kind, Reply(p))
  <2> HIDE DEF p
  <2> QED
    BY <1>2, ReadyStays DEF Reply
<1> QED
  BY <1>2, <1>3 DEF cmds

LEMMA UsbReady ==
    ASSUME NEW kind, kind # "mpsse", NEW ad, Ready(kind, ad)
    PROVE  /\ \A bits, ir : Ready(kind, usb_ir(ad, bits, ir))
           /\ Ready(kind, usb_get_idcode(ad))
           /\ Ready(kind, usb_step_cpu(ad))
           /\ Ready(kind, usb_run_cpu(ad))
           /\ \A reg : Ready(kind, usb_oncd_read(ad, reg))
           /\ \A ird, value : Ready(kind, usb_oncd_write(ad, ird, value))
           /\ Ready(kind, usb_open(ad))
<1>1. \A bits, ir : Ready(kind, usb_ir(ad, bits, ir))
  BY OneCmd DEF usb_ir
<1>2. Ready(kind, usb_get_idcode(ad))
  <2> DEFINE t == usb_ir(ad, H_DEBUG, TAP_IDCODE)
  <2>1. Ready(kind, t)
    BY <1>1
  <2>2. usb_get_idcode(ad) = Reply(Packet(t, <<Cmd(HDR(H_32 \cup H_IDCODE), Bits(TAP_IDCODE), {})>>, 1))
    BY DEF usb_get_idcode
  <2> HIDE DEF t
  <2> QED
    BY <2>1, <2>2, OneCmd
<1>3. Ready(kind, usb_step_cpu(ad)) /\ Ready(kind, usb_run_cpu(ad))
  BY OneCmd DEF usb_step_cpu, usb_run_cpu
<1>4. \A reg : Ready(kind, usb_oncd_read(ad, reg))
  BY OneCmd DEF usb_oncd_read
<1>5. \A ird, value : Ready(kind, usb_oncd_write(ad, ird, value))
  BY OneCmd DEF usb_oncd_write
<1>6. Ready(kind, usb_open(ad))
  <2> DEFINE t == Packet(ad, <<Cmd(HDR(H_DEBUG \cup H_TRST), IRd(OnCD_MEM, {READ}), {})>>, 1)
  <2>1. Ready(kind, t)
    BY OneCmd
  <2>2. usb_open(ad) = Packet(t, <<Cmd(HIR(H_DEBUG \cup H_TRST \cup H_SYSRST), 0 .. 7, {})>>, 1)
    BY DEF usb_open
  <2> HIDE DEF t
  <2> QED
    BY <2>1, <2>2, OneCmd
<1> QED
  BY <1>1, <1>2, <1>3, <1>4, <1>5, <1>6

-----------------------------------------------------------------------------
(* The lengths of packets. *)
LEMMA PairOfCmds ==
    ASSUME NEW ad, NEW addr, NEW data
    PROVE  IsSeq(WriteCmds(ad, addr, data)) /\ Len(WriteCmds(ad, addr, data)) = 2
<1> DEFINE a == Cmd(HDR(H_32 \cup Transfer(ad, H_BLKWR)), Bits(OnCD_OMAR), Bits(addr))
           b == Cmd(HDR(H_32 \cup Transfer(ad, H_BLKEND)), Bits(OnCD_OMDR), data)
<1>1. WriteCmds(ad, addr, data) = <<a, b>>
  BY DEF WriteCmds
<1> HIDE DEF a, b
<1>2. <<a, b>> \in Seq({a, b}) /\ Len(<<a, b>>) = 2
  OBVIOUS
<1> QED
  BY <1>1, <1>2 DEF IsSeq

LEMMA WritesLength ==
    ASSUME NEW ad, NEW pairs, IsSeq(pairs)
    PROVE  IsSeq(AllWrites(ad, pairs)) /\ Len(AllWrites(ad, pairs)) = 2 * Len(pairs)
<1> DEFINE n == Len(pairs)
           q == [k \in 1 .. n |-> WriteCmds(ad, pairs[k][1], pairs[k][2])]
<1>1. q = [k \in 1 .. n |-> q[k]] /\ n \in Nat /\ DOMAIN pairs = 1 .. n
  BY SeqFacts
<1>2. AllWrites(ad, pairs) = Concat(q)
  BY <1>1 DEF AllWrites
<1>3. \A k \in 1 .. n : IsSeq(q[k]) /\ Len(q[k]) = 2
  BY PairOfCmds
<1> HIDE DEF q, n
<1>4. IsSeq(q) /\ Len(q) = n
  BY <1>1, ListSeq
<1>5. IsSeq(Concat(q)) /\ Len(Concat(q)) = 2 * Len(q)
  BY <1>3, <1>4, ConcatLength
<1> QED
  BY <1>2, <1>4, <1>5 DEF n

LEMMA UnlockedSeq ==
    ASSUME NEW base, NEW last
    PROVE  IsSeq(Unlocked(base, last)) /\ Len(Unlocked(base, last)) = 3
<1> DEFINE a == <<base + addr_odd, cmd_aa>>
           b == <<base + addr_even, cmd_55>>
           c == <<base + addr_odd, last>>
<1>1. Unlocked(base, last) = <<a, b, c>>
  BY DEF Unlocked
<1> HIDE DEF a, b, c
<1>2. <<a, b, c>> \in Seq({a, b, c}) /\ Len(<<a, b, c>>) = 3
  OBVIOUS
<1> QED
  BY <1>1, <1>2 DEF IsSeq

LEMMA UnlockedAnd ==
    ASSUME NEW base, NEW last, NEW x
    PROVE  IsSeq(Append(Unlocked(base, last), x)) /\ Len(Append(Unlocked(base, last), x)) = 4
<1> DEFINE q == Unlocked(base, last)
<1>1. IsSeq(q) /\ Len(q) = 3
  BY UnlockedSeq
<1> HIDE DEF q
<1>2. IsSeq(Append(q, x)) /\ Len(Append(q, x)) = 4
  <2>1. IsSeq(Append(q, x)) /\ Len(Append(q, x)) = Len(q) + 1
    BY <1>1, AppendSeq
  <2> QED
    BY <1>1, <2>1
<1> QED
  BY <1>2 DEF q

LEMMA ProgrammedLength ==
    ASSUME NEW base, NEW pairs, IsSeq(pairs)
    PROVE  /\ IsSeq(Programmed32(base, pairs)) /\ Len(Programmed32(base, pairs)) = 4 * Len(pairs)
           /\ IsSeq(Programmed64(base, pairs)) /\ Len(Programmed64(base, pairs)) = 4 * Len(pairs)
<1> DEFINE n == Len(pairs)
           p == [k \in 1 .. n |-> Append(Unlocked(base, cmd_a0), pairs[k])]
           q == [k \in 1 .. n |-> Append(Unlocked(base + 4 * ((pairs[k][1] \div 4) % 2), cmd_a0),
                                         pairs[k])]
<1>1. p = [k \in 1 .. n |-> p[k]] /\ q = [k \in 1 .. n |-> q[k]] /\ n \in Nat /\ DOMAIN pairs = 1 .. n
  BY SeqFacts
<1>2. Programmed32(base, pairs) = Concat(p) /\ Programmed64(base, pairs) = Concat(q)
  BY <1>1 DEF Programmed32, Programmed64
<1>3. \A k \in 1 .. n : IsSeq(p[k]) /\ Len(p[k]) = 4
  BY UnlockedAnd
<1>4. \A k \in 1 .. n : IsSeq(q[k]) /\ Len(q[k]) = 4
  BY UnlockedAnd
<1> HIDE DEF p, q, n
<1>5. IsSeq(p) /\ Len(p) = n /\ IsSeq(q) /\ Len(q) = n
  BY <1>1, ListSeq
<1>6. IsSeq(Concat(p)) /\ Len(Concat(p)) = 4 * Len(p)
  BY <1>3, <1>5, ConcatLength
<1>7. IsSeq(Concat(q)) /\ Len(Concat(q)) = 4 * Len(q)
  BY <1>4, <1>5, ConcatLength
<1> QED
  BY <1>2, <1>5, <1>6, <1>7 DEF n

LEMMA ProtectSeqs ==
    ASSUME NEW base
    PROVE  /\ IsSeq(Unprotect(base)) /\ Len(Unprotect(base)) = 6
           /\ IsSeq(Protect(base)) /\ Len(Protect(base)) = 3
<1> DEFINE p == Unlocked(base, {7, 15, 23, 31})
           q == Unlocked(base, {5, 13, 21, 29})
<1>1. Unprotect(base) = p \o q /\ Protect(base) = Unlocked(base, cmd_a0)
  BY DEF Unprotect, Protect
<1>2. IsSeq(p) /\ Len(p) = 3 /\ IsSeq(q) /\ Len(q) = 3
  BY UnlockedSeq
<1> HIDE DEF p, q
<1>3. IsSeq(p \o q) /\ Len(p \o q) = 6
  <2>1. IsSeq(p \o q) /\ Len(p \o q) = Len(p) + Len(q)
    BY <1>2, BothSeq
  <2> QED
    BY <1>2, <2>1
<1> QED
  BY <1>1, <1>3, UnlockedSeq

LEMMA WritesReady ==
    ASSUME NEW kind, kind # "mpsse", NEW ad, Ready(kind, ad), NEW t, NEW pairs, IsSeq(pairs),
           NEW room \in Nat, 2 * Len(pairs) + 1 <= room
    PROVE  Ready(kind, Transferred(ad, AllWrites(t, pairs), room))
<1> DEFINE cmds == AllWrites(t, pairs)
<1>1. IsSeq(cmds) /\ Len(cmds) = 2 * Len(pairs)
  BY WritesLength
<1> HIDE DEF cmds
<1>2. Len(cmds) + 1 <= room
  BY <1>1
<1>3. Ready(kind, Transferred(ad, cmds, room))
  BY <1>1, <1>2, TransferReady
<1> QED
  BY <1>3 DEF cmds

LEMMA UsbWritesNwords ==
    ASSUME NEW kind, kind # "mpsse", NEW ad, Ready(kind, ad), NEW pairs, IsSeq(pairs)
    PROVE  Ready(kind, usb_write_nwords(ad, pairs))
<1>1. 2 * Len(pairs) + 1 \in Nat /\ 2 * Len(pairs) + 1 <= 2 * Len(pairs) + 1
  BY SeqFacts
<1>2. Ready(kind, Transferred(ad, AllWrites(ad, pairs), 2 * Len(pairs) + 1))
  BY <1>1, WritesReady
<1> QED
  BY <1>2 DEF usb_write_nwords

LEMMA UsbPrograms64 ==
    ASSUME NEW kind, kind # "mpsse", NEW ad, Ready(kind, ad), NEW base, NEW pairs, IsSeq(pairs)
    PROVE  Ready(kind, usb_program_block64(ad, base, pairs))
<1> DEFINE all == Programmed64(base, pairs)
           room == 8 * Len(pairs) + 1
<1>1. IsSeq(all) /\ Len(all) = 4 * Len(pairs) /\ Len(pairs) \in Nat
  BY ProgrammedLength, SeqFacts
<1> HIDE DEF all
<1>2. room \in Nat /\ 2 * Len(all) + 1 <= room
  BY <1>1
<1> HIDE DEF room
<1>3. Ready(kind, Transferred(ad, AllWrites(ad, all), room))
  BY <1>1, <1>2, WritesReady
<1> QED
  BY <1>3 DEF usb_program_block64, all, room

LEMMA UsbPrograms32 ==
    ASSUME NEW kind, kind # "mpsse", NEW ad, Ready(kind, ad), NEW base, NEW pairs, IsSeq(pairs)
    PROVE  Ready(kind, usb_program_block32(ad, base, pairs))
<1> DEFINE n == Len(pairs)
           delay == <<Cmd(HDR(H_32), Bits(OnCD_OMDR), {})>>
           words == [k \in 1 .. n |-> AllWrites(ad, Programmed32(base, <<pairs[k]>>)) \o delay]
           room == 9 * n + 1
<1>1. n \in Nat /\ DOMAIN pairs = 1 .. n /\ words = [k \in 1 .. n |-> words[k]]
  BY SeqFacts
<1>2. usb_program_block32(ad, base, pairs) = Transferred(ad, Concat(words), room)
  BY <1>1 DEF usb_program_block32
<1>3. IsSeq(delay) /\ Len(delay) = 1
  BY OneSeq
<1>4. ASSUME NEW k \in 1 .. n PROVE IsSeq(words[k]) /\ Len(words[k]) = 9
  <2> DEFINE pair == <<pairs[k]>>
             four == Programmed32(base, pair)
             cmds == AllWrites(ad, four)
  <2>1. words[k] = cmds \o delay
    OBVIOUS
  <2>2. IsSeq(pair) /\ Len(pair) = 1
    BY OneSeq
  <2> HIDE DEF pair, delay, words
  <2>3. IsSeq(four) /\ Len(four) = 4
    <3>1. IsSeq(four) /\ Len(four) = 4 * Len(pair)
      BY <2>2, ProgrammedLength
    <3> QED
      BY <2>2, <3>1
  <2> HIDE DEF four
  <2>4. IsSeq(cmds) /\ Len(cmds) = 8
    <3>1. IsSeq(cmds) /\ Len(cmds) = 2 * Len(four)
      BY <2>3, WritesLength
    <3> QED
      BY <2>3, <3>1
  <2> HIDE DEF cmds
  <2>5. IsSeq(cmds \o delay) /\ Len(cmds \o delay) = 9
    <3>1. IsSeq(cmds \o delay) /\ Len(cmds \o delay) = Len(cmds) + Len(delay)
      BY <1>3, <2>4, BothSeq
    <3> QED
      BY <1>3, <2>4, <3>1
  <2> QED
    BY <2>1, <2>5
<1> HIDE DEF words, n
<1>5. IsSeq(words) /\ Len(words) = n
  BY <1>1, ListSeq
<1> DEFINE cmds == Concat(words)
<1>6. IsSeq(cmds) /\ Len(cmds) = 9 * n
  BY <1>4, <1>5, ConcatLength
<1> HIDE DEF cmds
<1>7. room \in Nat /\ Len(cmds) + 1 <= room
  BY <1>1, <1>6
<1> HIDE DEF room
<1>8. Ready(kind, Transferred(ad, cmds, room))
  BY <1>6, <1>7, TransferReady
<1> QED
  BY <1>2, <1>8 DEF cmds

LEMMA UsbProgramsPage ==
    ASSUME NEW kind, kind # "mpsse", NEW ad, Ready(kind, ad), NEW base, NEW pairs, IsSeq(pairs)
    PROVE  /\ Ready(kind, usb_program_block32_unprotect(ad, base, pairs))
           /\ Ready(kind, usb_program_block32_protect(ad, base, pairs))
<1> DEFINE room == 18 + 2 * Len(pairs) + 1
           un == Unprotect(base)
           pr == Protect(base)
           t == Transferred(ad, AllWrites(ad, un), room)
           u == Transferred(ad, AllWrites(ad, pr), room)
<1>1. IsSeq(un) /\ Len(un) = 6 /\ IsSeq(pr) /\ Len(pr) = 3
  BY ProtectSeqs
<1> HIDE DEF un, pr
<1>2. /\ room \in Nat /\ 2 * Len(un) + 1 <= room /\ 2 * Len(pr) + 1 <= room
      /\ 2 * Len(pairs) + 1 <= room
  BY <1>1, SeqFacts
<1> HIDE DEF room
<1>3. Ready(kind, t) /\ Ready(kind, u)
  BY <1>1, <1>2, WritesReady
<1> HIDE DEF t, u
<1>4. /\ Ready(kind, Transferred(t, AllWrites(ad, pairs), room))
      /\ Ready(kind, Transferred(u, AllWrites(ad, pairs), room))
  BY <1>2, <1>3, WritesReady
<1> QED
  BY <1>4 DEF usb_program_block32_unprotect, usb_program_block32_protect, t, u, un, pr, room

LEMMA BlockCmdsLength ==
    ASSUME NEW ad, NEW h, NEW ird, NEW addr, NEW data, IsSeq(data)
    PROVE  /\ IsSeq(BlockCmds(ad, h, ird, addr, data))
           /\ Len(BlockCmds(ad, h, ird, addr, data)) = Len(data) + 1
<1> DEFINE n == Len(data)
           p == <<Cmd(HDR(H_32 \cup Transfer(ad, h)), Bits(OnCD_OMAR), Bits(addr))>>
           q == [k \in 1 .. n |->
                   Cmd(HDR(H_32 \cup Transfer(ad, IF k < n THEN h ELSE H_BLKEND)), ird, data[k])]
<1>1. BlockCmds(ad, h, ird, addr, data) = p \o q /\ q = [k \in 1 .. n |-> q[k]] /\ n \in Nat
  BY SeqFacts DEF BlockCmds
<1>2. IsSeq(p) /\ Len(p) = 1
  BY OneSeq
<1> HIDE DEF p, q, n
<1>3. IsSeq(q) /\ Len(q) = n
  BY <1>1, ListSeq
<1>4. IsSeq(p \o q) /\ Len(p \o q) = n + 1
  <2>1. IsSeq(p \o q) /\ Len(p \o q) = Len(p) + Len(q)
    BY <1>2, <1>3, BothSeq
  <2> QED
    BY <1>1, <1>2, <1>3, <2>1
<1> QED
  BY <1>1, <1>4 DEF n

LEMMA UsbBlocks ==
    ASSUME NEW kind, kind # "mpsse", NEW ad, Ready(kind, ad), NEW addr
    PROVE  /\ \A data : IsSeq(data) => Ready(kind, usb_write_block(ad, addr, data))
           /\ \A n \in Nat : Ready(kind, usb_read_block(ad, addr, n))
<1>1. ASSUME NEW h, NEW ird, NEW data, IsSeq(data)
      PROVE  Ready(kind, Transferred(ad, BlockCmds(ad, h, ird, addr, data), Len(data) + 2))
  <2> DEFINE cmds == BlockCmds(ad, h, ird, addr, data)
             room == Len(data) + 2
  <2>1. IsSeq(cmds) /\ Len(cmds) = Len(data) + 1
    BY <1>1, BlockCmdsLength
  <2> HIDE DEF cmds
  <2>2. room \in Nat /\ Len(cmds) + 1 <= room
    BY <1>1, <2>1, SeqFacts
  <2> HIDE DEF room
  <2>3. Ready(kind, Transferred(ad, cmds, room))
    BY <2>1, <2>2, TransferReady
  <2> QED
    BY <2>3 DEF cmds, room
<1>2. \A data : IsSeq(data) => Ready(kind, usb_write_block(ad, addr, data))
  BY <1>1 DEF usb_write_block
<1>3. ASSUME NEW n \in Nat PROVE Ready(kind, usb_read_block(ad, addr, n))
  <2> DEFINE data == [k \in 1 .. n |-> {}]
             t == Transferred(ad, BlockCmds(ad, H_BLKRD, IRd(OnCD_OMDR, {READ}), addr, data), n + 2)
  <2>1. data = [k \in 1 .. n |-> data[k]]
    OBVIOUS
  <2>2. usb_read_block(ad, addr, n) = [t EXCEPT !.value = SubSeq(@, 1, n)]
    BY DEF usb_read_block
  <2> HIDE DEF data
  <2>3. IsSeq(data) /\ Len(data) = n
    BY <2>1, ListSeq
  <2>4. Ready(kind, t)
    BY <1>1, <2>3
  <2> HIDE DEF t
  <2>5. Ready(kind, [t EXCEPT !.value = SubSeq(@, 1, n)])
    BY <2>4, ReadyStays
  <2> QED
    BY <2>2, <2>5
<1> QED
  BY <1>2, <1>3

-----------------------------------------------------------------------------
(* The table of functions. *)
LEMMA WriteReady ==
    ASSUME NEW kind \in Kinds, NEW ad, Ready(kind, ad), NEW value, NEW reg, NEW flags,
           NEW nbits \in {0, 32}
    PROVE  Ready(kind, oncd_write(ad, value, reg, flags, nbits))
<1>1. ad.kind = kind
  BY DEF Ready
<1> DEFINE ird == IRd(reg, flags)
<1> HIDE DEF ird
<1>2. CASE kind = "mpsse"
  <2>1. Loaded(ad, 0)
    BY <1>2 DEF Ready
  <2>2. oncd_write(ad, value, reg, flags, nbits) = mpsse_oncd_write(ad, ird, nbits, value)
    BY <1>1, <1>2 DEF oncd_write, IsUsb, ird
  <2> QED
    BY <1>2, <2>1, <2>2, MpsseWrites, ReadyMpsse
<1>3. CASE kind = "bitbang"
  <2>1. oncd_write(ad, value, reg, flags, nbits) = bitbang_oncd_write(ad, ird, nbits, value)
    BY <1>1, <1>3 DEF oncd_write, IsUsb, ird
  <2>2. kind # "mpsse"
    BY <1>3
  <2> QED
    BY <2>1, <2>2, BitbangReady
<1>4. CASE kind = "lpt"
  <2>1. oncd_write(ad, value, reg, flags, nbits) = lpt_oncd_write(ad, ird, nbits, value)
    BY <1>1, <1>4 DEF oncd_write, IsUsb, ird
  <2> QED
    BY <2>1, LptReady
<1>5. CASE kind \in {"usb", "usb_single"}
  <2>1. oncd_write(ad, value, reg, flags, nbits) = usb_oncd_write(ad, ird, value)
    BY <1>1, <1>5 DEF oncd_write, IsUsb, ird
  <2>2. kind # "mpsse"
    BY <1>5
  <2> QED
    BY <2>1, <2>2, UsbReady
<1> QED
  BY <1>2, <1>3, <1>4, <1>5 DEF Kinds

LEMMA ReadReady ==
    ASSUME NEW kind \in Kinds, NEW ad, Ready(kind, ad), NEW reg
    PROVE  Ready(kind, oncd_read(ad, reg, 32))
<1>1. ad.kind = kind
  BY DEF Ready
<1>2. CASE kind = "mpsse"
  <2>1. Loaded(ad, 0)
    BY <1>2 DEF Ready
  <2>2. oncd_read(ad, reg, 32) = mpsse_oncd_read(ad, reg, 32)
    BY <1>1, <1>2 DEF oncd_read, IsUsb
  <2> QED
    BY <1>2, <2>1, <2>2, MpsseReads, ReadyMpsse
<1>3. CASE kind = "bitbang"
  <2>1. oncd_read(ad, reg, 32) = bitbang_oncd_read(ad, reg, 32)
    BY <1>1, <1>3 DEF oncd_read, IsUsb
  <2>2. kind # "mpsse"
    BY <1>3
  <2> QED
    BY <2>1, <2>2, BitbangReady
<1>4. CASE kind = "lpt"
  <2>1. oncd_read(ad, reg, 32) = lpt_oncd_read(ad, reg, 32)
    BY <1>1, <1>4 DEF oncd_read, IsUsb
  <2> QED
    BY <2>1, LptReady
<1>5. CASE kind \in {"usb", "usb_single"}
  <2>1. oncd_read(ad, reg, 32) = usb_oncd_read(ad, reg)
    BY <1>1, <1>5 DEF oncd_read, IsUsb
  <2>2. kind # "mpsse"
    BY <1>5
  <2> QED
    BY <2>1, <2>2, UsbReady
<1> QED
  BY <1>2, <1>3, <1>4, <1>5 DEF Kinds

(* What target.c asks for: words, or commands without one. *)
IsReq(r) ==
    \/ r.op \in {"read", "get", "put"}
    \/ r.op = "write" /\ r.nbits \in {0, 32}

LEMMA ServeReady ==
    ASSUME NEW kind \in Kinds, NEW ad, Ready(kind, ad), NEW r, IsReq(r)
    PROVE  Ready(kind, Serve(ad, r))
<1>1. CASE r.op = "write"
  <2> DEFINE t == oncd_write(ad, r.value, r.reg, r.flags, r.nbits)
             u == [t EXCEPT !.value = ad.value]
  <2>1. Serve(ad, r) = TheOne({u})
    BY <1>1 DEF Serve
  <2>2. r.nbits \in {0, 32}
    BY <1>1 DEF IsReq
  <2>3. Ready(kind, t)
    BY <2>2, WriteReady
  <2> HIDE DEF t
  <2>4. Ready(kind, u)
    BY <2>3, ReadyStays
  <2> HIDE DEF u
  <2> QED
    BY <2>1, <2>4, OneOfOne
<1>2. CASE r.op = "read"
  <2> DEFINE t == oncd_read(ad, r.reg, 32)
             u == [t EXCEPT !.value = Append(ad.value, @)]
  <2>1. Serve(ad, r) = TheOne({u})
    BY <1>2 DEF Serve
  <2>3. Ready(kind, t)
    BY ReadReady
  <2> HIDE DEF t
  <2>4. Ready(kind, u)
    BY <2>3, ReadyStays
  <2> HIDE DEF u
  <2> QED
    BY <2>1, <2>4, OneOfOne
<1>3. CASE r.op = "get"
  <2> DEFINE t == oncd_read(ad, OnCD_OSCR, 32)
             New(x) == [x EXCEPT !.oscr = x.value, !.value = ad.value,
                                 !.failed = @ \/ (r.awaits /\ RDYm \notin x.value)]
  <2>1. Serve(ad, r) = TheOne({New(x) : x \in {t}})
    BY <1>3 DEF Serve
  <2>3. Ready(kind, t)
    BY ReadReady
  <2> HIDE DEF t
  <2>4. Ready(kind, New(t))
    <3> DEFINE failed == t.failed \/ (r.awaits /\ RDYm \notin t.value)
               a == [t EXCEPT !.oscr = t.value]
               b == [a EXCEPT !.value = ad.value]
               c == [b EXCEPT !.failed = failed]
    <3>1. New(t) = c
      OBVIOUS
    <3>2. Ready(kind, a)
      BY <2>3, ReadyStays
    <3> HIDE DEF a, failed
    <3>3. Ready(kind, b)
      BY <3>2, ReadyStays
    <3> HIDE DEF b
    <3>4. Ready(kind, c)
      BY <3>3, ReadyStays
    <3> QED
      BY <3>1, <3>4
  <2> HIDE DEF New
  <2>5. {New(x) : x \in {t}} = {New(t)}
    OBVIOUS
  <2> QED
    BY <2>1, <2>4, <2>5, OneOfOne
<1>4. CASE r.op = "put"
  <2> DEFINE new == (ad.oscr \cup r.on) \ r.off
             Put(x) == IF r.lazy /\ x = ad.oscr THEN ad
                       ELSE [oncd_write([ad EXCEPT !.oscr = x], x, OnCD_OSCR, {}, 32)
                               EXCEPT !.value = ad.value]
  <2>1. Serve(ad, r) = TheOne({Put(x) : x \in {new}})
    BY <1>4 DEF Serve
  <2> HIDE DEF new
  <2>2. Ready(kind, Put(new))
    <3> DEFINE a == [ad EXCEPT !.oscr = new]
               b == oncd_write(a, new, OnCD_OSCR, {}, 32)
    <3>1. Ready(kind, a)
      BY ReadyStays
    <3>2. Put(new) = ad \/ Put(new) = [b EXCEPT !.value = ad.value]
      OBVIOUS
    <3> HIDE DEF a, Put
    <3>3. Ready(kind, b)
      BY <3>1, WriteReady
    <3> HIDE DEF b
    <3>4. Ready(kind, [b EXCEPT !.value = ad.value])
      BY <3>3, ReadyStays
    <3> QED
      BY <3>2, <3>4
  <2> HIDE DEF Put
  <2>3. {Put(x) : x \in {new}} = {Put(new)}
    OBVIOUS
  <2> QED
    BY <2>1, <2>2, <2>3, OneOfOne
<1> QED
  BY <1>1, <1>2, <1>3, <1>4 DEF IsReq

Serving(kind, ad, r) == Serve(ad, r)
StaysReady(kind, k, ad) == Ready(kind, ad)
IsRequest(kind, k, r) == IsReq(r)

ByRequest == INSTANCE ForeachProofs WITH Step <- Serving, Holds <- StaysReady, On <- IsRequest

AreReqs(reqs) == IsSeq(reqs) /\ \A k \in 1 .. Len(reqs) : IsReq(reqs[k])

LEMMA OncdReady ==
    ASSUME NEW kind \in Kinds, NEW ad, Ready(kind, ad), NEW reqs, AreReqs(reqs)
    PROVE  Ready(kind, Oncd(ad, reqs))
<1> DEFINE t == [ad EXCEPT !.value = <<>>]
<1>1. Oncd(ad, reqs) = ByRequest!Folded(kind, t, reqs)
  BY DEF Oncd, ByRequest!Folded, Foreach, ByRequest!Foreach, Serving, TheOne, ByRequest!TheOne
<1>2. Ready(kind, t)
  BY ReadyStays
<1> HIDE DEF t
<1>3. StaysReady(kind, Len(reqs), ByRequest!Folded(kind, t, reqs))
  <2>1. StaysReady(kind, 0, t)
    BY <1>2 DEF StaysReady
  <2>2. Len(reqs) \in Nat /\ \A k \in 1 .. Len(reqs) : IsRequest(kind, k, reqs[k])
    BY SeqFacts DEF AreReqs, IsRequest
  <2>3. \A k \in Nat : \A x, e : StaysReady(kind, k, x) /\ IsRequest(kind, k + 1, e)
                                    => StaysReady(kind, k + 1, Serving(kind, x, e))
    BY ServeReady DEF StaysReady, IsRequest, Serving
  <2> QED
    BY <2>1, <2>2, <2>3, ByRequest!Preserved
<1> QED
  BY <1>1, <1>3 DEF StaysReady

-----------------------------------------------------------------------------
(* Lists of requests. *)
LEMMA ReqsOne ==
    ASSUME NEW r, IsReq(r)
    PROVE  AreReqs(<<r>>)
<1> DEFINE q == <<r>>
<1>1. IsSeq(q) /\ Len(q) = 1 /\ q[1] = r /\ 1 .. 1 = {1}
  BY OneSeq
<1> HIDE DEF q
<1>2. AreReqs(q)
  BY <1>1 DEF AreReqs
<1> QED
  BY <1>2 DEF q

LEMMA ReqsBoth ==
    ASSUME NEW p, NEW q, AreReqs(p), AreReqs(q)
    PROVE  AreReqs(p \o q)
<1> DEFINE m == Len(p)
           n == Len(q)
           pq == p \o q
<1>1. IsSeq(p) /\ IsSeq(q)
  BY DEF AreReqs
<1>2. /\ IsSeq(pq) /\ Len(pq) = m + n /\ m \in Nat /\ n \in Nat
      /\ \A k \in 1 .. m : pq[k] = p[k]
      /\ \A k \in 1 .. n : pq[m + k] = q[k]
  BY <1>1, BothSeq, SeqFacts
<1>3. /\ \A k \in 1 .. m : IsReq(p[k])
      /\ \A k \in 1 .. n : IsReq(q[k])
  BY DEF AreReqs
<1> HIDE DEF m, n, pq
<1>4. ASSUME NEW k \in 1 .. m + n PROVE IsReq(pq[k])
  <2>1. CASE k <= m
    <3>1. k \in 1 .. m
      BY <1>2, <2>1
    <3> QED
      BY <1>2, <1>3, <3>1
  <2>2. CASE ~(k <= m)
    <3> DEFINE j == k - m
    <3>1. j \in 1 .. n /\ m + j = k
      BY <1>2, <2>2
    <3> HIDE DEF j
    <3>2. pq[m + j] = q[j]
      BY <1>2, <3>1
    <3> QED
      BY <1>3, <3>1, <3>2
  <2> QED
    BY <2>1, <2>2
<1>5. AreReqs(pq)
  BY <1>2, <1>4 DEF AreReqs
<1> QED
  BY <1>5 DEF pq

JoinedReqs(env, k, reqs) == AreReqs(reqs)

ByReqs == INSTANCE ForeachProofs WITH Step <- Joined, Holds <- JoinedReqs, On <- JoinedReqs

LEMMA ReqsConcat ==
    ASSUME NEW lists, Len(lists) \in Nat, \A k \in 1 .. Len(lists) : AreReqs(lists[k])
    PROVE  AreReqs(Concat(lists))
<1>1. Concat(lists) = ByReqs!Folded(0, <<>>, lists)
  BY DEF ByReqs!Folded, Concat, Foreach, ByReqs!Foreach, Joined, TheOne, ByReqs!TheOne
<1>2. AreReqs(<<>>)
  <2>1. 1 .. 0 = {}
    OBVIOUS
  <2> QED
    BY <2>1, EmptySeq DEF AreReqs
<1>3. JoinedReqs(0, Len(lists), ByReqs!Folded(0, <<>>, lists))
  <2>1. JoinedReqs(0, 0, <<>>) /\ \A k \in 1 .. Len(lists) : JoinedReqs(0, k, lists[k])
    BY <1>2 DEF JoinedReqs
  <2>2. \A k \in Nat : \A x, e : JoinedReqs(0, k, x) /\ JoinedReqs(0, k + 1, e)
                                    => JoinedReqs(0, k + 1, Joined(0, x, e))
    BY ReqsBoth DEF JoinedReqs, Joined
  <2> QED
    BY <2>1, <2>2, ByReqs!Preserved
<1> QED
  BY <1>1, <1>3 DEF JoinedReqs

LEMMA ReqsAre ==
    /\ \A value, reg, flags : \A nbits \in {0, 32} : IsReq(Write(value, reg, flags, nbits))
    /\ \A reg : IsReq(Read(reg))
    /\ \A awaits : IsReq(GetOscr(awaits))
    /\ \A on, off, lazy : IsReq(PutOscr(on, off, lazy))
  BY DEF IsReq, Write, Read, GetOscr, PutOscr

LEMMA ReqsFew ==
    ASSUME NEW a, NEW b, NEW c, NEW d, IsReq(a), IsReq(b), IsReq(c), IsReq(d)
    PROVE  AreReqs(<<a, b>>) /\ AreReqs(<<a, b, c>>) /\ AreReqs(<<a, b, c, d>>)
<1>1. AreReqs(<<a, b>>)
  <2> DEFINE q == <<a, b>>
  <2>1. q \in Seq({a, b}) /\ Len(q) = 2 /\ q[1] = a /\ q[2] = b /\ 1 .. 2 = {1, 2}
    OBVIOUS
  <2> HIDE DEF q
  <2>2. AreReqs(q)
    BY <2>1 DEF AreReqs, IsSeq
  <2> QED
    BY <2>2 DEF q
<1>2. AreReqs(<<a, b, c>>)
  <2> DEFINE q == <<a, b, c>>
  <2>1. q \in Seq({a, b, c}) /\ Len(q) = 3 /\ q[1] = a /\ q[2] = b /\ q[3] = c /\ 1 .. 3 = {1, 2, 3}
    OBVIOUS
  <2> HIDE DEF q
  <2>2. AreReqs(q)
    BY <2>1 DEF AreReqs, IsSeq
  <2> QED
    BY <2>2 DEF q
<1>3. AreReqs(<<a, b, c, d>>)
  <2> DEFINE q == <<a, b, c, d>>
  <2>1. /\ q \in Seq({a, b, c, d}) /\ Len(q) = 4 /\ q[1] = a /\ q[2] = b /\ q[3] = c /\ q[4] = d
        /\ 1 .. 4 = {1, 2, 3, 4}
    OBVIOUS
  <2> HIDE DEF q
  <2>2. AreReqs(q)
    BY <2>1 DEF AreReqs, IsSeq
  <2> QED
    BY <2>2 DEF q
<1> QED
  BY <1>1, <1>2, <1>3

LEMMA WordReqs ==
    /\ AreReqs(<<target_read_start>>) /\ AreReqs(<<WriteStart>>)
    /\ \A addr : AreReqs(target_read_next(addr))
    /\ \A addr, data : AreReqs(target_write_next(addr, data))
    /\ AreReqs(target_save_state)
    /\ AreReqs(target_restore_state)
<1>1. AreReqs(<<target_read_start>>) /\ AreReqs(<<WriteStart>>)
  BY ReqsOne, ReqsAre DEF target_read_start, WriteStart
<1>2. ASSUME NEW addr PROVE AreReqs(target_read_next(addr))
  <2> DEFINE a == Write(Bits(addr), OnCD_OMAR, {}, 32)
             b == Write({}, OnCD_MEM, {}, 0)
             c == GetOscr(TRUE)
             d == Read(OnCD_OMDR)
  <2>1. IsReq(a) /\ IsReq(b) /\ IsReq(c) /\ IsReq(d)
    BY ReqsAre
  <2>2. target_read_next(addr) = <<a, b, c, d>>
    BY DEF target_read_next
  <2> HIDE DEF a, b, c, d
  <2> QED
    BY <2>1, <2>2, ReqsFew
<1>3. ASSUME NEW addr, NEW data PROVE AreReqs(target_write_next(addr, data))
  <2> DEFINE a == Write(Bits(addr), OnCD_OMAR, {}, 32)
             b == Write(data, OnCD_OMDR, {}, 32)
             c == Write({}, OnCD_MEM, {}, 0)
  <2>1. IsReq(a) /\ IsReq(b) /\ IsReq(c)
    BY ReqsAre
  <2>2. target_write_next(addr, data) = <<a, b, c>>
    BY DEF target_write_next
  <2> HIDE DEF a, b, c
  <2> QED
    BY <2>1, <2>2, ReqsFew
<1>4. AreReqs(target_save_state)
  <2> DEFINE a == Read(OnCD_PCfetch)
             b == GetOscr(FALSE)
             c == PutOscr({NFEXP}, {NDS}, FALSE)
             d == PutOscr({DBM}, {NFEXP}, FALSE)
  <2>1. IsReq(a) /\ IsReq(b) /\ IsReq(c) /\ IsReq(d)
    BY ReqsAre
  <2>2. target_save_state = <<a, b, c, d>>
    BY DEF target_save_state
  <2> HIDE DEF a, b, c, d
  <2> QED
    BY <2>1, <2>2, ReqsFew
<1>5. AreReqs(target_restore_state)
  <2> DEFINE a == Write(pc, OnCD_PCfetch, {}, 32)
             b == PutOscr({NDS}, {DBM}, FALSE)
  <2>1. IsReq(a) /\ IsReq(b)
    BY ReqsAre
  <2>2. target_restore_state = <<a, b>>
    BY DEF target_restore_state
  <2> HIDE DEF a, b
  <2> QED
    BY <2>1, <2>2, ReqsFew
<1> QED
  BY <1>1, <1>2, <1>3, <1>4, <1>5

-----------------------------------------------------------------------------
(* Words and blocks. *)
LEMMA EachReady ==
    ASSUME NEW kind \in Kinds, NEW t, Ready(kind, t)
    PROVE  /\ \A addr : \A n \in Nat : Ready(kind, ReadEach(t, addr, n))
           /\ \A pairs : IsSeq(pairs) => Ready(kind, WriteEach(t, pairs))
           /\ \A addr : Ready(kind, target_read_word(t, addr))
           /\ \A addr, data : Ready(kind, target_write_word(t, addr, data))
<1>1. ASSUME NEW addr, NEW n \in Nat PROVE Ready(kind, ReadEach(t, addr, n))
  <2> DEFINE q == [k \in 1 .. n |-> target_read_next(Addresses(addr, n)[k])]
             reqs == <<target_read_start>> \o Concat(q)
  <2>1. q = [k \in 1 .. n |-> q[k]] /\ \A k \in 1 .. n : AreReqs(q[k])
    BY WordReqs
  <2>2. ReadEach(t, addr, n) = Oncd(t, reqs)
    BY DEF ReadEach
  <2> HIDE DEF q
  <2>3. Len(q) = n
    BY <2>1, ListSeq
  <2>4. AreReqs(Concat(q))
    BY <2>1, <2>3, ReqsConcat
  <2>5. AreReqs(reqs)
    BY <2>4, WordReqs, ReqsBoth
  <2> HIDE DEF reqs
  <2> QED
    BY <2>2, <2>5, OncdReady
<1>2. ASSUME NEW pairs, IsSeq(pairs) PROVE Ready(kind, WriteEach(t, pairs))
  <2> DEFINE n == Len(pairs)
             q == [k \in 1 .. n |-> target_write_next(pairs[k][1], pairs[k][2])]
             reqs == <<WriteStart>> \o Concat(q)
  <2>0. n \in Nat /\ DOMAIN pairs = 1 .. n
    BY <1>2, SeqFacts
  <2>1. q = [k \in 1 .. n |-> q[k]] /\ \A k \in 1 .. n : AreReqs(q[k])
    BY WordReqs
  <2>2. WriteEach(t, pairs) = Oncd(t, reqs)
    BY <2>0 DEF WriteEach
  <2> HIDE DEF q, n
  <2>3. Len(q) = n
    BY <2>0, <2>1, ListSeq
  <2>4. AreReqs(Concat(q))
    BY <2>0, <2>1, <2>3, ReqsConcat
  <2>5. AreReqs(reqs)
    BY <2>4, WordReqs, ReqsBoth
  <2> HIDE DEF reqs
  <2> QED
    BY <2>2, <2>5, OncdReady
<1>3. ASSUME NEW addr PROVE Ready(kind, target_read_word(t, addr))
  <2> DEFINE reqs == <<target_read_start>> \o target_read_next(addr)
  <2>1. AreReqs(reqs)
    BY WordReqs, ReqsBoth
  <2> HIDE DEF reqs
  <2>2. Ready(kind, Oncd(t, reqs))
    BY <2>1, OncdReady
  <2> QED
    BY <2>2 DEF target_read_word, reqs
<1>4. ASSUME NEW addr, NEW data PROVE Ready(kind, target_write_word(t, addr, data))
  <2> DEFINE reqs == <<WriteStart>> \o target_write_next(addr, data)
  <2>1. AreReqs(reqs)
    BY WordReqs, ReqsBoth
  <2> HIDE DEF reqs
  <2>2. Ready(kind, Oncd(t, reqs))
    BY <2>1, OncdReady
  <2> QED
    BY <2>2 DEF target_write_word, reqs
<1> QED
  BY <1>1, <1>2, <1>3, <1>4

(* An adapter with functions for blocks is for the MPSSE or for USB. *)
LEMMA BlockKinds ==
    ASSUME NEW kind \in Kinds, NEW t, Ready(kind, t)
    PROVE  /\ t.kind = kind
           /\ HasBlocks(t) <=> kind \in {"mpsse", "usb", "usb_single"}
           /\ IsUsb(t) <=> kind \in {"usb", "usb_single"}
  BY DEF Ready, HasBlocks, IsUsb

LEMMA NwordsReady ==
    ASSUME NEW kind \in Kinds, NEW t, Ready(kind, t), NEW pairs, IsSeq(pairs)
    PROVE  Ready(kind, target_write_nwords(t, pairs))
<1>1. CASE ~HasBlocks(t)
  BY <1>1, EachReady DEF target_write_nwords
<1>2. CASE kind = "mpsse"
  <2>1. target_write_nwords(t, pairs) = mpsse_write_pairs(t, pairs)
    BY <1>2, BlockKinds DEF target_write_nwords, write_nwords
  <2>2. Loaded(t, 0) /\ Len(pairs) \in Nat
    BY <1>2, SeqFacts DEF Ready
  <2> QED
    BY <1>2, <2>1, <2>2, MpsseWritesPairs, ReadyMpsse
<1>3. CASE kind \in {"usb", "usb_single"}
  <2>1. kind # "mpsse"
    BY <1>3
  <2>2. target_write_nwords(t, pairs) = usb_write_nwords(t, pairs)
    BY <1>3, <2>1, BlockKinds DEF target_write_nwords, write_nwords
  <2> QED
    BY <2>1, <2>2, UsbWritesNwords
<1> QED
  BY <1>1, <1>2, <1>3, BlockKinds

LEMMA LimitedSeqs ==
    ASSUME NEW t, NEW q, IsSeq(q), NEW size \in Nat \ {0}
    PROVE  /\ Len(Limited(t, q, size)) \in Nat
           /\ \A k \in 1 .. Len(Limited(t, q, size)) : IsSeq(Limited(t, q, size)[k])
<1>1. CASE IsUsb(t)
  <2>1. Limited(t, q, size) = Pieces(q, size)
    BY <1>1 DEF Limited
  <2> QED
    BY <2>1, PiecesFit
<1>2. CASE ~IsUsb(t) /\ q = <<>>
  <2>1. Limited(t, q, size) = <<>> /\ 1 .. 0 = {}
    BY <1>2 DEF Limited
  <2> QED
    BY <2>1, EmptySeq
<1>3. CASE ~IsUsb(t) /\ q # <<>>
  <2> DEFINE p == <<q>>
  <2>1. Limited(t, q, size) = p
    BY <1>3 DEF Limited
  <2>2. Len(p) = 1 /\ p[1] = q /\ 1 .. 1 = {1}
    BY OneSeq
  <2> HIDE DEF p
  <2> QED
    BY <2>1, <2>2
<1> QED
  BY <1>1, <1>2, <1>3

IsList(kind, k, q) == IsSeq(q)

ReadingPiece(kind, u, addrs) == ReadPiece(u, addrs)

ByPiece == INSTANCE ForeachProofs WITH Step <- ReadingPiece, Holds <- StaysReady, On <- IsList

LEMMA ReadBlockReady ==
    ASSUME NEW kind \in Kinds, NEW t, Ready(kind, t), NEW addr, NEW n \in Nat
    PROVE  Ready(kind, target_read_block(t, addr, n))
<1>1. CASE ~HasBlocks(t)
  BY <1>1, EachReady DEF target_read_block
<1>2. CASE HasBlocks(t)
  <2> DEFINE first == [t EXCEPT !.value = <<>>]
             pieces == Limited(t, Addresses(addr, n), BlockWords)
  <2>a. target_read_block(t, addr, n) = Foreach(ReadPiece, first, pieces)
    BY <1>2 DEF target_read_block
  <2>2. Ready(kind, first)
    BY ReadyStays
  <2>3. Len(pieces) \in Nat /\ \A k \in 1 .. Len(pieces) : IsList(kind, k, pieces[k])
    <3> DEFINE q == Addresses(addr, n)
    <3>1. IsSeq(q)
      BY AddressesSeq
    <3> HIDE DEF q
    <3>2. BlockWords \in Nat \ {0}
      BY TargetAssumption
    <3>3. /\ Len(Limited(t, q, BlockWords)) \in Nat
          /\ \A k \in 1 .. Len(Limited(t, q, BlockWords)) : IsSeq(Limited(t, q, BlockWords)[k])
      BY <3>1, <3>2, LimitedSeqs
    <3> QED
      BY <3>3 DEF IsList, q
  <2> HIDE DEF first, pieces
  <2>1. target_read_block(t, addr, n) = ByPiece!Folded(kind, first, pieces)
    BY <2>a DEF ByPiece!Folded, Foreach, ByPiece!Foreach, ReadingPiece, TheOne, ByPiece!TheOne
  <2>4. ASSUME NEW x, NEW e, Ready(kind, x), IsSeq(e) PROVE Ready(kind, ReadingPiece(kind, x, e))
    <3> DEFINE u == read_block(x, e[1], Len(e))
    <3>1. Len(e) \in Nat
      BY <2>4, SeqFacts
    <3>2. Ready(kind, u)
      <4>1. CASE kind = "mpsse"
        <5>1. u = mpsse_read_block(x, e[1], Len(e))
          BY <2>4, <4>1, BlockKinds DEF read_block
        <5>2. Loaded(x, 0)
          BY <2>4, <4>1 DEF Ready
        <5> HIDE DEF u
        <5> QED
          BY <3>1, <4>1, <5>1, <5>2, MpsseReadsBlock, ReadyMpsse
      <4>2. CASE kind # "mpsse"
        <5>1. u = usb_read_block(x, e[1], Len(e))
          BY <2>4, <4>2, BlockKinds DEF read_block
        <5> HIDE DEF u
        <5> QED
          BY <2>4, <3>1, <4>2, <5>1, UsbBlocks
      <4> QED
        BY <4>1, <4>2
    <3> HIDE DEF u
    <3>3. Ready(kind, [u EXCEPT !.value = x.value \o @])
      BY <3>2, ReadyStays
    <3> QED
      BY <3>3 DEF ReadingPiece, ReadPiece, u
  <2>5. StaysReady(kind, Len(pieces), ByPiece!Folded(kind, first, pieces))
    <3>1. StaysReady(kind, 0, first)
      BY <2>2 DEF StaysReady
    <3>2. \A k \in Nat : \A x, e : StaysReady(kind, k, x) /\ IsList(kind, k + 1, e)
                                      => StaysReady(kind, k + 1, ReadingPiece(kind, x, e))
      BY <2>4 DEF StaysReady, IsList
    <3> QED
      BY <2>3, <3>1, <3>2, ByPiece!Preserved
  <2> QED
    BY <2>1, <2>5 DEF StaysReady
<1> QED
  BY <1>1, <1>2

(* What becomes of an adapter whose functions for blocks are called piece by
   piece. *)
LEMMA BlockWrites ==
    ASSUME NEW kind \in Kinds, NEW t, Ready(kind, t), HasBlocks(t), NEW pairs, IsSeq(pairs)
    PROVE  Ready(kind, write_block(t, pairs))
<1>1. CASE kind = "mpsse"
  <2>1. write_block(t, pairs) = mpsse_write_pairs(t, pairs)
    BY <1>1, BlockKinds DEF write_block
  <2>2. Loaded(t, 0) /\ Len(pairs) \in Nat
    BY <1>1, SeqFacts DEF Ready
  <2> QED
    BY <1>1, <2>1, <2>2, MpsseWritesPairs, ReadyMpsse
<1>2. CASE kind # "mpsse"
  <2> DEFINE n == Len(pairs)
             data == [k \in 1 .. n |-> pairs[k][2]]
  <2>1. n \in Nat /\ DOMAIN pairs = 1 .. n
    BY SeqFacts
  <2>2. write_block(t, pairs) = usb_write_block(t, pairs[1][1], data)
    BY <1>2, <2>1, BlockKinds DEF write_block
  <2>3. data = [k \in 1 .. n |-> data[k]]
    OBVIOUS
  <2> HIDE DEF n, data
  <2>4. IsSeq(data)
    BY <2>1, <2>3, ListSeq
  <2> QED
    BY <1>2, <2>2, <2>4, UsbBlocks
<1> QED
  BY <1>1, <1>2

LEMMA BlockPrograms ==
    ASSUME NEW kind \in Kinds, NEW t, Ready(kind, t), NEW base, NEW pairs, IsSeq(pairs)
    PROVE  Ready(kind, program_block32(t, base, pairs))
<1>1. CASE kind = "mpsse"
  <2> DEFINE list == Programmed32(base, pairs)
  <2>1. program_block32(t, base, pairs) = mpsse_write_pairs(t, list)
    BY <1>1, BlockKinds DEF program_block32
  <2>2. Loaded(t, 0) /\ Len(list) \in Nat
    BY <1>1, ProgrammedLength, SeqFacts DEF Ready
  <2> HIDE DEF list
  <2> QED
    BY <1>1, <2>1, <2>2, MpsseWritesPairs, ReadyMpsse
<1>2. CASE kind # "mpsse"
  <2>1. program_block32(t, base, pairs) = usb_program_block32(t, base, pairs)
    BY <1>2, BlockKinds DEF program_block32
  <2> QED
    BY <1>2, <2>1, UsbPrograms32
<1> QED
  BY <1>1, <1>2

ReadyOn(env, k, u) == env.kind \in Kinds /\ Ready(env.kind, u)
WithBlocks(env, k, u) == ReadyOn(env, k, u) /\ HasBlocks(u)
IsData(env, k, pairs) == IsSeq(pairs)

Always(env, k, e) == TRUE

WritingBlock(env, u, pairs) == write_block(u, pairs)
Programming32(env, u, pairs) == program_block32(u, env.base, pairs)
Programming64(env, u, pairs) == usb_program_block64(u, env.base, pairs)
ProgrammingWord(env, u, pair) ==
    target_write_nwords(u, Append(Unlocked(env.base, cmd_a0), pair))
ProgrammingHalf(env, u, pair) ==
    target_write_nwords(u, Append(Unlocked(env.base + 4 * ((env.addr \div 4) % 2), cmd_a0), pair))
WritingPart(env, u, cmds) ==
    target_write_block(target_write_nwords(u, cmds), env.addr, env.data)

Blocks == INSTANCE ForeachProofs WITH Step <- WritingBlock, Holds <- WithBlocks, On <- IsData
Programs32 == INSTANCE ForeachProofs WITH Step <- Programming32, Holds <- ReadyOn, On <- IsData
Programs64 == INSTANCE ForeachProofs WITH Step <- Programming64, Holds <- ReadyOn, On <- IsData
WordsOfFlash == INSTANCE ForeachProofs WITH Step <- ProgrammingWord, Holds <- ReadyOn, On <- Always
WordsOfHalf == INSTANCE ForeachProofs WITH Step <- ProgrammingHalf, Holds <- ReadyOn, On <- Always
Parts == INSTANCE ForeachProofs WITH Step <- WritingPart, Holds <- ReadyOn, On <- IsData

LEMMA WriteBlockReady ==
    ASSUME NEW kind \in Kinds, NEW t, Ready(kind, t), NEW addr, NEW data, IsSeq(data)
    PROVE  Ready(kind, target_write_block(t, addr, data))
<1> DEFINE block == Block(addr, data)
           pieces == Limited(t, block, BlockWords)
           env == [kind |-> kind]
<1>1. IsSeq(block)
  BY BlockSeq
<1>2. Len(pieces) \in Nat /\ \A k \in 1 .. Len(pieces) : IsData(env, k, pieces[k])
  <2>1. BlockWords \in Nat \ {0}
    BY TargetAssumption
  <2> HIDE DEF block
  <2>2. /\ Len(Limited(t, block, BlockWords)) \in Nat
        /\ \A k \in 1 .. Len(Limited(t, block, BlockWords)) :
              IsSeq(Limited(t, block, BlockWords)[k])
    BY <1>1, <2>1, LimitedSeqs
  <2> QED
    BY <2>2 DEF IsData
<1>3. CASE ~HasBlocks(t)
  <2>1. target_write_block(t, addr, data) = WriteEach(t, block)
    BY <1>3 DEF target_write_block
  <2> HIDE DEF block
  <2> QED
    BY <1>1, <2>1, EachReady
<1>4. CASE HasBlocks(t)
  <2>1. target_write_block(t, addr, data) = Foreach(write_block, t, pieces)
    BY <1>4 DEF target_write_block
  <2> HIDE DEF pieces
  <2>2. target_write_block(t, addr, data) = Blocks!Folded(env, t, pieces)
    BY <2>1 DEF Blocks!Folded, Foreach, Blocks!Foreach, WritingBlock, TheOne, Blocks!TheOne
  <2>3. WithBlocks(env, 0, t)
    BY <1>4 DEF WithBlocks, ReadyOn
  <2>4. ASSUME NEW x, NEW e, Ready(kind, x), HasBlocks(x), IsSeq(e)
        PROVE  Ready(kind, WritingBlock(env, x, e)) /\ HasBlocks(WritingBlock(env, x, e))
    <3>1. Ready(kind, write_block(x, e))
      BY <2>4, BlockWrites
    <3>2. kind \in {"mpsse", "usb", "usb_single"}
      BY <2>4, BlockKinds
    <3> QED
      BY <3>1, <3>2, BlockKinds DEF WritingBlock
  <2>5. WithBlocks(env, Len(pieces), Blocks!Folded(env, t, pieces))
    <3>0. env.kind = kind
      OBVIOUS
    <3> HIDE DEF env
    <3>1. \A k \in Nat : \A x, e : WithBlocks(env, k, x) /\ IsData(env, k + 1, e)
                                      => WithBlocks(env, k + 1, WritingBlock(env, x, e))
      BY <2>4, <3>0 DEF WithBlocks, ReadyOn, IsData
    <3> QED
      BY <1>2, <2>3, <3>1, Blocks!Preserved
  <2> QED
    BY <2>2, <2>5 DEF WithBlocks, ReadyOn
<1> QED
  BY <1>3, <1>4

(* Word by word, with the commands to the flash chip before each. *)
LEMMA WordsReady ==
    ASSUME NEW env, env.kind \in Kinds, NEW t, Ready(env.kind, t), NEW pairs, IsSeq(pairs)
    PROVE  /\ Ready(env.kind, WordsOfFlash!Folded(env, t, pairs))
           /\ Ready(env.kind, WordsOfHalf!Folded(env, t, pairs))
<1>1. Len(pairs) \in Nat
  BY SeqFacts
<1>2. ReadyOn(env, 0, t) /\ \A k \in 1 .. Len(pairs) : Always(env, k, pairs[k])
  BY DEF ReadyOn, Always
<1>3. ASSUME NEW base, NEW x, NEW e, Ready(env.kind, x)
      PROVE  Ready(env.kind, target_write_nwords(x, Append(Unlocked(base, cmd_a0), e)))
  <2> DEFINE list == Append(Unlocked(base, cmd_a0), e)
  <2>1. IsSeq(list)
    BY UnlockedAnd
  <2> HIDE DEF list
  <2>2. Ready(env.kind, target_write_nwords(x, list))
    BY <1>3, <2>1, NwordsReady
  <2> QED
    BY <2>2 DEF list
<1>4. ReadyOn(env, Len(pairs), WordsOfFlash!Folded(env, t, pairs))
  <2>1. \A k \in Nat : \A x, e : ReadyOn(env, k, x) /\ Always(env, k + 1, e)
                                    => ReadyOn(env, k + 1, ProgrammingWord(env, x, e))
    BY <1>3 DEF ReadyOn, ProgrammingWord
  <2> QED
    BY <1>1, <1>2, <2>1, WordsOfFlash!Preserved
<1>5. ReadyOn(env, Len(pairs), WordsOfHalf!Folded(env, t, pairs))
  <2>1. \A k \in Nat : \A x, e : ReadyOn(env, k, x) /\ Always(env, k + 1, e)
                                    => ReadyOn(env, k + 1, ProgrammingHalf(env, x, e))
    BY <1>3 DEF ReadyOn, ProgrammingHalf
  <2> QED
    BY <1>1, <1>2, <2>1, WordsOfHalf!Preserved
<1> QED
  BY <1>4, <1>5 DEF ReadyOn

LEMMA LimitedData ==
    ASSUME NEW env, NEW t, NEW q, IsSeq(q), NEW size \in Nat \ {0}
    PROVE  /\ Len(Limited(t, q, size)) \in Nat
           /\ \A k \in 1 .. Len(Limited(t, q, size)) : IsData(env, k, Limited(t, q, size)[k])
  BY LimitedSeqs DEF IsData

LEMMA Programmed32Ready ==
    ASSUME NEW env, env.kind \in Kinds, NEW t, Ready(env.kind, t), NEW addr, NEW data, IsSeq(data)
    PROVE  Ready(env.kind, target_program_block32(t, env.base, addr, data))
<1> DEFINE block == Block(addr, data)
           pieces == Limited(t, block, ProgramWords)
           Piece(u, pairs) == program_block32(u, env.base, pairs)
           Word(u, pair) == target_write_nwords(u, Append(Unlocked(env.base, cmd_a0), pair))
<1>1. IsSeq(block)
  BY BlockSeq
<1>2. Len(pieces) \in Nat /\ \A k \in 1 .. Len(pieces) : IsData(env, k, pieces[k])
  <2>1. ProgramWords \in Nat \ {0}
    BY TargetAssumption
  <2> HIDE DEF block
  <2> QED
    BY <1>1, <2>1, LimitedData
<1>3. CASE ~HasBlocks(t)
  <2>1. target_program_block32(t, env.base, addr, data) = Foreach(Word, t, block)
    BY <1>3 DEF target_program_block32
  <2> HIDE DEF block
  <2>2. target_program_block32(t, env.base, addr, data) = WordsOfFlash!Folded(env, t, block)
    BY <2>1 DEF WordsOfFlash!Folded, Foreach, WordsOfFlash!Foreach, ProgrammingWord, TheOne,
                WordsOfFlash!TheOne
  <2> QED
    BY <1>1, <2>2, WordsReady
<1>4. CASE HasBlocks(t)
  <2>1. target_program_block32(t, env.base, addr, data) = Foreach(Piece, t, pieces)
    BY <1>4 DEF target_program_block32
  <2> HIDE DEF pieces
  <2>2. target_program_block32(t, env.base, addr, data) = Programs32!Folded(env, t, pieces)
    BY <2>1 DEF Programs32!Folded, Foreach, Programs32!Foreach, Programming32, TheOne,
                Programs32!TheOne
  <2>4. ReadyOn(env, 0, t)
    BY DEF ReadyOn
  <2>5. \A k \in Nat : \A x, e : ReadyOn(env, k, x) /\ IsData(env, k + 1, e)
                                    => ReadyOn(env, k + 1, Programming32(env, x, e))
    BY BlockPrograms DEF ReadyOn, IsData, Programming32
  <2>6. ReadyOn(env, Len(pieces), Programs32!Folded(env, t, pieces))
    BY <1>2, <2>4, <2>5, Programs32!Preserved
  <2> QED
    BY <2>2, <2>6 DEF ReadyOn
<1> QED
  BY <1>3, <1>4

LEMMA Programmed64Ready ==
    ASSUME NEW env, env.kind \in Kinds, NEW t, Ready(env.kind, t), NEW data, IsSeq(data)
    PROVE  Ready(env.kind, target_program_block64(t, env.base, env.addr, data))
<1> DEFINE block == Block(env.addr, data)
           pieces == Limited(t, block, ProgramWords)
           Piece(u, pairs) == usb_program_block64(u, env.base, pairs)
           Word(u, pair) ==
               target_write_nwords(u,
                   Append(Unlocked(env.base + 4 * ((env.addr \div 4) % 2), cmd_a0), pair))
<1>1. IsSeq(block)
  BY BlockSeq
<1>2. Len(pieces) \in Nat /\ \A k \in 1 .. Len(pieces) : IsData(env, k, pieces[k])
  <2>1. ProgramWords \in Nat \ {0}
    BY TargetAssumption
  <2> HIDE DEF block
  <2> QED
    BY <1>1, <2>1, LimitedData
<1>3. CASE ~IsUsb(t)
  <2>1. target_program_block64(t, env.base, env.addr, data) = Foreach(Word, t, block)
    BY <1>3 DEF target_program_block64
  <2> HIDE DEF block
  <2>2. target_program_block64(t, env.base, env.addr, data) = WordsOfHalf!Folded(env, t, block)
    BY <2>1 DEF WordsOfHalf!Folded, Foreach, WordsOfHalf!Foreach, ProgrammingHalf, TheOne,
                WordsOfHalf!TheOne
  <2> QED
    BY <1>1, <2>2, WordsReady
<1>4. CASE IsUsb(t)
  <2>1. env.kind # "mpsse"
    BY <1>4, BlockKinds
  <2>2. target_program_block64(t, env.base, env.addr, data) = Foreach(Piece, t, pieces)
    BY <1>4 DEF target_program_block64
  <2> HIDE DEF pieces
  <2>3. target_program_block64(t, env.base, env.addr, data) = Programs64!Folded(env, t, pieces)
    BY <2>2 DEF Programs64!Folded, Foreach, Programs64!Foreach, Programming64, TheOne,
                Programs64!TheOne
  <2>4. ReadyOn(env, 0, t)
    BY DEF ReadyOn
  <2>5. \A k \in Nat : \A x, e : ReadyOn(env, k, x) /\ IsData(env, k + 1, e)
                                    => ReadyOn(env, k + 1, Programming64(env, x, e))
    BY <2>1, UsbPrograms64 DEF ReadyOn, IsData, Programming64
  <2>6. ReadyOn(env, Len(pieces), Programs64!Folded(env, t, pieces))
    BY <1>2, <2>4, <2>5, Programs64!Preserved
  <2> QED
    BY <2>3, <2>6 DEF ReadyOn
<1> QED
  BY <1>3, <1>4

LEMMA ProgrammedPageReady ==
    ASSUME NEW env, env.kind \in Kinds, NEW t, Ready(env.kind, t), NEW base, IsSeq(env.data)
    PROVE  Ready(env.kind, target_program_block32_atmel(t, base, env.addr, env.data))
<1> DEFINE page == Block(env.addr, env.data)
           parts == <<Unprotect(base), Protect(base)>>
           Part(u, cmds) == target_write_block(target_write_nwords(u, cmds), env.addr, env.data)
           bare == usb_program_block32_unprotect(t, base, page)
<1>1. CASE IsUsb(t)
  <2>1. IsSeq(page)
    BY BlockSeq
  <2>2. target_program_block32_atmel(t, base, env.addr, env.data)
          = usb_program_block32_protect(bare, base, page)
    BY <1>1 DEF target_program_block32_atmel
  <2>3. env.kind # "mpsse"
    BY <1>1, BlockKinds
  <2> HIDE DEF page
  <2>4. Ready(env.kind, bare)
    BY <2>1, <2>3, UsbProgramsPage
  <2> HIDE DEF bare
  <2> QED
    BY <2>1, <2>2, <2>3, <2>4, UsbProgramsPage
<1>2. CASE ~IsUsb(t)
  <2>1. target_program_block32_atmel(t, base, env.addr, env.data) = Foreach(Part, t, parts)
    BY <1>2 DEF target_program_block32_atmel
  <2>2. Len(parts) \in Nat /\ \A k \in 1 .. Len(parts) : IsData(env, k, parts[k])
    <3> DEFINE a == Unprotect(base)
               b == Protect(base)
    <3>1. IsSeq(a) /\ IsSeq(b)
      BY ProtectSeqs
    <3>2. parts = <<a, b>>
      OBVIOUS
    <3> HIDE DEF a, b, parts
    <3>3. Len(parts) = 2 /\ parts[1] = a /\ parts[2] = b /\ 1 .. 2 = {1, 2}
      BY <3>2
    <3> QED
      BY <3>1, <3>3 DEF IsData
  <2> HIDE DEF parts
  <2>3. target_program_block32_atmel(t, base, env.addr, env.data) = Parts!Folded(env, t, parts)
    BY <2>1 DEF Parts!Folded, Foreach, Parts!Foreach, WritingPart, TheOne, Parts!TheOne
  <2>4. ReadyOn(env, 0, t)
    BY DEF ReadyOn
  <2>5. ASSUME NEW x, NEW e, Ready(env.kind, x), IsSeq(e)
        PROVE  Ready(env.kind, WritingPart(env, x, e))
    <3> DEFINE u == target_write_nwords(x, e)
    <3>1. Ready(env.kind, u)
      BY <2>5, NwordsReady
    <3> HIDE DEF u
    <3>2. Ready(env.kind, target_write_block(u, env.addr, env.data))
      BY <3>1, WriteBlockReady
    <3> QED
      BY <3>2 DEF WritingPart, u
  <2>6. \A k \in Nat : \A x, e : ReadyOn(env, k, x) /\ IsData(env, k + 1, e)
                                    => ReadyOn(env, k + 1, WritingPart(env, x, e))
    BY <2>5 DEF ReadyOn, IsData
  <2>7. ReadyOn(env, Len(parts), Parts!Folded(env, t, parts))
    BY <2>2, <2>4, <2>6, Parts!Preserved
  <2> QED
    BY <2>3, <2>7 DEF ReadyOn
<1> QED
  BY <1>1, <1>2

LEMMA ProgramsReady ==
    ASSUME NEW kind \in Kinds, NEW t, Ready(kind, t), NEW base, NEW addr, NEW data, IsSeq(data)
    PROVE  /\ Ready(kind, target_program_block32(t, base, addr, data))
           /\ Ready(kind, target_program_block64(t, base, addr, data))
           /\ Ready(kind, target_program_block32_atmel(t, base, addr, data))
<1> DEFINE env == [kind |-> kind, base |-> base, addr |-> addr, data |-> data]
<1>1. env.kind = kind /\ env.base = base /\ env.addr = addr /\ env.data = data
  OBVIOUS
<1> HIDE DEF env
<1>2. Ready(kind, target_program_block32(t, base, addr, data))
  BY <1>1, Programmed32Ready
<1>3. Ready(kind, target_program_block64(t, base, addr, data))
  BY <1>1, Programmed64Ready
<1>4. Ready(kind, target_program_block32_atmel(t, base, addr, data))
  BY <1>1, ProgrammedPageReady
<1> QED
  BY <1>2, <1>3, <1>4

-----------------------------------------------------------------------------
(* The other functions of an adapter. *)
LEMMA OpeningReady ==
    ASSUME NEW kind \in Kinds, NEW t, Ready(kind, t)
    PROVE  /\ \A ir : Ready(kind, Instruction(t, ir))
           /\ Ready(kind, open(t))
           /\ Ready(kind, get_idcode(t))
<1>1. t.kind = kind
  BY BlockKinds
<1>2. CASE kind = "bitbang"
  <2>1. /\ \A ir : Ready(kind, tap_instr(t, ir))
        /\ Ready(kind, bitbang_open(t)) /\ Ready(kind, bitbang_get_idcode(t))
    BY <1>2, BitbangReady
  <2>2. ~IsUsb(t) /\ kind # "mpsse" /\ kind # "lpt"
    BY <1>2, BlockKinds
  <2> QED
    BY <1>1, <1>2, <2>1, <2>2 DEF Instruction, open, get_idcode
<1>3. CASE kind = "mpsse"
  <2>1. /\ \A ir : Ready(kind, mpsse_recv(mpsse_ir(t, ir)))
        /\ Ready(kind, mpsse_open(t)) /\ Ready(kind, mpsse_get_idcode(t))
    BY <1>3, ReadyMpsse, MpsseInstructs
  <2>2. ~IsUsb(t) /\ kind # "bitbang" /\ kind # "lpt"
    BY <1>3, BlockKinds
  <2> QED
    BY <1>1, <1>3, <2>1, <2>2 DEF Instruction, open, get_idcode
<1>4. CASE kind = "lpt"
  <2>1. /\ \A ir : Ready(kind, set_ir(t, ir))
        /\ Ready(kind, lpt_open(t)) /\ Ready(kind, lpt_get_idcode(t))
    BY <1>4, LptReady
  <2>2. ~IsUsb(t) /\ kind # "bitbang" /\ kind # "mpsse"
    BY <1>4, BlockKinds
  <2> QED
    BY <1>1, <1>4, <2>1, <2>2 DEF Instruction, open, get_idcode
<1>5. CASE kind \in {"usb", "usb_single"}
  <2>1. IsUsb(t) /\ kind \notin {"bitbang", "mpsse", "lpt"}
    BY <1>5, BlockKinds
  <2>2. /\ \A ir : Ready(kind, usb_ir(t, H_DEBUG, ir))
        /\ Ready(kind, usb_open(t)) /\ Ready(kind, usb_get_idcode(t))
    BY <2>1, UsbReady
  <2> QED
    BY <1>1, <2>1, <2>2 DEF Instruction, open, get_idcode
<1> QED
  BY <1>2, <1>3, <1>4, <1>5 DEF Kinds

LEMMA ControlReady ==
    ASSUME NEW kind \in Kinds, NEW t, Ready(kind, t)
    PROVE  /\ Ready(kind, DebugRequest(t))
           /\ Ready(kind, reset_cpu(t))
           /\ Ready(kind, StepCpu(t)) /\ Ready(kind, RunCpu(t))
           /\ Ready(kind, close(t))
<1>1. t.kind = kind /\ (IsUsb(t) <=> kind \in {"usb", "usb_single"})
  BY BlockKinds
<1>2. Ready(kind, DebugRequest(t))
  <2>1. CASE kind = "mpsse"
    <3>1. Ready(kind, mpsse_send(t, <<MpsseScan(1, {0}, 4, Bits(TAP_DEBUG_REQUEST), FALSE)>>))
      BY <2>1, ReadyMpsse, MpsseInstructs
    <3>2. DebugRequest(t) = mpsse_send(t, <<MpsseScan(1, {0}, 4, Bits(TAP_DEBUG_REQUEST), FALSE)>>)
      BY <1>1, <2>1 DEF DebugRequest
    <3> QED
      BY <3>1, <3>2
  <2>2. CASE kind \in {"usb", "usb_single"}
    <3>1. kind # "mpsse"
      BY <2>2
    <3>2. DebugRequest(t) = usb_ir(t, H_DEBUG \cup H_SYSRST, TAP_DEBUG_REQUEST)
      BY <1>1, <2>2, <3>1 DEF DebugRequest
    <3> QED
      BY <3>1, <3>2, UsbReady
  <2>3. CASE kind \notin {"mpsse", "usb", "usb_single"}
    <3>1. DebugRequest(t) = Instruction(t, TAP_DEBUG_REQUEST)
      BY <1>1, <2>3 DEF DebugRequest
    <3> QED
      BY <3>1, OpeningReady
  <2> QED
    BY <2>1, <2>2, <2>3
<1>3. Ready(kind, reset_cpu(t))
  <2>1. CASE kind = "mpsse"
    <3>1. reset_cpu(t) = mpsse_reset_cpu(t)
      BY <1>1, <2>1 DEF reset_cpu
    <3> QED
      BY <2>1, <3>1, ReadyMpsse, MpsseInstructs
  <2>2. CASE kind # "mpsse"
    <3> DEFINE chip == SystemReset(t.chip)
    <3>1. reset_cpu(t) = [t EXCEPT !.chip = chip]
      BY <1>1, <2>2 DEF reset_cpu
    <3> HIDE DEF chip
    <3>2. Ready(kind, [t EXCEPT !.chip = chip])
      BY ReadyStays
    <3> QED
      BY <3>1, <3>2
  <2> QED
    BY <2>1, <2>2
<1>4. ASSUME NEW flags
      PROVE  Ready(kind, Oncd(t, <<Write({}, OnCD_GO, flags, 0)>>))
  <2> DEFINE reqs == <<Write({}, OnCD_GO, flags, 0)>>
  <2>1. AreReqs(reqs)
    BY ReqsOne, ReqsAre
  <2> HIDE DEF reqs
  <2>2. Ready(kind, Oncd(t, reqs))
    BY <2>1, OncdReady
  <2> QED
    BY <2>2 DEF reqs
<1>5. Ready(kind, StepCpu(t))
  <2>1. CASE IsUsb(t)
    BY <1>1, <2>1, UsbReady DEF StepCpu
  <2>2. CASE ~IsUsb(t)
    BY <1>4, <2>2 DEF StepCpu
  <2> QED
    BY <2>1, <2>2
<1>6. Ready(kind, RunCpu(t))
  <2>1. CASE IsUsb(t)
    BY <1>1, <2>1, UsbReady DEF RunCpu
  <2>2. CASE ~IsUsb(t)
    BY <1>4, <2>2 DEF RunCpu
  <2> QED
    BY <2>1, <2>2
<1>7. Ready(kind, close(t))
  <2>1. CASE kind = "mpsse"
    <3>1. close(t) = mpsse_flush_output(t)
      BY <1>1, <2>1 DEF close
    <3>2. Loaded(t, 0) /\ 0 \in 0 .. 62
      BY <2>1, ReadyMpsse
    <3>3. Loaded(mpsse_flush_output(t), 0)
      BY <3>2, Flushed
    <3> QED
      BY <2>1, <3>1, <3>3, ReadyMpsse
  <2>2. CASE kind # "mpsse"
    BY <1>1, <2>2 DEF close
  <2> QED
    BY <2>1, <2>2
<1> QED
  BY <1>2, <1>3, <1>5, <1>6, <1>7

-----------------------------------------------------------------------------
(* target_open. *)
Trying(env, u, k) ==
    IF u.value \notin NoAnswer THEN u
    ELSE TheOne({IF v.value \in NoAnswer THEN [reset_cpu(v) EXCEPT !.value = v.value]
                 ELSE v : v \in {get_idcode(u)}})

Tries == INSTANCE ForeachProofs WITH Step <- Trying, Holds <- ReadyOn, On <- Always

LEMMA IdentifiedReady ==
    ASSUME NEW kind \in Kinds, NEW t, Ready(kind, t)
    PROVE  Ready(kind, Identified(t))
<1> DEFINE first == [t EXCEPT !.value = {}]
           tries == [k \in 1 .. ResetRetry |-> k]
           env == [kind |-> kind]
<1>1. Ready(kind, first)
  BY ReadyStays
<1>2. Identified(t) =
         LET Try(u, k) ==
                 IF u.value \notin NoAnswer THEN u
                 ELSE TheOne({IF v.value \in NoAnswer THEN [reset_cpu(v) EXCEPT !.value = v.value]
                              ELSE v : v \in {get_idcode(u)}})
         IN  Foreach(Try, first, tries)
  BY DEF Identified
<1>3. Len(tries) \in Nat
  <2>1. ResetRetry \in Nat
    BY TargetAssumption
  <2> HIDE DEF tries
  <2>2. tries = [k \in 1 .. ResetRetry |-> tries[k]]
    BY DEF tries
  <2> QED
    BY <2>1, <2>2, ListSeq
<1> HIDE DEF first, tries
<1>4. Identified(t) = Tries!Folded(env, first, tries)
  BY <1>2 DEF Tries!Folded, Foreach, Tries!Foreach, Trying, TheOne, Tries!TheOne
<1>5. env.kind = kind
  OBVIOUS
<1> HIDE DEF env
<1>6. ASSUME NEW x, NEW e, Ready(kind, x) PROVE Ready(kind, Trying(env, x, e))
  <2> DEFINE v == get_idcode(x)
             u == reset_cpu(v)
             New(w) == IF w.value \in NoAnswer THEN [reset_cpu(w) EXCEPT !.value = w.value] ELSE w
  <2>1. Ready(kind, v)
    BY <1>6, OpeningReady
  <2>2. Trying(env, x, e) = IF x.value \notin NoAnswer THEN x ELSE TheOne({New(w) : w \in {v}})
    BY DEF Trying
  <2> HIDE DEF v
  <2>3. Ready(kind, u)
    BY <2>1, ControlReady
  <2>4. New(v) = IF v.value \in NoAnswer THEN [u EXCEPT !.value = v.value] ELSE v
    OBVIOUS
  <2> HIDE DEF u, New
  <2>5. Ready(kind, [u EXCEPT !.value = v.value])
    BY <2>3, ReadyStays
  <2>6. {New(w) : w \in {v}} = {New(v)}
    OBVIOUS
  <2>7. TheOne({New(v)}) = New(v)
    BY OneOfOne
  <2>8. Ready(kind, New(v))
    BY <2>1, <2>4, <2>5
  <2> QED
    BY <1>6, <2>2, <2>6, <2>7, <2>8
<1>7. ReadyOn(env, Len(tries), Tries!Folded(env, first, tries))
  <2>1. ReadyOn(env, 0, first) /\ \A k \in 1 .. Len(tries) : Always(env, k, tries[k])
    BY <1>1, <1>5 DEF ReadyOn, Always
  <2>2. \A k \in Nat : \A x, e : ReadyOn(env, k, x) /\ Always(env, k + 1, e)
                                    => ReadyOn(env, k + 1, Trying(env, x, e))
    BY <1>5, <1>6 DEF ReadyOn
  <2> QED
    BY <1>3, <2>1, <2>2, Tries!Preserved
<1> QED
  BY <1>4, <1>5, <1>7 DEF ReadyOn

-----------------------------------------------------------------------------
(* What a call of target.c leaves: an adapter whose buffers hold, and none
   waiting for another call's replies.  Only an adapter for USB is asked again
   and again by stop_cpu. *)
HostReady ==
    /\ s.kind \in Kinds /\ Ready(s.kind, s)
    /\ st = "asking" => IsUsb(s)

LEMMA StaysHostReady ==
    ASSUME HostReady, Ready(s.kind, s'), st' = "asking" => IsUsb(s')
    PROVE  HostReady'
<1>1. s'.kind = s.kind
  BY DEF Ready
<1> QED
  BY <1>1 DEF HostReady

LEMMA RestoredReady ==
    ASSUME NEW kind \in Kinds, Ready(kind, s)
    PROVE  Ready(kind, Restored)
<1> DEFINE reqs == target_restore_state
<1>1. AreReqs(reqs)
  BY WordReqs
<1> HIDE DEF reqs
<1>2. Ready(kind, Oncd(s, reqs))
  BY <1>1, OncdReady
<1> QED
  BY <1>2 DEF Restored, reqs

LEMMA SavedReady ==
    ASSUME NEW kind \in Kinds, NEW t, Ready(kind, t)
    PROVE  /\ Ready(kind, Oncd(t, target_save_state))
           /\ Ready(kind, Oncd(t, target_save_state \o <<>>))
           /\ Ready(kind, Oncd(t, target_save_state
                                    \o (<<target_read_start>> \o target_read_next(MC_CSCON3))))
<1> DEFINE saves == target_save_state
           reads == <<target_read_start>> \o target_read_next(MC_CSCON3)
           nothing == <<>>
<1>1. AreReqs(saves) /\ AreReqs(reads)
  BY WordReqs, ReqsBoth
<1>2. AreReqs(nothing)
  <2>1. Len(nothing) = 0 /\ IsSeq(nothing)
    BY EmptySeq
  <2>2. 1 .. 0 = {}
    OBVIOUS
  <2> HIDE DEF nothing
  <2> QED
    BY <2>1, <2>2 DEF AreReqs
<1> HIDE DEF saves, reads, nothing
<1>3. AreReqs(saves \o reads) /\ AreReqs(saves \o nothing)
  BY <1>1, <1>2, ReqsBoth
<1>4. Ready(kind, Oncd(t, saves)) /\ Ready(kind, Oncd(t, saves \o reads))
        /\ Ready(kind, Oncd(t, saves \o nothing))
  BY <1>1, <1>3, OncdReady
<1> QED
  BY <1>4 DEF saves, reads, nothing

LEMMA InitReady ==
    ASSUME Init
    PROVE  HostReady
<1>1. PICK kind : kind \in UsedKinds /\ \E sysrst, chip : s = NewAdapter(kind, sysrst, chip)
  BY DEF Init
<1>2. kind \in Kinds
  BY <1>1, TargetAssumption
<1>3. /\ DOMAIN s = Fields /\ s.kind = kind /\ s.over = FALSE
      /\ s.size = 0 /\ s.output = <<>>
  BY <1>1 DEF NewAdapter, Fields
<1>4. Weigh(s.output, s.size, 0)
  BY <1>3, WeighNone
<1>5. Ready(kind, s)
  BY <1>3, <1>4, OutAssumption DEF Ready, Loaded
<1>6. st = "new"
  BY DEF Init
<1> QED
  BY <1>2, <1>3, <1>5, <1>6 DEF HostReady

LEMMA RequestedReady ==
    ASSUME NEW kind \in Kinds, NEW t, Ready(kind, t), Requested(t)
    PROVE  Ready(kind, s') /\ (st' = "asking" => IsUsb(s'))
<1>1. s' = DebugRequest(t)
  BY DEF Requested
<1>2. Ready(kind, s')
  BY <1>1, ControlReady
<1>3. st' = "asking" => IsUsb(s')
  BY DEF Requested
<1> QED
  BY <1>2, <1>3

LEMMA EndsReady ==
    ASSUME NEW kind, NEW t, Ready(kind, t), Ends(t)
    PROVE  Ready(kind, s') /\ st' # "asking"
<1>1. s' = t /\ st' \in {"exit", "idle"}
  BY DEF Ends
<1> QED
  BY <1>1

LEMMA ResumeReady ==
    ASSUME HostReady, NEW phase, phase # "asking", ResumeTo(phase)
    PROVE  HostReady'
<1> DEFINE kind == s.kind
<1>1. kind \in Kinds /\ Ready(kind, s)
  BY DEF HostReady
<1>2. s' = RunCpu(Restored) /\ st' = phase
  BY DEF ResumeTo
<1> HIDE DEF kind
<1>3. Ready(kind, Restored)
  BY <1>1, RestoredReady
<1>4. Ready(kind, RunCpu(Restored))
  BY <1>1, <1>3, ControlReady
<1> QED
  BY <1>2, <1>4, StaysHostReady DEF kind

LEMMA OpenReady ==
    ASSUME HostReady, Open
    PROVE  HostReady'
<1> DEFINE kind == s.kind
           u == open(s)
           t == Identified(u)
<1>1. kind \in Kinds /\ Ready(kind, s)
  BY DEF HostReady
<1>2. (s' = t \/ s' = close(t)) /\ st' \in {"idle", "exit"}
  BY DEF Open
<1> HIDE DEF kind
<1>3. Ready(kind, u)
  BY <1>1, OpeningReady
<1> HIDE DEF u
<1>4. Ready(kind, t)
  BY <1>1, <1>3, IdentifiedReady
<1> HIDE DEF t
<1>5. Ready(kind, close(t))
  BY <1>1, <1>4, ControlReady
<1>6. Ready(kind, s') /\ st' # "asking"
  BY <1>2, <1>4, <1>5
<1> QED
  BY <1>6, StaysHostReady DEF kind

LEMMA StoppingReady ==
    ASSUME HostReady, Stop \/ IsStopped \/ AskAgain \/ StopCpuPolls
    PROVE  HostReady'
<1> DEFINE kind == s.kind
           t == Instruction(s, TAP_DEBUG_ENABLE)
<1>1. kind \in Kinds /\ Ready(kind, s)
  BY DEF HostReady
<1>t. Ready(kind, t)
  <2> HIDE DEF kind
  <2> QED
    BY <1>1, OpeningReady
<1>2. CASE Stop
  <2>1. CASE Requested(s)
    <3>1. Ready(kind, s') /\ (st' = "asking" => IsUsb(s'))
      <4> HIDE DEF kind
      <4> QED
        BY <1>1, <2>1, RequestedReady
    <3> QED
      BY <3>1, StaysHostReady
  <2>2. CASE s' = s /\ st' = "idle"
    BY <1>1, <2>2, StaysHostReady
  <2> QED
    BY <1>2, <2>1, <2>2 DEF Stop
<1>3. CASE IsStopped
  <2>1. CASE Requested(t)
    <3>1. Ready(kind, s') /\ (st' = "asking" => IsUsb(s'))
      <4> HIDE DEF kind, t
      <4> QED
        BY <1>1, <1>t, <2>1, RequestedReady
    <3> QED
      BY <3>1, StaysHostReady
  <2>2. CASE s' = t /\ st' = "idle"
    BY <1>t, <2>2, StaysHostReady
  <2>3. Requested(t) \/ (s' = t /\ st' = "idle")
    <3>1. PICK u : /\ u = t /\ st = "idle"
                   /\ (Requested(u) \/ (s' = u /\ st' = st))
      BY <1>3, Zenon DEF IsStopped, Called
    <3> HIDE DEF t
    <3> QED
      BY <3>1
  <2> QED
    BY <2>1, <2>2, <2>3
<1>4. CASE AskAgain
  <2>1. IsUsb(s) /\ s' = usb_ir(s, H_DEBUG, TAP_DEBUG_REQUEST)
    BY <1>4 DEF AskAgain, HostReady
  <2>2. kind \in {"usb", "usb_single"} /\ kind # "mpsse"
    BY <2>1 DEF IsUsb
  <2>3. Ready(kind, s')
    <3> HIDE DEF kind
    <3> QED
      BY <1>1, <2>1, <2>2, UsbReady
  <2>4. IsUsb(s')
    <3> HIDE DEF kind
    <3> QED
      BY <2>2, <2>3 DEF Ready, IsUsb
  <2> QED
    BY <2>3, <2>4, StaysHostReady
<1>5. CASE StopCpuPolls
  <2> DEFINE saved == Oncd(t, target_save_state \o <<>>)
             read == Oncd(t, target_save_state
                               \o (<<target_read_start>> \o target_read_next(MC_CSCON3)))
  <2>1. st = "enabling" /\ (Ends(saved) \/ Ends(read) \/ (s' = t /\ st' \in {"exit", st}))
    <3> HIDE DEF t
    <3>1. CASE InDebug(t, t.value)
      <4>1. Ends(Oncd(t, target_save_state
                           \o IF caller = "stop"
                                THEN <<target_read_start>> \o target_read_next(MC_CSCON3)
                                ELSE <<>>))
        BY <1>5, <3>1 DEF StopCpuPolls, t
      <4>2. CASE caller = "stop"
        BY <1>5, <4>1, <4>2 DEF StopCpuPolls
      <4>3. CASE caller # "stop"
        BY <1>5, <4>1, <4>3 DEF StopCpuPolls
      <4> QED
        BY <4>2, <4>3
    <3>2. CASE ~InDebug(t, t.value)
      BY <1>5, <3>2 DEF StopCpuPolls, t
    <3> QED
      BY <3>1, <3>2
  <2>2. Ready(kind, saved) /\ Ready(kind, read)
    <3> HIDE DEF kind, t
    <3> QED
      BY <1>1, <1>t, SavedReady
  <2> HIDE DEF saved, read, t
  <2>3. Ready(kind, s') /\ st' # "asking"
    <3> HIDE DEF kind
    <3> QED
      BY <1>t, <2>1, <2>2, EndsReady
  <2> QED
    BY <2>3, StaysHostReady
<1> QED
  BY <1>2, <1>3, <1>4, <1>5

LEMMA RunningReady ==
    ASSUME HostReady, Step \/ Resume \/ Detach \/ Restart \/ Close
    PROVE  HostReady'
<1> DEFINE kind == s.kind
           t == Restored
<1>1. kind \in Kinds /\ Ready(kind, s)
  BY DEF HostReady
<1>t. Ready(kind, t)
  <2> HIDE DEF kind
  <2> QED
    BY <1>1, RestoredReady
<1>2. CASE Step
  <2> DEFINE u == StepCpu(t)
             saved == Oncd(u, target_save_state)
  <2>1. Ends(saved)
    BY <1>2, Zenon DEF Step
  <2> HIDE DEF t, kind
  <2>2. Ready(kind, u)
    BY <1>1, <1>t, ControlReady
  <2> HIDE DEF u
  <2>3. Ready(kind, saved)
    BY <1>1, <2>2, SavedReady
  <2> HIDE DEF saved
  <2>4. Ready(kind, s') /\ st' # "asking"
    BY <2>1, <2>3, EndsReady
  <2> QED
    BY <2>4, StaysHostReady DEF kind
<1>3. CASE Resume
  BY <1>3, ResumeReady DEF Resume
<1>4. CASE Detach
  <2>1. CASE ResumeTo("detached")
    BY <2>1, ResumeReady
  <2>2. CASE s' = s /\ st' = "detached"
    BY <1>1, <2>2, StaysHostReady
  <2> QED
    BY <1>4, <2>1, <2>2 DEF Detach
<1>5. CASE Restart
  <2> DEFINE u == IF is_running THEN s ELSE t
  <2>1. s' = reset_cpu(u) /\ st' = "idle"
    BY <1>5, Zenon DEF Restart, Called
  <2> HIDE DEF t, kind
  <2>2. Ready(kind, u)
    BY <1>1, <1>t
  <2> HIDE DEF u
  <2>3. Ready(kind, reset_cpu(u))
    BY <1>1, <2>2, ControlReady
  <2>4. Ready(kind, s') /\ st' # "asking"
    BY <2>1, <2>3
  <2> QED
    BY <2>4, StaysHostReady DEF kind
<1>6. CASE Close
  <2> DEFINE u == RunCpu(t)
  <2>1. (s' = close(s) \/ s' = close(u)) /\ st' = "closed"
    BY <1>6, Zenon DEF Close
  <2> HIDE DEF t, kind
  <2>2. Ready(kind, u)
    BY <1>1, <1>t, ControlReady
  <2> HIDE DEF u
  <2>3. Ready(kind, close(u)) /\ Ready(kind, close(s))
    BY <1>1, <2>2, ControlReady
  <2>4. Ready(kind, s') /\ st' # "asking"
    BY <2>1, <2>3
  <2> QED
    BY <2>4, StaysHostReady DEF kind
<1> QED
  BY <1>2, <1>3, <1>4, <1>5, <1>6

LEMMA ReadsReady ==
    ASSUME HostReady, NEW span \in ReadSpans, ReadWord(span) \/ ReadBlock(span)
    PROVE  HostReady'
<1> DEFINE kind == s.kind
           t == target_read_word(s, span[1])
           u == target_read_block(s, span[1], span[2])
<1>1. kind \in Kinds /\ Ready(kind, s)
  BY DEF HostReady
<1>2. span[2] \in Nat
  BY TargetAssumption
<1>3. Ends(t) \/ Ends(u)
  BY DEF ReadWord, ReadBlock, Answers
<1> HIDE DEF kind
<1>4. Ready(kind, t)
  BY <1>1, EachReady
<1>5. Ready(kind, u)
  BY <1>1, <1>2, ReadBlockReady
<1> HIDE DEF t, u
<1>6. Ready(kind, s') /\ st' # "asking"
  BY <1>3, <1>4, <1>5, EndsReady
<1> QED
  BY <1>6, StaysHostReady DEF kind

LEMMA WritesOfHostReady ==
    ASSUME HostReady, NEW span \in WriteSpans,
           \/ WriteWord(span) \/ WriteNwords(span) \/ WriteBlock(span)
           \/ Program32(span) \/ Program64(span) \/ ProgramPage(span)
    PROVE  HostReady'
<1> DEFINE kind == s.kind
           addr == span[1]
           data == span[2]
           block == Block(addr, data)
           word == target_write_word(s, addr, data[1])
           nwords == target_write_nwords(s, block)
           all == target_write_block(s, addr, data)
           p32 == target_program_block32(s, 0, addr, data)
           p64 == target_program_block64(s, 0, addr, data)
           page == target_program_block32_atmel(s, 0, addr, data)
<1>1. kind \in Kinds /\ Ready(kind, s)
  BY DEF HostReady
<1>2. IsSeq(data)
  BY TargetAssumption DEF IsSeq
<1>3. Ends(word) \/ Ends(nwords) \/ Ends(all) \/ Ends(p32) \/ Ends(p64) \/ Ends(page)
  BY DEF WriteWord, WriteNwords, WriteBlock, Program32, Program64, ProgramPage, Written
<1> HIDE DEF kind, addr, data
<1>4. IsSeq(block)
  BY <1>2, BlockSeq
<1> HIDE DEF block
<1>5. Ready(kind, word)
  BY <1>1, EachReady
<1>6. Ready(kind, nwords)
  BY <1>1, <1>4, NwordsReady
<1>7. Ready(kind, all)
  BY <1>1, <1>2, WriteBlockReady
<1>8. Ready(kind, p32) /\ Ready(kind, p64) /\ Ready(kind, page)
  BY <1>1, <1>2, ProgramsReady
<1> HIDE DEF word, nwords, all, p32, p64, page
<1>9. Ready(kind, s') /\ st' # "asking"
  BY <1>3, <1>5, <1>6, <1>7, <1>8, EndsReady
<1> QED
  BY <1>9, StaysHostReady DEF kind

LEMMA ChipOnlyReady ==
    ASSUME HostReady, Halts
    PROVE  HostReady'
<1> DEFINE kind == s.kind
           chip == EntersDebug(s.chip)
<1>1. Ready(kind, s)
  BY DEF HostReady
<1>2. s' = [s EXCEPT !.chip = chip] /\ st' = st
  BY DEF Halts
<1> HIDE DEF kind, chip
<1>3. Ready(kind, [s EXCEPT !.chip = chip])
  BY <1>1, ReadyStays
<1>4. Ready(kind, s')
  BY <1>2, <1>3
<1>5. s'.kind = s.kind
  BY <1>1, <1>4 DEF Ready
<1>6. st' = "asking" => IsUsb(s')
  BY <1>2, <1>5 DEF HostReady, IsUsb
<1> QED
  BY <1>4, <1>6, StaysHostReady DEF kind

(* Whatever target.c asks of an adapter of any kind, and in whatever order: no
   packet for USB outgrows the array it is put together in, the MPSSE's output
   is flushed before its 4096 bytes are full, and no reply is longer than the
   64 bytes it is read into (usb_pack, mpsse_send, mpsse_flush_output,
   bulk_write_read). *)
THEOREM BuffersNeverOverflow == Spec => []BuffersHold
<1>1. Init => HostReady
  BY InitReady
<1>2. HostReady /\ [Next]_vars => HostReady'
  <2> SUFFICES ASSUME HostReady, [Next]_vars PROVE HostReady'
    OBVIOUS
  <2>1. CASE Open
    BY <2>1, OpenReady
  <2>2. CASE Stop \/ IsStopped \/ AskAgain \/ StopCpuPolls
    BY <2>2, StoppingReady
  <2>3. CASE Step \/ Resume \/ Detach \/ Restart \/ Close
    BY <2>3, RunningReady
  <2>4. CASE \E span \in ReadSpans : ReadWord(span) \/ ReadBlock(span)
    BY <2>4, ReadsReady
  <2>5. CASE \E span \in WriteSpans :
                \/ WriteWord(span) \/ WriteNwords(span) \/ WriteBlock(span)
                \/ Program32(span) \/ Program64(span) \/ ProgramPage(span)
    BY <2>5, WritesOfHostReady
  <2>6. CASE s' = s /\ st' \in {st, "idle"}
    BY <2>6 DEF HostReady
  <2>7. CASE Halts
    BY <2>7, ChipOnlyReady
  <2>8. CASE GetPc \/ SetPc \/ UNCHANGED vars
    <3>1. s' = s /\ st' = st
      BY <2>8 DEF GetPc, SetPc, vars
    <3> QED
      BY <2>6, <3>1
  <2> QED
    BY <2>1, <2>2, <2>3, <2>4, <2>5, <2>7, <2>8, Zenon DEF Next
<1>3. HostReady => BuffersHold
  BY DEF HostReady, Ready, BuffersHold
<1> QED
  BY <1>1, <1>2, <1>3, PTL DEF Spec
====

-------------------------- MODULE ProgrammerProofs --------------------------
(***************************************************************************)
(* mcprog leaves the CPU running, whatever the command, the flash, the     *)
(* options and the file, unless target_stop or target_run is cut short; its*)
(* variables keep their types; it changes nothing outside the image but    *)
(* what it may erase; what it reports of the flash is true; and when it is *)
(* done with a file, the memory is as the file says.                       *)
(*                                                                         *)
(* The third is about the chip as well as about the program: an operation  *)
(* of it ends later than the command for it, and a command sent to a chip  *)
(* in another mode than the program thinks would be taken for data.  So    *)
(* ChipInv says in which mode the chip is at each place of the program,    *)
(* and what it may be erasing (Licence); PlaceInv says where the program   *)
(* is in the image, and what it knows of the flash, as far as that argument*)
(* needs it.                                                               *)
(*                                                                         *)
(* The last has two halves.  FileInv: the readers leave in memory_data what*)
(* the file means, by what a reader holds after each line.  KeptInv: what  *)
(* has been verified stays, since a half that could be read has nothing to *)
(* erase (SettledType), and a rewrite reaches the word at hand only.       *)
(***************************************************************************)
EXTENDS Mcprog, FlashProofs, FiniteSetTheorems

(* A way out that has no exit handler: an error of do_info. *)
InfoFails == Commands = <<"info">> /\ outcome \in {"failed", "error"}

(* The places at which is_running may be set although the CPU stands. *)
Unsettled == {"stop", "stopping", "run"}

(* Unless a signal or an error has cut target_stop or target_run short: the CPU
   runs while target is 0, so that nothing is lost when quit() then does nothing,
   and where quit() believes is_running the CPU does run.  The process ends with
   target 0, but for do_info.  A signal between target_run and target = 0 leads to
   another quit(), which is harmless. *)
CpuInv ==
    /\ pc \in PCs
    /\ pc = "main" => target = "none"
    /\ pc \in {"stop", "stopping"} => target # "none"
    /\ target = "none" => cpu = "running" \/ cut
    /\ is_running /\ cpu = "stopped" => cut \/ pc \in Unsettled
    /\ pc = "close" => cpu = "running" \/ cut
    /\ cpu \in {"running", "stopped"}
    /\ pc = "ended" => target = "none" \/ InfoFails

LEMMA CpuInit == Init => CpuInv
  BY DEF Init, CpuInv, PCs, Unsettled

(* The two ways to leave a command, and the steps between, for the proofs below. *)
LEMMA ExitKeeps ==
    ASSUME CpuInv, UNCHANGED <<opt, cpu, is_running, target, cut>>, pc \notin Unsettled,
           NEW how \in {"failed", "error"}, Exit(how)
    PROVE  CpuInv'
  BY DEF Exit, CpuInv, InfoFails, PCs, Commands, Unsettled

LEMMA ReturnKeeps ==
    ASSUME CpuInv, UNCHANGED <<opt, cpu, is_running, target, cut>>, pc # "ended",
           pc \notin Unsettled, NEW how, Return(how)
    PROVE  CpuInv'
  BY DEF Return, CpuInv, PCs, Unsettled

(* A step inside a command changes neither the CPU nor target. *)
LEMMA InsideKeeps ==
    ASSUME CpuInv, UNCHANGED <<opt, cpu, is_running, target, cut>>, pc \notin Unsettled,
           pc' \in PCs \ ({"main", "close", "ended"} \cup Unsettled)
    PROVE  CpuInv'
  BY DEF CpuInv, Unsettled

LEMMA EraseStep == CpuInv /\ Erase => CpuInv'
<1> SUFFICES ASSUME CpuInv, Erase
             PROVE  CpuInv'
    OBVIOUS
<1> USE DEF input, chip, host, place, Erasing, Goto, Unsettled
<1>1. CASE NoErase
    BY <1>1, InsideKeeps DEF NoErase, PCs
<1>2. CASE EraseNothing
    BY <1>2, InsideKeeps, ReturnKeeps DEF EraseNothing, EraseReturns, PCs
<1>3. CASE PollErase
    BY <1>3, InsideKeeps, ReturnKeeps DEF PollErase, EraseReturns, PCs
<1>4. CASE target_erase
    BY <1>4, InsideKeeps DEF target_erase, PCs
<1>5. CASE target_erase_sector
    BY <1>5, InsideKeeps DEF target_erase_sector, PCs
<1>6. CASE MicronErase
    BY <1>6, InsideKeeps DEF MicronErase, PCs
<1>7. CASE MicronErased
    BY <1>7, InsideKeeps DEF MicronErased, PCs
<1>8. CASE MicronEraseTimeout
    BY <1>8, InsideKeeps, ReturnKeeps DEF MicronEraseTimeout, EraseReturns, PCs
<1> QED BY <1>1, <1>2, <1>3, <1>4, <1>5, <1>6, <1>7, <1>8 DEF Erase

LEMMA BlocksStep == CpuInv /\ Blocks => CpuInv'
<1> SUFFICES ASSUME CpuInv, Blocks
             PROVE  CpuInv'
    OBVIOUS
<1> USE DEF input, chip, host, place, result, Goto, NextWord, Unsettled
<1>1. CASE StartBlock
    BY <1>1, InsideKeeps, ReturnKeeps DEF StartBlock, PCs
<1>2. CASE WriteBlock
    BY <1>2, InsideKeeps DEF WriteBlock, PCs
<1>3. CASE ProgramWord
    BY <1>3, InsideKeeps DEF ProgramWord, PCs
<1>4. CASE ProgramPage
    BY <1>4, InsideKeeps DEF ProgramPage, PCs
<1>5. CASE ProgramBuffer
    BY <1>5, InsideKeeps DEF ProgramBuffer, PCs
<1>6. CASE EndBlock \/ MicronProgramTimeout \/ ReadBlock
    BY <1>6, InsideKeeps DEF EndBlock, MicronProgramTimeout, ReadBlock, PCs
<1>7. CASE VerifyMatch
    BY <1>7, InsideKeeps DEF VerifyMatch, PCs
<1>8. CASE VerifyFails
    BY <1>8, ExitKeeps DEF VerifyFails
<1>9. CASE Rewrite
    BY <1>9, InsideKeeps, ExitKeeps DEF Rewrite, PCs
<1> QED BY <1>1, <1>2, <1>3, <1>4, <1>5, <1>6, <1>7, <1>8, <1>9 DEF Blocks

LEMMA CpuStep == CpuInv /\ [Next]_vars => CpuInv'
<1> SUFFICES ASSUME CpuInv, [Next]_vars
             PROVE  CpuInv'
    OBVIOUS
<1> USE DEF input, chip, host, place, result, Goto, Unsettled
<1>1. CASE Rejected
    BY <1>1 DEF Rejected, CpuInv, InfoFails, PCs, Commands
<1>2. CASE main
    BY <1>2, InsideKeeps DEF main, PCs
<1>3. CASE Open
  <2>1. CASE Goto("stop") /\ target' = "open"
    <3>1. pc' = "stop" /\ pc' \in PCs /\ cpu' \in {"running", "stopped"}
      BY <1>3, <2>1 DEF Open, CpuInv, PCs
    <3> QED
      BY <2>1, <3>1 DEF CpuInv
  <2>2. CASE Exit("failed") /\ UNCHANGED <<target, is_running>>
    <3>1. pc' \in {"ended", "quit"} /\ pc' \in PCs /\ cpu' \in {cpu, "running"}
      BY <1>3, <2>2 DEF Open, Exit, PCs
    <3>2. pc' = "ended" => target = "none" \/ InfoFails'
      BY <1>3, <2>2 DEF Open, Exit, InfoFails, Commands
    <3>3. pc = "open" /\ UNCHANGED cut
      BY <1>3 DEF Open
    <3> QED
      BY <2>2, <3>1, <3>2, <3>3 DEF CpuInv
  <2> QED
    BY <1>3, <2>1, <2>2 DEF Open
<1>4. CASE Configure
    BY <1>4, InsideKeeps, ReturnKeeps DEF Configure, PCs
<1>5. CASE ConfigureFails
    BY <1>5, ExitKeeps DEF ConfigureFails
<1>6. CASE NoFlash
    BY <1>6, ExitKeeps, ReturnKeeps DEF NoFlash
<1>7. CASE Detect
    BY <1>7, InsideKeeps, ReturnKeeps DEF Detect, PCs
<1>8. CASE Erase
    BY <1>8, EraseStep
<1>9. CASE Blocks
    BY <1>9, BlocksStep
<1>10. CASE check_clean
    BY <1>10, ReturnKeeps DEF check_clean
<1>11. CASE CopyBlock
    BY <1>11 DEF CopyBlock, CpuInv, PCs
<1>12. CASE CopyFails
    BY <1>12, ExitKeeps DEF CopyFails
<1>13. CASE CopyDone
    BY <1>13, ReturnKeeps DEF CopyDone
<1>14. CASE StopCpu \/ Stopped
    BY <1>14 DEF StopCpu, Stopped, CpuInv, PCs
<1>15. CASE StopFails
  <2>1. pc' \in {"ended", "quit"} /\ pc' \in PCs
    BY <1>15 DEF StopFails, Exit, PCs
  <2>2. pc' = "ended" => target = "none" \/ InfoFails'
    BY <1>15 DEF StopFails, Exit, InfoFails, Commands
  <2>3. cpu' \in {"running", "stopped"} /\ cut' /\ UNCHANGED target
    BY <1>15 DEF StopFails, CpuInv
  <2> QED
    BY <2>1, <2>2, <2>3 DEF CpuInv
<1>16. CASE QuitRun \/ RunCpu \/ QuitClose
    BY <1>16 DEF QuitRun, RunCpu, QuitClose, CpuInv, PCs
<1>17. CASE Interrupted
  <2>1. pc' \in {"ended", "quit"} /\ pc' \in PCs /\ (pc' = "ended" => target = "none")
    BY <1>17 DEF Interrupted, PCs
  <2>2. UNCHANGED <<cpu, is_running, target>> /\ (cut' <=> cut \/ CutsShort)
    BY <1>17 DEF Interrupted
  <2>3. pc \in Unsettled /\ cpu = "stopped" => CutsShort
    BY DEF CutsShort
  <2> QED
    BY <2>1, <2>2, <2>3 DEF CpuInv
<1>18. CASE \E h \in {0, 1} : OperationDone(h)
    BY <1>18 DEF OperationDone, CpuInv, InfoFails, Commands
<1>19. CASE UNCHANGED vars
    BY <1>19 DEF vars, CpuInv, InfoFails, Commands
<1> QED BY <1>1, <1>2, <1>3, <1>4, <1>5, <1>6, <1>7, <1>8, <1>9, <1>10, <1>11, <1>12, <1>13,
           <1>14, <1>15, <1>16, <1>17, <1>18, <1>19 DEF Next, mcprog

(* quit() is reached on every way out but those of do_info, by return, by exit,
   by a signal and by both, and the CPU runs when the process ends; unless
   target_stop or target_run was cut short, so that quit() takes a CPU that
   stands to be running. *)
THEOREM CpuRunsInTheEnd == Spec => []ReleasedAtEnd
<1>1. CpuInv => ReleasedAtEnd
    BY DEF CpuInv, ReleasedAtEnd, InfoFails
<1> QED BY CpuInit, CpuStep, <1>1, PTL DEF Spec

-----------------------------------------------------------------------------
(* The readers of files, line by line. *)
ReaderType == [status : {"reading", "exit", "end"}, base : Nat, len : 0 .. MaxImage,
               data : [0 .. MaxImage - 1 -> SUBSET Bits], high : Nat]

LEMMA StartTyped ==
    ASSUME NEW base \in Nat, NEW data \in [0 .. MaxImage - 1 -> SUBSET Bits]
    PROVE  Start(base, data) \in ReaderType
  BY ImageAssumption DEF Start, ReaderType

LEMMA BlankTyped == Blank \in [0 .. MaxImage - 1 -> SUBSET Bits]
  BY DEF Blank, Zero

LEMMA EndsTyped ==
    ASSUME NEW s \in ReaderType
    PROVE  Ends(s) \in ReaderType /\ Exits(s) \in ReaderType /\ Foreign(s) \in ReaderType
  BY DEF ReaderType, Ends, Exits, Foreign

LEMMA StoreTyped ==
    ASSUME NEW s \in ReaderType, NEW address \in Nat, NEW data \in Seq(SUBSET Bits)
    PROVE  Store(s, address, data) \in ReaderType
<1> DEFINE base == IF s.base = 0 THEN address ELSE s.base
           from == address - base
           last == from + Len(data)
           len == IF s.len < last THEN last ELSE s.len
           d == [i \in DOMAIN s.data |->
                    IF i \in from .. last - 1 THEN data[i - from + 1] ELSE s.data[i]]
<1>1. /\ s.base \in Nat /\ s.len \in 0 .. MaxImage /\ s.data \in [0 .. MaxImage - 1 -> SUBSET Bits]
      /\ MaxImage \in Nat
  BY ImageAssumption DEF ReaderType
<1>2. base \in Nat /\ from \in Int /\ last \in Int /\ Len(data) \in Nat /\ last >= from
  BY <1>1
<1>3. CASE from < 0 \/ last > MaxImage
  BY <1>3, EndsTyped DEF Store
<1>4. CASE ~(from < 0 \/ last > MaxImage)
  <2>1. Store(s, address, data) = [s EXCEPT !.base = base, !.len = len, !.data = d]
    BY <1>4 DEF Store
  <2>2. len \in 0 .. MaxImage
    BY <1>1, <1>2, <1>4
  <2>3. d \in [0 .. MaxImage - 1 -> SUBSET Bits]
    <3>1. ASSUME NEW i \in 0 .. MaxImage - 1, i \in from .. last - 1
          PROVE  data[i - from + 1] \in SUBSET Bits
      <4>0. last = from + Len(data)
        OBVIOUS
      <4>1. i - from + 1 \in 1 .. Len(data)
        <5> HIDE DEF from, last
        <5> QED
          BY <1>2, <3>1, <4>0
      <4> QED
        BY <4>1
    <3> HIDE DEF from, last
    <3> QED
      BY <1>1, <3>1
  <2> HIDE DEF len, d, base
  <2> QED
    BY <1>1, <1>2, <2>1, <2>2, <2>3 DEF ReaderType
<1> QED
  BY <1>3, <1>4

LEMMA SrecLineTyped ==
    ASSUME NEW s \in ReaderType, NEW l, IsLine(l) PROVE SrecLine(s, l) \in ReaderType
<1>1. /\ l.type \in {"data", "high", "other", "end", "broken"} /\ l.at \in Nat
      /\ l.type = "data" => l.data \in Seq(SUBSET Bits)
  BY DEF IsLine, Types
<1>2. l.type = "data" => Store(s, l.at, l.data) \in ReaderType
  BY <1>1, StoreTyped
<1>3. Ends(s) \in ReaderType /\ Exits(s) \in ReaderType /\ Foreign(s) \in ReaderType
  BY EndsTyped
<1> QED
  BY <1>1, <1>2, <1>3 DEF SrecLine

LEMMA HexLineTyped ==
    ASSUME NEW s \in ReaderType, NEW l, IsLine(l), NEW k PROVE HexLine(s, l, k) \in ReaderType
<1> DEFINE address == s.high * Segment + l.at
<1>1. /\ l.type \in {"data", "high", "other", "end", "broken"} /\ l.at \in Nat
      /\ l.type = "data" => l.data \in Seq(SUBSET Bits)
      /\ l.type = "high" => l.data[1] \in Nat
  BY DEF IsLine, Types
<1>2. address \in Nat
  <2>1. s.high \in Nat /\ Segment \in Nat
    BY ImageAssumption DEF ReaderType
  <2>2. s.high * Segment \in Nat
    BY <2>1
  <2> QED
    BY <1>1, <2>2
<1>3. l.type = "data" => Store(s, address, l.data) \in ReaderType
  <2> HIDE DEF address
  <2> QED
    BY <1>1, <1>2, StoreTyped
<1>4. Ends(s) \in ReaderType /\ Exits(s) \in ReaderType /\ Foreign(s) \in ReaderType
  BY EndsTyped
<1>5. l.type = "high" => [s EXCEPT !.high = l.data[1]] \in ReaderType
  BY <1>1 DEF ReaderType
<1>6. \/ HexLine(s, l, k) \in {s, Ends(s), Exits(s), Foreign(s)}
      \/ l.type = "high" /\ HexLine(s, l, k) = [s EXCEPT !.high = l.data[1]]
      \/ l.type \notin {"high", "other", "end", "broken"} /\ HexLine(s, l, k) = Store(s, address, l.data)
  BY Zenon DEF HexLine
<1> HIDE DEF address
<1> QED
  BY <1>1, <1>3, <1>4, <1>5, <1>6

(* The state of a reader before each line. *)
SrecTrace(a, s, lines, n) ==
    a[0] = s /\ FoldLeft(SrecLine, s, lines) = a[n]
      /\ \A k \in 1 .. n : a[k] = SrecLine(a[k - 1], lines[k])

HexTrace(a, s, lines, n, k) ==
    a[0] = s /\ FoldLeft(LAMBDA r, l : HexLine(r, l, k), s, lines) = a[n]
      /\ \A i \in 1 .. n : a[i] = HexLine(a[i - 1], lines[i], k)

LEMMA SrecIsFold ==
    ASSUME NEW n \in Nat, NEW lines, DOMAIN lines = 1 .. n,
           \A i \in 1 .. n : IsLine(lines[i]), NEW B \in ReaderType
    PROVE  \E a : SrecTrace(a, B, lines, n)
<1> DEFINE T == ReaderType
           F == [k \in 1 .. n |-> [r \in T |-> SrecLine(r, lines[k])]]
           Eq(g) == g = [s \in SUBSET (1 .. n) |->
                       IF s = {} THEN B ELSE SrecLine(g[s \ {Max(s)}], lines[Max(s)])]
<1>1. F \in [1 .. n -> [T -> T]]
  BY SrecLineTyped
<1>2. PICK h \in [SUBSET (1 .. n) -> T] : IsFold(h, F, B, n)
  <2> HIDE DEF F, T
  <2>1. B \in T
    BY DEF T
  <2> QED
    BY <1>1, <2>1, FoldExists
<1>3. Eq(h)
  <2>1. ASSUME NEW s \in SUBSET (1 .. n), s # {}
        PROVE  F[Max(s)][h[s \ {Max(s)}]] = SrecLine(h[s \ {Max(s)}], lines[Max(s)])
    <3>1. Max(s) \in 1 .. n
      BY <2>1, MaxOfSet
    <3>2. h[s \ {Max(s)}] \in T
      OBVIOUS
    <3> HIDE DEF T
    <3> QED
      BY <3>1, <3>2
  <2> HIDE DEF F
  <2> QED
    BY <1>2, <2>1 DEF IsFold
<1> DEFINE g == CHOOSE g : Eq(g)
           a == [k \in 0 .. n |-> g[1 .. k]]
<1>4. Eq(g)
  <2> HIDE DEF Eq
  <2> QED
    BY <1>3
<1>5. FoldLeft(SrecLine, B, lines) = g[1 .. n]
  BY DEF FoldLeft, MapThenFoldSet
<1>6. \A s \in SUBSET (1 .. n) :
         g[s] = IF s = {} THEN B ELSE SrecLine(g[s \ {Max(s)}], lines[Max(s)])
  <2> HIDE DEF g
  <2> QED
    BY <1>4
<1> HIDE DEF g
<1>7. a[0] = B /\ FoldLeft(SrecLine, B, lines) = a[n]
  <2>1. 1 .. 0 = {} /\ 0 \in 0 .. n /\ n \in 0 .. n /\ {} \in SUBSET (1 .. n)
    OBVIOUS
  <2>2. g[{}] = B
    BY <1>6, <2>1
  <2> QED
    BY <1>5, <2>1, <2>2
<1>8. ASSUME NEW k \in 1 .. n
      PROVE  a[k] = SrecLine(a[k - 1], lines[k])
  <2> DEFINE s == 1 .. k
  <2>1. Max(s) = k /\ s \ {k} = 1 .. k - 1
    BY MaxOfInterval
  <2>2. s \in SUBSET (1 .. n) /\ k \in s /\ k - 1 \in 0 .. n /\ k \in 0 .. n /\ s # {}
    <3>1. k \in Nat /\ 1 <= k /\ k <= n
      OBVIOUS
    <3> QED
      BY <3>1
  <2>3. g[s] = SrecLine(g[s \ {Max(s)}], lines[Max(s)])
    <3> HIDE DEF s
    <3> QED
      BY <1>6, <2>2
  <2>4. g[1 .. k] = SrecLine(g[1 .. k - 1], lines[k])
    BY <2>1, <2>3
  <2> QED
    BY <2>2, <2>4
<1> QED
  <2> HIDE DEF a
  <2> QED
    BY <1>7, <1>8 DEF SrecTrace

LEMMA SrecTyped ==
    ASSUME NEW file, IsFile(file) PROVE read_srec(file) \in ReaderType
<1> DEFINE n == Len(file.lines)
           s == Start(0, Blank)
<1>1. n \in Nat /\ DOMAIN file.lines = 1 .. n /\ \A i \in 1 .. n : IsLine(file.lines[i])
  BY DEF IsFile
<1>2. s \in ReaderType
  BY StartTyped, BlankTyped
<1> HIDE DEF n, s
<1>3. PICK a : SrecTrace(a, s, file.lines, n)
  BY <1>1, <1>2, SrecIsFold
<1> DEFINE S == {k \in Nat : k <= n => a[k] \in ReaderType}
<1>4. 0 \in S
  BY <1>2, <1>3 DEF SrecTrace
<1>5. ASSUME NEW k \in Nat, k \in S PROVE k + 1 \in S
  <2> SUFFICES ASSUME k + 1 <= n PROVE a[k + 1] \in ReaderType
    OBVIOUS
  <2> DEFINE i == k + 1
  <2>1. i \in 1 .. n /\ i - 1 = k /\ a[k] \in ReaderType /\ IsLine(file.lines[i])
    BY <1>1, <1>5
  <2> HIDE DEF i
  <2>2. a[i] = SrecLine(a[i - 1], file.lines[i])
    BY <1>3, <2>1 DEF SrecTrace
  <2>3. a[i] \in ReaderType
    BY <2>1, <2>2, SrecLineTyped
  <2> QED
    BY <2>3 DEF i
<1>6. n \in S
  <2> HIDE DEF S
  <2> QED
    BY <1>1, <1>4, <1>5, Induction
<1> QED
  BY <1>1, <1>3, <1>6 DEF read_srec, SrecTrace, s
LEMMA HexIsFold ==
    ASSUME NEW n \in Nat, NEW lines, DOMAIN lines = 1 .. n,
           \A i \in 1 .. n : IsLine(lines[i]), NEW B \in ReaderType, NEW u
    PROVE  \E a : HexTrace(a, B, lines, n, u)
<1> DEFINE T == ReaderType
           F == [k \in 1 .. n |-> [r \in T |-> HexLine(r, lines[k], u)]]
           Eq(g) == g = [s \in SUBSET (1 .. n) |->
                       IF s = {} THEN B ELSE HexLine(g[s \ {Max(s)}], lines[Max(s)], u)]
<1>1. F \in [1 .. n -> [T -> T]]
  BY HexLineTyped
<1>2. PICK h \in [SUBSET (1 .. n) -> T] : IsFold(h, F, B, n)
  <2> HIDE DEF F, T
  <2>1. B \in T
    BY DEF T
  <2> QED
    BY <1>1, <2>1, FoldExists
<1>3. Eq(h)
  <2>1. ASSUME NEW s \in SUBSET (1 .. n), s # {}
        PROVE  F[Max(s)][h[s \ {Max(s)}]] = HexLine(h[s \ {Max(s)}], lines[Max(s)], u)
    <3>1. Max(s) \in 1 .. n
      BY <2>1, MaxOfSet
    <3>2. h[s \ {Max(s)}] \in T
      OBVIOUS
    <3> HIDE DEF T
    <3> QED
      BY <3>1, <3>2
  <2> HIDE DEF F
  <2> QED
    BY <1>2, <2>1 DEF IsFold
<1> DEFINE g == CHOOSE g : Eq(g)
           a == [k \in 0 .. n |-> g[1 .. k]]
<1>4. Eq(g)
  <2> HIDE DEF Eq
  <2> QED
    BY <1>3
<1>5. FoldLeft(LAMBDA r, l : HexLine(r, l, u), B, lines) = g[1 .. n]
  BY DEF FoldLeft, MapThenFoldSet
<1>6. \A s \in SUBSET (1 .. n) :
         g[s] = IF s = {} THEN B ELSE HexLine(g[s \ {Max(s)}], lines[Max(s)], u)
  <2> HIDE DEF g
  <2> QED
    BY <1>4
<1> HIDE DEF g
<1>7. a[0] = B /\ FoldLeft(LAMBDA r, l : HexLine(r, l, u), B, lines) = a[n]
  <2>1. 1 .. 0 = {} /\ 0 \in 0 .. n /\ n \in 0 .. n /\ {} \in SUBSET (1 .. n)
    OBVIOUS
  <2>2. g[{}] = B
    BY <1>6, <2>1
  <2> QED
    BY <1>5, <2>1, <2>2
<1>8. ASSUME NEW k \in 1 .. n
      PROVE  a[k] = HexLine(a[k - 1], lines[k], u)
  <2> DEFINE s == 1 .. k
  <2>1. Max(s) = k /\ s \ {k} = 1 .. k - 1
    BY MaxOfInterval
  <2>2. s \in SUBSET (1 .. n) /\ k \in s /\ k - 1 \in 0 .. n /\ k \in 0 .. n /\ s # {}
    <3>1. k \in Nat /\ 1 <= k /\ k <= n
      OBVIOUS
    <3> QED
      BY <3>1
  <2>3. g[s] = HexLine(g[s \ {Max(s)}], lines[Max(s)], u)
    <3> HIDE DEF s
    <3> QED
      BY <1>6, <2>2
  <2>4. g[1 .. k] = HexLine(g[1 .. k - 1], lines[k], u)
    BY <2>1, <2>3
  <2> QED
    BY <2>2, <2>4
<1> QED
  <2> HIDE DEF a
  <2> QED
    BY <1>7, <1>8 DEF HexTrace

LEMMA HexTyped ==
    ASSUME NEW file, IsFile(file), NEW r \in ReaderType, NEW u
    PROVE  read_hex(file, u, r) \in ReaderType
<1> DEFINE n == Len(file.lines)
           s == Start(r.base, r.data)
<1>1. n \in Nat /\ DOMAIN file.lines = 1 .. n /\ \A i \in 1 .. n : IsLine(file.lines[i])
  BY DEF IsFile
<1>2. s \in ReaderType
  BY StartTyped DEF ReaderType
<1> HIDE DEF n, s
<1>3. PICK a : HexTrace(a, s, file.lines, n, u)
  BY <1>1, <1>2, HexIsFold
<1> DEFINE S == {k \in Nat : k <= n => a[k] \in ReaderType}
<1>4. 0 \in S
  BY <1>2, <1>3 DEF HexTrace
<1>5. ASSUME NEW k \in Nat, k \in S PROVE k + 1 \in S
  <2> SUFFICES ASSUME k + 1 <= n PROVE a[k + 1] \in ReaderType
    OBVIOUS
  <2> DEFINE i == k + 1
  <2>1. i \in 1 .. n /\ i - 1 = k /\ a[k] \in ReaderType /\ IsLine(file.lines[i])
    BY <1>1, <1>5
  <2> HIDE DEF i
  <2>2. a[i] = HexLine(a[i - 1], file.lines[i], u)
    BY <1>3, <2>1 DEF HexTrace
  <2>3. a[i] \in ReaderType
    BY <2>1, <2>2, HexLineTyped
  <2> QED
    BY <2>3 DEF i
<1>6. n \in S
  <2> HIDE DEF S
  <2> QED
    BY <1>1, <1>4, <1>5, Induction
<1> QED
  BY <1>1, <1>3, <1>6 DEF read_hex, HexTrace, s, FoldLeft, MapThenFoldSet

LEMMA BinTyped ==
    ASSUME NEW file, IsFile(file), NEW base \in Nat PROVE read_bin(file, base) \in ReaderType
<1> DEFINE len == IF Len(file.bytes) < MaxImage THEN Len(file.bytes) ELSE MaxImage
           s == Ends(Start(base, Blank))
           d == [i \in DOMAIN s.data |-> IF i < len THEN file.bytes[i + 1] ELSE s.data[i]]
<1>1. /\ MaxImage \in Nat /\ file.bytes \in Seq(SUBSET Bits) /\ Len(file.bytes) \in Nat
      /\ len \in 0 .. MaxImage /\ len <= Len(file.bytes)
  BY ImageAssumption DEF IsFile
<1>2. s \in ReaderType
  BY StartTyped, BlankTyped, EndsTyped
<1> HIDE DEF s, len
<1>3. d \in [0 .. MaxImage - 1 -> SUBSET Bits]
  <2>1. \A i \in 0 .. MaxImage - 1 : i < len => file.bytes[i + 1] \in SUBSET Bits
    BY <1>1
  <2> QED
    BY <1>2, <2>1 DEF ReaderType
<1>4. read_bin(file, base) = [s EXCEPT !.len = len, !.data = d]
  BY DEF read_bin, s, len
<1> HIDE DEF d
<1> QED
  BY <1>1, <1>2, <1>3, <1>4 DEF ReaderType

(* main has an image whatever the command line. *)
LEMMA LoadedTyped ==
    ASSUME opt \in CommandLines
    PROVE  /\ Loaded.base \in Nat /\ Loaded.len \in Nat
           /\ Loaded.data \in [0 .. MaxImage - 1 -> SUBSET Bits]
           /\ opt.args # 3 => Loaded.len <= MaxImage
<1>1. opt.addr \in Nat /\ opt.len \in Nat /\ opt.args \in 0 .. 3 /\ IsFile(opt.file)
  BY McprogAssumption
<1>2. DEFAULT_ADDR \in Nat /\ MaxImage \in Nat
  BY ImageAssumption
<1> DEFINE base == IF opt.args = 0 THEN DEFAULT_ADDR ELSE opt.addr
           r == [Ends(Start(base, Blank)) EXCEPT !.len = IF opt.args = 3 THEN opt.len ELSE 0]
<1>3. base \in Nat
  BY <1>1, <1>2
<1>4. CASE FileNamed
  <2>1. read_file(opt.file, K) \in ReaderType
    <3>1. read_srec(opt.file) \in ReaderType
      BY <1>1, SrecTyped
    <3>2. read_hex(opt.file, K, read_srec(opt.file)) \in ReaderType
      BY <1>1, <3>1, HexTyped
    <3>3. read_bin(opt.file, DEFAULT_ADDR) \in ReaderType
      BY <1>1, <1>2, BinTyped
    <3> QED
      BY <3>1, <3>2, <3>3 DEF read_file
  <2>2. read_bin(opt.file, base) \in ReaderType
    BY <1>1, <1>3, BinTyped
  <2>3. Loaded \in ReaderType
    BY <1>4, <2>1, <2>2 DEF Loaded
  <2> QED
    BY <1>2, <2>3 DEF ReaderType
<1>5. CASE ~FileNamed
  <2>1. Ends(Start(base, Blank)) \in ReaderType
    BY <1>3, StartTyped, BlankTyped, EndsTyped
  <2>2. Loaded = r
    BY <1>5 DEF Loaded
  <2> HIDE DEF base
  <2> QED
    BY <1>1, <1>2, <2>1, <2>2 DEF ReaderType
<1> QED
  BY <1>4, <1>5

-----------------------------------------------------------------------------
(* Where a run is. *)
Leaving == {"quit", "run", "close", "ended"}
Active == PCs \ ({"main"} \cup Leaving)
Opened == {"stop", "stopping", "configure"}
AtErase == {"erase", "poll", "poll micron"}
AtBlock == {"block", "write", "program", "end block", "read", "verify"}

(* The command at hand and the place it has come to. *)
CommandInv ==
    /\ opt \in CommandLines
    /\ pc \in PCs
    /\ left \in {<<>>, Commands, <<"check">>}
    /\ left = <<"check">> => Commands \in {<<"check">>, <<"erase", "check">>}
    /\ pc \in Active => left # <<>>
    /\ pc = "detect" => Cmd \notin {"info", "write"}
    /\ pc = "check" => Cmd = "check"
    /\ pc = "copy" => Cmd = "read"
    /\ pc \in AtErase => Cmd \in {"erase", "program"}
    /\ pc \in AtBlock => Cmd \in {"program", "write"}
    /\ pc = "write" => Cmd = "write" /\ ~opt.verify
    /\ pc \in {"program", "end block"} => Cmd = "program" /\ ~opt.verify
    /\ pc \in {"poll", "poll micron"} \/ (pc = "erase" /\ area > 0) =>
          Cmd = "erase" \/ (~opt.verify /\ erase_mode # 0)

LEMMA CommandCases ==
    ASSUME opt \in CommandLines
    PROVE  /\ Commands \in {<<>>, <<"read">>, <<"write">>, <<"program">>, <<"info">>, <<"probe">>,
                            <<"erase", "check">>, <<"erase">>, <<"check">>}
           /\ Commands = <<"write">> => opt.kind = "static"
           /\ opt.args = 3 => Commands \in {<<>>, <<"read">>}
<1>1. opt.args \in 0 .. 3 /\ (opt.write => opt.kind = "static")
  BY McprogAssumption
<1> DEFINE T == IF opt.write THEN <<"write">> ELSE <<"program">>
<1>2. T \in {<<"write">>, <<"program">>} /\ (T = <<"write">> => opt.write)
  OBVIOUS
<1>3. /\ Commands \in {<<>>, <<"read">>, T, <<"info">>, <<"probe">>,
                       <<"erase", "check">>, <<"erase">>, <<"check">>}
      /\ opt.args = 3 => Commands \in {<<>>, <<"read">>}
  BY <1>1 DEF Commands
<1> HIDE DEF T
<1> QED
  BY <1>1, <1>2, <1>3

(* What is left of the commands. *)
LEMMA LeftCases ==
    ASSUME CommandInv, left # <<>>
    PROVE  /\ Commands # <<>>
           /\ Cmd \in {"read", "write", "program", "info", "probe", "erase", "check"}
           /\ Cmd = "program" => Commands = <<"program">>
           /\ Cmd = "write" => Commands = <<"write">> /\ opt.kind = "static"
           /\ Cmd = "erase" => Commands[1] = "erase"
           /\ Cmd = "read" => Commands = <<"read">>
           /\ Tail(left) \in {<<>>, <<"check">>}
           /\ Tail(left) # <<>> => Cmd = "erase" /\ Commands = <<"erase", "check">>
           /\ Len(left) > 1 <=> Tail(left) # <<>>
<1> DEFINE Names == {"read", "write", "program", "info", "probe", "erase", "check"}
<1>1. opt \in CommandLines /\ left \in {Commands, <<"check">>}
  BY DEF CommandInv
<1>2. left \in {<<"read">>, <<"write">>, <<"program">>, <<"info">>, <<"probe">>,
                <<"erase", "check">>, <<"erase">>, <<"check">>}
      /\ (left # <<"check">> => left = Commands)
  BY <1>1, CommandCases
<1>3. left = <<"check">> => Commands \in {<<"check">>, <<"erase", "check">>}
  BY DEF CommandInv
<1>4. CASE left = <<"erase", "check">>
  BY <1>2, <1>4 DEF Cmd
<1>5. CASE left = <<"check">>
  BY <1>3, <1>5 DEF Cmd
<1>6. CASE \E c \in Names \ {"check"} : left = <<c>>
  <2>1. PICK c \in Names \ {"check"} : left = <<c>>
    BY <1>6
  <2>2. Head(left) = c /\ Tail(left) = <<>> /\ Len(left) = 1 /\ left = Commands /\ left[1] = c
    BY <1>2, <2>1
  <2>3. c = "write" => opt.kind = "static"
    BY <1>1, <2>1, <2>2, CommandCases
  <2> QED
    BY <2>1, <2>2, <2>3 DEF Cmd
<1> QED
  BY <1>2, <1>4, <1>5, <1>6

LEMMA CommandInit == Init => CommandInv
  BY DEF Init, CommandInv, PCs, Active, Leaving, AtErase, AtBlock

(* The ways on: to another place of the command, to the next command, and out. *)
LEMMA GotoKeeps ==
    ASSUME CommandInv, UNCHANGED <<opt, left>>, left # <<>>, NEW p \in PCs, pc' = p,
           p = "detect" => Cmd \notin {"info", "write"},
           p = "check" => Cmd = "check", p = "copy" => Cmd = "read",
           p \in AtErase => Cmd \in {"erase", "program"},
           p \in AtBlock => Cmd \in {"program", "write"},
           p = "write" => Cmd = "write" /\ ~opt.verify,
           p \in {"program", "end block"} => Cmd = "program" /\ ~opt.verify,
           p \in {"poll", "poll micron"} \/ (p = "erase" /\ area' > 0) =>
              Cmd = "erase" \/ (~opt.verify /\ erase_mode # 0)
    PROVE  CommandInv'
  BY DEF CommandInv, Cmd, Commands, erase_mode

LEMMA OutKeeps ==
    ASSUME CommandInv, UNCHANGED <<opt, left>>, pc' \in {"quit", "run", "close", "ended"}
    PROVE  CommandInv'
  BY DEF CommandInv, Cmd, Commands, erase_mode, PCs, Active, Leaving, AtErase, AtBlock

LEMMA ReturnOn ==
    ASSUME CommandInv, UNCHANGED opt, left # <<>>, NEW how, Return(how)
    PROVE  CommandInv'
<1>1. /\ left' \in {<<>>, <<"check">>} /\ (left' # <<>> => Commands = <<"erase", "check">>)
      /\ pc' = IF left' # <<>> THEN "open" ELSE "quit"
  BY LeftCases DEF Return
<1>2. Commands' = Commands /\ pc' \in {"open", "quit"} /\ pc' \in PCs
  BY <1>1 DEF Commands, PCs
<1>3. opt' \in CommandLines /\ (pc' = "open" => left' # <<>>)
  BY <1>1 DEF CommandInv
<1>4. left' \in {<<>>, Commands', <<"check">>}
      /\ (left' = <<"check">> => Commands' \in {<<"check">>, <<"erase", "check">>})
  <2>1. <<"check">> # <<>>
    OBVIOUS
  <2> QED
    BY <1>1, <1>2, <2>1
<1> QED
  BY <1>2, <1>3, <1>4 DEF CommandInv, Active, Leaving, AtErase, AtBlock

LEMMA ExitOn ==
    ASSUME CommandInv, UNCHANGED opt, NEW how, Exit(how)
    PROVE  CommandInv'
  BY OutKeeps DEF Exit

LEMMA EraseReturnsOn ==
    ASSUME CommandInv, UNCHANGED opt, left # <<>>, Cmd \in {"erase", "program"}, EraseReturns
    PROVE  CommandInv'
<1>1. CASE Cmd = "erase"
  BY <1>1, ReturnOn DEF EraseReturns
<1>2. CASE Cmd # "erase"
  <2> DEFINE p == "block"
  <2>1. p \in PCs /\ pc' = p /\ UNCHANGED <<opt, left>>
    BY <1>2 DEF EraseReturns, Goto, PCs
  <2> QED
    BY <1>2, <2>1, GotoKeeps DEF AtErase, AtBlock
<1> QED
  BY <1>1, <1>2

LEMMA CommandErase ==
    ASSUME CommandInv, Erase PROVE CommandInv'
<1>1. UNCHANGED opt /\ pc \in AtErase /\ left # <<>> /\ Cmd \in {"erase", "program"}
  <2>1. UNCHANGED opt /\ pc \in AtErase
    BY DEF Erase, NoErase, EraseNothing, PollErase, target_erase, target_erase_sector, MicronErase,
           MicronErased, MicronEraseTimeout, input, AtErase, Erasing
  <2> QED
    BY <2>1 DEF CommandInv, AtErase, Active, PCs, Leaving
<1>2. Erasing => Cmd = "erase" \/ (~opt.verify /\ erase_mode # 0)
  BY <1>1 DEF CommandInv, Erasing, SkipErase, EraseMode
<1>3. pc \in {"poll", "poll micron"} => Cmd = "erase" \/ (~opt.verify /\ erase_mode # 0)
  BY DEF CommandInv
<1>4. CASE NoErase
  <2> DEFINE p == "block"
  <2>1. p \in PCs /\ pc' = p /\ UNCHANGED <<opt, left>> /\ Cmd = "program"
    BY <1>4 DEF NoErase, Goto, PCs, SkipErase, input
  <2> QED
    BY <1>1, <2>1, GotoKeeps DEF AtErase, AtBlock
<1>5. CASE EraseNothing \/ MicronEraseTimeout
  BY <1>1, <1>5, EraseReturnsOn DEF EraseNothing, MicronEraseTimeout
<1>6. CASE target_erase \/ target_erase_sector
  <2> DEFINE p == "poll"
  <2>1. p \in PCs /\ pc' = p /\ UNCHANGED <<opt, left>> /\ Erasing
    BY <1>6 DEF target_erase, target_erase_sector, Goto, PCs, input
  <2> QED
    BY <1>1, <1>2, <2>1, GotoKeeps DEF AtErase, AtBlock
<1>7. CASE MicronErase
  <2> DEFINE p == "poll micron"
  <2>1. p \in PCs /\ pc' = p /\ UNCHANGED <<opt, left>> /\ Erasing
    BY <1>7 DEF MicronErase, Goto, PCs, input
  <2> QED
    BY <1>1, <1>2, <2>1, GotoKeeps DEF AtErase, AtBlock
<1>8. CASE MicronErased
  <2>1. pc' \in {"erase", "poll"} /\ UNCHANGED <<opt, left>> /\ pc = "poll micron"
    BY <1>8 DEF MicronErased, Goto, input
  <2>2. pc' \in PCs
    BY <2>1 DEF PCs
  <2> QED
    BY <1>1, <1>3, <2>1, <2>2, GotoKeeps DEF AtErase, AtBlock
<1>9. CASE PollErase
  <2>1. CASE EraseReturns
    BY <1>1, <2>1, EraseReturnsOn
  <2>2. CASE Goto("erase")
    <3> DEFINE p == "erase"
    <3>1. p \in PCs /\ pc' = p /\ UNCHANGED <<opt, left>> /\ pc = "poll"
      BY <1>9, <2>2 DEF PollErase, Goto, PCs, input
    <3> QED
      BY <1>1, <1>3, <3>1, GotoKeeps DEF AtErase, AtBlock
  <2> QED
    BY <1>9, <2>1, <2>2 DEF PollErase
<1> QED
  BY <1>4, <1>5, <1>6, <1>7, <1>8, <1>9 DEF Erase

LEMMA CommandBlocks ==
    ASSUME CommandInv, Blocks PROVE CommandInv'
<1>1. UNCHANGED opt /\ pc \in AtBlock /\ left # <<>> /\ Cmd \in {"program", "write"}
  <2>1. UNCHANGED opt /\ pc \in AtBlock
    BY DEF Blocks, StartBlock, WriteBlock, ProgramWord, ProgramPage, ProgramBuffer, EndBlock,
           MicronProgramTimeout, ReadBlock, VerifyMatch, VerifyFails, Rewrite, input, AtBlock
  <2> QED
    BY <2>1 DEF CommandInv, AtBlock, Active, PCs, Leaving
<1>2. /\ pc = "write" => Cmd = "write" /\ ~opt.verify
      /\ pc \in {"program", "end block"} => Cmd = "program" /\ ~opt.verify
  BY DEF CommandInv
<1>3. CASE StartBlock
  <2>1. CASE Return("done")
    BY <1>1, <2>1, ReturnOn
  <2>2. CASE Goto("read") \/ (~opt.verify /\ Goto(IF Cmd = "write" THEN "write" ELSE "program"))
    <3>1. /\ pc' \in {"read", "write", "program"} /\ pc' \in PCs /\ UNCHANGED <<opt, left>>
          /\ (pc' = "write" => Cmd = "write" /\ ~opt.verify)
          /\ (pc' = "program" => Cmd # "write" /\ ~opt.verify)
      BY <1>1, <2>2 DEF Goto, PCs
    <3> QED
      BY <1>1, <3>1, GotoKeeps DEF AtErase, AtBlock
  <2> QED
    BY <1>3, <2>1, <2>2 DEF StartBlock
<1>4. CASE WriteBlock \/ EndBlock \/ MicronProgramTimeout \/ ReadBlock
  <2>1. pc' \in {"read", "verify"} /\ UNCHANGED <<opt, left>>
    BY <1>4 DEF WriteBlock, EndBlock, MicronProgramTimeout, ReadBlock, Goto, input, result
  <2>2. pc' \in PCs
    BY <2>1 DEF PCs
  <2> QED
    BY <1>1, <2>1, <2>2, GotoKeeps DEF AtErase, AtBlock
<1>5. CASE ProgramWord \/ ProgramPage \/ ProgramBuffer
  <2>1. pc' \in {"program", "end block"} /\ UNCHANGED <<opt, left>> /\ pc = "program"
    BY <1>5 DEF ProgramWord, ProgramPage, ProgramBuffer, NextWord, input, result
  <2>2. pc' \in PCs
    BY <2>1 DEF PCs
  <2> QED
    BY <1>1, <1>2, <2>1, <2>2, GotoKeeps DEF AtErase, AtBlock
<1>6. CASE VerifyMatch
  <2>1. pc' \in {"verify", "block"} /\ UNCHANGED <<opt, left>>
    BY <1>6 DEF VerifyMatch, input, result
  <2>2. pc' \in PCs
    BY <2>1 DEF PCs
  <2> QED
    BY <1>1, <2>1, <2>2, GotoKeeps DEF AtErase, AtBlock
<1>7. CASE VerifyFails
  BY <1>1, <1>7, ExitOn DEF VerifyFails
<1>8. CASE Rewrite
  <2>1. CASE Exit("error")
    BY <1>1, <2>1, ExitOn
  <2>2. CASE UNCHANGED <<pc, left, outcome>>
    <3>1. pc' = "verify" /\ UNCHANGED <<opt, left>>
      BY <1>1, <1>8, <2>2 DEF Rewrite
    <3>2. pc' \in PCs
      BY <3>1 DEF PCs
    <3> QED
      BY <1>1, <3>1, <3>2, GotoKeeps DEF AtErase, AtBlock
  <2> QED
    BY <1>8, <2>1, <2>2 DEF Rewrite
<1> QED
  BY <1>3, <1>4, <1>5, <1>6, <1>7, <1>8 DEF Blocks

LEMMA CommandStep == CommandInv /\ [Next]_vars => CommandInv'
<1> SUFFICES ASSUME CommandInv, [Next]_vars
             PROVE  CommandInv'
    OBVIOUS
<1> USE DEF input, chip, host, place, result
<1>1. CASE Rejected
  BY <1>1, OutKeeps DEF Rejected
<1>2. CASE main
  <2>1. Commands # <<>> /\ left' = Commands /\ pc' = "open" /\ UNCHANGED opt
    BY <1>2 DEF main
  <2>2. Commands' = Commands /\ opt' \in CommandLines
    BY <2>1 DEF Commands, CommandInv
  <2>3. Commands = <<"check">> \/ Commands # <<"check">>
    OBVIOUS
  <2> QED
    BY <2>1, <2>2, <2>3 DEF CommandInv, PCs, Active, Leaving, AtErase, AtBlock
<1> HIDE DEF place
<1>3. CASE Open \/ StopCpu \/ Stopped \/ StopFails
  <2>1. pc \in {"open", "stop", "stopping"} /\ left # <<>> /\ UNCHANGED opt
    BY <1>3 DEF Open, StopCpu, Stopped, StopFails, CommandInv, PCs, Active, Leaving
  <2>2. ASSUME NEW where \in {"stop", "stopping", "configure"}, Goto(where)
        PROVE  CommandInv'
    <3>1. pc' = where /\ where \in PCs /\ UNCHANGED <<opt, left>>
      BY <2>1, <2>2 DEF Goto, PCs
    <3> QED
      BY <2>1, <2>2, <3>1, GotoKeeps DEF AtErase, AtBlock
  <2>3. CASE Exit("failed")
    BY <2>1, <2>3, ExitOn
  <2> QED
    BY <1>3, <2>2, <2>3 DEF Open, StopCpu, Stopped, StopFails
<1>4. CASE Configure
  <2>1. left # <<>> /\ UNCHANGED opt /\ pc = "configure"
    BY <1>4 DEF Configure, CommandInv, PCs, Active, Leaving
  <2>2. CASE Cmd = "info"
    <3>1. Return("done")
      BY <1>4, <2>2 DEF Configure
    <3> QED
      BY <2>1, <3>1, ReturnOn
  <2>3. CASE Cmd # "info"
    <3>1. UNCHANGED <<opt, left>> /\ (\/ pc' = "block" /\ Cmd = "write"
                                      \/ pc' = "detect" /\ Cmd # "write")
      BY <1>4, <2>3 DEF Configure, Goto
    <3>2. pc' \in PCs
      BY <3>1 DEF PCs
    <3> QED
      BY <2>1, <2>3, <3>1, <3>2, GotoKeeps DEF AtErase, AtBlock
  <2> QED
    BY <2>2, <2>3
<1>5. CASE ConfigureFails \/ CopyFails
  BY <1>5, ExitOn DEF ConfigureFails, CopyFails
<1>6. CASE NoFlash
  <2>1. left # <<>> /\ UNCHANGED opt
    BY <1>6 DEF NoFlash, CommandInv, PCs, Active, Leaving
  <2> QED
    BY <1>6, <2>1, ReturnOn, ExitOn DEF NoFlash
<1>7. CASE Detect
  <2>1. left # <<>> /\ UNCHANGED opt /\ pc = "detect" /\ Cmd \notin {"info", "write"} /\ area' = 0
    BY <1>7 DEF Detect, CommandInv, PCs, Active, Leaving
  <2>2. CASE Cmd = "probe"
    <3>1. Return("done")
      BY <1>7, <2>2 DEF Detect
    <3> QED
      BY <2>1, <3>1, ReturnOn
  <2>3. CASE Cmd # "probe"
    <3>1. /\ UNCHANGED <<opt, left>>
          /\ \/ pc' = "check" /\ Cmd = "check"
             \/ pc' = "copy" /\ Cmd = "read"
             \/ pc' = "erase" /\ Cmd \notin {"check", "read"}
      BY <1>7, <2>3 DEF Detect, Goto
    <3>2. pc' \in PCs /\ Cmd \in {"read", "write", "program", "info", "probe", "erase", "check"}
      BY <2>1, <3>1, LeftCases DEF PCs
    <3>3. CASE pc' = "check" /\ Cmd = "check"
      BY <2>1, <3>1, <3>2, <3>3, GotoKeeps DEF AtErase, AtBlock
    <3>4. CASE pc' = "copy" /\ Cmd = "read"
      BY <2>1, <3>1, <3>2, <3>4, GotoKeeps DEF AtErase, AtBlock
    <3>5. CASE pc' = "erase" /\ Cmd \in {"erase", "program"}
      <4> DEFINE p == "erase"
      <4>1. p \in PCs /\ pc' = p /\ ~(area' > 0) /\ UNCHANGED <<opt, left>>
        BY <2>1, <3>1, <3>2, <3>5
      <4> QED
        BY <2>1, <3>5, <4>1, GotoKeeps DEF AtErase, AtBlock
    <3> QED
      BY <2>1, <2>3, <3>1, <3>2, <3>3, <3>4, <3>5
  <2> QED
    BY <2>2, <2>3
<1>8. CASE Erase
  BY <1>8, CommandErase
<1>9. CASE Blocks
  BY <1>9, CommandBlocks
<1>10. CASE check_clean \/ CopyDone
  <2>1. left # <<>> /\ UNCHANGED opt /\ Return("done")
    BY <1>10 DEF check_clean, CopyDone, CommandInv, PCs, Active, Leaving
  <2> QED
    BY <2>1, ReturnOn
<1>11. CASE CopyBlock
  <2>1. UNCHANGED <<opt, left, pc, area>>
    BY <1>11 DEF CopyBlock
  <2> QED
    BY <2>1 DEF CommandInv, Cmd, Commands, erase_mode
<1>12. CASE QuitRun \/ RunCpu \/ QuitClose \/ Interrupted
  BY <1>12, OutKeeps DEF QuitRun, RunCpu, QuitClose, Interrupted
<1>13. CASE \E h \in {0, 1} : OperationDone(h)
  <2>1. UNCHANGED <<opt, left, pc, area>>
    BY <1>13 DEF OperationDone, place
  <2> QED
    BY <2>1 DEF CommandInv, Cmd, Commands, erase_mode
<1>14. CASE UNCHANGED vars
  <2>1. UNCHANGED <<opt, left, pc, area>>
    BY <1>14 DEF vars, place
  <2> QED
    BY <2>1 DEF CommandInv, Cmd, Commands, erase_mode
<1> QED
  BY <1>1, <1>2, <1>3, <1>4, <1>5, <1>6, <1>7, <1>8, <1>9, <1>10, <1>11, <1>12, <1>13, <1>14
     DEF Next, mcprog

-----------------------------------------------------------------------------
(* The image, and the places in it. *)
NumberInv ==
    /\ memory.base \in Nat /\ memory.len \in Nat
    /\ memory.data \in [0 .. MaxImage - 1 -> SUBSET Bits]
    /\ Commands # <<"read">> => memory.len <= MaxImage
    /\ area \in Nat /\ area % 2 = 0 /\ area <= N + memory.len
    /\ first \in Nat /\ first % Page = 0 /\ first <= Words + BLOCKSZ
    /\ word \in 0 .. Words + BLOCKSZ
    /\ pc = "main" => area = 0 /\ first = 0 /\ word = 0
    /\ pc \in AtBlock \ {"block"} => first < Words
    /\ pc \in {"program", "verify"} => word \in BlockWords
    /\ pc = "program" /\ PageMode => word % Page = 0

LEMMA WordsTyped ==
    ASSUME opt \in CommandLines, memory.len \in Nat
    PROVE  /\ K \in {1, 2} /\ Words \in Nat /\ memory.len <= Words * K
           /\ Words * K < memory.len + K /\ (K = 1 => Words = memory.len)
           /\ opt.width = 64 \/ opt.width = 32 => K = 1
<1>1. K \in {1, 2} /\ (opt.width = 64 \/ opt.width = 32 => K = 1)
  BY DEF K, UnitsPerWord
<1> DEFINE n == memory.len
<1>2. CASE K = 1
  BY <1>1, <1>2 DEF Words
<1>3. CASE K = 2
  <2>1. (n + 1) \div 2 \in Nat /\ n <= ((n + 1) \div 2) * 2 /\ ((n + 1) \div 2) * 2 < n + 2
    OBVIOUS
  <2> QED
    BY <1>1, <1>3, <2>1 DEF Words
<1> QED
  BY <1>1, <1>2, <1>3

LEMMA NumberInit == Init => NumberInv
<1> SUFFICES ASSUME Init PROVE NumberInv
  OBVIOUS
<1>1. /\ pc = "main" /\ opt \in CommandLines /\ memory = Start(0, Blank)
      /\ area = 0 /\ first = 0 /\ word = 0
  BY DEF Init
<1>2. Page \in Nat \ {0} /\ N \in Nat /\ BLOCKSZ \in Nat /\ MaxImage \in Nat
  BY FlashAssumption, ProgrammerAssumption, ImageAssumption
<1>3. memory.base = 0 /\ memory.len = 0 /\ memory.data \in [0 .. MaxImage - 1 -> SUBSET Bits]
  BY <1>1, BlankTyped DEF Start
<1>4. Words \in Nat
  BY <1>1, <1>3, WordsTyped
<1>5. 0 % Page = 0 /\ 0 % 2 = 0
  BY <1>2
<1> QED
  BY <1>1, <1>2, <1>3, <1>4, <1>5 DEF NumberInv, AtBlock

(* The steps that leave the numbers. *)
LEMMA NumberFrame ==
    ASSUME NumberInv, UNCHANGED <<opt, memory, area, first, word>>, pc' # "main",
           pc' \in AtBlock \ {"block"} => first < Words,
           pc' \in {"program", "verify"} => word \in BlockWords,
           pc' = "program" /\ PageMode' => word % Page = 0
    PROVE  NumberInv'
<1>1. Words' = Words /\ BlockWords' = BlockWords /\ Commands' = Commands
  BY DEF Words, K, BlockWords, Commands
<1> QED
  BY <1>1 DEF NumberInv

LEMMA NumberOut ==
    ASSUME NumberInv, UNCHANGED <<opt, memory, area, first, word>>,
           pc' # "main" /\ pc' \notin AtBlock \ {"block"}
    PROVE  NumberInv'
  BY NumberFrame DEF AtBlock

LEMMA WaysOut ==
    /\ \A how : Exit(how) => pc' \in {"quit", "ended"} /\ outcome' = how
    /\ \A how : Return(how) => pc' \in {"open", "quit"} /\ outcome' = how
    /\ EraseReturns => pc' \in {"open", "quit", "block"}
                       /\ (outcome' = "done" \/ UNCHANGED outcome)
  BY DEF Exit, Return, EraseReturns, Goto

(* The numbers move on. *)
LEMMA AreaOn ==
    ASSUME NumberInv, UNCHANGED <<opt, memory, first, word>>,
           area' = 0 \/ (area' = area + Sector /\ (area' <= N \/ area' <= memory.len)),
           pc' # "main" /\ pc' \notin AtBlock \ {"block"}
    PROVE  NumberInv'
<1>1. Words' = Words /\ BlockWords' = BlockWords /\ Commands' = Commands
  BY DEF Words, K, BlockWords, Commands
<1>2. Sector \in Nat /\ Sector % 2 = 0 /\ N \in Nat
  BY FlashAssumption
<1>3. area' \in Nat /\ area' % 2 = 0 /\ area' <= N + memory.len
  BY <1>2, SMTT(60) DEF NumberInv
<1> QED
  BY <1>1, <1>3 DEF NumberInv, AtBlock

LEMMA PageMultiple ==
    ASSUME NEW a \in Nat, NEW b \in Nat, a % Page = 0, b % Page = 0
    PROVE  (a + b) % Page = 0
<1>1. Page \in Nat \ {0}
  BY FlashAssumption
<1> DEFINE p == Page
           i == a \div p
           j == b \div p
<1>2. p \in Nat \ {0} /\ i \in Nat /\ j \in Nat
  BY <1>1
<1>3. a = p * i /\ b = p * j
  BY <1>1
<1>4. a + b = p * (i + j) /\ (i + j) \in Nat
  <2> HIDE DEF p, i, j
  <2> QED
    BY <1>2, <1>3
<1>5. \A q \in Nat \ {0}, m \in Nat : (q * m) % q = 0
  BY SMTT(60)
<1> QED
  BY <1>2, <1>4, <1>5

LEMMA FirstOn ==
    ASSUME NumberInv, UNCHANGED <<opt, memory, area, word>>, first < Words,
           opt \in CommandLines,
           first' = first + BLOCKSZ, pc' # "main" /\ pc' \notin AtBlock \ {"block"}
    PROVE  NumberInv'
<1>1. Words' = Words /\ Commands' = Commands
  BY DEF Words, K, Commands
<1>2. BLOCKSZ \in Nat /\ BLOCKSZ % Page = 0 /\ Words \in Nat
  BY ProgrammerAssumption, WordsTyped DEF NumberInv
<1>3. first \in Nat /\ first % Page = 0
  BY DEF NumberInv
<1>4. first' \in Nat /\ first' <= Words + BLOCKSZ
  BY <1>2, <1>3
<1>5. first' % Page = 0
  <2>1. (first + BLOCKSZ) % Page = 0
    BY <1>2, <1>3, PageMultiple
  <2> QED
    BY <2>1
<1> QED
  BY <1>1, <1>4, <1>5 DEF NumberInv, AtBlock

LEMMA InBlock ==
    ASSUME opt \in CommandLines, NumberInv
    PROVE  /\ BLOCKSZ \in Nat \ {0} /\ Words \in Nat
           /\ \A k \in BlockWords : k \in Nat /\ first <= k /\ k < Words /\ k < first + BLOCKSZ
           /\ \A k \in Int : k \in BlockWords <=> first <= k /\ k < Words /\ k < first + BLOCKSZ
<1>1. BLOCKSZ \in Nat \ {0} /\ Words \in Nat /\ first \in Nat
  BY ProgrammerAssumption, WordsTyped DEF NumberInv
<1> QED
  BY <1>1 DEF BlockWords

LEMMA WordOn ==
    ASSUME NumberInv, opt \in CommandLines, UNCHANGED <<opt, memory, area, first>>, first < Words,
           word' \in BlockWords, pc' # "main",
           pc' = "program" /\ PageMode' => word' % Page = 0
    PROVE  NumberInv'
<1>1. Words' = Words /\ BlockWords' = BlockWords /\ Commands' = Commands
  BY DEF Words, K, BlockWords, Commands
<1>2. word' \in 0 .. Words + BLOCKSZ
  BY InBlock
<1> QED
  BY <1>1, <1>2 DEF NumberInv

LEMMA NumberBlocks ==
    ASSUME CommandInv, NumberInv, Blocks PROVE NumberInv'
<1> USE DEF input, result
<1>0. opt \in CommandLines /\ Page \in Nat \ {0}
  BY FlashAssumption DEF CommandInv
<1>1. CASE StartBlock
  <2>1. UNCHANGED <<opt, memory, area, first, delay, micron>> /\ word' = first
    BY <1>1 DEF StartBlock
  <2>2. CASE first >= Words /\ Return("done")
    <3>1. pc' \in {"open", "quit"} /\ Words' = Words /\ Commands' = Commands
      BY <2>1, <2>2, WaysOut DEF Words, K, Commands
    <3>2. word' \in 0 .. Words + BLOCKSZ
      BY <1>0, <2>1, InBlock DEF NumberInv
    <3> QED
      BY <2>1, <3>1, <3>2 DEF NumberInv, AtBlock
  <2>3. CASE first < Words /\ pc' \in {"read", "write", "program"}
    <3>1. word' \in BlockWords /\ (pc' = "program" /\ PageMode' => word' % Page = 0)
      BY <1>0, <2>1, <2>3, InBlock DEF NumberInv
    <3> QED
      BY <1>0, <2>1, <2>3, <3>1, WordOn
  <2> QED
    BY <1>1, <2>2, <2>3 DEF StartBlock, Goto
<1>2. CASE WriteBlock \/ EndBlock \/ MicronProgramTimeout
  <2>1. pc' = "read" /\ UNCHANGED <<opt, memory, area, first, word>>
    BY <1>2 DEF WriteBlock, EndBlock, MicronProgramTimeout, Goto, place
  <2>2. pc \in AtBlock \ {"block"}
    BY <1>2 DEF WriteBlock, EndBlock, MicronProgramTimeout, AtBlock
  <2> QED
    BY <2>1, <2>2, NumberFrame DEF NumberInv
<1>3. CASE ProgramWord \/ ProgramPage \/ ProgramBuffer
  <2>1. /\ pc = "program" /\ first < Words
        /\ UNCHANGED <<opt, memory, area, first, delay, micron>>
    BY <1>3 DEF ProgramWord, ProgramPage, ProgramBuffer, NumberInv, AtBlock
  <2>2. CASE pc' = "end block" /\ UNCHANGED word
    BY <2>1, <2>2, NumberFrame DEF NumberInv, AtBlock
  <2>3. CASE word' \in BlockWords /\ UNCHANGED pc
    <3>1. PageMode' => PageMode
      BY <2>1 DEF PageMode
    <3>2. CASE PageMode
      <4>1. ProgramPage
        BY <1>3, <3>2 DEF ProgramWord, ProgramBuffer, PageMode
      <4>2. word' = word + Page
        BY <2>1, <2>3, <4>1 DEF ProgramPage, NextWord
      <4>3. word \in Nat /\ word % Page = 0
        BY <2>1, <3>2, <1>0, InBlock DEF NumberInv
      <4>4. Page % Page = 0
        BY <1>0
      <4>5. word' % Page = 0
        BY <1>0, <4>2, <4>3, <4>4, PageMultiple
      <4> QED
        BY <1>0, <2>1, <2>3, <4>5, WordOn
    <3> QED
      BY <1>0, <2>1, <2>3, <3>1, <3>2, WordOn
  <2> QED
    BY <1>3, <2>2, <2>3 DEF ProgramWord, ProgramPage, ProgramBuffer, NextWord
<1>4. CASE ReadBlock
  <2>1. /\ pc' = "verify" /\ first < Words /\ word' = first
        /\ UNCHANGED <<opt, memory, area, first>>
    BY <1>4 DEF ReadBlock, NumberInv, AtBlock
  <2>2. word' \in BlockWords
    BY <1>0, <2>1, InBlock DEF NumberInv
  <2> QED
    BY <1>0, <2>1, <2>2, WordOn
<1>5. CASE VerifyMatch
  <2>1. first < Words /\ pc = "verify" /\ UNCHANGED <<opt, memory, area>>
    BY <1>5 DEF VerifyMatch, NumberInv, AtBlock
  <2>2. CASE word + 1 \in BlockWords
    BY <1>0, <1>5, <2>1, <2>2, WordOn DEF VerifyMatch
  <2>3. CASE word + 1 \notin BlockWords
    BY <1>0, <1>5, <2>1, <2>3, FirstOn DEF VerifyMatch, AtBlock
  <2> QED
    BY <2>2, <2>3
<1>6. CASE VerifyFails
  BY <1>6, WaysOut, NumberOut DEF VerifyFails, place, AtBlock
<1>7. CASE Rewrite
  <2>1. pc = "verify" /\ UNCHANGED <<opt, memory, area, first, word>>
    BY <1>7 DEF Rewrite
  <2>2. CASE Exit("error")
    BY <2>1, <2>2, WaysOut, NumberOut DEF AtBlock
  <2>3. CASE UNCHANGED pc
    BY <2>1, <2>3, NumberFrame DEF NumberInv
  <2> QED
    BY <1>7, <2>2, <2>3 DEF Rewrite
<1> QED
  BY <1>1, <1>2, <1>3, <1>4, <1>5, <1>6, <1>7 DEF Blocks

LEMMA NumberErase ==
    ASSUME CommandInv, NumberInv, Erase PROVE NumberInv'
<1> USE DEF input, place, Goto
<1>1. CASE NoErase \/ EraseNothing \/ target_erase \/ target_erase_sector \/ MicronErase
           \/ MicronEraseTimeout
  <2>1. /\ UNCHANGED <<opt, memory, area, first, word>>
        /\ pc' \in {"open", "quit", "block", "poll", "poll micron"}
    BY <1>1, WaysOut DEF NoErase, EraseNothing, target_erase, target_erase_sector, MicronErase,
                         MicronEraseTimeout
  <2> QED
    BY <2>1, NumberOut DEF AtBlock
<1>2. CASE MicronErased
  <2>1. UNCHANGED <<opt, memory, first, word>> /\ pc' \in {"erase", "poll"}
    BY <1>2 DEF MicronErased
  <2>2. UNCHANGED area \/ (area' = area + Sector /\ area' <= N)
    <3>1. N \in Nat /\ Sector \in Nat /\ area \in Nat
      BY FlashAssumption DEF NumberInv
    <3>2. UNCHANGED area \/ (area' = area + Sector /\ area + Sector < N)
      BY <1>2 DEF MicronErased
    <3> QED
      BY <3>1, <3>2
  <2> QED
    BY <2>1, <2>2, AreaOn, NumberOut DEF AtBlock
<1>3. CASE PollErase
  <2>1. UNCHANGED <<opt, memory, first, word>> /\ pc' \in {"erase", "open", "quit", "block"}
    BY <1>3, WaysOut DEF PollErase
  <2>2. UNCHANGED area \/ (area' = area + Sector /\ area' <= memory.len)
    <3>1. memory.len \in Nat /\ Sector \in Nat /\ area \in Nat
      BY FlashAssumption DEF NumberInv
    <3> QED
      BY <1>3, <3>1 DEF PollErase
  <2> QED
    BY <2>1, <2>2, AreaOn, NumberOut DEF AtBlock
<1> QED
  BY <1>1, <1>2, <1>3 DEF Erase

LEMMA NumberStep == CommandInv /\ NumberInv /\ [Next]_vars => NumberInv'
<1> SUFFICES ASSUME CommandInv, NumberInv, [Next]_vars
             PROVE  NumberInv'
  OBVIOUS
<1> USE DEF input, place, Goto
<1>0. opt \in CommandLines
  BY DEF CommandInv
<1>1. CASE Rejected \/ Open \/ StopCpu \/ Stopped \/ StopFails \/ Configure \/ ConfigureFails
           \/ NoFlash \/ check_clean \/ CopyFails
           \/ CopyDone \/ QuitRun \/ RunCpu \/ QuitClose \/ Interrupted
  <2>1. /\ UNCHANGED <<opt, memory, area, first, word>>
        /\ \/ pc' \in {"stop", "stopping", "configure", "detect", "open", "block"}
           \/ pc' \in {"quit", "run", "close", "ended"}
    BY <1>1, WaysOut DEF Rejected, Open, StopCpu, Stopped, StopFails, Configure, ConfigureFails,
                         NoFlash, check_clean,
                         CopyFails, CopyDone, QuitRun, RunCpu, QuitClose, Interrupted
  <2> QED
    BY <2>1, NumberOut DEF AtBlock
<1>2. CASE main
  <2>1. /\ UNCHANGED <<opt, area, first, word>> /\ memory' = Loaded /\ pc' = "open"
        /\ area = 0 /\ first = 0 /\ word = 0 /\ Commands # <<>>
    BY <1>2 DEF main, NumberInv
  <2>2. /\ memory'.base \in Nat /\ memory'.len \in Nat
        /\ memory'.data \in [0 .. MaxImage - 1 -> SUBSET Bits]
        /\ opt.args # 3 => memory'.len <= MaxImage
    BY <1>0, <2>1, LoadedTyped
  <2>3. Commands # <<"read">> => opt.args # 3
    BY <1>0, <2>1, CommandCases
  <2>4. Commands' = Commands /\ Words' \in Nat
    <3>1. K' = K /\ K \in {1, 2} /\ Words' = (memory'.len + K - 1) \div K
      BY <2>1 DEF Words, K, UnitsPerWord
    <3>2. \A n \in Nat : (n + 1 - 1) \div 1 \in Nat /\ (n + 2 - 1) \div 2 \in Nat
      OBVIOUS
    <3> QED
      BY <2>1, <2>2, <3>1, <3>2 DEF Commands
  <2>5. BLOCKSZ \in Nat /\ N \in Nat /\ 0 % Page = 0 /\ 0 % 2 = 0
    BY FlashAssumption, ProgrammerAssumption
  <2>6. area' = 0 /\ first' = 0 /\ word' = 0 /\ pc' = "open"
    BY <2>1
  <2>7. /\ area' \in Nat /\ area' % 2 = 0 /\ area' <= N + memory'.len
        /\ first' \in Nat /\ first' % Page = 0 /\ first' <= Words' + BLOCKSZ
        /\ word' \in 0 .. Words' + BLOCKSZ
    <3>1. area' \in Nat /\ area' % 2 = 0 /\ first' \in Nat
      BY <2>6
    <3>2. first' % Page = 0
      BY <2>5, <2>6
    <3>3. area' <= N + memory'.len
      BY <2>2, <2>5, <2>6
    <3>4. first' <= Words' + BLOCKSZ /\ word' \in 0 .. Words' + BLOCKSZ
      <4>1. \A n \in Nat : 0 <= n + BLOCKSZ /\ 0 \in 0 .. n + BLOCKSZ
        BY <2>5
      <4>2. Words' \in Nat
        BY <2>4
      <4> QED
        BY <2>6, <4>1, <4>2
    <3> QED
      BY <3>1, <3>2, <3>3, <3>4
  <2>8. (Commands # <<"read">> => memory.len <= MaxImage)'
    BY <2>2, <2>3, <2>4
  <2> QED
    BY <2>2, <2>6, <2>7, <2>8 DEF NumberInv, AtBlock
<1>3. CASE Detect
  <2>1. /\ UNCHANGED <<opt, memory, first, word>> /\ area' = 0
        /\ pc' \in {"open", "quit", "check", "copy", "erase"}
    BY <1>3, WaysOut DEF Detect
  <2> QED
    BY <2>1, AreaOn DEF AtBlock
<1>4. CASE CopyBlock
  BY <1>0, <1>4, FirstOn DEF CopyBlock, AtBlock
<1>5. CASE (\E h \in {0, 1} : OperationDone(h)) \/ UNCHANGED vars
  <2>1. UNCHANGED <<pc, opt, memory, area, first, word, delay, micron>>
    BY <1>5 DEF OperationDone, vars, chip
  <2>2. PageMode' = PageMode /\ Words' = Words /\ BlockWords' = BlockWords /\ Commands' = Commands
    BY <2>1 DEF PageMode, Words, K, BlockWords, Commands
  <2> QED
    BY <2>1, <2>2 DEF NumberInv
<1> QED
  BY <1>1, <1>2, <1>3, <1>4, <1>5, NumberBlocks, NumberErase DEF Next, mcprog

-----------------------------------------------------------------------------
(* What is known of the flash once it is found, and that -w needs none. *)
DetectedInv ==
    /\ pc \in AtErase \/ (pc \in AtBlock /\ Cmd = "program") =>
          /\ InRegion /\ opt.kind # "static"
          /\ micron <=> opt.kind = "micron"
          /\ opt.kind = "page" => delay
    /\ pc \in AtBlock /\ Cmd = "write" => opt.kind = "static" /\ ~micron
    /\ pc \in Opened => ~micron

LEMMA DetectedOut ==
    ASSUME pc' \notin AtErase, pc' \notin AtBlock, pc' \notin Opened PROVE DetectedInv'
  BY DEF DetectedInv

LEMMA DetectedFrame ==
    ASSUME DetectedInv, UNCHANGED <<opt, memory, delay, micron, left>>,
           pc' \in AtErase => pc \in AtErase,
           pc' \in AtBlock => pc \in AtBlock \/ (pc \in AtErase /\ Cmd = "program"),
           pc' \in Opened => pc \in Opened
    PROVE  DetectedInv'
<1>1. (pc' \in AtErase => pc' \notin AtBlock) /\ (pc \in AtErase => pc \notin AtBlock)
  BY DEF AtErase, AtBlock, Opened
<1>2. Cmd' = Cmd /\ InRegion' = InRegion
  BY DEF Cmd, InRegion, Base
<1>3. Cmd = "program" => Cmd # "write"
  OBVIOUS
<1> QED
  BY <1>1, <1>2, <1>3 DEF DetectedInv

LEMMA DetectedErase ==
    ASSUME CommandInv, DetectedInv, Erase PROVE DetectedInv'
<1> USE DEF input, Goto
<1>1. /\ UNCHANGED <<opt, memory, delay, micron>> /\ pc \in AtErase
      /\ \/ pc' \in {"open", "quit"}
         \/ pc' \in AtErase /\ UNCHANGED left
         \/ pc' = "block" /\ UNCHANGED left /\ Cmd # "erase"
  <2>1. CASE NoErase
    BY <2>1 DEF NoErase, AtErase, SkipErase, chip
  <2>2. CASE EraseNothing \/ MicronEraseTimeout
    <3>1. UNCHANGED <<opt, memory, delay, micron>> /\ pc \in AtErase /\ EraseReturns
      BY <2>2 DEF EraseNothing, MicronEraseTimeout, AtErase, Erasing, chip
    <3> QED
      BY <3>1 DEF EraseReturns, Return
  <2>3. CASE PollErase
    <3>1. UNCHANGED <<opt, memory, delay, micron>> /\ pc \in AtErase
          /\ (EraseReturns \/ Goto("erase"))
      BY <2>3 DEF PollErase, AtErase, chip
    <3> QED
      BY <3>1 DEF EraseReturns, Return, AtErase
  <2>4. CASE target_erase \/ target_erase_sector \/ MicronErase \/ MicronErased
    BY <2>4 DEF target_erase, target_erase_sector, MicronErase, MicronErased, AtErase, Erasing
  <2> QED
    BY <2>1, <2>2, <2>3, <2>4 DEF Erase
<1>2. CASE pc' \in {"open", "quit"}
  BY <1>2, DetectedOut DEF AtErase, AtBlock, Opened
<1>3. CASE pc' \in AtErase /\ UNCHANGED left
  BY <1>1, <1>3, DetectedFrame DEF AtErase, AtBlock, Opened
<1>4. CASE pc' = "block" /\ UNCHANGED left /\ Cmd # "erase"
  <2>1. Cmd = "program" /\ pc' \notin AtErase /\ pc' \notin Opened
    BY <1>1, <1>4 DEF CommandInv, AtErase, Opened
  <2> QED
    BY <1>1, <1>4, <2>1, DetectedFrame
<1> QED
  BY <1>1, <1>2, <1>3, <1>4

LEMMA DetectedBlocks ==
    ASSUME CommandInv, DetectedInv, Blocks PROVE DetectedInv'
<1> USE DEF input, Goto, result, chip, place
<1>1. /\ UNCHANGED <<opt, memory, delay, micron>> /\ pc \in AtBlock
      /\ \/ pc' \in {"open", "quit", "ended"}
         \/ pc' \in AtBlock /\ UNCHANGED left
  <2>1. CASE StartBlock
    BY <2>1, WaysOut DEF StartBlock, AtBlock
  <2>2. CASE WriteBlock \/ EndBlock \/ MicronProgramTimeout \/ ReadBlock
    BY <2>2 DEF WriteBlock, EndBlock, MicronProgramTimeout, ReadBlock, AtBlock
  <2>3. CASE ProgramWord \/ ProgramPage \/ ProgramBuffer
    BY <2>3 DEF ProgramWord, ProgramPage, ProgramBuffer, NextWord, AtBlock
  <2>4. CASE VerifyMatch
    BY <2>4 DEF VerifyMatch, AtBlock
  <2>5. CASE VerifyFails
    BY <2>5, WaysOut DEF VerifyFails, AtBlock
  <2>6. CASE Rewrite
    <3>1. UNCHANGED <<opt, memory, delay, micron>> /\ pc = "verify"
          /\ (Exit("error") \/ UNCHANGED <<pc, left>>)
      BY <2>6 DEF Rewrite
    <3> QED
      BY <3>1, WaysOut DEF AtBlock
  <2> QED
    BY <2>1, <2>2, <2>3, <2>4, <2>5, <2>6 DEF Blocks
<1>2. CASE pc' \in {"open", "quit", "ended"}
  BY <1>2, DetectedOut DEF AtErase, AtBlock, Opened
<1>3. CASE pc' \in AtBlock /\ UNCHANGED left
  <2>1. pc' \notin AtErase /\ pc' \notin Opened
    BY <1>3 DEF AtBlock, AtErase, Opened
  <2> QED
    BY <1>1, <1>3, <2>1, DetectedFrame
<1> QED
  BY <1>1, <1>2, <1>3

LEMMA RoundsFound ==
    ASSUME opt \in CommandLines, NEW n \in Rounds, Finds(n)
    PROVE  /\ n \in Nat /\ opt.kind # "static" /\ (opt.kind = "page" => n >= 4)
           /\ opt.width # 0
<1>1. n \in 0 .. 23
  BY ProgrammerAssumption
<1>2. WidthOf(n) \in {8, 32, 64} /\ WidthOf(n) = opt.width
  <2>1. n % 6 \in 0 .. 5
    BY <1>1
  <2> QED
    BY <2>1 DEF Finds, WidthOf, RoundWidth
<1>3. opt.kind = "page" => n % 6 = 4
  BY DEF Finds
<1>4. n % 6 = 4 => n >= 4
  BY <1>1
<1>5. opt.kind = "static" => opt.width = 0
  BY McprogAssumption
<1> QED
  BY <1>1, <1>2, <1>3, <1>4, <1>5

LEMMA DetectedStep == CommandInv /\ DetectedInv /\ [Next]_vars => DetectedInv'
<1> SUFFICES ASSUME CommandInv, DetectedInv, [Next]_vars
             PROVE  DetectedInv'
  OBVIOUS
<1> USE DEF input, Goto
<1>1. CASE Rejected \/ main \/ ConfigureFails \/ NoFlash \/ check_clean \/ CopyBlock \/ CopyFails
           \/ CopyDone \/ QuitRun \/ RunCpu \/ QuitClose \/ Interrupted
  <2>1. pc' \in {"detect", "open", "copy", "quit", "run", "close", "ended"}
    BY <1>1, WaysOut DEF Rejected, main, ConfigureFails, NoFlash, check_clean, CopyBlock,
                         CopyFails, CopyDone, QuitRun, RunCpu, QuitClose, Interrupted
  <2> QED
    BY <2>1, DetectedOut DEF AtErase, AtBlock, Opened
<1>2. CASE Open \/ StopFails
  <2>1. (pc' = "stop" /\ micron' = FALSE) \/ pc' \in {"quit", "ended"}
    BY <1>2, WaysOut DEF Open, StopFails
  <2> QED
    BY <2>1 DEF DetectedInv, AtErase, AtBlock, Opened
<1>3. CASE Configure
  <2>1. /\ UNCHANGED <<opt, micron>> /\ pc = "configure"
        /\ \/ pc' \in {"open", "quit", "detect"}
           \/ pc' = "block" /\ UNCHANGED left /\ Cmd = "write"
    BY <1>3, WaysOut DEF Configure, chip
  <2>2. CASE pc' \in {"open", "quit", "detect"}
    BY <2>2, DetectedOut DEF AtErase, AtBlock, Opened
  <2>3. CASE pc' = "block" /\ UNCHANGED left /\ Cmd = "write"
    <3>1. opt.kind = "static" /\ ~micron
      BY <2>1, <2>3, LeftCases DEF CommandInv, Active, PCs, Leaving, DetectedInv, Opened
    <3>2. Cmd' = "write"
      BY <2>3 DEF Cmd
    <3> QED
      BY <2>1, <2>3, <3>1, <3>2 DEF DetectedInv, AtErase, Opened
  <2> QED
    BY <2>1, <2>2, <2>3
<1>4. CASE StopCpu \/ Stopped
  BY <1>4, DetectedFrame DEF StopCpu, Stopped, chip, AtErase, AtBlock, Opened
<1>5. CASE Detect
  <2>1. PICK n \in {m \in Rounds : Finds(m)} : delay' = (n >= 4)
    BY <1>5 DEF Detect
  <2>2. opt.kind # "static" /\ (opt.kind = "page" => delay')
    BY <2>1, RoundsFound DEF CommandInv
  <2>3. /\ UNCHANGED <<opt, memory>> /\ micron' = (opt.kind = "micron") /\ pc = "detect"
        /\ \/ pc' \in {"open", "quit", "check", "copy"}
           \/ pc' = "erase" /\ Cmd # "probe"
    BY <1>5, WaysOut DEF Detect
  <2>4. CASE pc' \in {"open", "quit", "check", "copy"}
    BY <2>4, DetectedOut DEF AtErase, AtBlock, Opened
  <2>5. CASE pc' = "erase" /\ Cmd # "probe"
    <3>1. InRegion'
      BY <1>5, <2>3, <2>5 DEF Detect, InRegion, Base
    <3> QED
      BY <2>2, <2>3, <2>5, <3>1 DEF DetectedInv, AtBlock, Opened
  <2> QED
    BY <2>3, <2>4, <2>5
<1>6. CASE (\E h \in {0, 1} : OperationDone(h)) \/ UNCHANGED vars
  <2>1. UNCHANGED <<pc, opt, memory, left, delay, micron>>
    BY <1>6 DEF OperationDone, vars, chip, result
  <2> QED
    BY <2>1, DetectedFrame DEF AtErase, AtBlock, Opened
<1> QED
  BY <1>1, <1>2, <1>3, <1>4, <1>5, <1>6, DetectedErase, DetectedBlocks DEF Next, mcprog

-----------------------------------------------------------------------------
(* What has been read of a block: a word of units for each word of it. *)
ReadInv ==
    pc = "verify" =>
        /\ DOMAIN block = BlockWords
        /\ \A k \in BlockWords : block[k] = [i \in 0 .. K - 1 |-> block[k][i]]

LEMMA ReadStep == CommandInv /\ NumberInv /\ ReadInv /\ [Next]_vars => ReadInv'
<1> SUFFICES ASSUME CommandInv, NumberInv, ReadInv, [Next]_vars, pc' = "verify"
             PROVE  ReadInv'
  BY DEF ReadInv
<1> USE DEF input, place, result, Goto
<1>1. CASE UNCHANGED <<pc, opt, memory, first, block>>
  <2>1. BlockWords' = BlockWords /\ K' = K
    BY <1>1 DEF BlockWords, Words, K
  <2> QED
    BY <1>1, <2>1 DEF ReadInv
<1>2. CASE ReadBlock
  <2>1. BlockWords' = BlockWords /\ K' = K
    BY <1>2 DEF ReadBlock, BlockWords, Words, K
  <2>2. block' = [k \in BlockWords |-> ReadWord(flash, WordAddr(k))]
    BY <1>2 DEF ReadBlock
  <2>3. DOMAIN block' = BlockWords'
        /\ \A k \in BlockWords' : block'[k] = [i \in 0 .. K' - 1 |-> block'[k][i]]
    BY <2>1, <2>2 DEF ReadWord
  <2> QED
    BY <2>3 DEF ReadInv
<1>3. CASE Rewrite
  <2>1. pc = "verify" /\ word \in BlockWords /\ UNCHANGED <<opt, memory, first>>
    BY <1>3 DEF Rewrite, NumberInv
  <2>2. BlockWords' = BlockWords /\ K' = K
    BY <2>1 DEF BlockWords, Words, K
  <2>3. block' = [block EXCEPT ![word] = ReadWord(flash', WordAddr(word))]
    BY <1>3 DEF Rewrite
  <2>4. \A k \in BlockWords :
           block'[k] = IF k = word THEN ReadWord(flash', WordAddr(word)) ELSE block[k]
    BY <2>1, <2>3 DEF ReadInv
  <2>5. DOMAIN block' = BlockWords
    BY <2>1, <2>3 DEF ReadInv
  <2>6. \A k \in BlockWords : block'[k] = [i \in 0 .. K - 1 |-> block'[k][i]]
    <3> TAKE k \in BlockWords
    <3>1. CASE k = word
      BY <2>4, <3>1 DEF ReadWord
    <3>2. CASE k # word
      BY <2>1, <2>4, <3>2 DEF ReadInv
    <3> QED
      BY <3>1, <3>2
  <2> QED
    BY <2>2, <2>5, <2>6 DEF ReadInv
<1>4. CASE VerifyMatch
  <2>1. UNCHANGED <<pc, opt, memory, first, block>>
    BY <1>4 DEF VerifyMatch
  <2> QED
    BY <1>1, <2>1
<1>5. CASE (\E h \in {0, 1} : OperationDone(h)) \/ UNCHANGED vars
  BY <1>1, <1>5 DEF OperationDone, vars
<1>6. CASE Erase
  <2>1. pc' # "verify"
    BY <1>6, WaysOut DEF Erase, NoErase, EraseNothing, PollErase, target_erase,
       target_erase_sector, MicronErase, MicronErased, MicronEraseTimeout
  <2> QED
    BY <2>1
<1>7. CASE StartBlock \/ WriteBlock \/ ProgramWord \/ ProgramPage \/ ProgramBuffer \/ EndBlock
           \/ MicronProgramTimeout \/ VerifyFails
  <2>1. pc' # "verify"
    BY <1>7, WaysOut DEF StartBlock, WriteBlock, ProgramWord, ProgramPage, ProgramBuffer, EndBlock,
       MicronProgramTimeout, VerifyFails, NextWord
  <2> QED
    BY <2>1
<1>8. CASE Rejected \/ main \/ Open \/ StopCpu \/ Stopped \/ StopFails \/ Configure
           \/ ConfigureFails \/ NoFlash \/ Detect
           \/ check_clean \/ CopyBlock \/ CopyFails \/ CopyDone \/ QuitRun \/ RunCpu \/ QuitClose
           \/ Interrupted
  <2>1. pc' # "verify"
    BY <1>8, WaysOut DEF Rejected, main, Open, StopCpu, Stopped, StopFails, Configure, ConfigureFails,
       NoFlash, Detect,
       check_clean, CopyBlock, CopyFails, CopyDone, QuitRun, RunCpu, QuitClose, Interrupted
  <2> QED
    BY <2>1
<1> QED
  BY <1>2, <1>3, <1>4, <1>5, <1>6, <1>7, <1>8 DEF Next, mcprog, Blocks
-----------------------------------------------------------------------------
(* The rest of the types. *)
Answers == {"unknown", "yes", "no"}
Outcomes == {"none", "done", "failed", "error", "interrupted"}
RestInv ==
    /\ target \in {"none", "open"} /\ cpu \in {"running", "stopped"}
    /\ delay \in BOOLEAN /\ micron \in BOOLEAN
    /\ is_running \in BOOLEAN /\ cut \in BOOLEAN
    /\ signals \in 0 .. Signals
    /\ try \in 0 .. 4 /\ (pc \notin Leaving => try <= 3)
    /\ told = [clean |-> told.clean, file |-> told.file] /\ told.clean \in Answers
    /\ outcome \in Outcomes

LEMMA RestInit == Init => RestInv
<1> SUFFICES ASSUME Init PROVE RestInv
  OBVIOUS
<1>1. /\ target = "none" /\ cpu = "running" /\ is_running = FALSE /\ cut = FALSE
      /\ delay = FALSE /\ micron = FALSE /\ try = 0 /\ signals = 0
      /\ outcome = "none"
  BY DEF Init
<1>2. told = [clean |-> told.clean, file |-> told.file] /\ told.clean \in Answers
  <2>1. told = [clean |-> "unknown", file |-> <<>>]
    BY DEF Init
  <2> QED
    BY <2>1 DEF Answers
<1>3. 0 \in 0 .. Signals /\ 0 \in 0 .. 4 /\ 0 <= 3
  BY SignalsAssumption
<1>4. FALSE \in BOOLEAN /\ "none" \in Outcomes
  BY DEF Outcomes
<1> QED
  BY <1>1, <1>2, <1>3, <1>4 DEF RestInv

LEMMA RestFrame ==
    ASSUME RestInv, UNCHANGED <<cpu, is_running, cut, target, delay, micron, signals, try, told>>,
           pc \in Leaving => pc' \in Leaving, outcome' \in Outcomes
    PROVE  RestInv'
  BY DEF RestInv

LEMMA RestWays ==
    ASSUME RestInv PROVE outcome \in Outcomes /\ {"done", "failed", "error"} \subseteq Outcomes
  BY DEF RestInv, Outcomes

LEMMA RestErase == RestInv /\ Erase => RestInv'
<1> SUFFICES ASSUME RestInv, Erase PROVE RestInv'
  OBVIOUS
<1>1. /\ UNCHANGED <<cpu, is_running, cut, target, delay, micron, signals, try, told>>
      /\ pc \notin Leaving
      /\ UNCHANGED outcome \/ EraseReturns
  BY DEF Erase, NoErase, EraseNothing, PollErase, target_erase, target_erase_sector,
         MicronErase, MicronErased, MicronEraseTimeout, Erasing, Goto, host, chip, place, Leaving
<1>2. outcome' \in Outcomes
  BY <1>1, WaysOut, RestWays
<1> QED
  BY <1>1, <1>2, RestFrame

LEMMA RestBlocks == RestInv /\ Blocks => RestInv'
<1> SUFFICES ASSUME RestInv, Blocks PROVE RestInv'
  OBVIOUS
<1> USE DEF host, chip, place, result, Goto, Leaving
<1>1. CASE StartBlock \/ WriteBlock
  <2>1. /\ UNCHANGED <<cpu, is_running, cut, target, delay, micron, signals, try, told>>
        /\ pc \notin Leaving
        /\ UNCHANGED outcome \/ outcome' = "done"
    BY <1>1, WaysOut DEF StartBlock, WriteBlock
  <2> QED
    BY <2>1, RestWays, RestFrame
<1>2. CASE ProgramWord \/ ProgramPage \/ ProgramBuffer \/ EndBlock \/ MicronProgramTimeout
           \/ ReadBlock
  <2>1. /\ UNCHANGED <<cpu, is_running, cut, target, delay, micron, signals, try, told, outcome>>
        /\ pc \notin Leaving
    BY <1>2 DEF ProgramWord, ProgramPage, ProgramBuffer, EndBlock, MicronProgramTimeout, ReadBlock
  <2> QED
    BY <2>1, RestWays, RestFrame
<1>3. CASE VerifyMatch
  BY <1>3 DEF VerifyMatch, RestInv
<1>4. CASE VerifyFails
  <2>1. /\ UNCHANGED <<cpu, is_running, cut, target, delay, micron, signals, try, told>>
        /\ pc \notin Leaving
        /\ outcome' = "error"
    BY <1>4, WaysOut DEF VerifyFails
  <2> QED
    BY <2>1, RestWays, RestFrame
<1>5. CASE Rewrite
  <2>1. /\ UNCHANGED <<cpu, is_running, cut, target, delay, micron, signals, told>> /\ pc = "verify"
        /\ try' = try + 1
    BY <1>5 DEF Rewrite
  <2>2. try \in 0 .. 3
    BY <2>1 DEF RestInv
  <2>3. CASE try + 1 > 3
    <3>1. pc' \in {"quit", "ended"} /\ outcome' = "error"
      BY <1>5, <2>3, WaysOut DEF Rewrite
    <3> QED
      BY <2>1, <2>2, <3>1, RestWays DEF RestInv
  <2>4. CASE ~(try + 1 > 3)
    <3>1. UNCHANGED <<pc, outcome>>
      BY <1>5, <2>4 DEF Rewrite
    <3> QED
      BY <2>1, <2>2, <2>4, <3>1 DEF RestInv
  <2> QED
    BY <2>3, <2>4
<1> QED
  BY <1>1, <1>2, <1>3, <1>4, <1>5 DEF Blocks

LEMMA RestStep == RestInv /\ [Next]_vars => RestInv'
<1> SUFFICES ASSUME RestInv, [Next]_vars PROVE RestInv'
  OBVIOUS
<1> USE DEF host, chip, place, result, Goto, Leaving
<1>1. CASE Rejected \/ main \/ Configure \/ ConfigureFails \/ NoFlash \/ CopyFails \/ CopyDone
  <2>1. /\ UNCHANGED <<cpu, is_running, cut, target, delay, micron, signals, try, told>>
        /\ pc \notin Leaving
        /\ UNCHANGED outcome \/ outcome' \in {"done", "failed"}
    BY <1>1, WaysOut DEF Rejected, main, Configure, ConfigureFails, NoFlash, CopyFails, CopyDone
  <2> QED
    BY <2>1, RestWays, RestFrame
<1>2. CASE Open \/ StopCpu \/ Stopped \/ StopFails
  <2>1. outcome' \in Outcomes
    BY <1>2, WaysOut, RestWays DEF Open, StopCpu, Stopped, StopFails
  <2>2. /\ target' \in {"none", "open"} /\ cpu' \in {"running", "stopped"}
        /\ is_running' \in BOOLEAN /\ cut' \in BOOLEAN
        /\ delay' \in BOOLEAN /\ micron' \in BOOLEAN
    BY <1>2 DEF Open, StopCpu, Stopped, StopFails, RestInv
  <2>3. pc \notin Leaving /\ UNCHANGED <<try, told, signals>>
    BY <1>2 DEF Open, StopCpu, Stopped, StopFails
  <2> QED
    BY <2>1, <2>2, <2>3 DEF RestInv
<1>3. CASE Detect
  <2>1. outcome' \in Outcomes
    BY <1>3, WaysOut, RestWays DEF Detect
  <2>2. pc \notin Leaving /\ delay' \in BOOLEAN /\ micron' \in BOOLEAN
        /\ UNCHANGED <<cpu, is_running, cut, target, signals, try, told>>
    BY <1>3 DEF Detect
  <2> QED
    BY <2>1, <2>2 DEF RestInv
<1>4. CASE check_clean
  <2>1. outcome' \in Outcomes
    BY <1>4, WaysOut, RestWays DEF check_clean
  <2>2. pc \notin Leaving /\ UNCHANGED <<cpu, is_running, cut, target, delay, micron, signals, try>>
        /\ told' = [told EXCEPT !.clean = IF Clean THEN "yes" ELSE "no"]
    BY <1>4 DEF check_clean
  <2>3. told' = [clean |-> told'.clean, file |-> told'.file] /\ told'.clean \in Answers
    BY <2>2 DEF RestInv, Answers
  <2> QED
    BY <2>1, <2>2, <2>3 DEF RestInv
<1>5. CASE CopyBlock
  <2>1. /\ pc \notin Leaving
        /\ UNCHANGED <<cpu, is_running, cut, target, delay, micron, signals, try, outcome>>
        /\ \E x : told' = [told EXCEPT !.file = x]
    BY <1>5 DEF CopyBlock
  <2>2. told' = [clean |-> told'.clean, file |-> told'.file] /\ told'.clean \in Answers
    BY <2>1 DEF RestInv
  <2> QED
    BY <2>1, <2>2 DEF RestInv
<1>6. CASE QuitRun \/ RunCpu \/ QuitClose
  BY <1>6 DEF QuitRun, RunCpu, QuitClose, RestInv
<1>7. CASE Interrupted
  <2>1. signals < Signals /\ signals' = signals + 1 /\ cut' = (cut \/ CutsShort)
        /\ pc' \in Leaving /\ outcome' \in Outcomes
    BY <1>7 DEF Interrupted, Outcomes
  <2>2. signals' \in 0 .. Signals
    BY <2>1, SignalsAssumption DEF RestInv
  <2>3. cut' \in BOOLEAN
    BY <2>1
  <2> QED
    BY <1>7, <2>1, <2>2, <2>3 DEF Interrupted, RestInv
<1>8. CASE (\E h \in {0, 1} : OperationDone(h)) \/ UNCHANGED vars
  <2>1. UNCHANGED <<pc, cpu, is_running, cut, target, delay, micron, signals, try, told, outcome>>
    BY <1>8 DEF OperationDone, vars
  <2> QED
    BY <2>1, RestWays, RestFrame
<1> QED
  BY <1>1, <1>2, <1>3, <1>4, <1>5, <1>6, <1>7, <1>8, RestErase, RestBlocks DEF Next, mcprog

-----------------------------------------------------------------------------
(* What the command line and the image allow to be erased and programmed. *)
Licence ==
    IF Commands = <<>> THEN {}
    ELSE IF Commands[1] = "erase" THEN Units
    ELSE IF Commands = <<"program">> /\ ~opt.verify
      THEN CASE erase_mode = 0 -> {}
             [] erase_mode = 1 -> Units
             [] OTHER -> UNION {SectorOf(Base + a) : a \in 0 .. memory.len - 1}
      ELSE {}
May == IF Programs_file /\ ~opt.verify THEN ImageUnits ELSE {}

(* The states of the chip: it can be read but while it works, and but for the
   bypass that an 8-bit flash is programmed in. *)
ModesInv ==
    /\ opt.kind = "static" => \A h \in {0, 1} : flash.mode[h] = "read"
    /\ opt.kind = "micron" =>
          /\ flash.mode[1] = "read"
          /\ flash.mode[0] \in {"read", "status", "erasing", "programming"}
    /\ opt.kind \in {"amd", "page"} =>
          /\ flash.mode[1] \in {"read", "erasing"}
          /\ pc \notin Leaving =>
                IF pc \in {"program", "end block"} /\ opt.width = 8 THEN flash.mode[0] = "bypass"
                ELSE IF pc = "poll" THEN flash.mode[0] \in {"read", "erasing"}
                ELSE flash.mode[0] = "read"

ChipInv ==
    /\ flash \in FlashType /\ flash.kind = opt.kind /\ flash.width = opt.width
    /\ flash.erasing \subseteq Licence
    /\ pc = "main" => flash.erasing = {}
    /\ ModesInv

(* A 64-bit flash is programmed by an adapter that has a routine for it, with an
   image that begins on its low half. *)
WellPlaced ==
    opt.width = 64 /\ Commands = <<"program">> /\ ~opt.verify /\ pc # "main" =>
        opt.method = "adapter" /\ Base % 2 = 0
-----------------------------------------------------------------------------
(* The chips f may have become whatever their modes. *)
Touched(f, us, es) ==
    {g \in FlashType :
        /\ g.kind = f.kind /\ g.width = f.width
        /\ \A u \in Units : g.mem[u] # f.mem[u] => u \in us
        /\ g.erasing \subseteq f.erasing \cup es}

LEMMA NearTouched ==
    ASSUME NEW f, NEW h \in {0, 1}, NEW m, NEW us, NEW es, NEW vs, NEW fs,
           us \subseteq vs, es \subseteq fs, NEW g \in Near(f, h, m, us, es)
    PROVE  /\ g \in Touched(f, vs, fs) /\ g.mode[h] = m
           /\ \A i \in {0, 1} \ {h} : g.mode[i] = f.mode[i]
  BY DEF Near, Touched

LEMMA TouchedSame ==
    ASSUME NEW f \in FlashType, NEW us, NEW es PROVE f \in Touched(f, us, es)
  BY DEF Touched

LEMMA TouchedTwice ==
    ASSUME NEW f, NEW us, NEW es, NEW g \in Touched(f, us, es), NEW k \in Touched(g, us, es)
    PROVE  k \in Touched(f, us, es)
<1>1. \A u \in Units : k.mem[u] # f.mem[u] => k.mem[u] # g.mem[u] \/ g.mem[u] # f.mem[u]
  OBVIOUS
<1> QED
  BY <1>1 DEF Touched

(* A chip in the mode that a sequence leads on from. *)
LEMMA LeadsTo ==
    ASSUME NEW f \in FlashType, NEW h \in {0, 1}, NEW m, f.mode[h] = m, NEW n, NEW us, NEW es,
           NEW ws, Leads(Near(f, h, m, us, es), ws, Near(f, h, n, us, es)),
           NEW g \in After(f, ws)
    PROVE  g \in Near(f, h, n, us, es)
<1>1. f \in Near(f, h, m, us, es)
  BY DEF Near
<1> QED
  BY <1>1 DEF Leads

(* The places of the image. *)
LEMMA ImageWord ==
    ASSUME opt \in CommandLines, NumberInv, ~PageMode,
           NEW k \in 0 .. Words - 1, NEW i \in 0 .. K - 1
    PROVE  WordAddr(k) + i \in ImageUnits /\ WordAddr(k) \in Int
<1>1. K \in {1, 2} /\ Words \in Nat
  BY WordsTyped DEF NumberInv
<1>2. Base \in Int
  BY McprogAssumption DEF Base, NumberInv
<1>3. k * K + i \in 0 .. Words * K - 1
  <2>1. CASE K = 1
    BY <1>1, <2>1
  <2>2. CASE K = 2
    BY <1>1, <2>2
  <2> QED
    BY <1>1, <2>1, <2>2
<1>4. WordAddr(k) + i = Base + (k * K + i) /\ WordAddr(k) \in Int
  BY <1>1, <1>2 DEF WordAddr
<1> QED
  BY <1>3, <1>4 DEF ImageUnits

LEMMA PagesCover ==
    ASSUME NEW p \in Nat \ {0}, NEW w \in Nat, NEW k \in 0 .. w - 1, k % p = 0
    PROVE  k + p <= p * ((w + p - 1) \div p)
<1> DEFINE q == k \div p
           t == w + p - 1
           d == t \div p
<1>1. q \in Int /\ d \in Int /\ t \in Int /\ k = p * q /\ t < p * (d + 1)
  <2>1. t \in Int /\ k \in Int
    OBVIOUS
  <2>2. \A x \in Int : x \div p \in Int /\ x = p * (x \div p) + (x % p) /\ x % p < p
    OBVIOUS
  <2>3. t = p * d + (t % p) /\ t % p < p /\ d \in Int /\ t % p \in Int
    <3> HIDE DEF t
    <3> QED
      BY <2>1, <2>2
  <2>4. k = p * q /\ q \in Int
    BY <2>1, <2>2
  <2>5. p * (d + 1) = p * d + p
    <3> HIDE DEF d
    <3> QED
      BY <2>3
  <2>6. p * d \in Int
    <3> HIDE DEF d
    <3> QED
      BY <2>3
  <2> HIDE DEF d, t, q
  <2> QED
    BY <2>1, <2>3, <2>4, <2>5, <2>6
<1>2. k + p <= t
  OBVIOUS
<1> HIDE DEF q, t, d
<1>3. p * (q + 1) = k + p /\ p * (q + 1) < p * (d + 1)
  <2>1. p * (q + 1) = p * q + p /\ p * (d + 1) \in Int
    BY <1>1
  <2> QED
    BY <1>1, <1>2, <2>1
<1>4. q + 1 < d + 1
  <2>1. SUFFICES ASSUME d <= q PROVE FALSE
    BY <1>1
  <2>2. \A x \in Nat : p * (d + 1) <= p * (d + 1 + x)
    BY <1>1
  <2>3. q - d \in Nat /\ d + 1 + (q - d) = q + 1
    BY <1>1, <2>1
  <2>4. p * (d + 1) <= p * (q + 1) /\ p * (d + 1) \in Int /\ p * (q + 1) \in Int
    BY <1>1, <2>2, <2>3
  <2> QED
    BY <1>3, <2>4
<1>5. p * (q + 1) <= p * d
  <2>1. \A x \in Nat : p * (q + 1) <= p * (q + 1 + x)
    BY <1>1
  <2>2. d - (q + 1) \in Nat /\ q + 1 + (d - (q + 1)) = d
    BY <1>1, <1>4
  <2> QED
    BY <2>1, <2>2
<1> QED
  BY <1>3, <1>5 DEF t, d

LEMMA ImagePage ==
    ASSUME opt \in CommandLines, NumberInv, PageMode,
           NEW k \in 0 .. Words - 1, k % Page = 0, NEW i \in 1 .. Page
    PROVE  WordAddr(k) + i - 1 \in ImageUnits /\ WordAddr(k) \in Int
<1>1. K = 1 /\ Words \in Nat /\ Page \in Nat \ {0}
  BY WordsTyped, FlashAssumption DEF NumberInv, PageMode
<1>2. Base \in Int
  BY McprogAssumption DEF Base, NumberInv
<1> DEFINE n == Page * ((Words + Page - 1) \div Page)
<1>3. k + Page <= n /\ n \in Int
  <2>1. k + Page <= n
    BY <1>1, PagesCover
  <2>2. \A p \in Nat \ {0}, t \in Int : t \div p \in Int
    OBVIOUS
  <2>3. (Words + Page - 1) \div Page \in Int
    BY <1>1, <2>2
  <2>4. \A p \in Nat, t \in Int : p * t \in Int
    OBVIOUS
  <2> QED
    BY <1>1, <2>1, <2>3, <2>4
<1>4. k + i - 1 \in 0 .. n - 1
  <2> HIDE DEF n
  <2> QED
    BY <1>1, <1>3
<1>5. WordAddr(k) + i - 1 = Base + (k + i - 1) /\ WordAddr(k) \in Int
  BY <1>1, <1>2 DEF WordAddr
<1> QED
  BY <1>4, <1>5 DEF ImageUnits

LEMMA PageOf ==
    ASSUME NEW p \in Nat \ {0}, NEW a \in Nat
    PROVE  \E k \in 0 .. a, i \in 1 .. p : k % p = 0 /\ a = k + i - 1
<1> DEFINE q == a \div p
           r == a % p
<1>1. q \in Nat /\ r \in 0 .. p - 1 /\ a = p * q + r
  OBVIOUS
<1> DEFINE k == p * q
<1>2. k \in Nat /\ k % p = 0
  <2>1. \A x \in Nat : (p * x) % p = 0 /\ p * x \in Nat
    OBVIOUS
  <2> HIDE DEF q, r
  <2> QED
    BY <1>1, <2>1
<1> HIDE DEF q, r
<1>3. a = k + (r + 1) - 1 /\ k \in 0 .. a /\ r + 1 \in 1 .. p
  <2>1. a = k + r
    BY <1>1
  <2> HIDE DEF k
  <2> QED
    BY <1>1, <1>2, <2>1
<1> HIDE DEF k
<1> QED
  BY <1>2, <1>3

LEMMA LicenceAllowed ==
    ASSUME opt \in CommandLines, NumberInv, Commands # <<>>
    PROVE  Licence \subseteq EraseAllowed
<1>1. Words \in Nat /\ K \in {1, 2} /\ memory.len <= Words * K /\ memory.len \in Nat
      /\ (PageMode => K = 1)
  BY WordsTyped DEF NumberInv, PageMode
<1>2. \A a \in 0 .. memory.len - 1 : Base + a \in ImageUnits
  <2> TAKE a \in 0 .. memory.len - 1
  <2>1. CASE PageMode
    <3>1. Page \in Nat \ {0} /\ a < Words /\ a \in Nat
      BY <1>1, <2>1, FlashAssumption
    <3>2. PICK k \in 0 .. a, i \in 1 .. Page : k % Page = 0 /\ a = k + i - 1
      BY <3>1, PageOf
    <3>3. WordAddr(k) + i - 1 \in ImageUnits
      BY <1>1, <2>1, <3>1, <3>2, ImagePage
    <3>4. Base \in Int
      BY McprogAssumption DEF Base, NumberInv
    <3>5. WordAddr(k) = Base + k
      BY <1>1, <2>1, <3>4 DEF WordAddr
    <3>6. WordAddr(k) + i - 1 = Base + a
      <4> HIDE DEF Base
      <4> QED
        BY <3>1, <3>2, <3>4, <3>5
    <3> QED
      BY <3>3, <3>6
  <2>2. CASE ~PageMode
    <3>1. Words * K \in Nat
      BY <1>1
    <3>2. a \in 0 .. Words * K - 1
      BY <1>1, <3>1
    <3> QED
      BY <2>2, <3>2 DEF ImageUnits
  <2> QED
    BY <2>1, <2>2
<1>3. \A a \in 0 .. memory.len - 1 : SectorOf(Base + a) \subseteq UNION {SectorOf(u) : u \in ImageUnits}
  BY <1>2
<1>4. UNION {SectorOf(Base + a) : a \in 0 .. memory.len - 1} \subseteq UNION {SectorOf(u) : u \in ImageUnits}
  BY <1>3
<1> DEFINE A == UNION {SectorOf(Base + a) : a \in 0 .. memory.len - 1}
           B == UNION {SectorOf(u) : u \in ImageUnits}
<1>5. CASE Commands[1] = "erase"
  BY <1>5 DEF Licence, EraseAllowed
<1>6. CASE Commands[1] # "erase" /\ Commands = <<"program">> /\ ~opt.verify
  <2>1. erase_mode \in 0 .. 2
    BY McprogAssumption DEF erase_mode
  <2> HIDE DEF A, B
  <2>2. A \subseteq B
    BY <1>4 DEF A, B
  <2>3. Licence = CASE erase_mode = 0 -> {} [] erase_mode = 1 -> Units [] OTHER -> A
    BY <1>6 DEF Licence, A
  <2>4. EraseAllowed = CASE erase_mode = 0 -> {} [] erase_mode = 1 -> Units [] OTHER -> B
    BY <1>6 DEF EraseAllowed, B
  <2> QED
    BY <2>1, <2>2, <2>3, <2>4
<1>7. CASE Commands[1] # "erase" /\ ~(Commands = <<"program">> /\ ~opt.verify)
  BY <1>7 DEF Licence
<1> QED
  BY <1>5, <1>6, <1>7

-----------------------------------------------------------------------------
(* The steps that detect and erase the flash. *)
PlaceInv == CommandInv /\ NumberInv /\ DetectedInv /\ ReadInv
MicronModes == {"read", "status", "erasing", "programming"}

(* What a step does to the chip, where it may. *)
ChipMoves == flash' \in Touched(flash, May, Licence) /\ ModesInv'

LEMMA KindsOf ==
    ASSUME opt \in CommandLines
    PROVE  /\ opt.kind \in {"amd", "page", "micron", "static"} /\ opt.width \in {8, 32, 64, 0}
           /\ opt.kind = "static" <=> opt.width = 0
           /\ opt.kind \in {"page", "micron"} => opt.width = 32
           /\ opt.method \in {"adapter", "generic"} /\ opt.region \in Nat
           /\ erase_mode \in 0 .. 2
  BY McprogAssumption DEF Kinds, erase_mode

LEMMA DataTyped ==
    ASSUME NumberInv, NEW i \in Nat PROVE DataAt(i) \in SUBSET Bits
<1>1. MaxImage \in Nat
  BY ImageAssumption
<1>2. i < MaxImage => i \in 0 .. MaxImage - 1
  BY <1>1
<1> QED
  BY <1>2 DEF DataAt, NumberInv, Zero

LEMMA MicronMode ==
    ASSUME UNCHANGED opt, opt.kind = "micron",
           flash'.mode[1] = "read", flash'.mode[0] \in MicronModes
    PROVE  ModesInv'
  BY DEF ModesInv, MicronModes

LEMMA AmdMode ==
    ASSUME UNCHANGED opt, opt.kind \in {"amd", "page"},
           flash'.mode[1] \in {"read", "erasing"}, flash'.mode[0] = "read",
           pc' \in {"program", "end block"} => opt.width # 8
    PROVE  ModesInv'
  BY DEF ModesInv

LEMMA StaticMode ==
    ASSUME UNCHANGED opt, opt.kind = "static", ChipInv, UNCHANGED flash PROVE ModesInv'
  BY DEF ModesInv, ChipInv

(* A step that leaves the chip. *)
LEMMA ChipStays ==
    ASSUME ChipInv, opt \in CommandLines, UNCHANGED <<opt, flash>>,
           \/ pc' \in Leaving \/ UNCHANGED pc
           \/ /\ pc \notin Leaving \cup {"poll", "program", "end block"}
              /\ pc' \notin {"program", "end block"}
    PROVE  ChipMoves
<1>1. flash' \in Touched(flash, May, Licence)
  BY TouchedSame DEF ChipInv
<1>2. ModesInv'
  BY KindsOf DEF ChipInv, ModesInv, Leaving
<1> QED
  BY <1>1, <1>2 DEF ChipMoves

(* A chip that has been found can be read, and its other half is as it was. *)
LEMMA DetectReads ==
    ASSUME PlaceInv, ChipInv, Detect
    PROVE  flash' \in Touched(flash, {}, {}) /\ flash'.mode[0] = "read"
           /\ flash'.mode[1] = flash.mode[1]
<1>1. /\ pc = "detect" /\ flash.mode[0] \notin Busy /\ UNCHANGED opt /\ opt \in CommandLines
      /\ pc' \in {"open", "quit", "check", "copy", "erase"}
  BY WaysOut DEF Detect, Goto, input, PlaceInv, CommandInv
<1>2. PICK n \in {m \in Rounds : Finds(m)} : flash' \in After(flash, DetectWrites(n))
  BY DEF Detect
<1>3. n \in Int /\ opt.kind # "static"
  BY <1>1, <1>2, RoundsFound
<1>4. flash \in FlashType /\ flash.kind = opt.kind /\ flash.width = opt.width
  BY DEF ChipInv
<1>5. flash' \in Near(flash, 0, "read", {}, {})
  <2> DEFINE r == "read"
  <2>1. CASE opt.kind = "micron"
    <3> DEFINE m == flash.mode[0]
    <3>1. m \in {"read", "status"}
      BY <1>1, <2>1 DEF ChipInv, ModesInv, Busy
    <3>2. opt.width = 32
      BY <1>1, <2>1, KindsOf
    <3>3. Leads(Near(flash, 0, m, {}, {}), DetectWrites(n), Near(flash, 0, r, {}, {}))
      <4> HIDE DEF m
      <4> QED
        BY <1>3, <1>4, <2>1, <3>1, <3>2, MicronDetectLeads
    <3> HIDE DEF r
    <3>4. flash' \in Near(flash, 0, r, {}, {})
      BY <1>2, <1>4, <3>3, LeadsTo
    <3> QED
      BY <3>4 DEF r
  <2>2. CASE opt.kind # "micron"
    <3>1. flash.mode[0] = r
      BY <1>1, <1>3, <2>2, KindsOf DEF ChipInv, ModesInv, Leaving
    <3>2. Leads(Near(flash, 0, r, {}, {}), DetectWrites(n), Near(flash, 0, r, {}, {}))
      BY <1>3, <1>4, <2>2, DetectLeads
    <3> HIDE DEF r
    <3>3. flash' \in Near(flash, 0, r, {}, {})
      BY <1>2, <1>4, <3>1, <3>2, LeadsTo
    <3> QED
      BY <3>3 DEF r
  <2> QED
    BY <2>1, <2>2
<1> QED
  BY <1>5, NearTouched

LEMMA ChipDetect ==
    ASSUME PlaceInv, ChipInv, Detect PROVE ChipMoves
<1>1. /\ pc = "detect" /\ UNCHANGED opt /\ opt \in CommandLines
      /\ pc' \in {"open", "quit", "check", "copy", "erase"}
  BY WaysOut DEF Detect, Goto, input, PlaceInv, CommandInv
<1>2. \E n \in {m \in Rounds : Finds(m)} : TRUE
  BY DEF Detect
<1>3. opt.kind # "static"
  BY <1>1, <1>2, RoundsFound
<1>4. flash' \in Touched(flash, May, Licence) /\ flash'.mode[0] = "read"
      /\ flash'.mode[1] = flash.mode[1]
  BY DetectReads DEF Touched
<1>5. ModesInv'
  <2>1. CASE opt.kind = "micron"
    BY <1>1, <1>4, <2>1, MicronMode DEF ChipInv, ModesInv, MicronModes
  <2>2. CASE opt.kind # "micron"
    BY <1>1, <1>3, <1>4, <2>2, KindsOf, AmdMode DEF ChipInv, ModesInv
  <2> QED
    BY <2>1, <2>2
<1> QED
  BY <1>4, <1>5 DEF ChipMoves

(* What an erase may reach. *)
LEMMA EraseLicence ==
    ASSUME PlaceInv, Erasing
    PROVE  /\ opt \in CommandLines /\ Cmd \in {"erase", "program"} /\ EraseMode \in {1, 2}
           /\ EraseMode = 1 => Licence = Units
           /\ EraseMode = 2 =>
                 Cmd = "program" /\ \A a \in 0 .. memory.len - 1 : SectorOf(Base + a) \subseteq Licence
           /\ area \in Nat /\ area % 2 = 0 /\ Base \in Units /\ EraseAt \in Nat
           /\ area < EraseLength => SectorOf(EraseAt) \subseteq Licence
<1>1. /\ opt \in CommandLines /\ pc = "erase" /\ left # <<>> /\ Cmd \in {"erase", "program"}
      /\ Cmd = "erase" \/ (~opt.verify /\ erase_mode # 0)
      /\ Cmd = "program" => Commands = <<"program">>
      /\ Cmd = "erase" => Commands[1] = "erase"
      /\ Commands # <<>>
  <2>1. /\ opt \in CommandLines /\ pc = "erase" /\ left # <<>> /\ Cmd \in {"erase", "program"}
        /\ Cmd = "erase" \/ (~opt.verify /\ erase_mode # 0)
    BY DEF PlaceInv, CommandInv, Erasing, AtErase, Active, PCs, Leaving, SkipErase, EraseMode
  <2> QED
    BY <2>1, LeftCases DEF PlaceInv
<1>2. erase_mode \in 0 .. 2
  BY <1>1, KindsOf
<1>3. EraseMode \in {1, 2} /\ (EraseMode = 2 => Cmd = "program" /\ erase_mode = 2)
  BY <1>1, <1>2 DEF EraseMode
<1>4. EraseMode = 1 => Licence = Units
  BY <1>1, <1>2 DEF EraseMode, Licence
<1>5. EraseMode = 2 => Licence = UNION {SectorOf(Base + a) : a \in 0 .. memory.len - 1}
  <2> SUFFICES ASSUME EraseMode = 2
               PROVE  Licence = UNION {SectorOf(Base + a) : a \in 0 .. memory.len - 1}
    OBVIOUS
  <2>1. Commands = <<"program">> /\ erase_mode = 2 /\ ~opt.verify
    BY <1>1, <1>3
  <2> DEFINE A == UNION {SectorOf(Base + a) : a \in 0 .. memory.len - 1}
  <2>2. Commands # <<>> /\ Commands[1] # "erase"
    BY <2>1
  <2> HIDE DEF A
  <2>3. Licence = CASE erase_mode = 0 -> {} [] erase_mode = 1 -> Units [] OTHER -> A
    BY <2>1, <2>2 DEF Licence, A
  <2>4. Licence = A
    BY <2>1, <2>3
  <2> QED
    BY <2>4 DEF A
<1>6. EraseMode = 2 => \A a \in 0 .. memory.len - 1 : SectorOf(Base + a) \subseteq Licence
  BY <1>5
<1>7. area \in Nat /\ area % 2 = 0 /\ Base \in Units /\ N \in Nat /\ memory.len \in Nat
  BY <1>1, FlashAssumption DEF PlaceInv, NumberInv, DetectedInv, AtErase, InRegion
<1>8. EraseAt \in Nat
  BY <1>7 DEF EraseAt, Units
<1>9. area < EraseLength => SectorOf(EraseAt) \subseteq Licence
  <2>1. CASE EraseMode = 1
    BY <1>4, <2>1 DEF SectorOf
  <2>2. CASE EraseMode = 2
    <3>1. area < EraseLength => area \in 0 .. memory.len - 1
      BY <1>7, <2>2 DEF EraseLength
    <3>2. EraseAt = Base + area
      BY <2>2 DEF EraseAt
    <3> QED
      BY <1>6, <2>2, <3>1, <3>2
  <2> QED
    BY <1>3, <2>1, <2>2
<1> QED
  BY <1>1, <1>3, <1>4, <1>6, <1>7, <1>8, <1>9

LEMMA HalfZero ==
    ASSUME NEW width, width # 64, NEW u PROVE HalfOf(width, u) = 0
  BY DEF HalfOf

LEMMA MicronWrites ==
    ASSUME NEW width, width # 64, NEW u \in Int, NEW c \in Codes
    PROVE  Command(u, c) \in WritesTo(width, 0)
<1>1. Command(u, c) \in Writes /\ HalfOf(width, Command(u, c).unit) = 0
  BY CommandIsWrite, HalfZero
<1> QED
  BY <1>1 DEF WritesTo

LEMMA ChipMicronErase ==
    ASSUME PlaceInv, ChipInv, MicronErase PROVE ChipMoves
<1>1. /\ Erasing /\ micron /\ area < EraseLength /\ UNCHANGED opt /\ pc' = "poll micron"
      /\ flash' \in After(flash, <<Command(EraseAt, "20"), Command(EraseAt, "D0")>>)
  BY DEF MicronErase, Goto, input
<1>2. opt \in CommandLines /\ opt.kind = "micron" /\ opt.width = 32
  BY <1>1, KindsOf DEF PlaceInv, CommandInv, DetectedInv, Erasing, AtErase
<1>3. flash \in FlashType /\ flash.kind = "micron" /\ flash.width = 32
      /\ flash.mode[0] \in MicronModes /\ flash.mode[1] = "read"
  BY <1>2 DEF ChipInv, ModesInv, MicronModes
<1>4. EraseAt \in Int /\ SectorOf(EraseAt) \subseteq Licence
  <2>1. EraseAt \in Nat /\ (area < EraseLength => SectorOf(EraseAt) \subseteq Licence)
    BY <1>1, EraseLicence, Zenon
  <2>2. area < EraseLength
    BY <1>1, Zenon
  <2>3. SectorOf(EraseAt) \subseteq Licence
    BY <2>1, <2>2, Zenon
  <2>4. EraseAt \in Int
    BY <2>1
  <2> QED
    BY <2>3, <2>4
<1> DEFINE u == EraseAt
           ws == <<Command(u, "20"), Command(u, "D0")>>
           L == Licence
           d == "erasing"
<1>5. CASE flash.mode[0] \in Busy
  <2>1. ws \in Seq(WritesTo(flash.width, 0))
    <3>1. {"20", "D0"} \subseteq Codes
      BY DEF Codes
    <3>2. Command(u, "20") \in WritesTo(32, 0) /\ Command(u, "D0") \in WritesTo(32, 0)
      BY <1>4, <3>1, MicronWrites
    <3> QED
      BY <1>3, <3>2
  <2>2. After(flash, ws) \subseteq {flash}
    <3> HIDE DEF ws
    <3> QED
      BY <1>3, <1>5, <2>1, BusyIgnores
  <2>3. flash' = flash
    BY <1>1, <2>2
  <2>4. ModesInv'
    BY <1>1, <1>2, <1>3, <2>3, MicronMode
  <2> QED
    BY <1>3, <2>3, <2>4, TouchedSame DEF ChipMoves
<1>6. CASE flash.mode[0] \notin Busy
  <2> DEFINE m == flash.mode[0]
  <2>1. m \in {"read", "status"}
    BY <1>3, <1>6 DEF MicronModes, Busy
  <2> HIDE DEF m
  <2>2. Leads(Near(flash, 0, m, {}, L), ws, Near(flash, 0, d, {}, L))
    BY <1>3, <1>4, <2>1, MicronEraseLeads, HalfZero
  <2> HIDE DEF d, ws, L
  <2>3. flash' \in Near(flash, 0, d, {}, L)
    BY <1>1, <1>3, <2>2, LeadsTo DEF m, ws
  <2>4. flash' \in Touched(flash, May, Licence) /\ flash'.mode[0] = d
        /\ flash'.mode[1] = flash.mode[1]
    <3>1. flash' \in Near(flash, 0, d, {}, Licence)
      BY <2>3 DEF L
    <3>2. {} \subseteq May /\ 0 \in {0, 1} /\ 1 \in {0, 1} \ {0}
      OBVIOUS
    <3>3. flash' \in Touched(flash, May, Licence) /\ flash'.mode[0] = d
          /\ \A i \in {0, 1} \ {0} : flash'.mode[i] = flash.mode[i]
      BY <3>1 DEF Near, Touched
    <3> QED
      BY <3>2, <3>3
  <2>5. ModesInv'
    BY <1>1, <1>2, <1>3, <2>4, MicronMode DEF d, MicronModes
  <2> QED
    BY <2>4, <2>5 DEF ChipMoves
<1> QED
  BY <1>5, <1>6

(* Whole requests stay on one half of the bus. *)
LEMMA RequestWrites ==
    ASSUME NEW f \in FlashType, f.width = opt.width, NEW h \in Halves(opt.width), NEW c \in Codes
    PROVE  /\ Unlock(h) \in Seq(WritesTo(f.width, h))
           /\ Request(h, c) \in Seq(WritesTo(f.width, h))
<1> DEFINE V == WritesTo(f.width, h)
<1>1. {"AA", "55"} \subseteq Codes
  BY DEF Codes
<1>2. /\ Command(AddrOdd(opt.width, h), "AA") \in V /\ Command(AddrEven(opt.width, h), "55") \in V
      /\ Command(AddrOdd(opt.width, h), c) \in V
  BY <1>1, Addressed
<1> HIDE DEF V
<1>3. Unlock(h) \in Seq(V)
  BY <1>2 DEF Unlock
<1>4. <<Command(AddrOdd(opt.width, h), c)>> \in Seq(V)
  BY <1>2
<1>5. \A s, t \in Seq(V) : s \o t \in Seq(V)
  OBVIOUS
<1>6. Request(h, c) \in Seq(V)
  BY <1>3, <1>4, <1>5 DEF Request
<1> QED
  BY <1>3, <1>6 DEF V

LEMMA SequenceWrites ==
    ASSUME NEW f \in FlashType, f.width = opt.width, NEW h \in Halves(opt.width),
           NEW u \in Int, HalfOf(opt.width, u) = h, NEW c \in Codes, NEW d \in SUBSET Bits
    PROVE  /\ EraseRequest(h, u, c) \in Seq(WritesTo(f.width, h))
           /\ Program(h, u, d) \in Seq(WritesTo(f.width, h))
<1> DEFINE V == WritesTo(f.width, h)
<1>1. {"80", "A0"} \subseteq Codes
  BY DEF Codes
<1>2. Unlock(h) \in Seq(V) /\ Request(h, "80") \in Seq(V) /\ Request(h, "A0") \in Seq(V)
  BY <1>1, RequestWrites
<1>3. Command(u, c) \in V /\ Data(u, d) \in V
  BY CommandIsWrite, DataIsWrite DEF WritesTo
<1> HIDE DEF V
<1>4. <<Command(u, c)>> \in Seq(V) /\ <<Data(u, d)>> \in Seq(V)
  BY <1>3
<1>5. \A s, t \in Seq(V) : s \o t \in Seq(V)
  OBVIOUS
<1>6. EraseRequest(h, u, c) \in Seq(V)
  BY <1>2, <1>4, <1>5 DEF EraseRequest
<1>7. Program(h, u, d) \in Seq(V)
  BY <1>2, <1>4, <1>5 DEF Program
<1> QED
  BY <1>6, <1>7 DEF V

(* A chip near another has touched what it may. *)
LEMMA NearMoves ==
    ASSUME NEW f, NEW h \in {0, 1}, NEW m, NEW us, NEW es, NEW g \in Near(f, h, m, us, es)
    PROVE  g \in Touched(f, us, es) /\ g.mode[h] = m /\ (\A i \in {0, 1} \ {h} : g.mode[i] = f.mode[i])
  BY DEF Near, Touched

(* The chip after a sequence that lets a half erase. *)
HalfErased(f, h, us, es, ws) ==
    /\ ws \in Seq(Writes)
    /\ \A g \in After(f, ws) :
          /\ g \in Touched(f, us, es) /\ g.mode[h] = "erasing"
          /\ \A i \in {0, 1} \ {h} : g.mode[i] = f.mode[i]

(* The erase of a half, and of one that does not listen. *)
LEMMA HalfErase ==
    ASSUME NEW f \in FlashType, f.width = opt.width, f.kind # "micron",
           NEW h \in Halves(opt.width), f.mode[h] \in {"read", "erasing"},
           NEW us, NEW es, NEW u \in Int, HalfOf(opt.width, u) = h,
           NEW c, \/ c = "10" /\ u = AddrOdd(opt.width, h) /\ Units \subseteq es
                  \/ c = "30" /\ SectorOf(u) \subseteq es
    PROVE  HalfErased(f, h, us, es, EraseRequest(h, u, c))
<1> DEFINE ws == EraseRequest(h, u, c)
           r == "read"
           e == "erasing"
<1>1. h \in {0, 1} /\ c \in Codes /\ {} \in SUBSET Bits
  BY DEF Halves, Codes
<1>2. ws \in Seq(WritesTo(f.width, h))
  BY <1>1, SequenceWrites
<1>3. Leads(Near(f, h, r, us, es), ws, Near(f, h, e, us, es))
  BY EraseLeads
<1>4. ws \in Seq(Writes)
  BY <1>3 DEF Leads
<1> SUFFICES ASSUME NEW g \in After(f, ws)
             PROVE  /\ g \in Touched(f, us, es) /\ g.mode[h] = e
                    /\ \A i \in {0, 1} \ {h} : g.mode[i] = f.mode[i]
  BY <1>4 DEF HalfErased
<1>5. CASE f.mode[h] = r
  <2> HIDE DEF r, e, ws
  <2>1. g \in Near(f, h, e, us, es)
    BY <1>1, <1>3, <1>5, LeadsTo
  <2> QED
    BY <1>1, <2>1, NearMoves
<1>6. CASE f.mode[h] = e
  <2>1. f.mode[h] \in Busy
    BY <1>6 DEF Busy
  <2> HIDE DEF ws
  <2>2. g = f
    BY <1>1, <1>2, <2>1, BusyIgnores
  <2> QED
    BY <1>6, <2>2, TouchedSame
<1> QED
  BY <1>5, <1>6

(* The erase of one half, or of both. *)
HalvesErased(f, us, es) ==
    {g \in Touched(f, us, es) : g.mode[0] = "erasing" /\ g.mode[1] \in {"read", "erasing"}}

EraseSteps(hs, v, c, es, ws) ==
    /\ hs = {0} \/ (hs = {0, 1} /\ opt.width = 64)
    /\ \A h \in hs : v[h] \in Int /\ HalfOf(opt.width, v[h]) = h
    /\ \/ c = "10" /\ (\A h \in hs : v[h] = AddrOdd(opt.width, h)) /\ Units \subseteq es
       \/ c = "30" /\ \A h \in hs : SectorOf(v[h]) \subseteq es
    /\ Len(ws) = Cardinality(hs)
    /\ \A i \in 1 .. Cardinality(hs) : ws[i] = EraseRequest(i - 1, v[i - 1], c)

LEMMA HalvesErase ==
    ASSUME NEW f \in FlashType, f.width = opt.width, f.kind # "micron",
           f.mode[0] = "read", f.mode[1] \in {"read", "erasing"},
           NEW us, NEW es, NEW hs, NEW v, NEW c, NEW ws, EraseSteps(hs, v, c, es, ws),
           NEW g \in After(f, FlattenSeq(ws))
    PROVE  g \in HalvesErased(f, us, es)
<1>0. /\ hs = {0} \/ (hs = {0, 1} /\ opt.width = 64)
      /\ \A h \in hs : v[h] \in Int /\ HalfOf(opt.width, v[h]) = h
      /\ \/ c = "10" /\ (\A h \in hs : v[h] = AddrOdd(opt.width, h)) /\ Units \subseteq es
         \/ c = "30" /\ \A h \in hs : SectorOf(v[h]) \subseteq es
      /\ Len(ws) = Cardinality(hs)
      /\ \A i \in 1 .. Cardinality(hs) : ws[i] = EraseRequest(i - 1, v[i - 1], c)
  BY DEF EraseSteps
<1>1. 0 \in hs /\ 0 \in Halves(opt.width) /\ 1 \in {0, 1} \ {0} /\ 0 \in {0, 1} \ {1}
  BY <1>0 DEF Halves
<1>2. /\ EraseRequest(0, v[0], c) \in Seq(Writes)
      /\ \A k \in After(f, EraseRequest(0, v[0], c)) :
            k \in Touched(f, us, es) /\ k.mode[0] = "erasing" /\ k.mode[1] = f.mode[1]
  <2>1. v[0] \in Int /\ HalfOf(opt.width, v[0]) = 0 /\ f.mode[0] \in {"read", "erasing"}
    BY <1>0, <1>1
  <2>2. \/ c = "10" /\ v[0] = AddrOdd(opt.width, 0) /\ Units \subseteq es
        \/ c = "30" /\ SectorOf(v[0]) \subseteq es
    BY <1>0, <1>1
  <2>3. HalfErased(f, 0, us, es, EraseRequest(0, v[0], c))
    BY <1>1, <2>1, <2>2, HalfErase
  <2> QED
    BY <1>1, <2>3 DEF HalfErased
<1>3. CASE hs = {0}
  <2>1. Cardinality(hs) = 1
    BY <1>3, FS_Singleton
  <2>2. Len(ws) = 1 /\ ws[1] = EraseRequest(0, v[0], c)
    BY <1>0, <2>1
  <2>3. FlattenSeq(ws) = EraseRequest(0, v[0], c)
    BY <2>2, FlattenOne
  <2> QED
    BY <1>2, <2>3 DEF HalvesErased
<1>4. CASE hs = {0, 1} /\ opt.width = 64
  <2>1. Cardinality(hs) = 2
    <3> DEFINE one == {0}
    <3>1. Cardinality(one) = 1 /\ IsFiniteSet(one) 
      BY FS_Singleton
    <3>4. 1 \notin one
      OBVIOUS
    <3>2. hs = one \cup {1}
      BY <1>4
    <3> HIDE DEF one
    <3>3. Cardinality(one \cup {1}) = Cardinality(one) + 1
      BY <3>1, <3>4, FS_AddElement
    <3> QED
      BY <3>1, <3>2, <3>3
  <2>2. Len(ws) = 2 /\ ws[1] = EraseRequest(0, v[0], c) /\ ws[2] = EraseRequest(1, v[1], c)
    BY <1>0, <2>1
  <2>3. FlattenSeq(ws) = EraseRequest(0, v[0], c) \o EraseRequest(1, v[1], c)
    BY <2>2, FlattenTwo
  <2>4. 1 \in Halves(opt.width) /\ v[1] \in Int /\ HalfOf(opt.width, v[1]) = 1
    BY <1>0, <1>4 DEF Halves
  <2>5. \/ c = "10" /\ v[1] = AddrOdd(opt.width, 1) /\ Units \subseteq es
        \/ c = "30" /\ SectorOf(v[1]) \subseteq es
    BY <1>0, <1>4
  <2>6. EraseRequest(1, v[1], c) \in Seq(Writes)
    <3>1. f.mode[1] \in {"read", "erasing"}
      OBVIOUS
    <3>2. HalfErased(f, 1, us, es, EraseRequest(1, v[1], c))
      BY <2>4, <2>5, <3>1, HalfErase
    <3> QED
      BY <3>2 DEF HalfErased
  <2>7. PICK k \in After(f, EraseRequest(0, v[0], c)) : g \in After(k, EraseRequest(1, v[1], c))
    <3>1. \A x \in FlashType, w \in Writes : AfterWrite(x, w) \subseteq FlashType
      BY AfterWriteTyped DEF Near
    <3>2. After(f, EraseRequest(0, v[0], c) \o EraseRequest(1, v[1], c))
            = UNION {After(x, EraseRequest(1, v[1], c)) : x \in After(f, EraseRequest(0, v[0], c))}
      BY <1>2, <2>6, <3>1, AfterBoth
    <3>3. g \in After(f, EraseRequest(0, v[0], c) \o EraseRequest(1, v[1], c))
      BY <2>3
    <3> QED
      BY <3>2, <3>3
  <2>8. /\ k \in Touched(f, us, es) /\ k.mode[0] = "erasing" /\ k.mode[1] \in {"read", "erasing"}
        /\ k \in FlashType /\ k.width = opt.width /\ k.kind # "micron"
    BY <1>2, <2>7 DEF Touched
  <2>9. /\ g \in Touched(k, us, es) /\ g.mode[1] = "erasing"
        /\ \A i \in {0, 1} \ {1} : g.mode[i] = k.mode[i]
    <3>1. k.mode[1] \in {"read", "erasing"}
      BY <2>8
    <3>2. HalfErased(k, 1, us, es, EraseRequest(1, v[1], c))
      BY <2>4, <2>5, <2>8, <3>1, HalfErase
    <3> QED
      BY <2>7, <3>2 DEF HalfErased
  <2>10. g \in Touched(f, us, es)
    BY <2>8, <2>9, TouchedTwice
  <2> QED
    BY <1>1, <2>8, <2>9, <2>10 DEF HalvesErased
<1> QED
  BY <1>0, <1>3, <1>4

(* Sectors begin on words of 64 bits. *)
LEMMA SectorPair ==
    ASSUME NEW u \in Nat, u % 2 = 0 PROVE SectorOf(u + 1) = SectorOf(u)
<1> DEFINE s == Sector
           q == u \div s
           r == u % s
           b == s \div 2
           a == u \div 2
<1>1. s \in Nat \ {0} /\ s % 2 = 0
  BY FlashAssumption
<1>2. s = 2 * b /\ b \in Nat /\ u = 2 * a /\ a \in Nat
  BY <1>1
<1>3. q \in Nat /\ r \in 0 .. s - 1 /\ u = s * q + r
  <2> HIDE DEF s
  <2> QED
    BY <1>1
<1> HIDE DEF s, q, r, a, b
<1>4. s * q = 2 * (b * q) /\ b * q \in Nat
  BY <1>2, <1>3
<1>5. r + 1 \in 0 .. s - 1
  <2> DEFINE t == b * q
  <2>1. t \in Nat /\ 2 * a = 2 * t + r /\ s = 2 * b
    BY <1>2, <1>3, <1>4
  <2> HIDE DEF t
  <2> QED
    BY <1>2, <1>3, <2>1
<1>6. u + 1 = s * q + (r + 1)
  BY <1>2, <1>3, <1>4
<1>7. \A x \in Nat, y \in 0 .. s - 1 : (s * x + y) \div s = x
  <2> TAKE x \in Nat, y \in 0 .. s - 1
  <2> DEFINE n == s * x + y
             d == n \div s
             e == n % s
  <2>1. n \in Nat /\ d \in Nat /\ e \in 0 .. s - 1 /\ n = s * d + e
    <3>1. s * x \in Nat
      BY <1>1
    <3>2. n \in Nat
      BY <1>1, <3>1
    <3> HIDE DEF n
    <3> QED
      BY <1>1, <3>2
  <2>2. s * d + e = s * x + y
    BY <2>1
  <2> HIDE DEF n, d, e
  <2>3. s * (d - x) = y - e
    BY <1>1, <2>1, <2>2
  <2>4. d = x
    <3>1. \A k \in Nat \ {0} : s * k >= s
      BY <1>1
    <3>2. CASE d > x
      <4>1. d - x \in Nat \ {0}
        BY <2>1, <3>2
      <4>2. s * (d - x) >= s
        BY <3>1, <4>1
      <4> QED
        BY <1>1, <2>1, <2>3, <4>2
    <3>3. CASE d < x
      <4>1. x - d \in Nat \ {0}
        BY <2>1, <3>3
      <4>2. s * (x - d) >= s
        BY <3>1, <4>1
      <4>3. s * (x - d) = e - y
        BY <1>1, <2>1, <2>2
      <4> QED
        BY <1>1, <2>1, <4>2, <4>3
    <3> QED
      BY <2>1, <3>2, <3>3
  <2> QED
    BY <2>4 DEF d, n
<1>8. (u + 1) \div s = u \div s
  BY <1>3, <1>5, <1>6, <1>7
<1> QED
  BY <1>8 DEF SectorOf, s

LEMMA HalvesCount ==
    ASSUME NEW hs, hs = {0} \/ hs = {0, 1} PROVE Cardinality(hs) \in Nat
<1>1. IsFiniteSet({0}) /\ IsFiniteSet({0} \cup {1})
  BY FS_Singleton, FS_AddElement
<1>2. hs = {0} \/ hs = {0} \cup {1}
  OBVIOUS
<1> QED
  BY <1>1, <1>2, FS_CardinalityType

(* A chip whose halves erase, as the poll for the end finds it. *)
LEMMA ErasingMoves ==
    ASSUME ChipInv, opt \in CommandLines, opt.kind \in {"amd", "page"}, UNCHANGED opt, pc' = "poll",
           flash' \in Touched(flash, May, Licence), flash'.mode[0] = "erasing",
           flash'.mode[1] \in {"read", "erasing"}
    PROVE  ChipMoves
<1>1. ModesInv'
  BY DEF ModesInv
<1> QED
  BY <1>1 DEF ChipMoves

LEMMA AmdErases ==
    ASSUME PlaceInv, ChipInv, Erasing, ~micron
    PROVE  /\ opt \in CommandLines /\ opt.kind \in {"amd", "page"}
           /\ flash \in FlashType /\ flash.width = opt.width /\ flash.kind # "micron"
           /\ flash.mode[0] = "read" /\ flash.mode[1] \in {"read", "erasing"}
           /\ ErasedHalves = {0} \/ (ErasedHalves = {0, 1} /\ opt.width = 64)
<1>1. opt \in CommandLines /\ pc = "erase" /\ opt.kind \in {"amd", "page"}
  BY KindsOf DEF PlaceInv, CommandInv, DetectedInv, Erasing, AtErase
<1>2. /\ flash \in FlashType /\ flash.width = opt.width /\ flash.kind # "micron"
      /\ flash.mode[0] = "read" /\ flash.mode[1] \in {"read", "erasing"}
  BY <1>1 DEF ChipInv, ModesInv, Leaving
<1>3. ErasedHalves = {0} \/ (ErasedHalves = {0, 1} /\ opt.width = 64)
  BY DEF ErasedHalves, Halves
<1> QED
  BY <1>1, <1>2, <1>3

LEMMA ChipErase ==
    ASSUME PlaceInv, ChipInv, target_erase PROVE ChipMoves
<1>1. /\ Erasing /\ ~micron /\ EraseMode = 1 /\ UNCHANGED opt /\ pc' = "poll"
      /\ flash' \in After(flash, EraseWrites)
  BY DEF target_erase, Goto, input
<1>2. /\ opt \in CommandLines /\ opt.kind \in {"amd", "page"}
      /\ flash \in FlashType /\ flash.width = opt.width /\ flash.kind # "micron"
      /\ flash.mode[0] = "read" /\ flash.mode[1] \in {"read", "erasing"}
      /\ ErasedHalves = {0} \/ (ErasedHalves = {0, 1} /\ opt.width = 64)
  BY <1>1, AmdErases
<1>3. Licence = Units
  BY <1>1, EraseLicence, Zenon
<1> DEFINE v == [h \in Int |-> AddrOdd(opt.width, h)]
           hs == ErasedHalves
           c == "10"
           ws == [i \in 1 .. Cardinality(hs) |-> EraseRequest(i - 1, v[i - 1], c)]
<1>4. flash' \in After(flash, FlattenSeq(ws))
  <2>1. ws = [i \in 1 .. Cardinality(ErasedHalves) |->
                 EraseRequest(i - 1, AddrOdd(opt.width, i - 1), "10")]
    OBVIOUS
  <2> QED
    BY <1>1, <2>1 DEF EraseWrites
<1>5. \A h \in hs : v[h] \in Int /\ HalfOf(opt.width, v[h]) = h /\ v[h] = AddrOdd(opt.width, h)
  <2> SUFFICES ASSUME NEW h \in hs
               PROVE  v[h] \in Int /\ HalfOf(opt.width, v[h]) = h /\ v[h] = AddrOdd(opt.width, h)
    OBVIOUS
  <2>1. h \in Halves(opt.width) /\ h \in Int
    BY <1>2 DEF Halves
  <2>2. opt.width \in {8, 32, 64, 0}
    BY <1>2, KindsOf
  <2> QED
    BY <2>1, <2>2, Addresses
<1>6. c = "10" /\ Units \subseteq Licence
  BY <1>3
<1> HIDE DEF v, hs, c
<1>7. hs = {0} \/ (hs = {0, 1} /\ opt.width = 64)
  BY <1>2 DEF hs
<1>20. Len(ws) = Cardinality(hs)
       /\ \A i \in 1 .. Cardinality(hs) : ws[i] = EraseRequest(i - 1, v[i - 1], c)
  BY <1>7, HalvesCount
<1>21. EraseSteps(hs, v, c, Licence, ws)
  BY <1>5, <1>6, <1>7, <1>20 DEF EraseSteps
<1> HIDE DEF ws
<1>8. flash' \in HalvesErased(flash, May, Licence)
  BY <1>2, <1>4, <1>21, HalvesErase
<1> QED
  BY <1>1, <1>2, <1>8, ErasingMoves DEF HalvesErased

LEMMA ChipEraseSector ==
    ASSUME PlaceInv, ChipInv, WellPlaced, target_erase_sector PROVE ChipMoves
<1>1. /\ Erasing /\ ~micron /\ EraseMode = 2 /\ area < EraseLength /\ UNCHANGED opt /\ pc' = "poll"
      /\ flash' \in After(flash, EraseSectorWrites(EraseAt))
  BY DEF target_erase_sector, Goto, input
<1>2. /\ opt \in CommandLines /\ opt.kind \in {"amd", "page"}
      /\ flash \in FlashType /\ flash.width = opt.width /\ flash.kind # "micron"
      /\ flash.mode[0] = "read" /\ flash.mode[1] \in {"read", "erasing"}
      /\ ErasedHalves = {0} \/ (ErasedHalves = {0, 1} /\ opt.width = 64)
  BY <1>1, AmdErases
<1>3. area \in Nat /\ area % 2 = 0 /\ Base \in Nat /\ SectorOf(EraseAt) \subseteq Licence
      /\ EraseAt \in Nat
  <2>1. area \in Nat /\ area % 2 = 0 /\ Base \in Units /\ EraseAt \in Nat
        /\ (area < EraseLength => SectorOf(EraseAt) \subseteq Licence)
    BY <1>1, EraseLicence, Zenon
  <2>2. area < EraseLength
    BY <1>1, Zenon
  <2>3. SectorOf(EraseAt) \subseteq Licence
    BY <2>1, <2>2, Zenon
  <2> QED
    BY <2>1, <2>3 DEF Units
<1>4. opt.width = 64 => EraseAt % 2 = 0
  <2>1. opt.width = 64 => Base % 2 = 0
    <3>1. Commands = <<"program">> /\ ~opt.verify
      <4>1. Cmd = "program" /\ left # <<>> /\ CommandInv
        BY <1>1, EraseLicence DEF PlaceInv, CommandInv, Erasing, Active, PCs, Leaving
      <4>2. ~opt.verify
        BY <1>1, <4>1 DEF CommandInv, Erasing, SkipErase
      <4> QED
        BY <4>1, <4>2, LeftCases
    <3> QED
      BY <1>1, <3>1 DEF WellPlaced, Erasing
  <2>2. EraseAt = Base + area
    BY <1>1 DEF EraseAt
  <2> QED
    BY <1>3, <2>1, <2>2
<1> DEFINE x == EraseAt
           v == [h \in Int |-> x + h]
           hs == ErasedHalves
           c == "30"
           ws == [i \in 1 .. Cardinality(hs) |-> EraseRequest(i - 1, v[i - 1], c)]
<1>5. flash' \in After(flash, FlattenSeq(ws))
  <2>1. \A i \in 1 .. Cardinality(hs) : v[i - 1] = x + i - 1
    BY <1>3
  <2>2. ws = [i \in 1 .. Cardinality(hs) |-> EraseRequest(i - 1, x + i - 1, "30")]
    <3> HIDE DEF v, x, hs
    <3> QED
      BY <2>1
  <2> QED
    BY <1>1, <2>2 DEF EraseSectorWrites
<1>6. \A h \in hs : v[h] \in Int /\ HalfOf(opt.width, v[h]) = h /\ SectorOf(v[h]) \subseteq Licence
  <2>1. v[0] = x /\ v[1] = x + 1 /\ x \in Nat
    BY <1>3
  <2>2. SectorOf(v[0]) \subseteq Licence
    BY <1>3, <2>1
  <2> HIDE DEF x, v
  <2>3. CASE opt.width = 64
    <3>1. x % 2 = 0 /\ (x + 1) % 2 = 1
      BY <1>4, <2>1, <2>3 DEF x
    <3>2. SectorOf(v[1]) \subseteq Licence
      BY <2>1, <2>2, <3>1, SectorPair
    <3>3. HalfOf(opt.width, v[0]) = 0 /\ HalfOf(opt.width, v[1]) = 1 /\ v[0] \in Int /\ v[1] \in Int
      BY <2>1, <2>3, <3>1 DEF HalfOf
    <3> QED
      BY <1>2, <2>2, <3>2, <3>3
  <2>4. CASE opt.width # 64
    <3>1. hs = {0} /\ HalfOf(opt.width, v[0]) = 0 /\ v[0] \in Int
      BY <1>2, <2>1, <2>4 DEF HalfOf
    <3> QED
      BY <2>2, <3>1
  <2> QED
    BY <2>3, <2>4
<1>7. c = "30"
  OBVIOUS
<1> HIDE DEF x, v, hs, c
<1>8. hs = {0} \/ (hs = {0, 1} /\ opt.width = 64)
  BY <1>2 DEF hs
<1>20. Len(ws) = Cardinality(hs)
       /\ \A i \in 1 .. Cardinality(hs) : ws[i] = EraseRequest(i - 1, v[i - 1], c)
  BY <1>8, HalvesCount
<1>21. EraseSteps(hs, v, c, Licence, ws)
  BY <1>6, <1>7, <1>8, <1>20 DEF EraseSteps
<1> HIDE DEF ws
<1>9. flash' \in HalvesErased(flash, May, Licence)
  BY <1>2, <1>5, <1>21, HalvesErase
<1> QED
  BY <1>1, <1>2, <1>9, ErasingMoves DEF HalvesErased

LEMMA ChipMicronErased ==
    ASSUME PlaceInv, ChipInv, MicronErased PROVE ChipMoves
<1>1. pc = "poll micron" /\ flash.mode[0] = "status" /\ UNCHANGED opt
      /\ opt \in CommandLines
  BY DEF MicronErased, MicronReady, input, PlaceInv, CommandInv
<1>2. opt.kind = "micron" /\ opt.width = 32
  BY <1>1, KindsOf DEF PlaceInv, DetectedInv, AtErase, ChipInv, ModesInv, Leaving
<1>3. CASE UNCHANGED flash /\ pc' = "erase"
  BY <1>1, <1>3, ChipStays DEF Leaving
<1>4. CASE flash' \in After(flash, <<Command(0, "FF")>>) /\ pc' = "poll"
  <2> DEFINE ws == <<Command(0, "FF")>>
             s == "status"
             r == "read"
  <2>1. flash \in FlashType /\ flash.kind = "micron" /\ flash.width = 32 /\ flash.mode[0] = s
    BY <1>1, <1>2 DEF ChipInv
  <2>2. Leads(Near(flash, 0, s, {}, {}), ws, Near(flash, 0, r, {}, {}))
    <3>1. 0 \in Int
      OBVIOUS
    <3> QED
      BY <2>1, <3>1, MicronReadLeads, Zenon
  <2> HIDE DEF ws, s, r
  <2>3. flash' \in Near(flash, 0, r, {}, {})
    BY <1>4, <2>1, <2>2, LeadsTo DEF ws
  <2>4. flash' \in Touched(flash, May, Licence) /\ flash'.mode[0] = r
        /\ flash'.mode[1] = flash.mode[1]
    BY <2>3 DEF Near, Touched
  <2>5. flash.mode[1] = "read" /\ r \in MicronModes
    BY <1>2 DEF ChipInv, ModesInv, MicronModes, r
  <2>6. ModesInv'
    BY <1>1, <1>2, <2>4, <2>5, MicronMode
  <2> QED
    BY <2>4, <2>6 DEF ChipMoves
<1> QED
  BY <1>3, <1>4 DEF MicronErased, Goto

(* The poll sees the end of the erase of the half that it reads. *)
LEMMA PollSees ==
    ASSUME PlaceInv, ChipInv, WellPlaced, PollErase PROVE flash.mode[0] \notin Busy
<1> DEFINE u == IF EraseMode = 1 THEN 0 ELSE EraseAt
<1>1. /\ pc = "poll" /\ opt \in CommandLines /\ ReadWord(flash, u) = ErasedWord
      /\ K \in {1, 2} /\ Base \in Nat /\ area \in Nat /\ area % 2 = 0
  <2>1. /\ pc = "poll" /\ opt \in CommandLines /\ ReadWord(flash, u) = ErasedWord
        /\ memory.len \in Nat /\ area \in Nat /\ area % 2 = 0
    BY DEF PollErase, PlaceInv, CommandInv, NumberInv
  <2>2. Base \in Nat
    BY <2>1 DEF PlaceInv, DetectedInv, AtErase, InRegion, Units
  <2> QED
    BY <2>1, <2>2, WordsTyped
<1>2. u \in Nat /\ (opt.width = 64 => u % 2 = 0)
  <2>1. opt.width = 64 /\ EraseMode # 1 => Base % 2 = 0
    <3>1. left # <<>> /\ CommandInv /\ Cmd \in {"erase", "program"}
          /\ (Cmd = "erase" \/ ~opt.verify)
      BY <1>1 DEF PlaceInv, CommandInv, AtErase, Active, PCs, Leaving
    <3>2. EraseMode # 1 => Commands = <<"program">> /\ ~opt.verify
      BY <3>1, LeftCases DEF EraseMode
    <3> QED
      BY <1>1, <3>2 DEF WellPlaced
  <2>2. EraseMode # 1 => EraseAt = Base + area
    BY DEF EraseAt
  <2>3. \A x, y \in Nat : x + y \in Nat /\ (x % 2 = 0 /\ y % 2 = 0 => (x + y) % 2 = 0)
    OBVIOUS
  <2>4. CASE EraseMode = 1
    BY <2>4
  <2>5. CASE EraseMode # 1
    <3>1. u = Base + area
      BY <2>2, <2>5
    <3> HIDE DEF u
    <3> QED
      BY <1>1, <2>1, <2>3, <2>5, <3>1
  <2> QED
    BY <2>4, <2>5
<1> HIDE DEF u
<1>3. 0 \in 0 .. K - 1
  BY <1>1
<1>4. ReadWord(flash, u)[0] = ReadUnit(flash, u + 0) /\ ErasedWord[0] = Bits
  BY <1>3 DEF ReadWord, ErasedWord, Erased
<1>5. ReadUnit(flash, u) = Bits
  BY <1>1, <1>2, <1>4
<1>6. HalfOf(flash.width, u) = 0
  BY <1>2 DEF HalfOf, ChipInv
<1>7. "status" \notin Bits
  BY FlashAssumption
<1>8. Bits # Status
  BY <1>7 DEF Status
<1> QED
  BY <1>5, <1>6, <1>8 DEF ReadUnit, Busy

LEMMA ChipPoll ==
    ASSUME PlaceInv, ChipInv, WellPlaced, PollErase PROVE ChipMoves
<1>1. /\ pc = "poll" /\ UNCHANGED <<opt, flash>> /\ opt \in CommandLines
      /\ pc' \in {"erase", "open", "quit", "block"}
  BY WaysOut DEF PollErase, Goto, input, chip, PlaceInv, CommandInv
<1>2. flash.mode[0] \notin Busy
  BY PollSees
<1>3. opt.kind # "static"
  BY <1>1 DEF PlaceInv, DetectedInv, AtErase
<1>4. flash' \in Touched(flash, May, Licence)
  BY <1>1, TouchedSame DEF ChipInv
<1>5. CASE opt.kind = "micron"
  <2>1. ModesInv'
    BY <1>1, <1>5, MicronMode DEF ChipInv, ModesInv, MicronModes
  <2> QED
    BY <1>4, <2>1 DEF ChipMoves
<1>6. CASE opt.kind \in {"amd", "page"}
  <2>1. flash.mode[0] = "read" /\ flash.mode[1] \in {"read", "erasing"}
    BY <1>1, <1>2, <1>6 DEF ChipInv, ModesInv, Leaving, Busy
  <2>2. ModesInv'
    BY <1>1, <1>6, <2>1, AmdMode
  <2> QED
    BY <1>4, <2>2 DEF ChipMoves
<1> QED
  BY <1>1, <1>3, <1>5, <1>6, KindsOf

LEMMA ChipErases ==
    ASSUME PlaceInv, ChipInv, WellPlaced, Erase PROVE ChipMoves
<1>1. CASE NoErase \/ EraseNothing \/ MicronEraseTimeout
  <2>1. /\ UNCHANGED <<opt, flash>> /\ pc \in {"erase", "poll micron"}
        /\ pc' \in {"open", "quit", "block"}
    BY <1>1, WaysOut DEF NoErase, EraseNothing, MicronEraseTimeout, Erasing, Goto, input, chip
  <2>2. opt \in CommandLines
    BY DEF PlaceInv, CommandInv
  <2> QED
    BY <2>1, <2>2, ChipStays DEF Leaving
<1> QED
  BY <1>1, ChipPoll, ChipErase, ChipEraseSector, ChipMicronErase, ChipMicronErased DEF Erase

-----------------------------------------------------------------------------
(* The steps that program and verify it. *)
LEMMA MayProgram ==
    ASSUME PlaceInv, pc \in AtBlock, ~opt.verify PROVE May = ImageUnits /\ opt \in CommandLines
<1>1. Programs_file
  BY LeftCases DEF PlaceInv, CommandInv, AtBlock, Active, PCs, Leaving, Programs_file
<1> QED
  BY <1>1 DEF May, PlaceInv, CommandInv

(* The units that the step at hand may program: those of the image from the block on,
   and those of a word that is rewritten. *)
Here ==
    IF opt.verify THEN {}
    ELSE IF pc = "verify" THEN {u \in ImageUnits : u - Base \in word * K .. word * K + K - 1}
    ELSE {u \in ImageUnits : u - Base >= first * K}

(* What a step of the loop over blocks does to the chip. *)
BlockMoves ==
    flash' \in Touched(flash, Here, {}) /\ flash'.mode[1] = flash.mode[1] /\ ModesInv'

LEMMA BlockStays ==
    ASSUME ChipInv, opt \in CommandLines, UNCHANGED <<opt, flash>>,
           \/ pc' \in Leaving \/ UNCHANGED pc
           \/ /\ pc \notin Leaving \cup {"poll", "program", "end block"}
              /\ pc' \notin {"program", "end block"}
    PROVE  BlockMoves
<1>1. ModesInv'
  BY ChipStays DEF ChipMoves
<1>2. flash' \in Touched(flash, Here, {})
  BY TouchedSame DEF ChipInv
<1> QED
  BY <1>1, <1>2 DEF BlockMoves

LEMMA BlocksMove ==
    ASSUME PlaceInv, pc \in AtBlock, BlockMoves PROVE ChipMoves
<1>1. Here \subseteq May
  BY MayProgram DEF Here
<1>2. flash' \in Touched(flash, May, Licence)
  BY <1>1 DEF BlockMoves, Touched
<1> QED
  BY <1>2 DEF BlockMoves, ChipMoves

(* The places of the block. *)
LEMMA PlaceOf ==
    ASSUME opt \in CommandLines, NumberInv, NEW k \in BlockWords
    PROVE  /\ k \in 0 .. Words - 1 /\ K \in {1, 2} /\ Base \in Int
           /\ k \in Nat /\ first \in Nat /\ first <= k /\ first * K <= k * K /\ k * K \in Nat
           /\ WordAddr(k) \in Int /\ WordAddr(k) - Base = k * K
<1>1. K \in {1, 2} /\ Words \in Nat /\ first \in Nat
  BY WordsTyped DEF NumberInv
<1>2. k \in Nat /\ first <= k /\ k < Words
  BY InBlock
<1>3. Base \in Int
  BY McprogAssumption DEF Base, NumberInv
<1>4. first * K <= k * K /\ k * K \in Nat
  BY <1>1, <1>2
<1>5. WordAddr(k) \in Int /\ WordAddr(k) - Base = k * K
  BY <1>3, <1>4 DEF WordAddr
<1> QED
  BY <1>1, <1>2, <1>3, <1>4, <1>5

LEMMA HereWord ==
    ASSUME opt \in CommandLines, NumberInv, ~PageMode, ~opt.verify,
           NEW k \in BlockWords, pc = "verify" => k = word, NEW i \in 0 .. K - 1
    PROVE  WordAddr(k) + i \in Here /\ WordAddr(k) \in Int
<1> DEFINE a == WordAddr(k)
           b == k * K
           f == first * K
<1>1. /\ k \in 0 .. Words - 1 /\ K \in {1, 2} /\ Base \in Int /\ f <= b /\ b \in Nat
      /\ a \in Int /\ a - Base = b /\ f \in Nat
  <2>1. \A x \in Nat, y \in {1, 2} : x * y \in Nat
    OBVIOUS
  <2> QED
    BY <2>1, PlaceOf
<1>2. a + i \in ImageUnits
  BY <1>1, ImageWord
<1> HIDE DEF a, b, f
<1>3. a + i - Base \in b .. b + K - 1 /\ a + i - Base >= f
  BY <1>1
<1>4. CASE pc = "verify"
  <2>1. b = word * K
    BY <1>4 DEF b
  <2> QED
    BY <1>1, <1>2, <1>3, <1>4, <2>1 DEF Here, a
<1>5. CASE pc # "verify"
  BY <1>1, <1>2, <1>3, <1>5 DEF Here, a, f
<1> QED
  BY <1>4, <1>5

LEMMA HerePage ==
    ASSUME opt \in CommandLines, NumberInv, PageMode, ~opt.verify, pc # "verify",
           NEW k \in BlockWords, k % Page = 0, NEW i \in 1 .. Page
    PROVE  WordAddr(k) + i - 1 \in Here /\ WordAddr(k) \in Int
<1> DEFINE a == WordAddr(k)
           b == k * K
           f == first * K
<1>1. /\ k \in 0 .. Words - 1 /\ K \in {1, 2} /\ Base \in Int /\ f <= b /\ b \in Nat
      /\ a \in Int /\ a - Base = b /\ f \in Nat
  <2>1. \A x \in Nat, y \in {1, 2} : x * y \in Nat
    OBVIOUS
  <2> QED
    BY <2>1, PlaceOf
<1>2. a + i - 1 \in ImageUnits
  BY <1>1, ImagePage
<1> HIDE DEF a, b, f
<1>3. i \in Int /\ i >= 1
  BY FlashAssumption
<1>4. a + i - 1 - Base >= f
  BY <1>1, <1>3
<1> QED
  BY <1>1, <1>2, <1>4 DEF Here, a, f

LEMMA AtProgram ==
    ASSUME PlaceInv, pc \in {"program", "end block"}
    PROVE  /\ opt \in CommandLines /\ ~opt.verify /\ opt.kind # "static"
           /\ micron <=> opt.kind = "micron"
           /\ opt.kind = "page" => delay
           /\ first < Words
<1>1. Cmd = "program" /\ ~opt.verify /\ pc \in AtBlock
  BY DEF PlaceInv, CommandInv, AtBlock
<1>2. ~opt.verify /\ opt \in CommandLines
  BY <1>1, MayProgram
<1>3. /\ opt.kind # "static"
      /\ micron <=> opt.kind = "micron"
      /\ opt.kind = "page" => delay
  BY <1>1 DEF PlaceInv, DetectedInv
<1>4. first < Words
  BY DEF PlaceInv, NumberInv, AtBlock
<1> QED
  BY <1>2, <1>3, <1>4

LEMMA ChipSame ==
    ASSUME ChipInv, opt \in CommandLines, UNCHANGED <<opt, flash>>, opt.width # 8,
           pc \notin Leaving \cup {"poll"}, pc' # "main" \/ UNCHANGED pc
    PROVE  BlockMoves
<1>1. flash' \in Touched(flash, Here, {})
  BY TouchedSame DEF ChipInv
<1>2. CASE opt.kind = "static"
  BY <1>1, <1>2, StaticMode DEF BlockMoves
<1>3. CASE opt.kind = "micron"
  BY <1>1, <1>3, MicronMode DEF BlockMoves, ChipInv, ModesInv, MicronModes
<1>4. CASE opt.kind \in {"amd", "page"}
  <2>1. flash.mode[0] = "read" /\ flash.mode[1] \in {"read", "erasing"}
    BY <1>4 DEF ChipInv, ModesInv
  <2> QED
    BY <1>1, <1>4, <2>1, AmdMode DEF BlockMoves
<1> QED
  BY <1>2, <1>3, <1>4, KindsOf

LEMMA BypassMode ==
    ASSUME UNCHANGED opt, opt.kind \in {"amd", "page"}, opt.width = 8,
           pc' \in {"program", "end block"}, flash'.mode[0] = "bypass",
           flash'.mode[1] \in {"read", "erasing"}
    PROVE  ModesInv'
  BY DEF ModesInv

LEMMA ChipStartBlock ==
    ASSUME PlaceInv, ChipInv, StartBlock PROVE BlockMoves
<1>1. pc = "block" /\ UNCHANGED opt /\ opt \in CommandLines
  BY DEF StartBlock, input, PlaceInv, CommandInv
<1>2. CASE UNCHANGED flash /\ pc' \in {"open", "quit", "read"}
  BY <1>1, <1>2, BlockStays DEF Leaving
<1>3. CASE /\ flash' \in After(flash, IF opt.width = 8 THEN Request(0, "20") ELSE <<>>)
           /\ pc' = IF Cmd = "write" THEN "write" ELSE "program"
  <2>1. CASE opt.width # 8
    <3>1. flash' = flash
      BY <1>3, <2>1, AfterNone
    <3> QED
      BY <1>1, <1>3, <2>1, <3>1, ChipSame DEF Leaving
  <2>2. CASE opt.width = 8
    <3>1. opt.kind = "amd"
      BY <1>1, <2>2, KindsOf
    <3>2. pc' = "program"
      BY <1>1, <1>3, <3>1 DEF PlaceInv, DetectedInv, AtBlock
    <3> DEFINE ws == Request(0, "20")
               r == "read"
               b == "bypass"
    <3>3. /\ flash \in FlashType /\ flash.width = opt.width /\ flash.kind # "micron"
          /\ flash.mode[0] = r /\ flash.mode[1] \in {"read", "erasing"}
      BY <1>1, <3>1 DEF ChipInv, ModesInv, Leaving
    <3>4. Leads(Near(flash, 0, r, {}, {}), ws, Near(flash, 0, b, {}, {}))
      <4>1. NextMode("unlocked", "20", "odd") = "bypass"
        BY DEF NextMode
      <4>2. 0 \in Halves(opt.width) /\ "20" \in Codes /\ r \in {"read", "id"}
        BY <2>2 DEF Halves, Codes
      <4> DEFINE c == "20"
      <4>3. b = NextMode("unlocked", c, "odd") /\ c \in Codes
        BY <4>1, <4>2
      <4> HIDE DEF b, c, r
      <4>4. Leads(Near(flash, 0, r, {}, {}), Request(0, c), Near(flash, 0, b, {}, {}))
        BY <3>3, <4>2, <4>3, RequestLeads
      <4> QED
        BY <4>4 DEF c
    <3>5. flash' \in After(flash, ws)
      BY <1>3, <2>2
    <3> HIDE DEF ws, r, b
    <3>6. flash' \in Near(flash, 0, b, {}, {})
      BY <3>3, <3>4, <3>5, LeadsTo
    <3>7. flash' \in Touched(flash, Here, {}) /\ flash'.mode[0] = b
          /\ flash'.mode[1] = flash.mode[1]
      BY <3>6 DEF Near, Touched
    <3>8. ModesInv'
      BY <1>1, <2>2, <3>1, <3>2, <3>3, <3>7, BypassMode DEF b
    <3> QED
      BY <3>7, <3>8 DEF BlockMoves
  <2> QED
    BY <2>1, <2>2
<1> QED
  BY <1>2, <1>3, WaysOut DEF StartBlock, Goto

LEMMA ChipWriteBlock ==
    ASSUME PlaceInv, ChipInv, WriteBlock PROVE BlockMoves
<1>1. /\ pc = "write" /\ UNCHANGED opt /\ opt \in CommandLines /\ ~opt.verify
      /\ opt.kind = "static" /\ opt.width = 0
  <2>1. pc = "write" /\ UNCHANGED opt /\ Cmd = "write" /\ ~opt.verify /\ pc \in AtBlock
    BY DEF WriteBlock, input, PlaceInv, CommandInv, AtBlock
  <2>2. opt \in CommandLines /\ opt.kind = "static"
    BY <2>1 DEF PlaceInv, CommandInv, DetectedInv
  <2> QED
    BY <2>1, <2>2, KindsOf
<1>2. flash \in FlashType
  BY DEF ChipInv
<1> DEFINE Mem == [u \in Units |->
                        IF u - Base \in 0 .. Words * K - 1 /\ (u - Base) \div K \in BlockWords
                          THEN DataAt(u - Base) ELSE flash.mem[u]]
<1>3. CASE flash' = [flash EXCEPT !.mem = Mem]
  <2>1. Base \in Int
    BY <1>1, KindsOf DEF Base, PlaceInv, NumberInv
  <2>2. \A u \in Units : u - Base \in 0 .. Words * K - 1 => DataAt(u - Base) \in SUBSET Bits
    BY DataTyped DEF PlaceInv
  <2>3. Mem \in [Units -> SUBSET Bits]
    BY <1>2, <2>2 DEF FlashType
  <2>4. \A u \in Units : Mem[u] # flash.mem[u] => u \in Here
    <3> SUFFICES ASSUME NEW u \in Units, Mem[u] # flash.mem[u] PROVE u \in Here
      OBVIOUS
    <3>1. u - Base \in 0 .. Words * K - 1 /\ (u - Base) \div K \in BlockWords
      OBVIOUS
    <3>2. u = Base + (u - Base)
      BY <2>1, FlashAssumption DEF Units
    <3>3. ~PageMode
      BY <1>1 DEF PageMode
    <3>4. u \in ImageUnits
      BY <3>1, <3>2, <3>3 DEF ImageUnits
    <3> DEFINE x == u - Base
               k == x \div K
    <3>5. x \in Nat /\ k \in Nat /\ first \in Nat /\ first <= k /\ K \in {1, 2}
      <4>1. k \in BlockWords /\ x \in 0 .. Words * K - 1
        BY <3>1
      <4> HIDE DEF x, k
      <4> QED
        BY <1>1, <4>1, PlaceOf DEF PlaceInv
    <3> HIDE DEF x
    <3>6. x >= first * K
      BY <3>5
    <3> QED
      BY <1>1, <3>4, <3>6 DEF Here, x
  <2> HIDE DEF Mem
  <2>5. flash' \in FlashType /\ flash'.mem = Mem /\ flash'.mode = flash.mode
        /\ flash'.kind = flash.kind /\ flash'.width = flash.width /\ flash'.erasing = flash.erasing
    BY <1>2, <1>3, <2>3 DEF FlashType
  <2>6. flash' \in Touched(flash, Here, {}) /\ flash'.mode[1] = flash.mode[1]
    BY <1>1, <2>4, <2>5 DEF Touched
  <2>7. ModesInv'
    BY <1>1, <2>5 DEF ModesInv, ChipInv
  <2> QED
    BY <2>6, <2>7 DEF BlockMoves
<1>4. CASE UNCHANGED flash
  <2>1. pc' = "read"
    BY DEF WriteBlock, Goto
  <2> QED
    BY <1>1, <1>4, <2>1, ChipSame DEF Leaving
<1> QED
  BY <1>3, <1>4 DEF WriteBlock

(* A unit is programmed through its half, unless the half still erases. *)
Programmed(f, us, ws) ==
    \A g \in After(f, ws) :
        g \in Touched(f, us, {}) /\ g.mode[0] = f.mode[0] /\ g.mode[1] = f.mode[1]

LEMMA HalfPrograms ==
    ASSUME NEW f \in FlashType, f.width = opt.width, f.kind \notin {"micron", "page"},
           opt.width \in {8, 32, 64, 0}, f.mode[0] = "read", f.mode[1] \in {"read", "erasing"},
           NEW us, NEW u \in Int, u \in us, NEW d \in SUBSET Bits
    PROVE  Programmed(f, us, Program(HalfOf(opt.width, u), u, d))
<1> DEFINE h == HalfOf(opt.width, u)
           r == "read"
           ws == Program(h, u, d)
<1>1. h \in Halves(opt.width) /\ h \in {0, 1}
  BY DEF HalfOf, Halves
<1> SUFFICES ASSUME NEW g \in After(f, ws)
             PROVE  g \in Touched(f, us, {}) /\ g.mode[0] = f.mode[0] /\ g.mode[1] = f.mode[1]
  BY DEF Programmed
<1>2. CASE f.mode[h] = r
  <2> HIDE DEF h, r, ws
  <2>1. Leads(Near(f, h, r, us, {}), ws, Near(f, h, r, us, {}))
    BY <1>1, ProgramLeads DEF r, h, ws
  <2>2. g \in Near(f, h, r, us, {})
    BY <1>1, <1>2, <2>1, LeadsTo
  <2>3. g \in Touched(f, us, {}) /\ g.mode[h] = f.mode[h]
        /\ (\A i \in {0, 1} \ {h} : g.mode[i] = f.mode[i])
    BY <1>2, <2>2 DEF Near, Touched
  <2> QED
    BY <1>1, <2>3
<1>3. CASE f.mode[h] = "erasing"
  <2>1. f.mode[h] \in Busy /\ "A0" \in Codes
    BY <1>3 DEF Busy, Codes
  <2>2. ws \in Seq(WritesTo(f.width, h))
    BY <1>1, <2>1, SequenceWrites
  <2> HIDE DEF ws, h
  <2>3. g = f
    BY <1>1, <2>1, <2>2, BusyIgnores
  <2> QED
    BY <2>3, TouchedSame
<1> QED
  BY <1>1, <1>2, <1>3

LEMMA TouchedLess ==
    ASSUME NEW f, NEW us, NEW es, NEW g \in Touched(f, us, {}) PROVE g \in Touched(f, us, es)
  BY DEF Touched

LEMMA ChipProgramByte ==
    ASSUME PlaceInv, ChipInv, ProgramWord, opt.width = 8 PROVE BlockMoves
<1>1. /\ pc = "program" /\ ~PageMode /\ UNCHANGED opt /\ pc' \in {"program", "end block"}
      /\ opt \in CommandLines /\ opt.kind = "amd" /\ ~opt.verify
      /\ word \in BlockWords /\ NumberInv /\ pc # "verify"
  <2>1. /\ pc = "program" /\ ~PageMode /\ UNCHANGED opt /\ pc' \in {"program", "end block"}
    BY DEF ProgramWord, NextWord, input
  <2>2. opt \in CommandLines /\ opt.kind # "static" /\ ~opt.verify
    BY <2>1, AtProgram
  <2>3. NumberInv
    BY DEF PlaceInv
  <2>4. word \in BlockWords
    BY <2>1, <2>3 DEF NumberInv
  <2>5. opt.kind = "amd"
    BY <2>2, KindsOf
  <2> QED
    BY <2>1, <2>2, <2>3, <2>4, <2>5
<1>2. K = 2 /\ word \in Nat /\ word \in 0 .. Words - 1
  <2>1. K = 2
    BY DEF K, UnitsPerWord
  <2>2. word \in Nat /\ word < Words /\ Words \in Nat
    BY <1>1, InBlock
  <2> QED
    BY <2>1, <2>2
<1> DEFINE D(i) == DataAt(word * K + i)
           A(i) == WordAddr(word) + i
           q(i) == <<Command(A(i), "A0"), Data(A(i), D(i))>>
           b == "bypass"
           P == Near(flash, 0, b, Here, {})
<1>3. /\ flash \in FlashType /\ flash.kind = "amd" /\ flash.width = 8
      /\ flash.mode[0] = b /\ flash.mode[1] \in {"read", "erasing"}
  BY <1>1 DEF ChipInv, ModesInv, Leaving
<1>4. \A i \in {0, 1} : A(i) \in Int /\ A(i) \in Here /\ D(i) \in SUBSET Bits
  <2> TAKE i \in {0, 1}
  <2>1. i \in 0 .. K - 1
    BY <1>2
  <2>2. A(i) \in Here /\ WordAddr(word) \in Int
    BY <1>1, <1>2, <2>1, HereWord
  <2>3. word * K + i \in Nat
    BY <1>2
  <2>4. D(i) \in SUBSET Bits
    BY <1>1, <2>3, DataTyped
  <2>5. A(i) \in Int /\ A(i) \in Here
    <3>1. \A x \in Int : x + i \in Int
      OBVIOUS
    <3>2. WordAddr(word) + i \in Int
      BY <2>2, <3>1
    <3> QED
      BY <2>2, <3>2
  <2> HIDE DEF D, A
  <2> QED
    BY <2>4, <2>5
<1>5. \A i \in {0, 1} : Leads(P, q(i), P)
  <2> TAKE i \in {0, 1}
  <2> DEFINE u == A(i)
             d == D(i)
  <2>1. u \in Int /\ u \in Here /\ d \in SUBSET Bits /\ HalfOf(flash.width, u) = 0
    BY <1>3, <1>4, HalfZero
  <2> HIDE DEF A, D, u, d
  <2>2. flash.kind \notin {"micron", "page"}
    BY <1>3
  <2>3. Leads(P, <<Command(u, "A0"), Data(u, d)>>, P)
    BY <1>3, <2>1, <2>2, BypassLeads
  <2> QED
    BY <2>3 DEF u, d
<1>6. Leads(P, q(0) \o q(1), P)
  <2>1. P \in SUBSET FlashType
    BY DEF Near
  <2> HIDE DEF P, q
  <2>2. Leads(P, q(0), P) /\ Leads(P, q(1), P)
    BY <1>5
  <2> QED
    BY <2>1, <2>2, LeadsThen
<1>7. flash' \in After(flash, q(0) \o q(1))
  <2> DEFINE ws == [i \in 1 .. K |-> LET u == WordAddr(word) + i - 1
                                     IN  <<Command(u, "A0"), Data(u, DataAt(word * K + i - 1))>>]
  <2>1. flash' \in After(flash, FlattenSeq(ws))
    BY DEF ProgramWord, ProgramWordWrites, BypassWrites
  <2>2. WordAddr(word) \in Int /\ word * K \in Int
    <3>1. 0 \in 0 .. K - 1
      BY <1>2
    <3>2. WordAddr(word) \in Int
      BY <1>1, <1>2, <3>1, HereWord
    <3> QED
      BY <1>2, <3>2
  <2>3. \A a \in Int : a + 1 - 1 = a + 0 /\ a + 2 - 1 = a + 1
    OBVIOUS
  <2>4. Len(ws) = 2 /\ ws[1] = q(0) /\ ws[2] = q(1)
    <3>1. WordAddr(word) + 1 - 1 = A(0) /\ WordAddr(word) + 2 - 1 = A(1)
      BY <2>2, <2>3
    <3>2. word * K + 1 - 1 = word * K + 0 /\ word * K + 2 - 1 = word * K + 1
      BY <2>2, <2>3
    <3>3. Len(ws) = 2
      BY <1>2
    <3>4. ws[1] = LET u == WordAddr(word) + 1 - 1
                  IN  <<Command(u, "A0"), Data(u, DataAt(word * K + 1 - 1))>>
      BY <1>2
    <3>5. ws[2] = LET u == WordAddr(word) + 2 - 1
                  IN  <<Command(u, "A0"), Data(u, DataAt(word * K + 2 - 1))>>
      BY <1>2
    <3> QED
      BY <3>1, <3>2, <3>3, <3>4, <3>5
  <2> HIDE DEF ws, q
  <2>5. FlattenSeq(ws) = q(0) \o q(1)
    BY <2>4, FlattenTwo
  <2> QED
    BY <2>1, <2>5
<1> HIDE DEF q, b
<1>8. flash' \in Near(flash, 0, b, Here, {})
  BY <1>3, <1>6, <1>7, LeadsTo
<1>9. flash' \in Touched(flash, Here, {}) /\ flash'.mode[0] = b
      /\ flash'.mode[1] = flash.mode[1]
  BY <1>8 DEF Near, Touched
<1>10. ModesInv'
  BY <1>1, <1>3, <1>9, BypassMode DEF b
<1> QED
  BY <1>9, <1>10 DEF BlockMoves

LEMMA ChipProgramWord ==
    ASSUME PlaceInv, ChipInv, WellPlaced, ProgramWord PROVE BlockMoves
<1>1. /\ pc = "program" /\ ~PageMode /\ ~micron /\ UNCHANGED opt /\ pc' \in {"program", "end block"}
      /\ opt \in CommandLines /\ opt.kind # "static" /\ opt.kind # "micron" /\ ~opt.verify
      /\ opt.kind = "page" => delay
      /\ word \in BlockWords /\ NumberInv
  <2>1. /\ pc = "program" /\ ~PageMode /\ UNCHANGED opt /\ pc' \in {"program", "end block"}
        /\ ~micron
    BY DEF ProgramWord, NextWord, input
  <2>2. NumberInv
    BY DEF PlaceInv
  <2>3. word \in BlockWords
    BY <2>1, <2>2 DEF NumberInv
  <2> QED
    BY <2>1, <2>2, <2>3, AtProgram
<1>2. CASE opt.width = 8
  BY <1>2, ChipProgramByte
<1>3. CASE opt.width # 8
  <2>1. opt.kind = "amd" /\ opt.width \in {32, 64}
    BY <1>1, <1>3, KindsOf DEF PageMode
  <2>2. K = 1 /\ word \in Nat /\ word \in 0 .. Words - 1
    <3>1. K = 1
      BY <2>1 DEF K, UnitsPerWord
    <3>2. word \in Nat /\ word < Words /\ Words \in Nat
      BY <1>1, InBlock
    <3> QED
      BY <3>1, <3>2
  <2> DEFINE u == WordAddr(word)
             d == DataAt(word)
  <2>3. u \in Int /\ u \in Here /\ d \in SUBSET Bits
    <3>1. 0 \in 0 .. K - 1
      BY <2>2
    <3>2. WordAddr(word) + 0 \in Here /\ WordAddr(word) \in Int
      BY <1>1, <2>2, <3>1, HereWord
    <3>3. d \in SUBSET Bits
      BY <1>1, <2>2, DataTyped
    <3>4. u \in Int /\ u + 0 \in Here
      BY <1>1, <3>2
    <3> HIDE DEF u, d
    <3> QED
      BY <3>3, <3>4
  <2>4. ProgramHalf(word) = HalfOf(opt.width, u)
    <3>1. Commands = <<"program">> /\ ~opt.verify
      <4>1. Cmd = "program" /\ left # <<>> /\ CommandInv /\ ~opt.verify
        BY <1>1 DEF PlaceInv, CommandInv, Active, PCs, Leaving
      <4> QED
        BY <4>1, LeftCases
    <3> QED
      BY <1>1, <2>1, <3>1 DEF ProgramHalf, WellPlaced, HalfOf
  <2>5. flash' \in After(flash, Program(HalfOf(opt.width, u), u, d))
    BY <1>3, <2>4 DEF ProgramWord, ProgramWordWrites
  <2>6. /\ flash \in FlashType /\ flash.kind \notin {"micron", "page"} /\ flash.width = opt.width
        /\ flash.mode[0] = "read" /\ flash.mode[1] \in {"read", "erasing"}
    BY <1>1, <1>3, <2>1 DEF ChipInv, ModesInv, Leaving
  <2> HIDE DEF u, d
  <2>7. Programmed(flash, Here, Program(HalfOf(opt.width, u), u, d))
    <3>1. opt.width \in {8, 32, 64, 0}
      BY <2>1
    <3> QED
      BY <2>3, <2>6, <3>1, HalfPrograms
  <2>8. flash' \in Touched(flash, Here, {}) /\ flash'.mode[0] = "read"
        /\ flash'.mode[1] \in {"read", "erasing"} /\ flash'.mode[1] = flash.mode[1]
    BY <2>5, <2>6, <2>7 DEF Programmed
  <2>9. ModesInv'
    BY <1>1, <1>3, <2>1, <2>8, AmdMode
  <2> QED
    BY <2>8, <2>9 DEF BlockMoves
<1> QED
  BY <1>2, <1>3

LEMMA ChipProgramPage ==
    ASSUME PlaceInv, ChipInv, ProgramPage PROVE BlockMoves
<1>1. /\ pc = "program" /\ PageMode /\ UNCHANGED opt /\ pc' \in {"program", "end block"}
      /\ opt \in CommandLines /\ opt.kind \in {"amd", "page"} /\ ~opt.verify
      /\ opt.width = 32 /\ NumberInv /\ word \in BlockWords /\ word % Page = 0
      /\ flash' \in After(flash, PageWrites(word))
  <2>1. /\ pc = "program" /\ PageMode /\ UNCHANGED opt /\ pc' \in {"program", "end block"}
        /\ flash' \in After(flash, PageWrites(word))
    BY DEF ProgramPage, NextWord, input
  <2>2. NumberInv
    BY DEF PlaceInv
  <2>3. word \in BlockWords /\ word % Page = 0
    BY <2>1, <2>2 DEF NumberInv
  <2>4. opt \in CommandLines /\ opt.kind # "static" /\ opt.kind # "micron" /\ ~opt.verify
    BY <2>1, AtProgram DEF PageMode
  <2>5. opt.kind \in {"amd", "page"}
    BY <2>4, KindsOf
  <2> QED
    BY <2>1, <2>2, <2>3, <2>4, <2>5 DEF PageMode
<1>0. /\ pc = "program" /\ pc' \in {"program", "end block"} /\ opt.width = 32
      /\ opt.kind \in {"amd", "page"} /\ UNCHANGED opt
  BY <1>1
<1>00. opt.width # 8
  <2>1. opt.width = 32
    BY <1>0
  <2> QED
    BY <2>1
<1>2. K = 1 /\ word \in Nat /\ word \in 0 .. Words - 1
  <2>0. opt.width = 32
    BY <1>1
  <2>1. K = 1
    BY <2>0 DEF K, UnitsPerWord
  <2>2. word \in Nat /\ word < Words /\ Words \in Nat
    BY <1>1, InBlock
  <2> QED
    BY <2>1, <2>2
<1> DEFINE v == WordAddr(word)
           r == "read"
           ws == PageWrites(word)
<1>3. \A i \in 1 .. Page : v + i - 1 \in Here /\ v \in Int
  <2>1. pc # "verify"
    BY <1>0
  <2> QED
    BY <1>1, <2>1, HerePage
<1>4. Page \in Nat \ {0}
  BY FlashAssumption
<1>5. v \in Int
  <2>1. 1 \in 1 .. Page
    BY <1>4
  <2> QED
    BY <1>3, <2>1
<1>6. PageData(word) \in Seq(WritesTo(32, 0))
  <2> SUFFICES ASSUME NEW i \in 1 .. Page
               PROVE  Data(v + i - 1, DataAt(word + i - 1)) \in WritesTo(32, 0)
    BY <1>4 DEF PageData
  <2>1. word + i - 1 \in Nat /\ v + i - 1 \in Int
    <3> HIDE DEF v
    <3> QED
      BY <1>2, <1>4, <1>5
  <2> DEFINE a == v + i - 1
             d == DataAt(word + i - 1)
  <2>2. d \in SUBSET Bits
    BY <1>1, <2>1, DataTyped
  <2> HIDE DEF d, a
  <2>3. a \in Int
    BY <2>1 DEF a
  <2>4. Data(a, d) \in Writes /\ HalfOf(32, Data(a, d).unit) = 0
    BY <2>2, <2>3, DataIsWrite, HalfZero
  <2>5. Data(a, d) \in WritesTo(32, 0)
    BY <2>4 DEF WritesTo
  <2> QED
    BY <2>5 DEF a, d
<1>7. /\ flash \in FlashType /\ flash.kind # "micron" /\ flash.width = opt.width
      /\ flash.mode[0] = r /\ flash.mode[1] \in {"read", "erasing"}
  <2>1. flash \in FlashType /\ flash.kind = opt.kind /\ flash.width = opt.width /\ ModesInv
    BY DEF ChipInv
  <2>2. pc \notin Leaving /\ pc # "poll"
    BY <1>0 DEF Leaving
  <2>4. flash.kind # "micron"
    BY <1>0, <2>1
  <2>3. flash.mode[0] = r /\ flash.mode[1] \in {"read", "erasing"}
    BY <1>0, <1>00, <2>1, <2>2 DEF ModesInv
  <2> QED
    BY <2>1, <2>3, <2>4
<1>8. Leads(Near(flash, 0, r, Here, {}), ws, Near(flash, 0, r, Here, {}))
  BY <1>1, <1>3, <1>5, <1>6, <1>7, PageLeads
<1> HIDE DEF r, ws
<1>9. flash' \in Near(flash, 0, r, Here, {})
  BY <1>1, <1>7, <1>8, LeadsTo DEF ws
<1>10. flash' \in Touched(flash, Here, {}) /\ flash'.mode[0] = r
       /\ flash'.mode[1] = flash.mode[1]
  BY <1>9 DEF Near, Touched
<1>11. ModesInv'
  <2>1. flash'.mode[0] = "read" /\ flash'.mode[1] \in {"read", "erasing"}
    BY <1>7, <1>10 DEF r
  <2>2. UNCHANGED opt /\ opt.kind \in {"amd", "page"}
    BY <1>0
  <2> QED
    BY <1>00, <2>1, <2>2, AmdMode
<1> QED
  BY <1>10, <1>11 DEF BlockMoves

LEMMA MaxOfRange ==
    ASSUME NEW a \in Int, NEW b \in Int, a <= b PROVE Max(a .. b) = b
<1>1. b \in a .. b /\ \A y \in a .. b : b >= y
  OBVIOUS
<1>2. \A x \in a .. b : (\A y \in a .. b : x >= y) => x = b
  OBVIOUS
<1> QED
  BY <1>1, <1>2 DEF Max

LEMMA BufferInBlock ==
    ASSUME opt \in CommandLines, NumberInv, word \in BlockWords
    PROVE  /\ Cardinality(BufferWords) \in Nat
           /\ \A i \in 1 .. Cardinality(BufferWords) : word + i - 1 \in BlockWords
<1>1. /\ BLOCKSZ \in Nat \ {0} /\ Words \in Nat
      /\ \A k \in BlockWords : k \in Nat /\ first <= k /\ k < Words /\ k < first + BLOCKSZ
      /\ \A k \in Int : k \in BlockWords <=> first <= k /\ k < Words /\ k < first + BLOCKSZ
  BY InBlock
<1> DEFINE b == IF word + Buffer \in BlockWords THEN word + Buffer ELSE Max(BlockWords) + 1
<1>2. b - 1 \in BlockWords /\ b \in Int
  <2>1. CASE word + Buffer \in BlockWords
    <3>1. Buffer \in Nat \ {0} /\ word \in Nat /\ first \in Nat
      BY <1>1, ProgrammerAssumption DEF NumberInv
    <3>2. word + Buffer - 1 \in Int /\ first <= word + Buffer - 1
          /\ word + Buffer - 1 < Words /\ word + Buffer - 1 < first + BLOCKSZ
      BY <1>1, <2>1, <3>1
    <3> QED
      BY <1>1, <2>1, <3>1, <3>2
  <2>2. CASE word + Buffer \notin BlockWords
    <3> DEFINE e == IF first + BLOCKSZ < Words THEN first + BLOCKSZ ELSE Words
    <3>1. BlockWords = first .. e - 1 /\ first \in Nat /\ e \in Nat
      BY <1>1 DEF BlockWords, NumberInv
    <3>2. first <= e - 1
      <4>1. word \in first .. e - 1
        BY <3>1
      <4> HIDE DEF e
      <4> QED
        BY <3>1, <4>1
    <3> HIDE DEF e
    <3>3. Max(first .. e - 1) = e - 1
      BY <3>1, <3>2, MaxOfRange
    <3>4. b = (e - 1) + 1
      BY <2>2, <3>1, <3>3
    <3> QED
      BY <3>1, <3>2, <3>4
  <2> QED
    BY <2>1, <2>2
<1> HIDE DEF b
<1>3. BufferWords = word .. b - 1 /\ word \in Nat /\ b - 1 \in Nat
  BY <1>1, <1>2 DEF BufferWords, b
<1>4. Cardinality(BufferWords) = IF word > b - 1 THEN 0 ELSE (b - 1) - word + 1
  <2>1. word \in Int /\ b - 1 \in Int
    BY <1>3
  <2>2. Cardinality(word .. b - 1) = IF word > b - 1 THEN 0 ELSE (b - 1) - word + 1
    BY <2>1, FS_Interval
  <2> QED
    BY <1>3, <2>2
<1>5. Cardinality(BufferWords) \in Nat
  BY <1>3, <1>4
<1>6. ASSUME NEW i \in 1 .. Cardinality(BufferWords) PROVE word + i - 1 \in BlockWords
  <2>1. i \in Nat /\ word + i - 1 \in Int /\ word <= word + i - 1 /\ word + i - 1 <= b - 1
    BY <1>3, <1>4, <1>5
  <2>2. first <= word /\ b - 1 < Words /\ b - 1 < first + BLOCKSZ /\ first \in Nat
    BY <1>1, <1>2 DEF NumberInv
  <2>3. first <= word + i - 1 /\ word + i - 1 < Words /\ word + i - 1 < first + BLOCKSZ
    BY <1>1, <1>3, <2>1, <2>2
  <2> QED
    BY <1>1, <2>1, <2>3
<1> QED
  BY <1>5, <1>6

(* A Micron chip at the place at hand, and after a sequence of writes. *)
LEMMA MicronMoved ==
    ASSUME ChipInv, UNCHANGED opt, opt.kind = "micron", NEW m \in MicronModes,
           flash' \in Near(flash, 0, m, Here, {})
    PROVE  BlockMoves
<1>1. flash' \in Touched(flash, Here, {}) /\ flash'.mode[0] = m
      /\ flash'.mode[1] = flash.mode[1]
  BY DEF Near, Touched
<1>2. flash.mode[1] = "read"
  BY DEF ChipInv, ModesInv
<1> QED
  BY <1>1, <1>2, MicronMode DEF BlockMoves

LEMMA OneUnit ==
    ASSUME opt.width \in {32, 64} PROVE K = 1
  BY DEF K, UnitsPerWord

MicronAt == pc \in {"program", "end block"} /\ micron

LEMMA MicronAtBlock ==
    ASSUME PlaceInv, ChipInv, MicronAt
    PROVE  /\ opt \in CommandLines /\ opt.kind = "micron" /\ opt.width = 32 /\ K = 1
           /\ ~opt.verify /\ ~PageMode /\ NumberInv /\ Base \in Int /\ WordAddr(first) \in Int
           /\ flash \in FlashType /\ flash.kind = "micron" /\ flash.width = 32
           /\ flash.mode[0] \in MicronModes
<1>1. opt \in CommandLines /\ opt.kind = "micron" /\ ~opt.verify
  BY AtProgram DEF MicronAt
<1>2. opt.width = 32
  BY <1>1, KindsOf
<1>3. K = 1
  BY <1>2, OneUnit
<1>4. NumberInv /\ ~PageMode
  BY DEF PlaceInv, PageMode, MicronAt
<1>5. Base \in Int /\ first \in Int
  BY <1>1, <1>4, KindsOf DEF Base, NumberInv
<1>6. WordAddr(first) \in Int
  BY <1>3, <1>5 DEF WordAddr
<1>7. flash \in FlashType /\ flash.kind = "micron" /\ flash.width = 32
      /\ flash.mode[0] \in MicronModes
  BY <1>1, <1>2 DEF ChipInv, ModesInv, MicronModes
<1> QED
  BY <1>1, <1>2, <1>3, <1>4, <1>5, <1>6, <1>7

LEMMA ChipProgramBuffer ==
    ASSUME PlaceInv, ChipInv, ProgramBuffer PROVE BlockMoves
<1>0. pc = "program" /\ micron
  BY DEF ProgramBuffer
<1>1. /\ pc = "program" /\ flash.mode[0] \notin Busy /\ UNCHANGED opt
      /\ flash' \in After(flash, BufferWrites)
  BY DEF ProgramBuffer, input
<1>2. word \in BlockWords /\ MicronAt
  BY <1>0 DEF PlaceInv, NumberInv, MicronAt
<1>3. /\ opt \in CommandLines /\ opt.kind = "micron" /\ opt.width = 32 /\ K = 1
      /\ ~opt.verify /\ ~PageMode /\ NumberInv /\ Base \in Int /\ WordAddr(first) \in Int
      /\ flash \in FlashType /\ flash.kind = "micron" /\ flash.width = 32
      /\ flash.mode[0] \in MicronModes
  BY <1>2, MicronAtBlock
<1> DEFINE n == Cardinality(BufferWords)
           x(i) == WordAddr(word + i - 1)
           d(i) == DataAt(word + i - 1)
           ws == [i \in 1 .. n |-> Data(x(i), d(i))]
           m == flash.mode[0]
           u == WordAddr(first)
           seq == <<Command(u, "E8"), Command(u, "count")>> \o ws \o <<Command(u, "D0")>>
           p == "programming"
<1>4. n \in Nat /\ \A i \in 1 .. n : word + i - 1 \in BlockWords
  BY <1>2, <1>3, BufferInBlock
<1>5. \A i \in 1 .. n : x(i) \in Int /\ x(i) \in Here /\ d(i) \in SUBSET Bits
  <2> SUFFICES ASSUME NEW i \in 1 .. n PROVE x(i) \in Int /\ x(i) \in Here /\ d(i) \in SUBSET Bits
    OBVIOUS
  <2> DEFINE k == word + i - 1
  <2>1. k \in BlockWords
    BY <1>4
  <2> HIDE DEF k
  <2>2. k \in Nat /\ k \in 0 .. Words - 1
    BY <1>3, <2>1, InBlock
  <2>3. 0 \in 0 .. K - 1
    BY <1>3
  <2>4. WordAddr(k) + 0 \in Here /\ WordAddr(k) \in Int
    <3>1. pc # "verify"
      BY <1>0
    <3> QED
      BY <1>3, <2>1, <2>3, <3>1, HereWord
  <2>5. WordAddr(k) \in Here
    <3>1. \A y \in Int : y + 0 = y
      OBVIOUS
    <3> QED
      BY <1>3, <2>4, <3>1
  <2>6. DataAt(k) \in SUBSET Bits
    BY <1>3, <2>2, DataTyped
  <2> QED
    BY <2>4, <2>5, <2>6 DEF k
<1> HIDE DEF x, d, n
<1>6. \A i \in 1 .. n : Data(x(i), d(i)) \in WritesTo(32, 0)
  <2> SUFFICES ASSUME NEW i \in 1 .. n PROVE Data(x(i), d(i)) \in WritesTo(32, 0)
    OBVIOUS
  <2>1. Data(x(i), d(i)) \in Writes /\ HalfOf(32, Data(x(i), d(i)).unit) = 0
    BY <1>5, DataIsWrite, HalfZero
  <2> QED
    BY <2>1 DEF WritesTo
<1>7. ws \in Seq(WritesTo(flash.width, 0)) /\ Len(ws) = n
  BY <1>3, <1>4, <1>6
<1>8. \A k \in 1 .. Len(ws) : ws[k].cmd = "data" /\ ws[k].unit \in Here
  <2> SUFFICES ASSUME NEW k \in 1 .. n PROVE ws[k].cmd = "data" /\ ws[k].unit \in Here
    BY <1>7
  <2>1. ws[k] = Data(x(k), d(k))
    BY <1>4
  <2>2. ws[k].cmd = "data" /\ ws[k].unit = x(k)
    BY <1>5, <2>1, DataIsWrite
  <2> QED
    BY <1>5, <2>2
<1>9. m \in {"read", "status"}
  BY <1>1, <1>3 DEF MicronModes, Busy
<1>10. HalfOf(flash.width, 0) = 0 /\ HalfOf(flash.width, u) = 0 /\ u \in Int
  BY <1>3, HalfZero
<1>11. flash' \in After(flash, seq)
  BY <1>1 DEF BufferWrites, x, d, n
<1> HIDE DEF ws, m, u
<1>12. Leads(Near(flash, 0, m, Here, {}), seq, Near(flash, 0, p, Here, {}))
  BY <1>3, <1>7, <1>8, <1>9, <1>10, BufferLeads
<1> HIDE DEF seq, p
<1>13. flash' \in Near(flash, 0, p, Here, {})
  BY <1>3, <1>11, <1>12, LeadsTo DEF m
<1> QED
  BY <1>1, <1>3, <1>13, MicronMoved DEF p, MicronModes

LEMMA ChipMicronTimeout ==
    ASSUME PlaceInv, ChipInv, MicronProgramTimeout PROVE BlockMoves
<1>0. MicronAt
  BY DEF MicronProgramTimeout, MicronAt
<1>1. /\ flash.mode[0] \in Busy /\ UNCHANGED opt
      /\ flash' \in After(flash, <<Command(WordAddr(first), "FF")>>)
  BY DEF MicronProgramTimeout, input
<1>2. /\ opt.kind = "micron" /\ WordAddr(first) \in Int
      /\ flash \in FlashType /\ flash.width = 32 /\ flash.mode[0] \in MicronModes
  BY <1>0, MicronAtBlock
<1> DEFINE ws == <<Command(WordAddr(first), "FF")>>
<1>3. ws \in Seq(WritesTo(flash.width, 0))
  <2>1. "FF" \in Codes
    BY DEF Codes
  <2>2. Command(WordAddr(first), "FF") \in WritesTo(32, 0)
    BY <1>2, <2>1, MicronWrites
  <2> QED
    BY <1>2, <2>2
<1> HIDE DEF ws
<1>4. flash' = flash
  BY <1>1, <1>2, <1>3, BusyIgnores DEF ws
<1>5. flash.mode[1] = "read"
  BY <1>2 DEF ChipInv, ModesInv
<1> QED
  BY <1>1, <1>2, <1>4, <1>5, TouchedSame, MicronMode DEF BlockMoves

LEMMA ChipEndBlock ==
    ASSUME PlaceInv, ChipInv, EndBlock PROVE BlockMoves
<1> DEFINE u == WordAddr(first)
           m == <<Command(u, "70"), Command(u, "FF")>>
           b == <<Command(0, "90"), Command(0, "00")>>
           p == "bypass"
           s == "status"
           r == "read"
<1>1. pc = "end block" /\ pc' = "read" /\ UNCHANGED opt
  BY DEF EndBlock, input
<1>2. opt \in CommandLines /\ opt.kind # "static" /\ (micron <=> opt.kind = "micron")
  BY <1>1, AtProgram
<1>7. /\ opt.kind = "micron" => MicronAt /\ flash.mode[0] = s /\ flash' \in After(flash, m)
      /\ opt.kind # "micron" /\ opt.width = 8 => flash' \in After(flash, b)
      /\ opt.kind # "micron" /\ opt.width # 8 => flash' \in After(flash, <<>>)
  <2> DEFINE ws == CASE micron -> m [] opt.width = 8 -> b [] OTHER -> <<>>
  <2>0. micron => opt.width # 8
    BY <1>2, KindsOf
  <2>1. flash' \in After(flash, ws)
    BY DEF EndBlock
  <2>2. micron => ws = m /\ flash.mode[0] = s /\ MicronAt
    <3> HIDE DEF m, b
    <3>1. micron => ws = m
      BY <2>0
    <3>2. micron => MicronReady /\ pc = "end block"
      BY DEF EndBlock
    <3>3. micron => flash.mode[0] = s /\ MicronAt
      BY <3>2 DEF MicronReady, MicronAt
    <3> QED
      BY <3>1, <3>3, Zenon
  <2>3. ~micron /\ opt.width = 8 => ws = b
    <3> HIDE DEF m, b
    <3> QED
      OBVIOUS
  <2>4. ~micron /\ opt.width # 8 => ws = <<>>
    <3> HIDE DEF m, b
    <3> QED
      OBVIOUS
  <2> HIDE DEF ws, m, b
  <2> QED
    BY <1>2, <2>1, <2>2, <2>3, <2>4, Zenon
<1>3. flash \in FlashType /\ flash.width = opt.width /\ flash.kind = opt.kind
  BY DEF ChipInv
<1>4. CASE opt.kind = "micron"
  <2>1. opt.kind = "micron" /\ flash.kind = "micron" /\ flash.width = 32 /\ u \in Int
        /\ opt.width # 8
    BY <1>3, <1>4, <1>7, MicronAtBlock
  <2>2. flash' \in After(flash, m) /\ flash.mode[0] = s
    BY <1>4, <1>7
  <2> HIDE DEF u
  <2>3. Leads(Near(flash, 0, s, {}, {}), m, Near(flash, 0, r, {}, {}))
    BY <1>3, <2>1, MicronReadLeads, Zenon
  <2> HIDE DEF m, s, r
  <2>4. flash' \in Near(flash, 0, r, {}, {})
    BY <1>3, <2>2, <2>3, LeadsTo
  <2>5. flash' \in Near(flash, 0, r, Here, {})
    BY <2>4 DEF Near
  <2>6. r \in MicronModes
    BY DEF r, MicronModes
  <2> QED
    BY <1>1, <2>1, <2>5, <2>6, MicronMoved, Zenon
<1>5. CASE opt.kind # "micron" /\ opt.width = 8
  <2>1. opt.kind = "amd" /\ flash.kind # "micron"
    BY <1>2, <1>3, <1>5, KindsOf
  <2>2. flash.mode[0] = p /\ flash.mode[1] \in {"read", "erasing"}
    BY <1>1, <1>5, <2>1 DEF ChipInv, ModesInv, Leaving
  <2>3. flash' \in After(flash, b)
    BY <1>5, <1>7
  <2>4. Leads(Near(flash, 0, p, {}, {}), b, Near(flash, 0, r, {}, {}))
    <3>1. HalfOf(flash.width, 0) = 0
      BY <1>3, <1>5, HalfZero
    <3> QED
      BY <1>3, <2>1, <3>1, ResetLeads
  <2> HIDE DEF b, p, r
  <2>5. flash' \in Near(flash, 0, r, {}, {})
    BY <1>3, <2>2, <2>3, <2>4, LeadsTo
  <2>6. flash' \in Touched(flash, Here, {}) /\ flash'.mode[0] = r
        /\ flash'.mode[1] = flash.mode[1]
    BY <2>5 DEF Near, Touched
  <2>7. ModesInv'
    BY <1>1, <2>1, <2>2, <2>6, AmdMode DEF r
  <2> QED
    BY <2>6, <2>7 DEF BlockMoves
<1>6. CASE opt.kind # "micron" /\ opt.width # 8
  <2>1. flash' \in After(flash, <<>>)
    BY <1>6, <1>7
  <2>2. flash' = flash
    BY <2>1, AfterNone
  <2> QED
    BY <1>1, <1>2, <1>6, <2>2, ChipSame DEF Leaving
<1> QED
  BY <1>4, <1>5, <1>6

(* The unit that target_flash_rewrite programs, and its contents. *)
FirstBad(i) ==
    /\ i \in 0 .. K - 1 /\ block[word][i] # Expected(word)[i]
    /\ \A j \in 0 .. i - 1 : block[word][j] = Expected(word)[j]

LEMMA SomeBad ==
    ASSUME PlaceInv, pc = "verify", ~Matches PROVE \E i : FirstBad(i)
<1>1. /\ word \in BlockWords /\ opt \in CommandLines /\ NumberInv
      /\ block[word] = [i \in 0 .. K - 1 |-> block[word][i]]
  BY DEF PlaceInv, CommandInv, NumberInv, ReadInv
<1>2. K \in {1, 2}
  BY <1>1, WordsTyped DEF NumberInv
<1>3. block[word] # Expected(word)
  BY DEF Matches
<1> DEFINE b == block[word]
           e == Expected(word)
<1>4. b = [i \in 0 .. K - 1 |-> b[i]] /\ e = [i \in 0 .. K - 1 |-> e[i]]
  BY <1>1 DEF Expected
<1> HIDE DEF b, e
<1>5. PICK i \in 0 .. K - 1 : b[i] # e[i]
  BY <1>3, <1>4 DEF b, e
<1>6. CASE b[0] # e[0]
  BY <1>2, <1>6 DEF FirstBad, b, e
<1>7. CASE b[0] = e[0]
  <2>1. i = 1
    BY <1>2, <1>5, <1>7
  <2>2. 0 .. 1 - 1 = {0}
    OBVIOUS
  <2> QED
    BY <1>5, <1>7, <2>1, <2>2 DEF FirstBad, b, e
<1> QED
  BY <1>6, <1>7

LEMMA RewriteProgram ==
    ASSUME PlaceInv, pc = "verify", ~Matches, CanRewrite, opt.width # 0
    PROVE  \E u \in Here, d \in SUBSET Bits :
              /\ u \in Int /\ opt.kind \in {"amd", "micron"}
              /\ RewriteWrites(word) = Program(HalfOf(opt.width, u), u, d)
<1>1. /\ opt \in CommandLines /\ word \in BlockWords /\ NumberInv /\ pc \in AtBlock /\ ~opt.verify
      /\ Cmd \in {"program", "write"}
  BY DEF PlaceInv, CommandInv, NumberInv, AtBlock, CanRewrite
<1>3. Cmd = "program" /\ opt.kind # "static"
  BY <1>1, KindsOf DEF PlaceInv, DetectedInv
<1>4. (opt.kind = "page" => delay) /\ (opt.width = 8 \/ ~delay)
  BY <1>1, <1>3 DEF PlaceInv, DetectedInv, CanRewrite
<1>5. opt.kind \in {"amd", "micron"}
  BY <1>1, <1>3, <1>4, KindsOf
<1>6. ~PageMode
  BY <1>4 DEF PageMode
<1>7. PICK i : FirstBad(i)
  BY SomeBad
<1> DEFINE bad == CHOOSE j \in 0 .. K - 1 :
                     /\ block[word][j] # Expected(word)[j]
                     /\ \A k \in 0 .. j - 1 : block[word][k] = Expected(word)[k]
           u == WordAddr(word) + bad
           d == Expected(word)[bad]
<1>8. bad \in 0 .. K - 1
  BY <1>7 DEF FirstBad
<1>9. RewriteWrites(word) = Program(HalfOf(opt.width, u), u, d)
  BY DEF RewriteWrites
<1> HIDE DEF bad
<1>10. K \in {1, 2} /\ word \in Nat /\ word \in 0 .. Words - 1
  <2>1. K \in {1, 2}
    BY <1>1, WordsTyped DEF NumberInv
  <2>2. word \in Nat /\ word < Words /\ Words \in Nat
    BY <1>1, InBlock
  <2> QED
    BY <2>1, <2>2
<1>11. u \in Here /\ WordAddr(word) \in Int
  BY <1>1, <1>6, <1>8, HereWord
<1>12. u \in Int
  BY <1>8, <1>10, <1>11
<1>13. d \in SUBSET Bits
  <2>1. d = DataAt(word * K + bad)
    BY <1>8 DEF Expected
  <2>2. word * K + bad \in Nat
    BY <1>8, <1>10
  <2> QED
    BY <1>1, <2>1, <2>2, DataTyped
<1> HIDE DEF u, d
<1> QED
  BY <1>5, <1>9, <1>11, <1>12, <1>13

LEMMA ChipRewrite ==
    ASSUME PlaceInv, ChipInv, Rewrite
    PROVE  BlockMoves /\ (opt.kind = "micron" => flash'.mode[0] = flash.mode[0])
<1>1. /\ pc = "verify" /\ ~Matches /\ CanRewrite /\ UNCHANGED opt /\ opt \in CommandLines
      /\ flash' \in After(flash, RewriteWrites(word))
      /\ pc' \in {"verify", "quit", "ended"}
  BY WaysOut DEF Rewrite, input, PlaceInv, CommandInv
<1>2. flash \in FlashType /\ flash.width = opt.width /\ flash.kind = opt.kind
  BY DEF ChipInv
<1>3. CASE opt.width = 0
  <2>1. flash' = flash
    BY <1>1, <1>3, AfterNone DEF RewriteWrites
  <2> QED
    BY <1>1, <1>3, <2>1, ChipSame DEF Leaving
<1>4. CASE opt.width # 0
  <2>1. PICK u \in Here, d \in SUBSET Bits :
           /\ u \in Int /\ opt.kind \in {"amd", "micron"}
           /\ RewriteWrites(word) = Program(HalfOf(opt.width, u), u, d)
    BY <1>1, <1>4, RewriteProgram
  <2> DEFINE ws == Program(HalfOf(opt.width, u), u, d)
  <2>2. flash' \in After(flash, ws)
    BY <1>1, <2>1
  <2>3. CASE opt.kind = "amd"
    <3>1. /\ opt.width \in {8, 32, 64, 0} /\ flash.kind \notin {"micron", "page"}
          /\ flash.mode[0] = "read" /\ flash.mode[1] \in {"read", "erasing"}
      BY <1>1, <1>2, <2>3, KindsOf DEF ChipInv, ModesInv, Leaving
    <3>2. Programmed(flash, Here, ws)
      BY <1>2, <2>1, <3>1, HalfPrograms
    <3> HIDE DEF ws
    <3>3. flash' \in Touched(flash, Here, {}) /\ flash'.mode[0] = "read"
          /\ flash'.mode[1] \in {"read", "erasing"} /\ flash'.mode[1] = flash.mode[1]
      BY <2>2, <3>1, <3>2 DEF Programmed
    <3>4. pc' \notin {"program", "end block"}
      BY <1>1
    <3>5. ModesInv'
      BY <1>1, <2>3, <3>3, <3>4, AmdMode
    <3> QED
      BY <2>3, <3>3, <3>5 DEF BlockMoves
  <2>4. CASE opt.kind = "micron"
    <3>1. /\ opt.width = 32 /\ flash.kind = "micron" /\ HalfOf(opt.width, u) = 0
          /\ flash.mode[0] \in MicronModes
      <4>1. opt.width = 32 /\ flash.mode[0] \in MicronModes
        BY <1>1, <1>2, <2>4, KindsOf DEF ChipInv, ModesInv, MicronModes
      <4> QED
        BY <1>2, <2>4, <4>1, HalfZero
    <3>2. CASE flash.mode[0] \in Busy
      <4>1. 0 \in Halves(opt.width) /\ "A0" \in Codes
        BY <3>1 DEF Halves, Codes
      <4>2. ws \in Seq(WritesTo(flash.width, 0))
        BY <1>2, <2>1, <3>1, <4>1, SequenceWrites
      <4> HIDE DEF ws
      <4>3. flash' = flash
        BY <1>2, <2>2, <3>2, <4>2, BusyIgnores
      <4>4. flash.mode[1] = "read"
        BY <2>4 DEF ChipInv, ModesInv
      <4> QED
        BY <1>1, <1>2, <2>4, <3>1, <4>3, <4>4, TouchedSame, MicronMode DEF BlockMoves
    <3>3. CASE flash.mode[0] \notin Busy
      <4> DEFINE m == flash.mode[0]
      <4>1. m \in {"read", "status"}
        BY <3>1, <3>3 DEF MicronModes, Busy
      <4>2. ws = Program(0, u, d)
        BY <3>1
      <4> HIDE DEF m, ws
      <4>3. Leads(Near(flash, 0, m, Here, {}), Program(0, u, d), Near(flash, 0, m, Here, {}))
        BY <1>2, <2>1, <3>1, <4>1, MicronProgram
      <4>4. Leads(Near(flash, 0, m, Here, {}), ws, Near(flash, 0, m, Here, {}))
        BY <4>2, <4>3
      <4>5. flash' \in Near(flash, 0, m, Here, {})
        BY <1>2, <2>2, <4>4, LeadsTo DEF m
      <4>6. m \in MicronModes
        BY <3>1 DEF m
      <4> QED
        BY <1>1, <2>4, <4>5, <4>6, MicronMoved DEF Near, m
    <3> QED
      BY <3>2, <3>3
  <2> QED
    BY <2>1, <2>3, <2>4
<1> QED
  BY <1>3, <1>4

LEMMA BlocksTouch ==
    ASSUME PlaceInv, ChipInv, WellPlaced, Blocks PROVE BlockMoves
<1>1. CASE ReadBlock
  <2>1. /\ pc = "read" /\ pc' = "verify" /\ UNCHANGED <<opt, flash>> /\ opt \in CommandLines
    BY <1>1 DEF ReadBlock, input, chip, PlaceInv, CommandInv
  <2> QED
    BY <2>1, BlockStays DEF Leaving
<1>2. CASE VerifyMatch
  <2>1. /\ pc = "verify" /\ pc' \in {"verify", "block"} /\ UNCHANGED <<opt, flash>>
        /\ opt \in CommandLines
    BY <1>2 DEF VerifyMatch, input, chip, PlaceInv, CommandInv
  <2> QED
    BY <2>1, BlockStays DEF Leaving
<1>3. CASE VerifyFails
  <2>1. /\ pc' \in {"quit", "ended"} /\ UNCHANGED <<opt, flash>> /\ opt \in CommandLines
    BY <1>3, WaysOut DEF VerifyFails, input, chip, PlaceInv, CommandInv
  <2> QED
    BY <2>1, BlockStays DEF Leaving
<1> QED
  BY <1>1, <1>2, <1>3, ChipStartBlock, ChipWriteBlock, ChipProgramWord, ChipProgramPage,
     ChipProgramBuffer, ChipEndBlock, ChipMicronTimeout, ChipRewrite DEF Blocks

LEMMA AtBlocks == Blocks => pc \in AtBlock
  BY DEF Blocks, StartBlock, WriteBlock, ProgramWord, ProgramPage, ProgramBuffer, EndBlock,
     MicronProgramTimeout, ReadBlock, VerifyMatch, VerifyFails, Rewrite, AtBlock

LEMMA ChipBlocks ==
    ASSUME PlaceInv, ChipInv, WellPlaced, Blocks PROVE ChipMoves
  BY BlocksTouch, AtBlocks, BlocksMove

-----------------------------------------------------------------------------
(* All steps. *)
(* What OnlyImageChanges says of one step. *)
ImageStep ==
    \A u \in Units : flash'.mem[u] # flash.mem[u] =>
          \/ u \in EraseAllowed /\ flash'.mem[u] = Erased
          \/ u \in ImageUnits /\ Programs_file /\ ~opt.verify

LEMMA ChipSteps ==
    ASSUME PlaceInv, ChipInv, WellPlaced, mcprog \/ Interrupted PROVE ChipMoves
<1>0. opt \in CommandLines
  BY DEF PlaceInv, CommandInv
<1> USE DEF input, chip, host
<1>1. CASE Rejected
  <2>1. pc' \in Leaving /\ UNCHANGED <<opt, flash>>
    BY <1>1 DEF Rejected, Leaving
  <2> QED
    BY <1>0, <2>1, ChipStays
<1>2. CASE main
  <2>1. pc = "main" /\ pc' = "open" /\ UNCHANGED <<opt, flash>>
    BY <1>2 DEF main
  <2> QED
    BY <1>0, <2>1, ChipStays DEF Leaving
<1>3. CASE Open \/ StopCpu \/ Stopped \/ StopFails
  <2>1. /\ pc \in {"open", "stop", "stopping"} /\ UNCHANGED <<opt, flash>>
        /\ pc' \in {"stop", "stopping", "configure", "quit", "ended"}
    BY <1>3, WaysOut DEF Open, StopCpu, Stopped, StopFails, Goto
  <2> QED
    BY <1>0, <2>1, ChipStays DEF Leaving
<1>4. CASE Configure
  <2>1. /\ pc = "configure" /\ pc' \in {"open", "quit", "block", "detect"}
        /\ UNCHANGED <<opt, flash>>
    BY <1>4, WaysOut DEF Configure, Goto
  <2> QED
    BY <1>0, <2>1, ChipStays DEF Leaving
<1>5. CASE ConfigureFails
  <2>1. pc' \in {"quit", "ended"} /\ UNCHANGED <<opt, flash>>
    BY <1>5, WaysOut DEF ConfigureFails
  <2> QED
    BY <1>0, <2>1, ChipStays DEF Leaving
<1>6. CASE NoFlash
  <2>1. pc = "detect" /\ pc' \in {"open", "quit", "ended"} /\ UNCHANGED <<opt, flash>>
    BY <1>6, WaysOut DEF NoFlash
  <2> QED
    BY <1>0, <2>1, ChipStays DEF Leaving
<1>7. CASE check_clean
  <2>1. pc = "check" /\ pc' \in {"open", "quit"} /\ UNCHANGED <<opt, flash>>
    BY <1>7, WaysOut DEF check_clean
  <2> QED
    BY <1>0, <2>1, ChipStays DEF Leaving
<1>8. CASE CopyBlock \/ CopyFails \/ CopyDone
  <2>1. pc = "copy" /\ pc' \in {"copy", "open", "quit", "ended"} /\ UNCHANGED <<opt, flash>>
    BY <1>8, WaysOut DEF CopyBlock, CopyFails, CopyDone
  <2> QED
    BY <1>0, <2>1, ChipStays DEF Leaving
<1>9. CASE QuitRun \/ RunCpu \/ QuitClose \/ Interrupted
  <2>1. pc' \in {"run", "close", "ended", "quit"} /\ UNCHANGED <<opt, flash>>
    BY <1>9 DEF QuitRun, RunCpu, QuitClose, Interrupted
  <2> QED
    BY <1>0, <2>1, ChipStays DEF Leaving
<1> QED
  BY <1>1, <1>2, <1>3, <1>4, <1>5, <1>6, <1>7, <1>8, <1>9, ChipDetect, ChipErases, ChipBlocks
  DEF mcprog

LEMMA LicenceStays ==
    ASSUME UNCHANGED <<opt, memory>> PROVE Licence' = Licence
  BY DEF Licence, Commands, erase_mode, Base

LEMMA MovesKeep ==
    ASSUME ChipInv, ChipMoves, UNCHANGED opt, Licence \subseteq Licence', pc' # "main"
    PROVE  ChipInv'
  BY DEF ChipInv, ChipMoves, Touched

(* The steps of the program keep what is known of the chip. *)
LEMMA ChipKept ==
    ASSUME PlaceInv, ChipInv, WellPlaced, mcprog \/ Interrupted PROVE ChipInv'
<1>1. ChipMoves
  BY ChipSteps
<1>2. pc' # "main"
  BY WaysOut DEF mcprog, Rejected, main, Open, StopCpu, Stopped, StopFails, Configure,
       ConfigureFails, NoFlash, Detect, Goto,
     Erase, NoErase, EraseNothing, PollErase, target_erase, target_erase_sector, MicronErase,
     MicronErased, MicronEraseTimeout, Blocks, StartBlock, WriteBlock, ProgramWord, ProgramPage,
     ProgramBuffer, EndBlock, MicronProgramTimeout, ReadBlock, VerifyMatch, VerifyFails, Rewrite,
     NextWord, check_clean, CopyBlock, CopyFails, CopyDone, QuitRun, RunCpu, QuitClose, Interrupted
<1>3. UNCHANGED opt
  BY DEF mcprog, Rejected, main, Open, StopCpu, Stopped, StopFails, Configure,
       ConfigureFails, NoFlash, Detect, input,
     Erase, NoErase, EraseNothing, PollErase, target_erase, target_erase_sector, MicronErase,
     MicronErased, MicronEraseTimeout, Blocks, StartBlock, WriteBlock, ProgramWord, ProgramPage,
     ProgramBuffer, EndBlock, MicronProgramTimeout, ReadBlock, VerifyMatch, VerifyFails, Rewrite,
     check_clean, CopyBlock, CopyFails, CopyDone, QuitRun, RunCpu, QuitClose, Interrupted
<1>4. CASE main
  <2>1. UNCHANGED flash /\ flash.erasing = {}
    BY <1>4 DEF main, chip, ChipInv
  <2> QED
    BY <1>1, <1>2, <1>3, <2>1 DEF ChipInv, ChipMoves
<1>5. CASE ~main
  <2>1. UNCHANGED <<opt, memory>>
    BY <1>5 DEF mcprog, Rejected, Open, StopCpu, Stopped, StopFails, Configure, ConfigureFails,
     NoFlash, Detect, input,
     Erase, NoErase, EraseNothing, PollErase, target_erase, target_erase_sector, MicronErase,
     MicronErased, MicronEraseTimeout, Blocks, StartBlock, WriteBlock, ProgramWord, ProgramPage,
     ProgramBuffer, EndBlock, MicronProgramTimeout, ReadBlock, VerifyMatch, VerifyFails, Rewrite,
     check_clean, CopyBlock, CopyFails, CopyDone, QuitRun, RunCpu, QuitClose, Interrupted
  <2> QED
    BY <1>1, <1>2, <1>3, <2>1, LicenceStays, MovesKeep
<1> QED
  BY <1>4, <1>5

(* The end of an operation of the chip. *)
LEMMA ChipEnds ==
    ASSUME PlaceInv, ChipInv, NEW h \in {0, 1}, OperationDone(h)
    PROVE  /\ ChipInv'
           /\ \A u \in Units : flash'.mem[u] # flash.mem[u] => u \in Licence /\ flash'.mem[u] = Erased
<1> DEFINE done == flash.erasing \cap InHalf(flash, h)
           m == IF flash.kind = "micron" THEN "status" ELSE "read"
           mem == [u \in Units |-> IF u \in done THEN Erased ELSE flash.mem[u]]
<1>1. /\ flash.mode[h] \in Busy /\ UNCHANGED <<pc, opt, memory>>
      /\ flash' = [flash EXCEPT !.mode[h] = m, !.erasing = @ \ done, !.mem = mem]
      /\ opt \in CommandLines
  BY DEF OperationDone, OperationEnds, input, PlaceInv, CommandInv
<1>2. /\ flash \in FlashType /\ flash.kind = opt.kind /\ flash.erasing \subseteq Licence
      /\ flash.width = opt.width
      /\ pc = "main" => flash.erasing = {}
      /\ ModesInv
  BY DEF ChipInv
<1>3. mem \in [Units -> SUBSET Bits]
  BY <1>2 DEF FlashType, Erased
<1>4. \A u \in Units : mem[u] # flash.mem[u] => u \in Licence /\ mem[u] = Erased
  BY <1>2
<1>5. m \in Modes
  BY DEF Modes
<1> HIDE DEF mem, m
<1>6. /\ flash' \in FlashType /\ flash'.kind = flash.kind /\ flash'.width = flash.width
      /\ flash'.mem = mem /\ flash'.erasing \subseteq flash.erasing
      /\ flash'.mode[h] = m /\ \A i \in {0, 1} \ {h} : flash'.mode[i] = flash.mode[i]
  <2> HIDE DEF done
  <2> QED
    BY <1>1, <1>2, <1>3, <1>5 DEF FlashType
<1>7. ModesInv'
  <2>1. CASE opt.kind = "static"
    BY <1>1, <1>2, <2>1 DEF ModesInv, Busy
  <2>2. CASE opt.kind = "micron"
    <3>1. h = 0 /\ m = "status" /\ flash.mode[1] = "read"
      BY <1>1, <1>2, <2>2 DEF ModesInv, Busy, m
    <3>2. flash'.mode[1] = "read" /\ flash'.mode[0] = "status"
      BY <1>6, <3>1
    <3> QED
      BY <1>1, <2>2, <3>2, MicronMode DEF MicronModes
  <2>3. CASE opt.kind \in {"amd", "page"}
    <3>1. m = "read"
      BY <1>2, <2>3 DEF m
    <3>2. CASE h = 1
      BY <1>1, <1>2, <1>6, <2>3, <3>1, <3>2 DEF ModesInv
    <3>3. CASE h = 0
      BY <1>1, <1>2, <1>6, <2>3, <3>1, <3>3 DEF ModesInv, Busy
    <3> QED
      BY <3>2, <3>3
  <2> QED
    BY <1>1, <2>1, <2>2, <2>3, KindsOf
<1>8. Licence' = Licence
  BY <1>1, LicenceStays
<1>9. ChipInv'
  BY <1>1, <1>2, <1>6, <1>7, <1>8 DEF ChipInv
<1> QED
  BY <1>4, <1>6, <1>9

LEMMA LicenceOf ==
    ASSUME PlaceInv PROVE Licence \subseteq EraseAllowed
<1>1. CASE Commands = <<>>
  BY <1>1 DEF Licence
<1>2. CASE Commands # <<>>
  BY <1>2, LicenceAllowed DEF PlaceInv, CommandInv
<1> QED
  BY <1>1, <1>2

(* Every step. *)
LEMMA ChipStep ==
    ASSUME PlaceInv, ChipInv, WellPlaced, [Next]_vars PROVE ChipInv' /\ ImageStep
<1>1. CASE mcprog \/ Interrupted
  <2>1. ChipInv' /\ ChipMoves
    BY <1>1, ChipSteps, ChipKept
  <2>2. ImageStep
    BY <2>1 DEF ChipMoves, Touched, May, ImageStep
  <2> QED
    BY <2>1, <2>2
<1>2. ASSUME NEW h \in {0, 1}, OperationDone(h) PROVE ChipInv' /\ ImageStep
  BY <1>2, ChipEnds, LicenceOf DEF ImageStep
<1>3. CASE UNCHANGED vars
  <2>1. UNCHANGED <<pc, opt, memory, flash>>
    BY <1>3 DEF vars, input, chip
  <2>2. Licence' = Licence
    BY <2>1, LicenceStays
  <2>3. ModesInv'
    BY <2>1 DEF ChipInv, ModesInv
  <2> QED
    BY <2>1, <2>2, <2>3 DEF ChipInv, ImageStep
<1> QED
  BY <1>1, <1>2, <1>3 DEF Next

LEMMA ChipInit == Init => ChipInv
<1> SUFFICES ASSUME Init PROVE ChipInv
  OBVIOUS
<1>1. opt \in CommandLines /\ pc = "main" /\ flash = Fresh(opt.kind, opt.width, opt.was)
  BY DEF Init
<1>2. opt.kind \in Kinds /\ opt.width \in {8, 32, 64, 0} /\ opt.was \in SUBSET Bits
  BY <1>1, McprogAssumption
<1>3. MaxWeak \in Nat
  BY FlashAssumption
<1>4. /\ flash.kind = opt.kind /\ flash.width = opt.width /\ flash.erasing = {}
      /\ \A h \in {0, 1} : flash.mode[h] = "read"
  BY <1>1 DEF Fresh
<1>5. flash \in FlashType
  BY <1>1, <1>2, <1>3 DEF Fresh, FlashType, Modes
<1>6. ModesInv
  BY <1>1, <1>4 DEF ModesInv
<1> QED
  BY <1>1, <1>4, <1>5, <1>6 DEF ChipInv

-----------------------------------------------------------------------------
(* Types. *)
(* Whatever mcprog sends, the flash is a flash. *)
LEMMA PartsSent ==
    ASSUME NEW h \in {0, 1}, NEW c \in Codes, NEW u \in Int, NEW d \in SUBSET Bits
    PROVE  /\ Request(h, c) \in Seq(Writes) /\ EraseRequest(h, u, c) \in Seq(Writes)
           /\ Program(h, u, d) \in Seq(Writes)
           /\ <<Command(u, c)>> \in Seq(Writes) /\ <<Data(u, d)>> \in Seq(Writes)
<1>1. {"AA", "55", "80", "A0"} \subseteq Codes
  BY DEF Codes
<1>2. AddrOdd(opt.width, h) \in Int /\ AddrEven(opt.width, h) \in Int
  BY FlashAssumption DEF AddrOdd, AddrEven
<1>3. \A x \in Codes : /\ Command(AddrOdd(opt.width, h), x) \in Writes
                       /\ Command(AddrEven(opt.width, h), x) \in Writes
                       /\ Command(u, x) \in Writes
  BY <1>2, CommandIsWrite
<1>4. Data(u, d) \in Writes
  BY DataIsWrite
<1>5. \A s, t \in Seq(Writes) : s \o t \in Seq(Writes)
  OBVIOUS
<1>6. Unlock(h) \in Seq(Writes)
  BY <1>1, <1>3 DEF Unlock
<1>7. \A x \in Codes : Request(h, x) \in Seq(Writes)
  <2> TAKE x \in Codes
  <2>1. <<Command(AddrOdd(opt.width, h), x)>> \in Seq(Writes)
    BY <1>3
  <2> QED
    BY <1>5, <1>6, <2>1 DEF Request
<1>8. <<Command(u, c)>> \in Seq(Writes) /\ <<Data(u, d)>> \in Seq(Writes)
  BY <1>3, <1>4
<1>9. EraseRequest(h, u, c) \in Seq(Writes)
  <2>1. Request(h, "80") \in Seq(Writes)
    BY <1>1, <1>7
  <2> QED
    BY <1>5, <1>6, <1>8, <2>1 DEF EraseRequest
<1>10. Program(h, u, d) \in Seq(Writes)
  <2>1. Request(h, "A0") \in Seq(Writes)
    BY <1>1, <1>7
  <2> QED
    BY <1>5, <1>8, <2>1 DEF Program
<1> QED
  BY <1>1, <1>7, <1>8, <1>9, <1>10

LEMMA FlattenTyped ==
    ASSUME NEW V, NEW q, Len(q) \in {1, 2}, \A i \in 1 .. Len(q) : q[i] \in Seq(V)
    PROVE  FlattenSeq(q) \in Seq(V)
<1>1. CASE Len(q) = 1
  <2>1. q[1] \in Seq(V)
    BY <1>1
  <2> QED
    BY <1>1, <2>1, FlattenOne
<1>2. CASE Len(q) = 2
  <2>1. q[1] \in Seq(V) /\ q[2] \in Seq(V)
    BY <1>2
  <2>2. \A s, t \in Seq(V) : s \o t \in Seq(V)
    OBVIOUS
  <2>3. q[1] \o q[2] \in Seq(V)
    BY <2>1, <2>2
  <2> QED
    BY <1>2, <2>3, FlattenTwo
<1> QED
  BY <1>1, <1>2

(* Where the writes go. *)
LEMMA PlacesSent ==
    ASSUME PlaceInv
    PROVE  /\ opt \in CommandLines /\ NumberInv /\ K \in {1, 2} /\ Base \in Int
           /\ word \in Int /\ first \in Int /\ EraseAt \in Int
           /\ \A k \in Int : WordAddr(k) \in Int
           /\ Page \in Nat \ {0}
<1>1. opt \in CommandLines /\ NumberInv
  BY DEF PlaceInv, CommandInv
<1>2. K \in {1, 2} /\ Words \in Nat
  BY <1>1, WordsTyped DEF NumberInv
<1>3. Base \in Int
  BY <1>1, KindsOf DEF Base, NumberInv
<1>4. first \in Int /\ area \in Int
  BY <1>1 DEF NumberInv
<1>5. word \in Int
  <2>1. BLOCKSZ \in Nat
    BY ProgrammerAssumption
  <2> QED
    BY <1>1, <1>2, <2>1 DEF NumberInv
<1>6. EraseAt \in Int
  BY <1>3, <1>4 DEF EraseAt
<1>7. \A k \in Int : WordAddr(k) \in Int
  <2> SUFFICES ASSUME NEW k \in Int PROVE WordAddr(k) \in Int
    OBVIOUS
  <2>1. CASE K = 1
    BY <1>3, <2>1 DEF WordAddr
  <2>2. CASE K = 2
    BY <1>3, <2>2 DEF WordAddr
  <2> QED
    BY <1>2, <2>1, <2>2
<1> QED
  BY <1>1, <1>2, <1>3, <1>4, <1>5, <1>6, <1>7, FlashAssumption

LEMMA CodesAre ==
    {"data", "AA", "55", "A0", "80", "20", "90", "F0", "00", "10", "30",
     "E8", "count", "D0", "70", "FF"} \subseteq Codes
  BY DEF Codes

LEMMA AppendSent == \A s, t \in Seq(Writes) : s \o t \in Seq(Writes)
  OBVIOUS

LEMMA DetectSent ==
    ASSUME NEW n PROVE DetectWrites(n) \in Seq(Writes)
<1>0. 0 \in {0, 1} /\ 0 \in Int /\ {} \in SUBSET Bits
  OBVIOUS
<1> DEFINE a == Request(0, "90")
           b == Request(0, "F0")
           c == <<Command(0, "F0")>>
           d == <<Command(0, "FF")>>
<1>1. {"90", "F0", "FF"} \subseteq Codes
  BY DEF Codes
<1>2. a \in Seq(Writes) /\ b \in Seq(Writes)
  BY <1>0, <1>1, PartsSent
<1>3. c \in Seq(Writes) /\ d \in Seq(Writes) /\ <<>> \in Seq(Writes)
  BY <1>0, <1>1, CommandIsWrite
<1>4. \E s, t \in Seq(Writes) : DetectWrites(n) = a \o s \o t
  <2>1. \E s \in {b, c}, t \in {d, <<>>} : DetectWrites(n) = a \o s \o t
    BY DEF DetectWrites
  <2> HIDE DEF a, b, c, d
  <2> QED
    BY <1>2, <1>3, <2>1
<1> HIDE DEF a
<1> QED
  BY <1>2, <1>4, AppendSent

LEMMA EraseSent ==
    ASSUME PlaceInv
    PROVE  /\ EraseWrites \in Seq(Writes)
           /\ \A u \in Int : EraseSectorWrites(u) \in Seq(Writes)
<1>1. Cardinality(ErasedHalves) \in {1, 2}
  <2>1. ErasedHalves = {0} \/ ErasedHalves = {0, 1}
    BY DEF ErasedHalves, Halves
  <2>2. Cardinality({0}) = 1 /\ Cardinality({0, 1}) = 2
    <3> DEFINE one == {0}
    <3>1. Cardinality(one) = 1 /\ IsFiniteSet(one)
      BY FS_Singleton
    <3>4. 1 \notin one
      OBVIOUS
    <3>2. {0, 1} = one \cup {1}
      OBVIOUS
    <3> HIDE DEF one
    <3>3. Cardinality(one \cup {1}) = Cardinality(one) + 1
      BY <3>1, <3>4, FS_AddElement
    <3> QED
      BY <3>1, <3>2, <3>3 DEF one
  <2> QED
    BY <2>1, <2>2
<1> DEFINE n == Cardinality(ErasedHalves)
<1>2. n \in {1, 2} /\ \A i \in 1 .. n : i - 1 \in {0, 1}
  BY <1>1
<1>3. \A h \in {0, 1}, u \in Int, c \in {"10", "30"} : EraseRequest(h, u, c) \in Seq(Writes)
  <2> SUFFICES ASSUME NEW h \in {0, 1}, NEW u \in Int, NEW c \in {"10", "30"}
               PROVE  EraseRequest(h, u, c) \in Seq(Writes)
    OBVIOUS
  <2>1. c \in Codes /\ {} \in SUBSET Bits
    BY DEF Codes
  <2> QED
    BY <2>1, PartsSent
<1>4. EraseWrites \in Seq(Writes)
  <2> DEFINE q == [i \in 1 .. n |-> EraseRequest(i - 1, AddrOdd(opt.width, i - 1), "10")]
  <2>1. \A i \in 1 .. n : EraseRequest(i - 1, AddrOdd(opt.width, i - 1), "10") \in Seq(Writes)
    <3> SUFFICES ASSUME NEW i \in 1 .. n
                 PROVE  EraseRequest(i - 1, AddrOdd(opt.width, i - 1), "10") \in Seq(Writes)
      OBVIOUS
    <3>1. AddrOdd(opt.width, i - 1) \in Int /\ i - 1 \in {0, 1}
      BY <1>2, FlashAssumption DEF AddrOdd
    <3> QED
      BY <1>3, <3>1
  <2> HIDE DEF n
  <2>2. Len(q) \in {1, 2} /\ \A i \in 1 .. Len(q) : q[i] \in Seq(Writes)
    BY <1>2, <2>1
  <2> HIDE DEF q
  <2>3. FlattenSeq(q) \in Seq(Writes)
    BY <2>2, FlattenTyped
  <2> QED
    BY <2>3 DEF q, n, EraseWrites
<1>5. ASSUME NEW u \in Int PROVE EraseSectorWrites(u) \in Seq(Writes)
  <2> DEFINE q == [i \in 1 .. n |-> EraseRequest(i - 1, u + i - 1, "30")]
  <2>1. \A i \in 1 .. n : EraseRequest(i - 1, u + i - 1, "30") \in Seq(Writes)
    <3> SUFFICES ASSUME NEW i \in 1 .. n
                 PROVE  EraseRequest(i - 1, u + i - 1, "30") \in Seq(Writes)
      OBVIOUS
    <3>1. u + i - 1 \in Int /\ i - 1 \in {0, 1}
      BY <1>2
    <3> QED
      BY <1>3, <3>1
  <2> HIDE DEF n
  <2>2. Len(q) \in {1, 2} /\ \A i \in 1 .. Len(q) : q[i] \in Seq(Writes)
    BY <1>2, <2>1
  <2> HIDE DEF q
  <2>3. FlattenSeq(q) \in Seq(Writes)
    BY <2>2, FlattenTyped
  <2> QED
    BY <2>3 DEF q, n, EraseSectorWrites
<1> QED
  BY <1>4, <1>5

LEMMA WordSent ==
    ASSUME PlaceInv, pc = "program"
    PROVE  ProgramWordWrites(word) \in Seq(Writes)
<1>1. /\ opt \in CommandLines /\ NumberInv /\ K \in {1, 2}
      /\ word \in Int /\ first \in Int /\ \A k \in Int : WordAddr(k) \in Int
  BY PlacesSent
<1>2. word \in Nat
  <2>1. word \in BlockWords
    BY <1>1 DEF NumberInv
  <2> QED
    BY <1>1, <2>1, InBlock
<1>3. CASE opt.width = 8
  <2> DEFINE u(i) == WordAddr(word) + i - 1
             d(i) == DataAt(word * K + i - 1)
             q == [i \in 1 .. K |-> <<Command(u(i), "A0"), Data(u(i), d(i))>>]
  <2>1. \A i \in 1 .. K : <<Command(u(i), "A0"), Data(u(i), d(i))>> \in Seq(Writes)
    <3> SUFFICES ASSUME NEW i \in 1 .. K
                 PROVE  <<Command(u(i), "A0"), Data(u(i), d(i))>> \in Seq(Writes)
      OBVIOUS
    <3>1. u(i) \in Int
      BY <1>1
    <3>2. word * K + i - 1 \in Nat
      BY <1>1, <1>2
    <3>3. d(i) \in SUBSET Bits
      BY <1>1, <3>2, DataTyped
    <3> HIDE DEF u, d
    <3>4. Command(u(i), "A0") \in Writes /\ Data(u(i), d(i)) \in Writes
      BY <3>1, <3>3, CodesAre, CommandIsWrite, DataIsWrite
    <3> QED
      BY <3>4
  <2> HIDE DEF u, d
  <2>2. Len(q) \in {1, 2} /\ \A i \in 1 .. Len(q) : q[i] \in Seq(Writes)
    BY <1>1, <2>1
  <2> HIDE DEF q
  <2>3. FlattenSeq(q) \in Seq(Writes)
    BY <2>2, FlattenTyped
  <2> QED
    BY <1>3, <2>3 DEF q, u, d, BypassWrites, ProgramWordWrites
<1>4. CASE opt.width # 8
  <2>1. WordAddr(word) \in Int /\ WordAddr(first) \in Int
    BY <1>1
  <2>2. DataAt(word) \in SUBSET Bits
    BY <1>1, <1>2, DataTyped
  <2>3. ProgramHalf(word) \in {0, 1}
    BY <2>1 DEF ProgramHalf, HalfOf
  <2>4. Program(ProgramHalf(word), WordAddr(word), DataAt(word)) \in Seq(Writes)
    BY <2>1, <2>2, <2>3, CodesAre, PartsSent
  <2> QED
    BY <1>4, <2>4 DEF ProgramWordWrites
<1> QED
  BY <1>3, <1>4

LEMMA PageSent ==
    ASSUME PlaceInv, word \in Nat PROVE PageWrites(word) \in Seq(Writes)
<1>1. /\ opt \in CommandLines /\ NumberInv /\ Page \in Nat \ {0}
      /\ \A k \in Int : WordAddr(k) \in Int
  BY PlacesSent
<1>2. PageData(word) \in Seq(Writes)
  <2> SUFFICES ASSUME NEW i \in 1 .. Page
               PROVE  Data(WordAddr(word) + i - 1, DataAt(word + i - 1)) \in Writes
    BY <1>1 DEF PageData
  <2> DEFINE u == WordAddr(word) + i - 1
             d == DataAt(word + i - 1)
  <2>1. u \in Int /\ word + i - 1 \in Nat
    BY <1>1
  <2>2. d \in SUBSET Bits
    BY <1>1, <2>1, DataTyped
  <2> HIDE DEF u, d
  <2>3. Data(u, d) \in Writes
    BY <2>1, <2>2, DataIsWrite
  <2> QED
    BY <2>3 DEF u, d
<1>3. \A c \in {"80", "20", "A0"} : Request(0, c) \in Seq(Writes)
  <2> SUFFICES ASSUME NEW c \in {"80", "20", "A0"} PROVE Request(0, c) \in Seq(Writes)
    OBVIOUS
  <2>1. 0 \in {0, 1} /\ 0 \in Int /\ {} \in SUBSET Bits /\ c \in Codes
    BY CodesAre
  <2> QED
    BY <2>1, PartsSent
<1> DEFINE a == Request(0, "80")
           b == Request(0, "20")
           c == Request(0, "A0")
           p == PageData(word)
<1>4. a \in Seq(Writes) /\ b \in Seq(Writes) /\ c \in Seq(Writes) /\ p \in Seq(Writes)
  BY <1>2, <1>3
<1>5. PageWrites(word) = a \o b \o p \o c \o p
  BY DEF PageWrites
<1> HIDE DEF a, b, c, p
<1>6. a \o b \o p \o c \o p \in Seq(Writes)
  BY <1>4, AppendSent
<1> QED
  BY <1>5, <1>6

LEMMA BufferSent ==
    ASSUME PlaceInv, word \in BlockWords PROVE BufferWrites \in Seq(Writes)
<1>1. /\ opt \in CommandLines /\ NumberInv /\ first \in Int
      /\ \A k \in Int : WordAddr(k) \in Int
  BY PlacesSent
<1> DEFINE n == Cardinality(BufferWords)
           x(i) == WordAddr(word + i - 1)
           d(i) == DataAt(word + i - 1)
           ws == [i \in 1 .. n |-> Data(x(i), d(i))]
           u == WordAddr(first)
           a == <<Command(u, "E8"), Command(u, "count")>>
           z == <<Command(u, "D0")>>
<1>2. n \in Nat /\ \A i \in 1 .. n : word + i - 1 \in BlockWords
  BY <1>1, BufferInBlock
<1>3. \A i \in 1 .. n : Data(x(i), d(i)) \in Writes
  <2> SUFFICES ASSUME NEW i \in 1 .. n PROVE Data(x(i), d(i)) \in Writes
    OBVIOUS
  <2> DEFINE k == word + i - 1
  <2>1. k \in BlockWords
    BY <1>2
  <2> HIDE DEF k
  <2>2. k \in Nat
    BY <1>1, <2>1, InBlock
  <2>3. WordAddr(k) \in Int /\ DataAt(k) \in SUBSET Bits
    BY <1>1, <2>2, DataTyped
  <2>4. Data(WordAddr(k), DataAt(k)) \in Writes
    BY <2>3, DataIsWrite
  <2> QED
    BY <2>4 DEF k
<1> HIDE DEF n, x, d
<1>4. ws \in Seq(Writes)
  BY <1>2, <1>3
<1>5. u \in Int
  BY <1>1
<1> HIDE DEF u
<1>6. Command(u, "E8") \in Writes /\ Command(u, "count") \in Writes /\ Command(u, "D0") \in Writes
  BY <1>5, CodesAre, CommandIsWrite
<1>7. a \in Seq(Writes) /\ z \in Seq(Writes)
  BY <1>6
<1>8. BufferWrites = a \o ws \o z
  BY DEF BufferWrites, n, x, d, u
<1> HIDE DEF a, ws, z
<1> QED
  BY <1>4, <1>7, <1>8, AppendSent

LEMMA RewriteSent ==
    ASSUME PlaceInv, pc = "verify", ~Matches PROVE RewriteWrites(word) \in Seq(Writes)
<1>1. /\ opt \in CommandLines /\ NumberInv /\ K \in {1, 2} /\ \A k \in Int : WordAddr(k) \in Int
  BY PlacesSent
<1>2. word \in Nat
  <2>1. word \in BlockWords
    BY <1>1 DEF NumberInv
  <2> QED
    BY <1>1, <2>1, InBlock
<1>3. PICK i : FirstBad(i)
  BY SomeBad
<1> DEFINE bad == CHOOSE j \in 0 .. K - 1 :
                     /\ block[word][j] # Expected(word)[j]
                     /\ \A k \in 0 .. j - 1 : block[word][k] = Expected(word)[k]
           u == WordAddr(word) + bad
           d == Expected(word)[bad]
           h == HalfOf(opt.width, u)
<1>4. bad \in 0 .. K - 1
  BY <1>3 DEF FirstBad
<1>5. RewriteWrites(word) = IF opt.width = 0 THEN <<>> ELSE Program(h, u, d)
  BY DEF RewriteWrites
<1> HIDE DEF bad
<1>6. u \in Int
  BY <1>1, <1>2, <1>4
<1>7. d \in SUBSET Bits
  <2>1. d = DataAt(word * K + bad)
    BY <1>4 DEF Expected
  <2>2. word * K + bad \in Nat
    BY <1>1, <1>2, <1>4
  <2> QED
    BY <1>1, <2>1, <2>2, DataTyped
<1> HIDE DEF u, d
<1>8. h \in {0, 1}
  BY <1>6 DEF HalfOf
<1> HIDE DEF h
<1>9. Program(h, u, d) \in Seq(Writes)
  BY <1>6, <1>7, <1>8, CodesAre, PartsSent
<1>10. <<>> \in Seq(Writes)
  OBVIOUS
<1> QED
  BY <1>5, <1>9, <1>10

LEMMA SmallSent ==
    ASSUME PlaceInv
    PROVE  /\ <<Command(EraseAt, "20"), Command(EraseAt, "D0")>> \in Seq(Writes)
           /\ <<Command(0, "FF")>> \in Seq(Writes)
           /\ Request(0, "20") \in Seq(Writes)
           /\ <<Command(WordAddr(first), "70"), Command(WordAddr(first), "FF")>> \in Seq(Writes)
           /\ <<Command(0, "90"), Command(0, "00")>> \in Seq(Writes)
           /\ <<Command(WordAddr(first), "FF")>> \in Seq(Writes)
           /\ <<>> \in Seq(Writes)
<1>1. EraseAt \in Int /\ WordAddr(first) \in Int /\ 0 \in Int
  BY PlacesSent
<1>2. \A u \in Int, c \in Codes : Command(u, c) \in Writes
  BY CommandIsWrite
<1>3. Request(0, "20") \in Seq(Writes)
  <2>1. 0 \in {0, 1} /\ {} \in SUBSET Bits /\ "20" \in Codes
    BY CodesAre
  <2> QED
    BY <1>1, <2>1, PartsSent
<1> DEFINE e == EraseAt
           u == WordAddr(first)
<1> HIDE DEF e, u
<1>4. /\ Command(e, "20") \in Writes /\ Command(e, "D0") \in Writes
      /\ Command(0, "FF") \in Writes /\ Command(u, "70") \in Writes /\ Command(u, "FF") \in Writes
      /\ Command(0, "90") \in Writes /\ Command(0, "00") \in Writes
  BY <1>1, <1>2, CodesAre DEF e, u
<1> QED
  BY <1>3, <1>4 DEF e, u

(* Whatever the step, the flash has had some writes, or is static memory that
   has been written, or an operation of it has ended. *)
LEMMA FlashWays ==
    ASSUME PlaceInv, [Next]_vars
    PROVE  \/ \E ws \in Seq(Writes) : flash' \in After(flash, ws)
           \/ WriteBlock \/ UNCHANGED flash
           \/ \E h \in {0, 1} : OperationDone(h)
<1> USE DEF input, chip, host
<1>2. CASE Detect
  BY <1>2, DetectSent DEF Detect
<1>3. CASE target_erase \/ target_erase_sector
  <2>1. EraseAt \in Int
    BY PlacesSent
  <2> QED
    BY <1>3, <2>1, EraseSent DEF target_erase, target_erase_sector
<1>4. CASE MicronErase \/ MicronErased \/ MicronProgramTimeout
  BY <1>4, SmallSent DEF MicronErase, MicronErased, MicronProgramTimeout
<1>5. CASE StartBlock
  BY <1>5, SmallSent DEF StartBlock
<1>6. CASE EndBlock
  BY <1>6, SmallSent DEF EndBlock
<1>7. CASE ProgramWord
  BY <1>7, WordSent DEF ProgramWord
<1>8. CASE ProgramPage
  <2>1. word \in BlockWords /\ NumberInv /\ opt \in CommandLines
    BY <1>8 DEF ProgramPage, PlaceInv, NumberInv, CommandInv
  <2>2. word \in Nat
    BY <2>1, InBlock
  <2> QED
    BY <1>8, <2>2, PageSent DEF ProgramPage
<1>9. CASE ProgramBuffer
  <2>1. word \in BlockWords
    BY <1>9 DEF ProgramBuffer, PlaceInv, NumberInv
  <2> QED
    BY <1>9, <2>1, BufferSent DEF ProgramBuffer
<1>10. CASE Rewrite
  BY <1>10, RewriteSent DEF Rewrite
<1>13. UNCHANGED flash \/ Detect \/ target_erase \/ target_erase_sector \/ MicronErase
       \/ MicronErased \/ MicronProgramTimeout \/ StartBlock \/ EndBlock \/ ProgramWord
       \/ ProgramPage \/ ProgramBuffer \/ Rewrite \/ WriteBlock
       \/ \E h \in {0, 1} : OperationDone(h)
  BY DEF Next, mcprog, vars, Rejected, main, Open, StopCpu, Stopped, StopFails, Configure,
     ConfigureFails, NoFlash, Erase,
     NoErase, EraseNothing, PollErase, MicronEraseTimeout, Blocks, ReadBlock, VerifyMatch,
     VerifyFails, check_clean, CopyBlock, CopyFails, CopyDone, QuitRun, RunCpu, QuitClose, Interrupted
<1> QED
  BY <1>2, <1>3, <1>4, <1>5, <1>6, <1>7, <1>8, <1>9, <1>10, <1>13

LEMMA FlashTyped ==
    ASSUME PlaceInv, flash \in FlashType, [Next]_vars PROVE flash' \in FlashType
<1>1. \A ws \in Seq(Writes) : flash' \in After(flash, ws) => flash' \in FlashType
  BY AfterTyped
<1>2. CASE WriteBlock
  <2> DEFINE mem == [u \in Units |->
                        IF u - Base \in 0 .. Words * K - 1 /\ (u - Base) \div K \in BlockWords
                          THEN DataAt(u - Base) ELSE flash.mem[u]]
  <2>1. \A u \in Units : u - Base \in 0 .. Words * K - 1 => DataAt(u - Base) \in SUBSET Bits
    BY DataTyped DEF PlaceInv
  <2>2. mem \in [Units -> SUBSET Bits]
    BY <2>1 DEF FlashType
  <2>3. flash' = [flash EXCEPT !.mem = mem] \/ UNCHANGED flash
    BY <1>2 DEF WriteBlock
  <2> HIDE DEF mem
  <2> QED
    BY <2>2, <2>3 DEF FlashType
<1>3. ASSUME NEW h \in {0, 1}, OperationDone(h) PROVE flash' \in FlashType
  <2> DEFINE done == flash.erasing \cap InHalf(flash, h)
             m == IF flash.kind = "micron" THEN "status" ELSE "read"
             mem == [u \in Units |-> IF u \in done THEN Erased ELSE flash.mem[u]]
  <2>1. flash' = [flash EXCEPT !.mode[h] = m, !.erasing = @ \ done, !.mem = mem]
    BY <1>3 DEF OperationDone, OperationEnds
  <2>2. mem \in [Units -> SUBSET Bits] /\ m \in Modes
    BY DEF FlashType, Erased, Modes
  <2> HIDE DEF mem, m, done
  <2> QED
    BY <2>1, <2>2 DEF FlashType
<1> QED
  BY <1>1, <1>2, <1>3, FlashWays
-----------------------------------------------------------------------------
(* The inductive invariant, to which ChipInv is added for the image. *)
IInv == PlaceInv /\ RestInv /\ flash \in FlashType

LEMMA IInvInit == Init => IInv
<1> SUFFICES ASSUME Init PROVE IInv
  OBVIOUS
<1>1. CommandInv /\ NumberInv /\ RestInv
  BY CommandInit, NumberInit, RestInit
<1>2. flash \in FlashType
  BY ChipInit DEF ChipInv
<1>3. DetectedInv /\ ReadInv
  BY DEF Init, DetectedInv, ReadInv, AtErase, AtBlock
<1> QED
  BY <1>1, <1>2, <1>3 DEF IInv, PlaceInv

LEMMA IInvStep == IInv /\ [Next]_vars => IInv'
<1> SUFFICES ASSUME IInv, [Next]_vars PROVE IInv'
  OBVIOUS
<1>1. CommandInv /\ NumberInv /\ DetectedInv /\ ReadInv /\ PlaceInv /\ RestInv /\ flash \in FlashType
  BY DEF IInv, PlaceInv
<1>2. flash' \in FlashType
  BY <1>1, FlashTyped
<1>3. CommandInv' /\ NumberInv' /\ DetectedInv' /\ ReadInv' /\ RestInv'
  BY <1>1, CommandStep, NumberStep, DetectedStep, ReadStep, RestStep
<1> QED
  BY <1>2, <1>3 DEF IInv, PlaceInv

LEMMA TypeFollows == IInv => TypeOK
<1> SUFFICES ASSUME IInv PROVE TypeOK
  OBVIOUS
<1>1. CommandInv /\ NumberInv /\ RestInv /\ flash \in FlashType
  BY DEF IInv, PlaceInv
<1>2. opt \in CommandLines
  BY <1>1 DEF CommandInv
<1>3. left \in Suffixes(Commands)
  <2>1. CASE left = <<>>
    BY <2>1 DEF Suffixes
  <2>2. CASE left = Commands /\ left # <<>>
    <3>1. Len(Commands) \in Nat \ {0} /\ SubSeq(Commands, 1, Len(Commands)) = Commands
      BY <1>2, <2>2, CommandCases
    <3>2. 1 \in 1 .. Len(Commands)
      BY <3>1
    <3> QED
      BY <2>2, <3>1, <3>2 DEF Suffixes
  <2>3. CASE left = <<"check">> /\ Commands = <<"erase", "check">>
    <3> DEFINE c == <<"erase", "check">>
    <3>1. Len(c) = 2 /\ SubSeq(c, 2, 2) = <<"check">> /\ 2 \in 1 .. 2
      <4> DEFINE s == SubSeq(c, 2, 2)
      <4>1. c \in Seq({"erase", "check"}) /\ Len(c) = 2 /\ c[2] = "check"
        OBVIOUS
      <4>2. s \in Seq({"erase", "check"}) /\ Len(s) = 1 /\ s[1] = c[2]
        <5> HIDE DEF c
        <5> QED
          BY <4>1
      <4> HIDE DEF s, c
      <4>3. s = <<"check">>
        BY <4>1, <4>2
      <4> QED
        BY <4>1, <4>3 DEF s
    <3> HIDE DEF c
    <3>2. Commands = c
      BY <2>3 DEF c
    <3> QED
      BY <2>3, <3>1, <3>2 DEF Suffixes
  <2> QED
    BY <1>1, <2>1, <2>2, <2>3 DEF CommandInv
<1>4. Words \in Nat /\ BLOCKSZ \in Nat /\ N \in Nat
  BY <1>1, <1>2, WordsTyped, ProgrammerAssumption, FlashAssumption DEF NumberInv
<1>5. /\ memory.base \in Nat /\ memory.len \in Nat
      /\ Commands # <<"read">> => memory.len <= MaxImage
      /\ memory.data \in [0 .. MaxImage - 1 -> SUBSET Bits]
      /\ area \in 0 .. N + memory.len
      /\ first \in 0 .. Words + BLOCKSZ
      /\ word \in 0 .. Words + BLOCKSZ
  BY <1>1, <1>4 DEF NumberInv
<1>6. /\ target \in {"none", "open"} /\ cpu \in {"running", "stopped"}
      /\ is_running \in BOOLEAN /\ cut \in BOOLEAN
      /\ delay \in BOOLEAN /\ micron \in BOOLEAN /\ try \in 0 .. 4 /\ signals \in 0 .. Signals
      /\ told.clean \in {"unknown", "yes", "no"}
      /\ outcome \in {"none", "done", "failed", "error", "interrupted"}
  BY <1>1 DEF RestInv, Answers, Outcomes
<1>7. pc \in PCs
  BY <1>1 DEF CommandInv
<1> QED
  BY <1>1, <1>3, <1>5, <1>6, <1>7 DEF TypeOK

(* Wherever a run is, the places in the image are in the image, the image in
   the buffer of mcprog, and the flash is one: whatever is sent to it. *)
THEOREM StaysTyped == Spec => []TypeOK
<1>1. Init => IInv
  BY IInvInit
<1>2. IInv /\ [Next]_vars => IInv'
  BY IInvStep
<1>3. IInv => TypeOK
  BY TypeFollows
<1> QED
  BY <1>1, <1>2, <1>3, PTL DEF Spec

LEMMA ImageStepIs ==
    OnlyImageChanges <=> [][ImageStep]_vars
<1>1. ImageStep <=> \A u \in Units : flash'.mem[u] # flash.mem[u] =>
                      \/ u \in EraseAllowed /\ flash'.mem[u] = Erased
                      \/ u \in ImageUnits /\ Programs_file /\ ~opt.verify
  BY DEF ImageStep
<1> QED
  BY <1>1, PTL DEF OnlyImageChanges

(* do_program, do_write and target_flash_rewrite program units of the image only,
   and the erase routines erase what the command allows only, whatever the flash,
   the file, weak cells and interruptions: but for a 64-bit bus with an adapter
   that has no routine for it, or with an image that begins on its high half. *)
THEOREM ImageOnly == Spec => ([]WellPlaced => OnlyImageChanges)
<1>1. Init => IInv /\ ChipInv
  BY IInvInit, ChipInit
<1>2. IInv /\ ChipInv /\ WellPlaced /\ [Next]_vars => IInv' /\ ChipInv' /\ ImageStep
  BY IInvStep, ChipStep DEF IInv
<1> QED
  BY <1>1, <1>2, ImageStepIs, PTL DEF Spec
-----------------------------------------------------------------------------
(* What a run reports.  A chip that is looked at can be read. *)
CheckInv ==
    /\ told.clean # "unknown" => pc \in Leaving
    /\ told.clean = "yes" => \A u \in Units : flash.mem[u] = Erased
    /\ told.clean = "no" /\ opt.width # 64 =>
          /\ flash.width = opt.width /\ flash.mode[0] = "read"
          /\ \E u \in Units : flash.mem[u] # Erased
    /\ pc \in {"check", "copy"} => flash.mode[0] = "read"

(* The steps of a run that neither find the flash nor say anything of it. *)
LEMMA OtherSteps ==
    ASSUME [Next]_vars, ~Detect, ~check_clean, ~\E h \in {0, 1} : OperationDone(h)
    PROVE  /\ UNCHANGED opt /\ told'.clean = told.clean
           /\ pc \in Leaving => pc' \in Leaving /\ UNCHANGED flash
           /\ pc' \in {"check", "copy"} => UNCHANGED <<pc, flash>>
<1> USE DEF input, chip, host, place, result, Goto, Leaving
<1>1. CASE Rejected \/ main \/ Open \/ Configure \/ ConfigureFails \/ NoFlash
  BY <1>1, WaysOut DEF Rejected, main, Open, Configure, ConfigureFails, NoFlash
<1>2. CASE StopCpu \/ Stopped \/ StopFails
  BY <1>2, WaysOut DEF StopCpu, Stopped, StopFails
<1>3. CASE CopyFails \/ CopyDone \/ QuitRun \/ RunCpu \/ QuitClose \/ Interrupted
  BY <1>3, WaysOut DEF CopyFails, CopyDone, QuitRun, RunCpu, QuitClose, Interrupted
<1>4. CASE CopyBlock
  <2>1. UNCHANGED <<opt, pc, flash>> /\ pc = "copy" /\ \E x : told' = [told EXCEPT !.file = x]
    BY <1>4 DEF CopyBlock
  <2>2. told'.clean = told.clean
    BY <2>1
  <2> QED
    BY <2>1, <2>2
<1>5. CASE Erase
  <2>1. /\ UNCHANGED <<opt, told>> /\ pc \in AtErase
        /\ pc' \in {"open", "quit", "block", "erase", "poll", "poll micron"}
    BY <1>5, WaysOut DEF Erase, NoErase, EraseNothing, PollErase, target_erase,
       target_erase_sector, MicronErase, MicronErased, MicronEraseTimeout, Erasing, AtErase
  <2> QED
    BY <2>1 DEF AtErase
<1>6. CASE Blocks
  <2>1. /\ UNCHANGED <<opt, told>> /\ pc \in AtBlock
        /\ pc' \in {"open", "quit", "ended"} \cup AtBlock
    BY <1>6, WaysOut DEF Blocks, StartBlock, WriteBlock, ProgramWord, ProgramPage, ProgramBuffer,
       EndBlock, MicronProgramTimeout, ReadBlock, VerifyMatch, VerifyFails, Rewrite, NextWord, AtBlock
  <2> QED
    BY <2>1 DEF AtBlock
<1>7. CASE UNCHANGED vars
  BY <1>7 DEF vars
<1> QED
  BY <1>1, <1>2, <1>3, <1>4, <1>5, <1>6, <1>7 DEF Next, mcprog

LEMMA OnlyProgram ==
    ASSUME CommandInv, left # <<>>, Commands = <<"program">> PROVE Cmd = "program"
<1> DEFINE p == <<"program">>
           c == <<"check">>
           e == <<"erase", "check">>
<1>1. p[1] = "program" /\ c[1] = "check" /\ Len(p) = 1 /\ Len(e) = 2 /\ Head(p) = "program"
  OBVIOUS
<1>2. left = p \/ (left = c /\ p \in {c, e})
  BY DEF CommandInv
<1> HIDE DEF p, c, e
<1>3. "program" # "check" /\ 1 # 2
  OBVIOUS
<1>4. p # c /\ p # e
  BY <1>1, <1>3
<1> QED
  BY <1>1, <1>2, <1>4 DEF Cmd

LEMMA CheckStep ==
    ASSUME IInv, Commands # <<"program">> => ChipInv, CheckInv, [Next]_vars
    PROVE  CheckInv'
<1>0. PlaceInv /\ CommandInv /\ flash \in FlashType
  BY DEF IInv, PlaceInv
<1>1. CASE check_clean
  <2>1. /\ pc = "check" /\ UNCHANGED <<opt, flash>> /\ Return("done")
        /\ told' = [told EXCEPT !.clean = IF Clean THEN "yes" ELSE "no"]
    BY <1>1 DEF check_clean, input, chip
  <2>2. left # <<>> /\ Cmd = "check"
    BY <1>0, <2>1 DEF CommandInv, Active, PCs, Leaving
  <2>3. Commands # <<"program">> /\ ~(Len(left) > 1)
    <3>1. Commands # <<"program">>
      BY <1>0, <2>2, OnlyProgram
    <3>2. ~(Len(left) > 1)
      BY <1>0, <2>2, LeftCases
    <3> QED
      BY <3>1, <3>2
  <2>4. pc' = "quit"
    BY <2>1, <2>3 DEF Return
  <2>5. flash.width = opt.width /\ flash.mode[0] = "read"
    BY <2>1, <2>3 DEF ChipInv, CheckInv
  <2>6. told'.clean = IF Clean THEN "yes" ELSE "no"
    BY <1>0, <2>1 DEF IInv, RestInv
  <2>7. CASE Clean
    <3>1. \A u \in Units : ReadUnit(flash, u) = Erased
      BY <2>7 DEF Clean
    <3>2. Status # Erased
      <4>1. "status" \notin Bits
        BY FlashAssumption
      <4> QED
        BY <4>1 DEF Status, Erased
    <3>3. \A u \in Units : flash.mem[u] = Erased
      BY <3>1, <3>2 DEF ReadUnit
    <3> QED
      BY <2>1, <2>4, <2>6, <2>7, <3>3 DEF CheckInv, Leaving
  <2>8. CASE ~Clean
    <3>1. PICK u \in Units : ReadUnit(flash, u) # Erased
      BY <2>8 DEF Clean
    <3>2. opt.width # 64 => flash.mem[u] # Erased
      BY <2>5, <3>1 DEF ReadUnit, HalfOf, Busy
    <3> QED
      BY <2>1, <2>4, <2>5, <2>6, <2>8, <3>2 DEF CheckInv, Leaving
  <2> QED
    BY <2>7, <2>8
<1>2. CASE Detect
  <2>1. /\ pc = "detect" /\ UNCHANGED <<opt, told>>
        /\ pc' \in {"open", "quit"} \/ (pc' = "erase")
           \/ (pc' = "check" /\ Cmd = "check") \/ (pc' = "copy" /\ Cmd = "read")
    BY <1>2, WaysOut DEF Detect, Goto, input
  <2>2. told.clean = "unknown"
    BY <2>1 DEF CheckInv, Leaving
  <2>3. pc' \in {"check", "copy"} => Commands # <<"program">>
    <3>1. left # <<>>
      BY <1>0, <2>1 DEF CommandInv, Active, PCs, Leaving
    <3> QED
      BY <1>0, <2>1, <3>1, OnlyProgram
  <2>4. pc' \in {"check", "copy"} => flash'.mode[0] = "read"
    BY <1>0, <1>2, <2>3, DetectReads
  <2> QED
    BY <2>1, <2>2, <2>4 DEF CheckInv
<1>3. ASSUME NEW h \in {0, 1}, OperationDone(h) PROVE CheckInv'
  <2> DEFINE done == flash.erasing \cap InHalf(flash, h)
             m == IF flash.kind = "micron" THEN "status" ELSE "read"
             mem == [u \in Units |-> IF u \in done THEN Erased ELSE flash.mem[u]]
  <2>1. /\ flash.mode[h] \in Busy /\ UNCHANGED <<pc, opt, told>>
        /\ flash' = [flash EXCEPT !.mode[h] = m, !.erasing = @ \ done, !.mem = mem]
    BY <1>3 DEF OperationDone, OperationEnds, input, result
  <2>2. \A u \in Units : mem[u] = flash.mem[u] \/ mem[u] = Erased
    OBVIOUS
  <2>3. flash.width # 64 /\ h = 1 => \A u \in Units : mem[u] = flash.mem[u]
    BY DEF InHalf, HalfOf
  <2>4. flash.mode[0] = "read" => h = 1
    BY <2>1 DEF Busy
  <2> HIDE DEF mem, done, m
  <2>5. /\ flash'.mem = mem /\ flash'.width = flash.width
        /\ h = 1 => flash'.mode[0] = flash.mode[0]
    BY <1>0, <2>1 DEF FlashType
  <2> QED
    BY <2>1, <2>2, <2>3, <2>4, <2>5 DEF CheckInv
<1>4. CASE ~Detect /\ ~check_clean /\ ~\E h \in {0, 1} : OperationDone(h)
  <2>1. /\ UNCHANGED opt /\ told'.clean = told.clean
        /\ pc \in Leaving => pc' \in Leaving /\ UNCHANGED flash
        /\ pc' \in {"check", "copy"} => UNCHANGED <<pc, flash>>
    BY <1>4, OtherSteps
  <2> QED
    BY <2>1 DEF CheckInv
<1> QED
  BY <1>1, <1>2, <1>3, <1>4

(* The first n units of the memory read. *)
Prefix(n) == [i \in 1 .. n |-> flash.mem[Base + i - 1]]
Copied == IF first * K < memory.len THEN first * K ELSE memory.len

(* While do_read runs nothing is written to the flash. *)
CopyInv ==
    Commands = <<"read">> =>
        /\ flash.mode[1] = "read"
        /\ pc \notin {"copy"} \cup Leaving => first = 0 /\ told.file = <<>>
        /\ pc \notin Leaving => outcome # "done"
        /\ pc = "copy" => told.file = Prefix(Copied)
        /\ outcome = "done" => told.file = Prefix(memory.len)

LEMMA Joined ==
    ASSUME NEW S, NEW a \in Nat, NEW b \in Nat, NEW g, \A i \in 1 .. a + b : g[i] \in S
    PROVE  [i \in 1 .. a |-> g[i]] \o [i \in 1 .. b |-> g[a + i]] = [i \in 1 .. a + b |-> g[i]]
<1> DEFINE x == [i \in 1 .. a |-> g[i]]
           y == [i \in 1 .. b |-> g[a + i]]
           z == [i \in 1 .. a + b |-> g[i]]
<1>1. x \in Seq(S) /\ Len(x) = a /\ y \in Seq(S) /\ Len(y) = b
  OBVIOUS
<1>2. z \in Seq(S) /\ Len(z) = a + b
  OBVIOUS
<1>3. \A i \in 1 .. a : x[i] = g[i]
  OBVIOUS
<1>4. \A i \in 1 .. b : y[i] = g[a + i]
  OBVIOUS
<1>5. \A i \in 1 .. a + b : z[i] = g[i]
  OBVIOUS
<1> HIDE DEF x, y, z
<1>6. x \o y \in Seq(S) /\ Len(x \o y) = a + b
  BY <1>1
<1>7. ASSUME NEW i \in 1 .. a + b PROVE (x \o y)[i] = z[i]
  <2>1. CASE i <= a
    BY <1>1, <1>3, <1>5, <2>1
  <2>2. CASE i > a
    <3>1. i - a \in 1 .. b /\ a + (i - a) = i
      BY <2>2
    <3>2. (x \o y)[i] = y[i - a]
      BY <1>1, <2>2
    <3>3. y[i - a] = g[i]
      BY <1>4, <3>1
    <3> QED
      BY <1>5, <3>2, <3>3
  <2>3. i <= a \/ i > a
    OBVIOUS
  <2> QED
    BY <2>1, <2>2, <2>3, Zenon
<1> QED
  BY <1>2, <1>6, <1>7

(* While do_read runs. *)
LEMMA Reading ==
    ASSUME CommandInv, Commands = <<"read">>
    PROVE  /\ pc \notin AtErase \cup AtBlock \cup {"check"}
           /\ left # <<>> => Cmd = "read" /\ ~(Len(left) > 1)
<1> DEFINE r == <<"read">>
           c == <<"check">>
           e == <<"erase", "check">>
<1>1. r[1] = "read" /\ c[1] = "check" /\ Len(r) = 1 /\ Len(e) = 2 /\ Head(r) = "read"
  OBVIOUS
<1>2. left \in {<<>>, r} \/ (left = c /\ r \in {c, e})
  BY DEF CommandInv
<1> HIDE DEF r, c, e
<1>3. "read" # "check" /\ 1 # 2
  OBVIOUS
<1>4. r # c /\ r # e
  BY <1>1, <1>3
<1>5. left # <<>> => Cmd = "read" /\ ~(Len(left) > 1)
  BY <1>1, <1>2, <1>4 DEF Cmd
<1>6. pc \in Active => Cmd = "read"
  BY <1>5 DEF CommandInv
<1> QED
  BY <1>5, <1>6 DEF CommandInv, AtErase, AtBlock, Active, PCs, Leaving

(* The units of a block that are read are those that follow. *)
LEMMA BlockCopied ==
    ASSUME PlaceInv, flash \in FlashType, flash.width = opt.width,
           flash.mode[0] = "read", flash.mode[1] = "read",
           CopyBlock, told = [clean |-> told.clean, file |-> told.file],
           told.file = Prefix(Copied)
    PROVE  told'.file = Prefix(Copied)'
<1> DEFINE a == first * K
           l == memory.len
           n == (first + BLOCKSZ) * K
           b == IF n < l THEN n ELSE l
           c == b - a
           g == [i \in Nat |-> flash.mem[Base + i - 1]]
           S == {flash.mem[Base + i - 1] : i \in Nat}
<1>1. /\ K \in {1, 2} /\ Words \in Nat /\ Words * K < l + K /\ first \in Nat /\ l \in Nat
      /\ BLOCKSZ \in Nat \ {0} /\ first < Words /\ Base \in Int
  <2>1. opt \in CommandLines /\ l \in Nat /\ first \in Nat /\ memory.base \in Nat
    BY DEF PlaceInv, CommandInv, NumberInv
  <2>2. opt.region \in Nat
    BY <2>1, KindsOf
  <2>3. first < Words
    BY DEF CopyBlock
  <2>4. Base \in Int
    BY <2>1, <2>2 DEF Base
  <2> HIDE DEF l
  <2> QED
    BY <2>1, <2>3, <2>4, WordsTyped, ProgrammerAssumption DEF l
<1>2. a \in Nat /\ n \in Nat /\ a < l /\ a < b /\ b \in Nat /\ c \in Nat /\ a + c = b
  <2> HIDE DEF l
  <2>1. CASE K = 1
    BY <1>1, <2>1
  <2>2. CASE K = 2
    BY <1>1, <2>2
  <2> QED
    BY <1>1, <2>1, <2>2
<1>3. Cardinality(CopiedUnits) = c
  <2>1. CopiedUnits = a .. b - 1
    BY DEF CopiedUnits
  <2>2. a \in Int /\ b - 1 \in Int /\ (b - 1) - a + 1 = c /\ a <= b - 1
    <3> HIDE DEF a, b
    <3> QED
      BY <1>2
  <2> HIDE DEF a, b, c
  <2> QED
    BY <2>1, <2>2, FS_Interval
<1>4. \A u \in Int : ReadUnit(flash, u) = flash.mem[u]
  <2>1. \A u \in Int : HalfOf(flash.width, u) \in {0, 1}
    BY DEF HalfOf
  <2> QED
    BY <2>1 DEF ReadUnit, Busy
<1> HIDE DEF a, b, c, n, l
<1>5. told'.file = told.file \o [i \in 1 .. c |-> ReadUnit(flash, Base + a + i - 1)]
  BY <1>3 DEF CopyBlock, a
<1>6. told.file = [i \in 1 .. a |-> g[i]]
  <2>1. Copied = a
    BY <1>2 DEF Copied, a, l
  <2>2. \A i \in 1 .. a : g[i] = flash.mem[Base + i - 1]
    BY <1>2
  <2> HIDE DEF g
  <2> QED
    BY <2>1, <2>2 DEF Prefix
<1>7. told'.file = told.file \o [i \in 1 .. c |-> g[a + i]]
  <2>1. \A i \in 1 .. c : ReadUnit(flash, Base + a + i - 1) = g[a + i]
    <3> TAKE i \in 1 .. c
    <3>1. Base + a + i - 1 \in Int /\ a + i \in Nat /\ Base + a + i - 1 = Base + (a + i) - 1
      BY <1>1, <1>2
    <3>2. g[a + i] = flash.mem[Base + (a + i) - 1]
      BY <3>1
    <3> HIDE DEF g
    <3> QED
      BY <1>4, <3>1, <3>2
  <2> HIDE DEF g
  <2> QED
    BY <1>5, <2>1
<1>8. told'.file = [i \in 1 .. b |-> g[i]]
  <2>1. \A i \in 1 .. a + c : g[i] \in S
    BY <1>2
  <2> HIDE DEF g, S
  <2> QED
    BY <1>2, <1>6, <1>7, <2>1, Joined, SMTT(60)
<1>9. Prefix(Copied)' = [i \in 1 .. b |-> g[i]]
  <2>1. Copied' = b /\ Base' = Base /\ flash' = flash
    BY DEF CopyBlock, Copied, K, Base, a, b, n, l, input, chip
  <2>2. \A i \in 1 .. b : g[i] = flash.mem[Base + i - 1]
    BY <1>2
  <2> HIDE DEF g
  <2> QED
    BY <2>1, <2>2 DEF Prefix
<1> QED
  BY <1>8, <1>9

(* When do_read ends. *)
LEMMA AllCopied ==
    ASSUME CommandInv, NumberInv, first >= Words PROVE Copied = memory.len
<1> DEFINE l == memory.len
<1>1. /\ K \in {1, 2} /\ Words \in Nat /\ l <= Words * K /\ l \in Nat /\ first \in Nat
  BY WordsTyped DEF CommandInv, NumberInv
<1> HIDE DEF l
<1>2. ~(first * K < l)
  <2>1. CASE K = 1
    BY <1>1, <2>1
  <2>2. CASE K = 2
    BY <1>1, <2>2
  <2> QED
    BY <1>1, <2>1, <2>2
<1> QED
  BY <1>2 DEF Copied, l

LEMMA CopyStep ==
    ASSUME IInv, Commands # <<"program">> => ChipInv, CheckInv, CopyInv, [Next]_vars
    PROVE  CopyInv'
<1>0. PlaceInv /\ CommandInv /\ NumberInv /\ flash \in FlashType /\ UNCHANGED opt
  <2>1. UNCHANGED opt
    <3>1. CASE Detect \/ check_clean \/ \E h \in {0, 1} : OperationDone(h)
      BY <3>1 DEF Detect, check_clean, OperationDone, input
    <3> QED
      BY <3>1, OtherSteps
  <2> QED
    BY <2>1 DEF IInv, PlaceInv
<1> SUFFICES ASSUME Commands = <<"read">> PROVE CopyInv'
  <2>1. Commands' = Commands
    BY <1>0 DEF Commands
  <2> QED
    BY <2>1 DEF CopyInv
<1>a. /\ flash.mode[1] = "read"
      /\ pc \notin {"copy"} \cup Leaving => first = 0 /\ told.file = <<>>
      /\ pc \notin Leaving => outcome # "done"
      /\ pc = "copy" => told.file = Prefix(Copied)
      /\ outcome = "done" => told.file = Prefix(memory.len)
  BY DEF CopyInv
<1>b. /\ pc \notin AtErase \cup AtBlock \cup {"check"}
      /\ left # <<>> => Cmd = "read" /\ ~(Len(left) > 1)
  BY <1>0, Reading
<1>c. ChipInv /\ flash.erasing = {} /\ flash.width = opt.width
  <2> DEFINE r == <<"read">>
             p == <<"program">>
             n == <<>>
  <2>1. r[1] = "read" /\ p[1] = "program" /\ Len(r) = 1 /\ Len(n) = 0
    OBVIOUS
  <2> HIDE DEF r, p, n
  <2>2. r # p /\ r[1] # "erase" /\ r # n
    BY <2>1
  <2>3. Commands = r
    BY DEF r
  <2>4. Commands # p /\ Commands # n /\ Commands[1] # "erase"
    BY <2>2, <2>3
  <2>5. Licence = {}
    BY <2>4 DEF Licence, p, n
  <2>6. ChipInv
    BY <2>4 DEF p
  <2> QED
    BY <2>5, <2>6 DEF ChipInv
<1> USE DEF input, chip, host, place, result, Goto, Leaving
<1>1. CASE Rejected \/ ConfigureFails \/ NoFlash \/ CopyFails
  <2>1. /\ pc' \in {"open", "quit", "ended"} /\ outcome' = "failed"
        /\ UNCHANGED <<flash, told, first>>
        /\ pc' = "open" => pc = "detect"
    BY <1>1, WaysOut DEF Rejected, ConfigureFails, NoFlash, CopyFails
  <2> QED
    BY <1>a, <2>1 DEF CopyInv
<1>2. CASE main
  BY <1>2, <1>a DEF main, CopyInv
<1>3. CASE Open \/ StopCpu \/ Stopped \/ StopFails
  <2>1. /\ pc' \in {"stop", "stopping", "configure", "quit", "ended"}
        /\ UNCHANGED <<flash, told, first>> /\ pc \in {"open", "stop", "stopping"}
        /\ outcome' = "failed" \/ UNCHANGED outcome
    BY <1>3, WaysOut DEF Open, StopCpu, Stopped, StopFails
  <2> QED
    BY <1>a, <2>1 DEF CopyInv
<1>4. CASE Configure
  <2>1. pc = "configure" /\ left # <<>>
    BY <1>0, <1>4 DEF Configure, CommandInv, Active, PCs
  <2>2. pc' = "detect" /\ UNCHANGED <<flash, told, first, outcome>>
    BY <1>4, <1>b, <2>1 DEF Configure
  <2> QED
    BY <1>a, <2>1, <2>2 DEF CopyInv
<1>5. CASE Detect
  <2>1. pc = "detect" /\ left # <<>>
    BY <1>0, <1>5 DEF Detect, CommandInv, Active, PCs
  <2>2. pc' = "copy" /\ UNCHANGED <<told, first, outcome, opt, memory>>
    BY <1>5, <1>b, <2>1 DEF Detect
  <2>3. flash'.mode[1] = "read"
    BY <1>0, <1>5, <1>a, <1>c, DetectReads
  <2>4. first = 0 /\ told.file = <<>> /\ outcome # "done"
    BY <1>a, <2>1
  <2>5. Prefix(Copied)' = <<>>
    <3>1. Copied' = 0
      <4>1. K \in {1, 2} /\ memory.len \in Nat
        BY <1>0, WordsTyped DEF CommandInv, NumberInv
      <4>2. Copied = 0
        BY <2>4, <4>1 DEF Copied
      <4> QED
        BY <2>2, <4>2 DEF Copied, K
    <3> QED
      BY <3>1 DEF Prefix
  <2> QED
    BY <2>2, <2>3, <2>4, <2>5 DEF CopyInv
<1>6. CASE CopyBlock
  <2>1. pc = "copy" /\ UNCHANGED <<pc, flash, outcome>>
    BY <1>6 DEF CopyBlock
  <2>2. flash.mode[0] = "read" /\ told = [clean |-> told.clean, file |-> told.file]
    BY <2>1 DEF CheckInv, IInv, RestInv
  <2>3. told'.file = Prefix(Copied)'
    BY <1>0, <1>6, <1>a, <1>c, <2>1, <2>2, BlockCopied
  <2> QED
    BY <1>a, <2>1, <2>3 DEF CopyInv
<1>7. CASE CopyDone
  <2>1. /\ pc = "copy" /\ first >= Words /\ UNCHANGED <<flash, told, opt, memory>>
        /\ Return("done")
    BY <1>7 DEF CopyDone
  <2>2. left # <<>>
    BY <1>0, <2>1 DEF CommandInv, Active, PCs
  <2>3. pc' = "quit"
    BY <1>b, <2>1, <2>2 DEF Return
  <2>4. told.file = Prefix(memory.len)
    BY <1>0, <1>a, <2>1, AllCopied
  <2>5. Prefix(memory.len)' = Prefix(memory.len)
    BY <2>1 DEF Prefix, Base
  <2> QED
    BY <1>a, <2>1, <2>3, <2>4, <2>5 DEF CopyInv
<1>8. CASE QuitRun \/ RunCpu \/ QuitClose \/ Interrupted
  <2>1. /\ pc' \in Leaving /\ UNCHANGED <<flash, told, opt, memory>>
        /\ UNCHANGED outcome \/ outcome' = "interrupted"
    BY <1>8 DEF QuitRun, RunCpu, QuitClose, Interrupted
  <2>2. Prefix(memory.len)' = Prefix(memory.len)
    BY <2>1 DEF Prefix, Base
  <2> QED
    BY <1>a, <2>1, <2>2 DEF CopyInv
<1>9. ASSUME NEW h \in {0, 1}, OperationDone(h) PROVE CopyInv'
  <2> DEFINE m == IF flash.kind = "micron" THEN "status" ELSE "read"
             mem == [u \in Units |-> IF u \in {} THEN Erased ELSE flash.mem[u]]
  <2>1. /\ flash.mode[h] \in Busy /\ UNCHANGED <<pc, opt, memory, told, first, outcome>>
    BY <1>9 DEF OperationDone
  <2>2. h = 0
    BY <1>a, <2>1 DEF Busy
  <2>3. pc # "copy"
    BY <2>1, <2>2 DEF CheckInv, Busy
  <2>4. flash' = [flash EXCEPT !.mode[h] = m, !.erasing = @ \ {}, !.mem = mem]
    <3>1. flash.erasing \cap InHalf(flash, h) = {}
      BY <1>c
    <3> QED
      BY <1>9, <3>1 DEF OperationDone, OperationEnds
  <2>5. mem = flash.mem
    BY <1>0 DEF FlashType
  <2> HIDE DEF m, mem
  <2>6. flash'.mem = flash.mem /\ flash'.mode[1] = flash.mode[1]
    BY <1>0, <2>2, <2>4, <2>5 DEF FlashType
  <2>7. Prefix(memory.len)' = Prefix(memory.len)
    BY <2>1, <2>6 DEF Prefix, Base
  <2> QED
    BY <1>a, <2>1, <2>3, <2>6, <2>7 DEF CopyInv
<1>10. CASE UNCHANGED vars
  <2>1. UNCHANGED <<pc, flash, told, opt, memory, first, outcome>>
    BY <1>10 DEF vars
  <2>2. Prefix(memory.len)' = Prefix(memory.len) /\ Prefix(Copied)' = Prefix(Copied)
    BY <2>1 DEF Prefix, Base, Copied, K
  <2> QED
    BY <1>a, <2>1, <2>2 DEF CopyInv
<1>11. ~Erase /\ ~Blocks /\ ~check_clean
  BY <1>b DEF check_clean, Erase, NoErase, EraseNothing, PollErase, target_erase,
       target_erase_sector, MicronErase, MicronErased, MicronEraseTimeout, Erasing, AtErase,
       Blocks, StartBlock, WriteBlock, ProgramWord, ProgramPage, ProgramBuffer,
       EndBlock, MicronProgramTimeout, ReadBlock, VerifyMatch, VerifyFails, Rewrite, AtBlock
<1> QED
  BY <1>1, <1>2, <1>3, <1>4, <1>5, <1>6, <1>7, <1>8, <1>9, <1>10, <1>11 DEF Next, mcprog

(* Of a run that programs no file the chip is known without WellPlaced. *)
ReportInv == (Commands # <<"program">> => ChipInv) /\ CheckInv /\ CopyInv

LEMMA ReportInit == Init => ReportInv
<1> SUFFICES ASSUME Init PROVE ReportInv
  OBVIOUS
<1>1. /\ pc = "main" /\ told = [clean |-> "unknown", file |-> <<>>] /\ first = 0
      /\ outcome = "none" /\ flash = Fresh(opt.kind, opt.width, opt.was)
  BY DEF Init
<1>2. flash.mode[1] = "read"
  BY <1>1 DEF Fresh
<1>3. CheckInv /\ CopyInv
  BY <1>1, <1>2 DEF CheckInv, CopyInv, Leaving
<1> QED
  BY <1>3, ChipInit DEF ReportInv

LEMMA ReportStep == IInv /\ ReportInv /\ [Next]_vars => ReportInv'
<1> SUFFICES ASSUME IInv, ReportInv, [Next]_vars PROVE ReportInv'
  OBVIOUS
<1>1. /\ Commands # <<"program">> => ChipInv
      /\ CheckInv /\ CopyInv
  BY DEF ReportInv
<1>2. UNCHANGED opt
  <2>1. CASE Detect \/ check_clean \/ \E h \in {0, 1} : OperationDone(h)
    BY <2>1 DEF Detect, check_clean, OperationDone, input
  <2> QED
    BY <2>1, OtherSteps
<1>3. Commands' = Commands
  BY <1>2 DEF Commands
<1>4. Commands # <<"program">> => ChipInv'
  <2>1. Commands # <<"program">> => WellPlaced
    BY DEF WellPlaced
  <2>2. PlaceInv
    BY DEF IInv
  <2> QED
    BY <1>1, <2>1, <2>2, ChipStep
<1>5. CheckInv' /\ CopyInv'
  BY <1>1, CheckStep, CopyStep
<1> QED
  BY <1>3, <1>4, <1>5 DEF ReportInv

(* What do_read copies into a file is what the flash holds; a flash that do_check
   or do_erase with -c calls clean is clean, and one that it does not is not,
   unless the high half of a 64-bit bus still erases: for every flash, address and
   length, and whatever the state of an erase that nobody waits for. *)
THEOREM ReportsTrue == Spec => []ReportsAreTrue
<1>1. Init => IInv /\ ReportInv
  BY IInvInit, ReportInit
<1>2. IInv /\ ReportInv /\ [Next]_vars => IInv' /\ ReportInv'
  BY IInvStep, ReportStep
<1>3. ReportInv => ReportsAreTrue
  BY DEF ReportInv, CheckInv, CopyInv, Prefix, ReportsAreTrue
<1> QED
  BY <1>1, <1>2, <1>3, PTL DEF Spec

-----------------------------------------------------------------------------
(* What the readers make of a file.  At each line a reader of the file's own
   format holds what the records before it mean. *)
LEMMA MinOfSet ==
    ASSUME NEW S \in SUBSET Nat, S # {}
    PROVE  Min(S) \in S /\ \A i \in S : Min(S) <= i
<1> DEFINE R == OpToRel(<, Nat)
<1>1. IsWellFoundedOn(R, Nat)
  BY NatLessThanWellFounded, Zenon DEF R
<1>2. \A x, y \in Nat : x < y => <<x, y>> \in R
  BY DEF OpToRel
<1> HIDE DEF R
<1>3. PICK m \in S : \A y \in S : ~(<<y, m>> \in R)
  BY <1>1, WFMin
<1>4. ASSUME NEW y \in S PROVE m <= y
  <2>1. m \in Nat /\ y \in Nat /\ ~(<<y, m>> \in R)
    BY <1>3
  <2>2. ~(y < m)
    BY <1>2, <2>1
  <2> QED
    BY <2>1, <2>2
<1> QED
  BY <1>4, Zenon DEF Min

LEMMA LineTyped ==
    ASSUME NEW file, IsFile(file), NEW i \in DOMAIN file.lines
    PROVE  /\ i \in Nat \ {0} /\ Len(file.lines) \in Nat /\ i <= Len(file.lines)
           /\ 1 \in DOMAIN file.lines /\ \A j \in 1 .. i : j \in DOMAIN file.lines
           /\ IsLine(file.lines[i])
  BY DEF IsFile

LEMMA AddressTyped ==
    ASSUME NEW file, IsFile(file), NEW i \in DOMAIN file.lines
    PROVE  AddressOf(file, i) \in Nat
<1> DEFINE highs == {j \in 1 .. i - 1 : file.lines[j].fmt = ":" /\ file.lines[j].type = "high"}
<1>1. file.lines[i].at \in Nat /\ Segment \in Nat
  BY LineTyped, ImageAssumption DEF IsLine
<1>2. CASE highs = {}
  BY <1>1, <1>2 DEF AddressOf
<1>3. CASE highs # {}
  <2>1. i - 1 \in Nat /\ \A j \in 1 .. i - 1 : j \in DOMAIN file.lines
    BY LineTyped
  <2>2. Max(highs) \in highs
    BY <1>3, <2>1, MaxOfSet
  <2>3. file.lines[Max(highs)].data[1] \in Nat
    <3>1. Max(highs) \in DOMAIN file.lines /\ file.lines[Max(highs)].type = "high"
      BY <2>1, <2>2
    <3> HIDE DEF highs
    <3> QED
      BY <3>1, LineTyped DEF IsLine
  <2>4. AddressOf(file, i) = file.lines[i].at + Segment * file.lines[Max(highs)].data[1]
    BY <1>3 DEF AddressOf
  <2> DEFINE d == file.lines[Max(highs)].data[1]
  <2> HIDE DEF highs
  <2>5. Segment * d \in Nat
    BY <1>1, <2>3
  <2> QED
    BY <1>1, <2>4, <2>5
<1> QED
  BY <1>2, <1>3

(* The records up to line k, and what a reader holds of them. *)
Records(file, k) == {j \in DataLines(file) : j <= k}

Holds(file, s, k) ==
    /\ Records(file, k) = {} => s.len = 0
    /\ \A j \in Records(file, k) :
          /\ s.base = 0 => AddressOf(file, j) = 0
          /\ s.base <= AddressOf(file, j)
          /\ AddressOf(file, j) + Len(file.lines[j].data) <= s.base + s.len
          /\ \A a \in Int :
                Covers(file, j, a) /\ (\A i \in Records(file, k) : i > j => ~Covers(file, i, a)) =>
                   s.data[a - s.base] = file.lines[j].data[a - AddressOf(file, j) + 1]

LEMMA RecordTyped ==
    ASSUME NEW file, IsFile(file), NEW j \in DataLines(file)
    PROVE  /\ j \in DOMAIN file.lines /\ j \in Nat \ {0} /\ AddressOf(file, j) \in Nat
           /\ file.lines[j].data \in Seq(SUBSET Bits) /\ Len(file.lines[j].data) \in Nat
<1>1. j \in DOMAIN file.lines /\ file.lines[j].type = "data"
  BY DEF DataLines
<1>2. j \in Nat \ {0} /\ AddressOf(file, j) \in Nat /\ IsLine(file.lines[j])
  BY <1>1, AddressTyped, LineTyped
<1>3. file.lines[j].data \in Seq(SUBSET Bits)
  BY <1>1, <1>2 DEF IsLine
<1> QED
  BY <1>1, <1>2, <1>3

(* While memory_base is not known no record has been stored, but for a file
   that begins at address 0. *)
LEMMA BaseKnown ==
    ASSUME NEW file, IsFile(file), ~BeginsAtZero(file), NEW k \in Nat, k + 1 \in DataLines(file),
           NEW s, Holds(file, s, k), s.base = 0
    PROVE  Records(file, k) = {}
<1> SUFFICES ASSUME NEW j \in Records(file, k) PROVE FALSE
  OBVIOUS
<1> DEFINE D == DataLines(file)
           m == Min(D)
<1>1. \A i \in D : i \in Nat /\ i \in DOMAIN file.lines
  BY RecordTyped
<1>2. j \in D /\ j <= k /\ j # k + 1 /\ k + 1 \in D
  BY <1>1 DEF Records
<1> HIDE DEF D
<1>3. m \in D /\ m <= j
  <2>1. D \in SUBSET Nat /\ D # {}
    BY <1>1, <1>2
  <2> QED
    BY <1>2, <2>1, MinOfSet
<1>4. m <= k
  BY <1>1, <1>2, <1>3
<1>5. AddressOf(file, m) = 0
  BY <1>3, <1>4 DEF Holds, Records, D
<1>6. Cardinality(D) > 1
  <2>1. IsFiniteSet(D)
    <3>1. IsFiniteSet(1 .. Len(file.lines)) /\ D \subseteq 1 .. Len(file.lines)
      <4> DEFINE n == Len(file.lines)
      <4>1. n \in Nat /\ DOMAIN file.lines = 1 .. n
        BY DEF IsFile
      <4> HIDE DEF n
      <4>2. IsFiniteSet(1 .. n)
        BY <4>1, FS_Interval
      <4>3. D \subseteq 1 .. n
        BY <1>1, <4>1
      <4> QED
        BY <4>2, <4>3 DEF n
    <3> QED
      BY <3>1, FS_Subset
  <2>2. Cardinality({j, k + 1}) = 2
    <3>1. Cardinality({j}) = 1 /\ IsFiniteSet({j}) /\ k + 1 \notin {j}
      BY <1>2, FS_Singleton
    <3>2. Cardinality({j} \cup {k + 1}) = Cardinality({j}) + 1
      BY <3>1, FS_AddElement
    <3>3. {j} \cup {k + 1} = {j, k + 1}
      OBVIOUS
    <3> QED
      BY <3>1, <3>2, <3>3
  <2>3. {j, k + 1} \subseteq D
    BY <1>2
  <2>4. Cardinality({j, k + 1}) <= Cardinality(D) /\ Cardinality(D) \in Nat
    BY <2>1, <2>3, FS_Subset, FS_CardinalityType
  <2> QED
    BY <2>2, <2>4
<1> QED
  BY <1>5, <1>6 DEF BeginsAtZero, D

(* A data record is stored over those before it. *)
LEMMA StoreHolds ==
    ASSUME NEW file, IsFile(file), ~BeginsAtZero(file), NEW k \in Nat, k + 1 \in DataLines(file),
           NEW s \in ReaderType, Holds(file, s, k), NEW t,
           t = Store(s, AddressOf(file, k + 1), file.lines[k + 1].data),
           s.status # "exit", t.status # "exit"
    PROVE  Holds(file, t, k + 1)
<1> DEFINE m == k + 1
           address == AddressOf(file, m)
           data == file.lines[m].data
           base == IF s.base = 0 THEN address ELSE s.base
           from == address - base
           last == from + Len(data)
           len == IF s.len < last THEN last ELSE s.len
           d == [i \in DOMAIN s.data |->
                    IF i \in from .. last - 1 THEN data[i - from + 1] ELSE s.data[i]]
<1>1. /\ address \in Nat /\ data \in Seq(SUBSET Bits) /\ Len(data) \in Nat
      /\ m \in Nat /\ m > k
  BY RecordTyped
<1>2. /\ s.base \in Nat /\ s.len \in 0 .. MaxImage /\ DOMAIN s.data = 0 .. MaxImage - 1
      /\ MaxImage \in Nat
  BY ImageAssumption DEF ReaderType
<1>3. base \in Nat /\ from \in Int /\ last \in Int /\ last = from + Len(data) /\ address = base + from
  BY <1>1, <1>2
<1>4. from >= 0 /\ last <= MaxImage /\ t = [s EXCEPT !.base = base, !.len = len, !.data = d]
  <2>1. CASE from < 0 \/ last > MaxImage
    <3>1. t = Exits(s)
      BY <2>1 DEF Store
    <3>2. t.status = "exit"
      BY <3>1 DEF Exits, ReaderType
    <3> QED
      BY <3>2
  <2>2. CASE ~(from < 0 \/ last > MaxImage)
    <3>1. t = [s EXCEPT !.base = base, !.len = len, !.data = d]
      BY <2>2 DEF Store
    <3> HIDE DEF from, last, len, d, base
    <3>2. from >= 0 /\ last <= MaxImage
      <4>1. from \in Int /\ last \in Int /\ MaxImage \in Int
        BY <1>2, <1>3
      <4> QED
        BY <2>2, <4>1
    <3> QED
      BY <3>1, <3>2, Zenon
  <2> QED
    BY <2>1, <2>2
<1>5. t.base = base /\ t.len = len /\ t.data = d
  <2> HIDE DEF base, len, d
  <2> QED
    BY <1>4 DEF ReaderType
<1>6. len \in Nat /\ len >= last /\ len >= s.len
  <2>1. last \in Int
    BY <1>3
  <2> HIDE DEF last
  <2> QED
    BY <1>2, <2>1
<1>7. s.base = 0 => Records(file, k) = {}
  BY BaseKnown
<1>8. \A j \in Records(file, m) : j = m \/ j \in Records(file, k)
  BY RecordTyped DEF Records
<1>9. Records(file, k) \subseteq Records(file, m) /\ m \in Records(file, m)
  BY RecordTyped DEF Records
<1> DEFINE P(j) ==
        /\ base = 0 => AddressOf(file, j) = 0
        /\ base <= AddressOf(file, j)
        /\ AddressOf(file, j) + Len(file.lines[j].data) <= base + len
        /\ \A a \in Int :
              Covers(file, j, a) /\ (\A i \in Records(file, m) : i > j => ~Covers(file, i, a)) =>
                 d[a - base] = file.lines[j].data[a - AddressOf(file, j) + 1]
<1>14. from >= 0 /\ last <= MaxImage
  BY <1>4
<1>10. P(m)
  <2>1. base = 0 => address = 0
    BY <1>2
  <2>2. base <= address /\ address + Len(data) <= base + len
    <3> HIDE DEF base, from, last, len, address, data
    <3> QED
      BY <1>1, <1>3, <1>4, <1>6
  <2>3. ASSUME NEW a \in Int, Covers(file, m, a)
        PROVE  d[a - base] = data[a - address + 1]
    <3> DEFINE i == a - base
    <3>1. a - address \in 0 .. Len(data) - 1
      BY <2>3 DEF Covers
    <3>2. i \in from .. last - 1 /\ i \in 0 .. MaxImage - 1 /\ i - from + 1 = a - address + 1
      <4>1. address + Len(data) = base + last
        <5> HIDE DEF base, from, last, address, data
        <5> QED
          BY <1>1, <1>3
      <4> HIDE DEF base, from, last, len, address, data
      <4>2. i >= from /\ i <= last - 1
        BY <1>1, <1>3, <3>1, <4>1
      <4>3. i - from + 1 = a - address + 1
        BY <1>1, <1>3
      <4>4. i \in Int
        BY <1>3
      <4> HIDE DEF i
      <4> QED
        BY <1>2, <1>3, <1>14, <4>2, <4>3, <4>4
    <3>3. d[i] = data[i - from + 1]
      <4>1. i \in DOMAIN s.data
        BY <1>2, <3>2
      <4> HIDE DEF base, from, last, len, address, data, i
      <4> QED
        BY <3>2, <4>1, Zenon
    <3> HIDE DEF base, from, last, len, address, data, d
    <3> QED
      BY <3>2, <3>3
  <2> HIDE DEF base, from, last, len, d
  <2> QED
    BY <2>1, <2>2, <2>3
<1>11. ASSUME NEW j \in Records(file, k) PROVE P(j)
  <2> DEFINE x == AddressOf(file, j)
             c == file.lines[j].data
  <2>1. s.base # 0 /\ base = s.base
    BY <1>7
  <2>2. x \in Nat /\ Len(c) \in Nat /\ j <= k /\ j \in Nat
    BY RecordTyped DEF Records
  <2>3. /\ s.base <= x /\ x + Len(c) <= s.base + s.len
        /\ \A a \in Int :
              Covers(file, j, a) /\ (\A i \in Records(file, k) : i > j => ~Covers(file, i, a)) =>
                 s.data[a - s.base] = c[a - x + 1]
    BY DEF Holds
  <2>4. x + Len(c) <= base + len
    <3> DEFINE n == s.len
               l == Len(c)
    <3>1. /\ base \in Nat /\ x \in Nat /\ l \in Nat /\ n \in Nat /\ len \in Nat
          /\ n <= len /\ x + l <= base + n
      BY <1>2, <1>3, <1>6, <2>1, <2>2, <2>3
    <3> HIDE DEF base, len, x, n, l
    <3>2. x + l <= base + len
      BY <3>1
    <3> QED
      BY <3>2 DEF l
  <2>5. ASSUME NEW a \in Int, Covers(file, j, a),
               \A i \in Records(file, m) : i > j => ~Covers(file, i, a)
        PROVE  d[a - base] = c[a - x + 1]
    <3> DEFINE i == a - base
    <3>1. s.data[i] = c[a - x + 1]
      BY <1>9, <2>1, <2>3, <2>5
    <3>2. ~Covers(file, m, a)
      <4>1. m > j
        BY <1>1, <2>2
      <4> QED
        BY <1>9, <2>5, <4>1
    <3>3. i \notin from .. last - 1
      <4>1. ~(a - address \in 0 .. Len(data) - 1)
        BY <3>2 DEF Covers
      <4> HIDE DEF base, from, last, address, data
      <4> QED
        BY <1>1, <1>3, <4>1
    <3>4. i \in 0 .. MaxImage - 1
      <4> DEFINE b == s.base
                 n == s.len
                 l == Len(c)
      <4>1. a - x \in 0 .. l - 1
        BY <2>5 DEF Covers
      <4>2. b <= x /\ x + l <= b + n
        BY <2>3
      <4>3. b \in Nat /\ n \in 0 .. MaxImage /\ MaxImage \in Nat /\ x \in Nat /\ l \in Nat
        BY <1>2, <2>2
      <4>4. i = a - b
        BY <2>1
      <4> HIDE DEF base, x, c, b, n, l, i
      <4>5. a - x >= 0 /\ a - x <= l - 1
        BY <4>1, <4>3
      <4>6. a - b >= 0 /\ a - b <= n - 1 /\ a - b \in Int
        BY <4>2, <4>3, <4>5
      <4> QED
        BY <4>3, <4>4, <4>6
    <3>5. d[i] = s.data[i]
      <4> HIDE DEF i, from, last, data
      <4> QED
        BY <1>2, <3>3, <3>4
    <3> HIDE DEF d
    <3> QED
      BY <3>1, <3>5
  <2>6. (base = 0 => x = 0) /\ base <= x
    BY <2>1, <2>3
  <2> HIDE DEF base, len, d
  <2> QED
    BY <2>4, <2>5, <2>6, Zenon
<1> HIDE DEF P
<1>12. \A j \in Records(file, m) : P(j)
  BY <1>8, <1>10, <1>11
<1> HIDE DEF base, len, d, m
<1>13. Holds(file, t, m)
  BY <1>5, <1>9, <1>12 DEF Holds, P
<1> QED
  BY <1>13 DEF m

(* A line that is no record, and what it leaves of the reader. *)
Alike(s, t) == t.base = s.base /\ t.len = s.len /\ t.data = s.data

LEMMA HoldsOn ==
    ASSUME NEW file, IsFile(file), NEW k \in Nat, k + 1 \notin DataLines(file),
           NEW s, NEW t, Alike(s, t), Holds(file, s, k)
    PROVE  Holds(file, t, k + 1)
<1>1. Records(file, k + 1) = Records(file, k)
  BY RecordTyped DEF Records
<1> QED
  BY <1>1 DEF Holds, Alike

LEMMA AlikeWays ==
    ASSUME NEW s \in ReaderType
    PROVE  /\ Alike(s, s) /\ Alike(s, Ends(s)) /\ Ends(s).status = "end"
           /\ Exits(s).status = "exit" /\ Ends(s) \in ReaderType /\ Exits(s) \in ReaderType
           /\ Foreign(s) = Ends(s) \/ Foreign(s).status = "exit"
  BY DEF Alike, Ends, Exits, Foreign, ReaderType

LEMMA EndedOn ==
    ASSUME NEW file, NEW k \in Nat
    PROVE  Ended(file, k + 1) <=>
             Ended(file, k) \/ file.lines[k + 1].type = "end"
                            \/ file.lines[k + 1].fmt # file.lines[1].fmt
<1> DEFINE E(j) == file.lines[j].type = "end" \/ file.lines[j].fmt # file.lines[1].fmt
<1>1. \A j \in 1 .. k + 1 : j \in 1 .. k \/ j = k + 1
  OBVIOUS
<1>2. 1 .. k \subseteq 1 .. k + 1 /\ k + 1 \in 1 .. k + 1
  OBVIOUS
<1>3. (\E j \in 1 .. k + 1 : E(j)) <=> (\E j \in 1 .. k : E(j)) \/ E(k + 1)
  <2> HIDE DEF E
  <2> QED
    BY <1>1, <1>2
<1> QED
  BY <1>3 DEF Ended

(* The extended address in force before line i. *)
HighAt(file, i) ==
    LET highs == {j \in 1 .. i - 1 : file.lines[j].fmt = ":" /\ file.lines[j].type = "high"}
    IN  IF highs = {} THEN 0 ELSE file.lines[Max(highs)].data[1]

LEMMA AddressIs ==
    ASSUME NEW file, IsFile(file), NEW i \in DOMAIN file.lines
    PROVE  AddressOf(file, i) = HighAt(file, i) * Segment + file.lines[i].at
<1> DEFINE highs == {j \in 1 .. i - 1 : file.lines[j].fmt = ":" /\ file.lines[j].type = "high"}
           d == file.lines[Max(highs)].data[1]
<1>1. file.lines[i].at \in Nat /\ Segment \in Nat
  BY LineTyped, ImageAssumption DEF IsLine
<1>2. CASE highs = {}
  <2>1. HighAt(file, i) = 0 /\ AddressOf(file, i) = file.lines[i].at + 0
    BY <1>2 DEF AddressOf, HighAt
  <2> HIDE DEF highs
  <2> QED
    BY <1>1, <2>1
<1>3. CASE highs # {}
  <2>1. i - 1 \in Nat /\ \A j \in 1 .. i - 1 : j \in DOMAIN file.lines
    BY LineTyped
  <2>2. Max(highs) \in highs
    BY <1>3, <2>1, MaxOfSet
  <2>3. d \in Nat
    <3>1. Max(highs) \in DOMAIN file.lines /\ file.lines[Max(highs)].type = "high"
      BY <2>1, <2>2
    <3> HIDE DEF highs
    <3> QED
      BY <3>1, LineTyped DEF IsLine
  <2>4. AddressOf(file, i) = file.lines[i].at + Segment * d /\ HighAt(file, i) = d
    BY <1>3 DEF AddressOf, HighAt
  <2> HIDE DEF highs, d
  <2>5. Segment * d \in Nat /\ d * Segment = Segment * d
    BY <1>1, <2>3
  <2> QED
    BY <1>1, <2>4, <2>5
<1> QED
  BY <1>2, <1>3

LEMMA HighOn ==
    ASSUME NEW file, NEW k \in Nat
    PROVE  HighAt(file, k + 2) =
             IF file.lines[k + 1].fmt = ":" /\ file.lines[k + 1].type = "high"
               THEN file.lines[k + 1].data[1] ELSE HighAt(file, k + 1)
<1> DEFINE Is(j) == file.lines[j].fmt = ":" /\ file.lines[j].type = "high"
           old == {j \in 1 .. k : Is(j)}
           new == {j \in 1 .. k + 1 : Is(j)}
<1>1. (k + 2) - 1 = k + 1 /\ (k + 1) - 1 = k
  OBVIOUS
<1>2. HighAt(file, k + 2) = IF new = {} THEN 0 ELSE file.lines[Max(new)].data[1]
  BY <1>1 DEF HighAt
<1>3. HighAt(file, k + 1) = IF old = {} THEN 0 ELSE file.lines[Max(old)].data[1]
  BY <1>1 DEF HighAt
<1>4. CASE ~Is(k + 1)
  <2>1. new = old
    <3> HIDE DEF Is
    <3> QED
      BY <1>4
  <2> QED
    BY <1>2, <1>3, <1>4, <2>1
<1>5. CASE Is(k + 1)
  <2>1. new \in SUBSET (1 .. k + 1) /\ k + 1 \in new /\ k + 1 \in Nat /\ new # {}
    <3> HIDE DEF Is
    <3> QED
      BY <1>5
  <2> HIDE DEF new
  <2>2. Max(new) \in new /\ \A i \in new : i <= Max(new)
    BY <2>1, MaxOfSet
  <2>3. Max(new) = k + 1
    <3> DEFINE x == Max(new)
    <3>1. x \in 1 .. k + 1 /\ k + 1 <= x
      BY <2>1, <2>2
    <3> HIDE DEF x
    <3>2. x = k + 1
      BY <3>1
    <3> QED
      BY <3>2 DEF x
  <2> QED
    BY <1>2, <1>5, <2>1, <2>3
<1> QED
  BY <1>4, <1>5

(* Without extended addresses. *)
LEMMA HighNone ==
    ASSUME NEW file, NEW i, \A j \in 1 .. i - 1 : file.lines[j].fmt # ":"
    PROVE  HighAt(file, i) = 0
<1>1. {j \in 1 .. i - 1 : file.lines[j].fmt = ":" /\ file.lines[j].type = "high"} = {}
  OBVIOUS
<1> QED
  BY <1>1 DEF HighAt

(* A reader of the file's own format after line k: it reads on until the file ends. *)
Follows(file, s, k) ==
    s.status # "exit" =>
        /\ Holds(file, s, k)
        /\ s.status = "reading" => ~Ended(file, k)
        /\ s.status = "end" => Ended(file, k)

LEMMA StoreStatus ==
    ASSUME NEW s \in ReaderType, NEW address, NEW data
    PROVE  /\ Store(s, address, data).status \in {s.status, "exit"}
           /\ Store(s, address, data).high = s.high
<1> DEFINE base == IF s.base = 0 THEN address ELSE s.base
           from == address - base
           last == from + Len(data)
           len == IF s.len < last THEN last ELSE s.len
           d == [i \in DOMAIN s.data |->
                    IF i \in from .. last - 1 THEN data[i - from + 1] ELSE s.data[i]]
<1>1. Store(s, address, data) = Exits(s)
      \/ Store(s, address, data) = [s EXCEPT !.base = base, !.len = len, !.data = d]
  BY DEF Store
<1> HIDE DEF base, len, d
<1> QED
  BY <1>1 DEF Exits, ReaderType

(* The ways on from a line: nothing is stored, or the line is a record. *)
LEMMA FollowsOther ==
    ASSUME NEW file, IsFile(file), NEW k \in Nat, k + 1 \in DOMAIN file.lines,
           NEW s, Follows(file, s, k), s.status = "reading",
           file.lines[k + 1].type \notin {"end", "data"},
           file.lines[k + 1].fmt = file.lines[1].fmt, NEW t, Alike(s, t), t.status = "reading"
    PROVE  Follows(file, t, k + 1)
<1>1. ~Ended(file, k + 1)
  BY EndedOn DEF Follows
<1>2. k + 1 \notin DataLines(file)
  BY DEF DataLines
<1>3. Holds(file, t, k + 1)
  BY <1>2, HoldsOn DEF Follows
<1> QED
  BY <1>1, <1>3 DEF Follows

LEMMA FollowsEnd ==
    ASSUME NEW file, IsFile(file), NEW k \in Nat, k + 1 \in DOMAIN file.lines,
           NEW s, Follows(file, s, k), s.status # "exit",
           Ended(file, k + 1), NEW t, Alike(s, t), t.status = "end"
    PROVE  Follows(file, t, k + 1)
<1>1. k + 1 \notin DataLines(file)
  BY DEF DataLines
<1>2. Holds(file, t, k + 1)
  BY <1>1, HoldsOn DEF Follows
<1> QED
  BY <1>2 DEF Follows

LEMMA FollowsData ==
    ASSUME NEW file, IsFile(file), ~BeginsAtZero(file), NEW k \in Nat, k + 1 \in DOMAIN file.lines,
           NEW s \in ReaderType, Follows(file, s, k), s.status = "reading",
           file.lines[k + 1].type = "data",
           file.lines[k + 1].fmt = file.lines[1].fmt, file.lines[1].fmt # "text",
           NEW t, t = Store(s, AddressOf(file, k + 1), file.lines[k + 1].data)
    PROVE  Follows(file, t, k + 1)
<1>1. ~Ended(file, k + 1)
  BY EndedOn DEF Follows
<1>2. k + 1 \in DataLines(file)
  BY <1>1 DEF DataLines
<1>3. t.status \in {"reading", "exit"}
  BY StoreStatus
<1>4. t.status # "exit" => Holds(file, t, k + 1)
  BY <1>2, StoreHolds DEF Follows
<1> QED
  BY <1>1, <1>3, <1>4 DEF Follows

LEMMA SrecFollows ==
    ASSUME NEW file, IsFile(file), ~BeginsAtZero(file), file.lines[1].fmt = "S",
           NEW k \in Nat, k + 1 \in DOMAIN file.lines, NEW s \in ReaderType, Follows(file, s, k)
    PROVE  Follows(file, SrecLine(s, file.lines[k + 1]), k + 1)
<1> DEFINE l == file.lines[k + 1]
           t == SrecLine(s, l)
<1>0. s.status \in {"reading", "exit", "end"}
  BY DEF ReaderType
<1>1. CASE s.status = "exit"
  BY <1>1 DEF SrecLine, Follows
<1>2. CASE s.status = "end"
  <2>1. t = s /\ Ended(file, k + 1)
    BY <1>2, EndedOn DEF SrecLine, Follows
  <2> QED
    BY <1>2, <2>1, FollowsEnd, AlikeWays
<1>3. CASE s.status = "reading" /\ (l.fmt # "S" \/ l.type = "end")
  <2>1. (t = Foreign(s) \/ t = Ends(s)) /\ Ended(file, k + 1)
    BY <1>3, EndedOn DEF SrecLine, Follows
  <2>2. CASE t = Ends(s)
    BY <1>3, <2>1, <2>2, FollowsEnd, AlikeWays
  <2>3. CASE t.status = "exit"
    BY <2>3 DEF Follows
  <2> QED
    BY <2>1, <2>2, <2>3, AlikeWays
<1>4. CASE s.status = "reading" /\ l.fmt = "S" /\ l.type = "broken"
  <2>1. t = Exits(s)
    BY <1>4 DEF SrecLine
  <2> QED
    BY <2>1, AlikeWays DEF Follows
<1>5. CASE s.status = "reading" /\ l.fmt = "S" /\ l.type = "data"
  <2>1. t = Store(s, l.at, l.data)
    BY <1>5 DEF SrecLine
  <2>2. HighAt(file, k + 1) = 0
    <3>1. ~Ended(file, k)
      BY <1>5 DEF Follows
    <3>2. \A j \in 1 .. (k + 1) - 1 : file.lines[j].fmt # ":"
      <4>1. (k + 1) - 1 = k
        OBVIOUS
      <4> QED
        BY <3>1, <4>1 DEF Ended
    <3> QED
      BY <3>2, HighNone
  <2>3. AddressOf(file, k + 1) = l.at
    <3>1. l.at \in Nat /\ Segment \in Nat
      BY LineTyped, ImageAssumption DEF IsLine
    <3>2. AddressOf(file, k + 1) = 0 * Segment + l.at
      BY <2>2, AddressIs
    <3> HIDE DEF l
    <3> QED
      BY <3>1, <3>2
  <2>4. t = Store(s, AddressOf(file, k + 1), l.data) /\ "S" # "text"
    BY <2>1, <2>3
  <2> QED
    BY <1>5, <2>4, FollowsData
<1>6. CASE s.status = "reading" /\ l.fmt = "S" /\ l.type \in {"other", "high"}
  <2>1. t = s
    BY <1>6 DEF SrecLine
  <2> QED
    BY <1>6, <2>1, FollowsOther, AlikeWays
<1>7. l.type \in {"data", "high", "other", "end", "broken"}
  BY LineTyped DEF IsLine, Types
<1> HIDE DEF l
<1> QED
  BY <1>0, <1>1, <1>2, <1>3, <1>4, <1>5, <1>6, <1>7 DEF l

(* A reader of HEX files knows the address in force, and has checked the sums. *)
Checked(file, j) ==
    file.lines[j].fmt = ":" /\ file.lines[j].type \in {"data", "high"} /\ ~Ended(file, j) =>
        file.lines[j].good

HexKnows(file, s, k) ==
    /\ s.status = "reading" => s.high = HighAt(file, k + 1)
    /\ s.status # "exit" => \A j \in 1 .. k : Checked(file, j)

LEMMA CheckedOn ==
    ASSUME NEW file, NEW k \in Nat, NEW s, HexKnows(file, s, k), s.status # "exit",
           Checked(file, k + 1), NEW t, t.status = "reading" => t.high = HighAt(file, k + 2)
    PROVE  HexKnows(file, t, k + 1)
<1>1. \A j \in 1 .. k + 1 : j \in 1 .. k \/ j = k + 1
  OBVIOUS
<1>2. \A j \in 1 .. k + 1 : Checked(file, j)
  BY <1>1 DEF HexKnows
<1>3. (k + 1) + 1 = k + 2
  OBVIOUS
<1> QED
  BY <1>2, <1>3 DEF HexKnows

LEMMA HexFollows ==
    ASSUME NEW file, IsFile(file), ~BeginsAtZero(file), file.lines[1].fmt = ":", NEW u,
           NEW k \in Nat, k + 1 \in DOMAIN file.lines, NEW s \in ReaderType, Follows(file, s, k),
           HexKnows(file, s, k), NEW t, t = HexLine(s, file.lines[k + 1], u)
    PROVE  Follows(file, t, k + 1) /\ HexKnows(file, t, k + 1)
<1> DEFINE l == file.lines[k + 1]
           address == s.high * Segment + l.at
<1>0. s.status \in {"reading", "exit", "end"}
  BY DEF ReaderType
<1>1. CASE s.status = "exit"
  BY <1>1 DEF HexLine, Follows, HexKnows
<1>2. CASE s.status = "end"
  <2>1. t = s /\ Ended(file, k + 1)
    BY <1>2, EndedOn DEF HexLine, Follows
  <2>2. Checked(file, k + 1)
    BY <2>1 DEF Checked
  <2> QED
    BY <1>2, <2>1, <2>2, FollowsEnd, CheckedOn, AlikeWays
<1>3. CASE s.status = "reading" /\ (l.fmt # ":" \/ l.type = "end")
  <2>1. (t = Foreign(s) \/ t = Ends(s)) /\ Ended(file, k + 1)
    BY <1>3, EndedOn DEF HexLine, Follows
  <2>2. Checked(file, k + 1)
    BY <2>1 DEF Checked
  <2>3. CASE t = Ends(s)
    BY <1>3, <2>1, <2>2, <2>3, FollowsEnd, CheckedOn, AlikeWays
  <2>4. CASE t.status = "exit"
    BY <2>4 DEF Follows, HexKnows
  <2> QED
    BY <2>1, <2>3, <2>4, AlikeWays
<1>4. CASE s.status = "reading" /\ l.fmt = ":" /\ l.type = "other"
  <2>1. t = s /\ Checked(file, k + 1)
    BY <1>4 DEF HexLine, Checked
  <2>2. HighAt(file, k + 2) = HighAt(file, k + 1)
    BY <1>4, HighOn
  <2>3. HexKnows(file, t, k + 1)
    BY <1>4, <2>1, <2>2, CheckedOn DEF HexKnows
  <2>4. Follows(file, t, k + 1)
    BY <1>4, <2>1, FollowsOther, AlikeWays
  <2> QED
    BY <2>3, <2>4
<1>5. CASE /\ s.status = "reading" /\ l.fmt = ":" /\ l.type \notin {"end", "other"}
           /\ l.type = "broken" \/ address % u # 0 \/ ~l.good
  <2>1. t = Exits(s)
    BY <1>5, Zenon DEF HexLine
  <2> QED
    BY <2>1, AlikeWays DEF Follows, HexKnows
<1>6. CASE /\ s.status = "reading" /\ l.fmt = ":" /\ l.type = "high"
           /\ ~(l.type = "broken" \/ address % u # 0 \/ ~l.good)
  <2>1. t = [s EXCEPT !.high = l.data[1]]
    BY <1>6, Zenon DEF HexLine
  <2>2. Alike(s, t) /\ t.status = "reading" /\ t.high = l.data[1]
    BY <1>6, <2>1 DEF Alike, ReaderType
  <2>3. HighAt(file, k + 2) = l.data[1] /\ Checked(file, k + 1)
    BY <1>6, HighOn DEF Checked
  <2>4. HexKnows(file, t, k + 1)
    BY <1>6, <2>2, <2>3, CheckedOn
  <2>5. Follows(file, t, k + 1)
    BY <1>6, <2>2, FollowsOther
  <2> QED
    BY <2>4, <2>5
<1>7. CASE /\ s.status = "reading" /\ l.fmt = ":" /\ l.type = "data"
           /\ ~(l.type = "broken" \/ address % u # 0 \/ ~l.good)
  <2>1. t = Store(s, address, l.data)
    BY <1>7, Zenon DEF HexLine
  <2>2. s.high = HighAt(file, k + 1)
    BY <1>7 DEF HexKnows
  <2>3. AddressOf(file, k + 1) = address
    BY <2>2, AddressIs
  <2>4. t = Store(s, AddressOf(file, k + 1), l.data) /\ ":" # "text"
    BY <2>1, <2>3
  <2>5. Follows(file, t, k + 1)
    BY <1>7, <2>4, FollowsData
  <2>6. HighAt(file, k + 2) = HighAt(file, k + 1) /\ Checked(file, k + 1)
    BY <1>7, HighOn DEF Checked
  <2>7. t.high = s.high
    BY <2>1, StoreStatus
  <2>8. HexKnows(file, t, k + 1)
    BY <1>7, <2>2, <2>6, <2>7, CheckedOn
  <2> QED
    BY <2>5, <2>8
<1>8. l.type \in {"data", "high", "other", "end", "broken"}
  BY LineTyped DEF IsLine, Types
<1> HIDE DEF l, address
<1> QED
  BY <1>0, <1>1, <1>2, <1>3, <1>4, <1>5, <1>6, <1>7, <1>8 DEF l

LEMMA ReadersStart ==
    ASSUME NEW file, IsFile(file), NEW s, s.status = "reading", s.len = 0
    PROVE  /\ Follows(file, s, 0)
           /\ s.high = 0 => HexKnows(file, s, 0)
<1>1. ~Ended(file, 0) /\ Holds(file, s, 0)
  <2>1. 1 .. 0 = {}
    OBVIOUS
  <2>2. Records(file, 0) = {}
    BY RecordTyped DEF Records
  <2> QED
    BY <2>1, <2>2 DEF Ended, Holds
<1>2. HighAt(file, 0 + 1) = 0 /\ \A j \in 1 .. 0 : Checked(file, j)
  <2>1. \A j \in 1 .. (0 + 1) - 1 : FALSE
    OBVIOUS
  <2> QED
    BY <2>1, HighNone
<1> QED
  BY <1>1, <1>2 DEF Follows, HexKnows

(* A reader of another format ends at the first line. *)
LEMMA EndsAtOnce ==
    ASSUME NEW file, IsFile(file), NEW k \in Nat, k + 1 \in DOMAIN file.lines, NEW u,
           NEW s \in ReaderType, s.status = "reading", s.len = 0, NEW t, (k = 0 /\ t = s) \/ t = Ends(s)
    PROVE  /\ file.lines[1].fmt # "S" => SrecLine(t, file.lines[k + 1]) = Ends(s)
           /\ file.lines[1].fmt # ":" => HexLine(t, file.lines[k + 1], u) = Ends(s)
<1>1. CASE t = Ends(s)
  <2>1. t.status # "reading"
    BY <1>1, AlikeWays
  <2> QED
    BY <1>1, <2>1 DEF SrecLine, HexLine
<1>2. CASE k = 0 /\ t = s
  <2>1. k + 1 = 1
    BY <1>2
  <2> QED
    BY <1>2, <2>1 DEF SrecLine, HexLine, Foreign
<1> QED
  BY <1>1, <1>2

LEMMA SrecReads ==
    ASSUME NEW file, IsFile(file), ~BeginsAtZero(file)
    PROVE  LET n == Len(file.lines)
           IN  /\ n # 0 /\ file.lines[1].fmt = "S" => Follows(file, read_srec(file), n)
               /\ n = 0 => read_srec(file) = Start(0, Blank)
               /\ n # 0 /\ file.lines[1].fmt # "S" => read_srec(file) = Ends(Start(0, Blank))
<1> DEFINE n == Len(file.lines)
           s == Start(0, Blank)
           P(t, k) == IF file.lines[1].fmt = "S" THEN Follows(file, t, k)
                      ELSE (k = 0 /\ t = s) \/ t = Ends(s)
<1>1. /\ n \in Nat /\ DOMAIN file.lines = 1 .. n /\ \A i \in 1 .. n : IsLine(file.lines[i])
  BY DEF IsFile
<1>2. s \in ReaderType /\ s.status = "reading" /\ s.len = 0
  BY StartTyped, BlankTyped DEF Start
<1> HIDE DEF n, s
<1>3. PICK a : SrecTrace(a, s, file.lines, n)
  BY <1>1, <1>2, SrecIsFold
<1>4. P(a[0], 0)
  <2>1. a[0] = s
    BY <1>3 DEF SrecTrace
  <2> QED
    BY <1>2, <2>1, ReadersStart
<1> DEFINE S == {k \in Nat : k <= n => a[k] \in ReaderType /\ P(a[k], k)}
<1>5. 0 \in S
  BY <1>2, <1>3, <1>4 DEF SrecTrace
<1>6. ASSUME NEW k \in Nat, k \in S PROVE k + 1 \in S
  <2> SUFFICES ASSUME k + 1 <= n PROVE a[k + 1] \in ReaderType /\ P(a[k + 1], k + 1)
    OBVIOUS
  <2> DEFINE i == k + 1
  <2>1. /\ i \in 1 .. n /\ i - 1 = k /\ a[k] \in ReaderType /\ P(a[k], k) /\ IsLine(file.lines[i])
        /\ i \in DOMAIN file.lines
    BY <1>1, <1>6
  <2>2. a[i] = SrecLine(a[k], file.lines[i])
    <3> HIDE DEF i
    <3> QED
      BY <1>3, <2>1 DEF SrecTrace
  <2>3. a[i] \in ReaderType
    BY <2>1, <2>2, SrecLineTyped
  <2>4. P(a[i], i)
    <3>1. CASE file.lines[1].fmt = "S"
      <4>1. Follows(file, SrecLine(a[k], file.lines[k + 1]), k + 1)
        BY <2>1, <3>1, SrecFollows
      <4> QED
        BY <2>2, <3>1, <4>1
    <3>2. CASE file.lines[1].fmt # "S"
      <4>1. (k = 0 /\ a[k] = s) \/ a[k] = Ends(s)
        BY <2>1, <3>2
      <4>2. SrecLine(a[k], file.lines[k + 1]) = Ends(s)
        BY <1>2, <2>1, <3>2, <4>1, EndsAtOnce
      <4> QED
        BY <2>2, <3>2, <4>2
    <3> QED
      BY <3>1, <3>2
  <2> QED
    BY <2>3, <2>4 DEF i
<1>7. n \in S
  <2> HIDE DEF S
  <2> QED
    BY <1>1, <1>5, <1>6, Induction
<1>8. read_srec(file) = a[n] /\ a[0] = s
  BY <1>3 DEF read_srec, SrecTrace, s
<1>9. P(read_srec(file), n)
  BY <1>1, <1>7, <1>8
<1>10. n # 0 /\ file.lines[1].fmt # "S" => read_srec(file) = Ends(s)
  BY <1>9
<1> QED
  BY <1>8, <1>9, <1>10 DEF n, s

LEMMA HexReads ==
    ASSUME NEW file, IsFile(file), ~BeginsAtZero(file), NEW r \in ReaderType, NEW u
    PROVE  LET n == Len(file.lines)
               h == read_hex(file, u, r)
           IN  /\ n # 0 /\ file.lines[1].fmt = ":" => Follows(file, h, n) /\ HexKnows(file, h, n)
               /\ n = 0 => h = Start(r.base, r.data)
               /\ n # 0 /\ file.lines[1].fmt # ":" => h = Ends(Start(r.base, r.data))
<1> DEFINE n == Len(file.lines)
           s == Start(r.base, r.data)
           P(t, k) == IF file.lines[1].fmt = ":" THEN Follows(file, t, k) /\ HexKnows(file, t, k)
                      ELSE (k = 0 /\ t = s) \/ t = Ends(s)
<1>1. /\ n \in Nat /\ DOMAIN file.lines = 1 .. n /\ \A i \in 1 .. n : IsLine(file.lines[i])
  BY DEF IsFile
<1>2. s \in ReaderType /\ s.status = "reading" /\ s.len = 0 /\ s.high = 0
  BY StartTyped DEF Start, ReaderType
<1> HIDE DEF n, s
<1>3. PICK a : HexTrace(a, s, file.lines, n, u)
  BY <1>1, <1>2, HexIsFold
<1>4. P(a[0], 0)
  <2>1. a[0] = s
    BY <1>3 DEF HexTrace
  <2> QED
    BY <1>2, <2>1, ReadersStart
<1> DEFINE S == {k \in Nat : k <= n => a[k] \in ReaderType /\ P(a[k], k)}
<1>5. 0 \in S
  BY <1>2, <1>3, <1>4 DEF HexTrace
<1>6. ASSUME NEW k \in Nat, k \in S PROVE k + 1 \in S
  <2> SUFFICES ASSUME k + 1 <= n PROVE a[k + 1] \in ReaderType /\ P(a[k + 1], k + 1)
    OBVIOUS
  <2> DEFINE i == k + 1
  <2>1. /\ i \in 1 .. n /\ i - 1 = k /\ a[k] \in ReaderType /\ P(a[k], k) /\ IsLine(file.lines[i])
        /\ i \in DOMAIN file.lines
    BY <1>1, <1>6
  <2>2. a[i] = HexLine(a[k], file.lines[i], u)
    <3> HIDE DEF i
    <3> QED
      BY <1>3, <2>1 DEF HexTrace
  <2>3. a[i] \in ReaderType
    BY <2>1, <2>2, HexLineTyped
  <2>4. P(a[i], i)
    <3>1. CASE file.lines[1].fmt = ":"
      <4>1. /\ Follows(file, HexLine(a[k], file.lines[k + 1], u), k + 1)
            /\ HexKnows(file, HexLine(a[k], file.lines[k + 1], u), k + 1)
        BY <2>1, <3>1, HexFollows
      <4> QED
        BY <2>2, <3>1, <4>1
    <3>2. CASE file.lines[1].fmt # ":"
      <4>1. (k = 0 /\ a[k] = s) \/ a[k] = Ends(s)
        BY <2>1, <3>2
      <4>2. HexLine(a[k], file.lines[k + 1], u) = Ends(s)
        BY <1>2, <2>1, <3>2, <4>1, EndsAtOnce
      <4> QED
        BY <2>2, <3>2, <4>2
    <3> QED
      BY <3>1, <3>2
  <2> QED
    BY <2>3, <2>4 DEF i
<1>7. n \in S
  <2> HIDE DEF S
  <2> QED
    BY <1>1, <1>5, <1>6, Induction
<1>8. read_hex(file, u, r) = a[n] /\ a[0] = s
  BY <1>3 DEF read_hex, HexTrace, s, FoldLeft, MapThenFoldSet
<1>9. P(read_hex(file, u, r), n)
  BY <1>1, <1>7, <1>8
<1>10. n # 0 /\ file.lines[1].fmt # ":" => read_hex(file, u, r) = Ends(s)
  BY <1>9
<1> QED
  BY <1>8, <1>9, <1>10 DEF n, s

(* An image has what a file means, at each address of it. *)
Images(s, meant) ==
    \A a \in DOMAIN meant : a - s.base \in 0 .. s.len - 1 /\ s.data[a - s.base] = meant[a]

(* The addresses of a file's records, and which of them is on top. *)
Extent(file, i) == AddressOf(file, i) .. AddressOf(file, i) + Len(file.lines[i].data) - 1
Top(file, a) == Max({j \in DataLines(file) : Covers(file, j, a)})

LEMMA MeantAt ==
    ASSUME NEW file, IsFile(file), DataLines(file) # {}, NEW base
    PROVE  /\ DOMAIN Meaning(file, base) = UNION {Extent(file, i) : i \in DataLines(file)}
           /\ \A a \in DOMAIN Meaning(file, base) :
                 /\ a \in Int /\ Top(file, a) \in DataLines(file) /\ Covers(file, Top(file, a), a)
                 /\ \A i \in DataLines(file) : i > Top(file, a) => ~Covers(file, i, a)
                 /\ Meaning(file, base)[a] =
                      file.lines[Top(file, a)].data[a - AddressOf(file, Top(file, a)) + 1]
<1> DEFINE D == DataLines(file)
           R == UNION {Extent(file, i) : i \in D}
           V(a) == LET i == Top(file, a) IN file.lines[i].data[a - AddressOf(file, i) + 1]
<1>1. Meaning(file, base) = [a \in R |-> V(a)]
  BY DEF Meaning, Extent, Top
<1>2. \A i \in D : i \in DOMAIN file.lines /\ AddressOf(file, i) \in Nat
                   /\ Len(file.lines[i].data) \in Nat
  BY RecordTyped
<1>3. ASSUME NEW a \in R
      PROVE  /\ a \in Int /\ Top(file, a) \in D /\ Covers(file, Top(file, a), a)
             /\ \A i \in D : i > Top(file, a) => ~Covers(file, i, a)
  <2> DEFINE C == {j \in D : Covers(file, j, a)}
             n == Len(file.lines)
             x == Max(C)
  <2>1. PICK i \in D : a \in Extent(file, i)
    OBVIOUS
  <2>2. a \in Int /\ Covers(file, i, a)
    <3> DEFINE b == AddressOf(file, i)
               l == Len(file.lines[i].data)
    <3>1. b \in Nat /\ l \in Nat /\ a \in b .. b + l - 1
      BY <1>2, <2>1 DEF Extent
    <3> HIDE DEF b, l
    <3>2. a \in Int /\ a - b \in 0 .. l - 1
      BY <3>1
    <3> QED
      BY <3>2 DEF Covers, b, l
  <2>3. n \in Nat /\ C \in SUBSET (1 .. n) /\ C # {}
    BY <1>2, <2>2 DEF IsFile
  <2> HIDE DEF C, n
  <2>4. x \in C /\ \A j \in C : j <= x
    BY <2>3, MaxOfSet
  <2>5. Top(file, a) = x
    BY DEF Top, C
  <2>6. \A j \in D : j > x => ~Covers(file, j, a)
    <3>1. ASSUME NEW j \in D, j > x, Covers(file, j, a) PROVE FALSE
      <4>1. j \in C /\ j <= x
        BY <2>4, <3>1 DEF C
      <4>2. j \in 1 .. n /\ x \in 1 .. n
        BY <2>3, <2>4, <4>1
      <4> HIDE DEF x
      <4> QED
        BY <2>3, <3>1, <4>1, <4>2
    <3> QED
      BY <3>1
  <2>7. x \in D /\ Covers(file, x, a)
    BY <2>4 DEF C
  <2> QED
    BY <2>2, <2>5, <2>6, <2>7
<1>4. DOMAIN Meaning(file, base) = R /\ \A a \in R : Meaning(file, base)[a] = V(a)
  <2> HIDE DEF R, V
  <2> QED
    BY <1>1
<1> HIDE DEF R
<1> QED
  BY <1>3, <1>4 DEF R

LEMMA HoldsMeant ==
    ASSUME NEW file, IsFile(file), DataLines(file) # {}, NEW base, NEW s \in ReaderType,
           Holds(file, s, Len(file.lines))
    PROVE  Images(s, Meaning(file, base))
<1> DEFINE D == DataLines(file)
           n == Len(file.lines)
<1>1. Records(file, n) = D
  <2>1. \A j \in D : j <= n
    BY RecordTyped, LineTyped
  <2> QED
    BY <2>1 DEF Records
<1> SUFFICES ASSUME NEW a \in DOMAIN Meaning(file, base)
             PROVE  /\ a - s.base \in 0 .. s.len - 1
                    /\ s.data[a - s.base] = Meaning(file, base)[a]
  BY DEF Images
<1> DEFINE x == Top(file, a)
           b == AddressOf(file, x)
           l == Len(file.lines[x].data)
<1>2. /\ a \in Int /\ x \in D /\ Covers(file, x, a)
      /\ \A i \in D : i > x => ~Covers(file, i, a)
      /\ Meaning(file, base)[a] = file.lines[x].data[a - b + 1]
  BY MeantAt
<1>3. /\ s.base <= b /\ b + l <= s.base + s.len
      /\ s.data[a - s.base] = file.lines[x].data[a - b + 1]
  <2> HIDE DEF x
  <2> QED
    BY <1>1, <1>2 DEF Holds
<1>4. b \in Nat /\ l \in Nat /\ s.base \in Nat /\ s.len \in Int
  <2>1. b \in Nat /\ l \in Nat
    BY <1>2, RecordTyped
  <2>2. s.base \in Nat /\ s.len \in 0 .. MaxImage /\ MaxImage \in Nat
    BY ImageAssumption DEF ReaderType
  <2> QED
    BY <2>1, <2>2
<1>5. a - b \in 0 .. l - 1
  BY <1>2 DEF Covers
<1>6. s.base <= b /\ b + l <= s.base + s.len
  BY <1>3
<1> HIDE DEF b, l, x
<1>7. a - s.base \in 0 .. s.len - 1
  BY <1>2, <1>4, <1>5, <1>6
<1> QED
  BY <1>2, <1>3, <1>7

(* Of records without data. *)
LEMMA EmptyMeant ==
    ASSUME NEW file, IsFile(file), DataLines(file) # {}, NEW base, NEW s \in ReaderType,
           Holds(file, s, Len(file.lines)), s.len = 0, NEW r
    PROVE  Images(r, Meaning(file, base))
<1>1. Images(s, Meaning(file, base))
  BY HoldsMeant
<1>2. \A a \in DOMAIN Meaning(file, base) : FALSE
  <2>1. 0 .. 0 - 1 = {}
    OBVIOUS
  <2> QED
    BY <1>1, <2>1 DEF Images
<1> QED
  BY <1>2 DEF Images

LEMMA BinMeant ==
    ASSUME NEW file, IsFile(file), Len(file.bytes) <= MaxImage, NEW base \in Nat
    PROVE  Images(read_bin(file, base), BinaryMeaning(file, base))
<1> DEFINE len == IF Len(file.bytes) < MaxImage THEN Len(file.bytes) ELSE MaxImage
           s == Ends(Start(base, Blank))
           d == [i \in DOMAIN s.data |-> IF i < len THEN file.bytes[i + 1] ELSE s.data[i]]
           n == Len(file.bytes)
           r == read_bin(file, base)
<1>1. MaxImage \in Nat /\ n \in Nat /\ len = n /\ n <= MaxImage
  BY ImageAssumption DEF IsFile
<1>2. s \in ReaderType /\ s.base = base /\ DOMAIN s.data = 0 .. MaxImage - 1
  <2>1. s \in ReaderType
    BY StartTyped, BlankTyped, EndsTyped
  <2>2. s.base = base
    BY DEF Ends, Start
  <2> QED
    BY <2>1, <2>2 DEF ReaderType
<1>3. r = [s EXCEPT !.len = len, !.data = d]
  BY DEF read_bin
<1> HIDE DEF s, len
<1>4. r.base = base /\ r.len = n /\ r.data = d
  <2> HIDE DEF d, r
  <2> QED
    BY <1>1, <1>2, <1>3 DEF ReaderType
<1>5. ASSUME NEW a \in base .. base + n - 1
      PROVE  /\ a - base \in 0 .. n - 1
             /\ d[a - base] = file.bytes[a - base + 1]
  <2> DEFINE i == a - base
  <2>1. i \in 0 .. n - 1 /\ i \in 0 .. MaxImage - 1 /\ i < n
    <3> HIDE DEF n
    <3> QED
      BY <1>1
  <2>2. d[i] = file.bytes[i + 1]
    <3> HIDE DEF i, n
    <3> QED
      BY <1>1, <1>2, <2>1
  <2> QED
    BY <2>1, <2>2
<1> DEFINE B == BinaryMeaning(file, base)
<1>6. DOMAIN B = base .. base + n - 1
      /\ \A a \in base .. base + n - 1 : B[a] = file.bytes[a - base + 1]
  BY DEF BinaryMeaning
<1> HIDE DEF r, d, n, B
<1> QED
  BY <1>4, <1>5, <1>6 DEF Images, r, B

(* Sums are wrong where the reader of HEX files did not see it only. *)
LEMMA NotSpoiled ==
    ASSUME NEW file, IsFile(file), NEW h, h.status # "exit",
           Len(file.lines) # 0 /\ file.lines[1].fmt = ":" => HexKnows(file, h, Len(file.lines))
    PROVE  ~Spoiled(file)
<1> SUFFICES ASSUME NEW i \in DOMAIN file.lines, file.lines[i].fmt = ":", ~file.lines[i].good,
                    ~Ended(file, i), file.lines[i].type \in {"data", "high"}
             PROVE  FALSE
  BY DEF Spoiled
<1>1. i \in 1 .. i /\ i \in 1 .. Len(file.lines) /\ Len(file.lines) # 0
  BY LineTyped
<1>2. file.lines[1].fmt = ":"
  BY <1>1 DEF Ended
<1>3. Checked(file, i)
  BY <1>1, <1>2 DEF HexKnows
<1> QED
  BY <1>3 DEF Checked

LEMMA NoRecords ==
    ASSUME NEW file, IsFile(file), Len(file.lines) = 0 \/ file.lines[1].fmt \notin {"S", ":"}
    PROVE  DataLines(file) = {}
<1> SUFFICES ASSUME NEW i \in DataLines(file) PROVE FALSE
  OBVIOUS
<1>1. /\ i \in DOMAIN file.lines /\ file.lines[i].fmt # "text" /\ ~Ended(file, i)
  BY DEF DataLines
<1>2. i \in 1 .. i /\ IsLine(file.lines[i]) /\ Len(file.lines) # 0
  BY <1>1, LineTyped
<1>3. file.lines[i].fmt = file.lines[1].fmt /\ file.lines[i].fmt \in {"S", ":", "text"}
  BY <1>1, <1>2 DEF Ended, IsLine, Formats
<1> QED
  BY <1>1, <1>2, <1>3

(* What a file that is named alone leaves in memory. *)
LEMMA FileMeant ==
    ASSUME NEW file, IsFile(file), ~BeginsAtZero(file), NEW u,
           DataLines(file) = {} => Len(file.bytes) <= MaxImage,
           read_file(file, u).status # "exit"
    PROVE  /\ Images(read_file(file, u), Meaning(file, DEFAULT_ADDR))
           /\ ~Spoiled(file)
<1> DEFINE n == Len(file.lines)
           srec == read_srec(file)
           hex == read_hex(file, u, srec)
           bin == read_bin(file, DEFAULT_ADDR)
           r == read_file(file, u)
           M == Meaning(file, DEFAULT_ADDR)
<1>1. /\ n \in Nat /\ srec \in ReaderType /\ hex \in ReaderType
      /\ DEFAULT_ADDR \in Nat
  BY SrecTyped, HexTyped, ImageAssumption DEF IsFile
<1>2. /\ n # 0 /\ file.lines[1].fmt = "S" => Follows(file, srec, n)
      /\ n = 0 => srec = Start(0, Blank)
      /\ n # 0 /\ file.lines[1].fmt # "S" => srec = Ends(Start(0, Blank))
  BY SrecReads
<1>3. /\ n # 0 /\ file.lines[1].fmt = ":" => Follows(file, hex, n) /\ HexKnows(file, hex, n)
      /\ n = 0 => hex = Start(srec.base, srec.data)
      /\ n # 0 /\ file.lines[1].fmt # ":" => hex = Ends(Start(srec.base, srec.data))
  BY <1>1, HexReads
<1>4. \A b, d : Start(b, d).len = 0 /\ Ends(Start(b, d)).len = 0
  BY DEF Start, Ends
<1>5. r = IF srec.status = "exit" \/ srec.len > 0 THEN srec
          ELSE IF hex.status = "exit" \/ hex.len > 0 THEN hex ELSE bin
  BY DEF read_file
<1>6. r.status # "exit"
  OBVIOUS
<1>7. DataLines(file) = {} => Images(bin, M)
  <2>1. CASE DataLines(file) = {}
    <3>1. M = BinaryMeaning(file, DEFAULT_ADDR)
      BY <2>1 DEF Meaning
    <3> QED
      BY <1>1, <2>1, <3>1, BinMeant
  <2> QED
    BY <2>1
<1>8. \A s \in ReaderType : Holds(file, s, n) /\ DataLines(file) # {} =>
         Images(s, M) /\ (s.len = 0 => Images(bin, M))
  BY HoldsMeant, EmptyMeant
<1>9. srec.len \in Nat /\ hex.len \in Nat
  BY <1>1 DEF ReaderType
<1> HIDE DEF srec, hex, bin, M, n, r
<1>10. srec.status # "exit" /\ (srec.len = 0 => hex.status # "exit")
  BY <1>5, <1>6
<1>11. CASE n = 0 \/ file.lines[1].fmt \notin {"S", ":"}
  <2>1. srec.len = 0 /\ hex.len = 0
    BY <1>2, <1>3, <1>4, <1>11
  <2>2. r = bin
    BY <1>5, <1>10, <2>1
  <2>3. DataLines(file) = {}
    BY <1>11, NoRecords DEF n
  <2>4. ~Spoiled(file)
    BY <1>10, <1>11, NotSpoiled DEF n
  <2> QED
    BY <1>7, <2>2, <2>3, <2>4 DEF r, M
<1>12. CASE n # 0 /\ file.lines[1].fmt = "S"
  <2>1. Holds(file, srec, n) /\ hex.len = 0
    BY <1>2, <1>3, <1>4, <1>10, <1>12 DEF Follows
  <2>2. ~Spoiled(file)
    BY <1>10, <1>12, NotSpoiled DEF n
  <2>3. Images(r, M)
    <3>1. CASE srec.len = 0
      <4>1. r = bin
        BY <1>5, <1>10, <2>1, <3>1
      <4> QED
        BY <1>1, <1>7, <1>8, <2>1, <3>1, <4>1
    <3>2. CASE srec.len # 0
      <4>1. r = srec
        BY <1>5, <1>9, <3>2
      <4>2. DataLines(file) # {}
        BY <2>1, <3>2 DEF Holds, Records
      <4> QED
        BY <1>1, <1>8, <2>1, <4>1, <4>2
    <3> QED
      BY <3>1, <3>2
  <2> QED
    BY <2>2, <2>3 DEF r, M
<1>13. CASE n # 0 /\ file.lines[1].fmt = ":"
  <2>1. srec.len = 0 /\ hex.status # "exit"
    BY <1>2, <1>4, <1>10, <1>13
  <2>2. Holds(file, hex, n) /\ HexKnows(file, hex, n)
    BY <1>3, <1>13, <2>1 DEF Follows
  <2>3. ~Spoiled(file)
    BY <2>1, <2>2, NotSpoiled DEF n
  <2>4. Images(r, M)
    <3>1. CASE hex.len = 0
      <4>1. r = bin
        BY <1>5, <1>10, <2>1, <3>1
      <4> QED
        BY <1>1, <1>7, <1>8, <2>2, <3>1, <4>1
    <3>2. CASE hex.len # 0
      <4>1. r = hex
        BY <1>5, <1>9, <1>10, <2>1, <3>2
      <4>2. DataLines(file) # {}
        BY <2>2, <3>2 DEF Holds, Records
      <4> QED
        BY <1>1, <1>8, <2>2, <4>1, <4>2
    <3> QED
      BY <3>1, <3>2
  <2> QED
    BY <2>3, <2>4 DEF r, M
<1> QED
  BY <1>11, <1>12, <1>13

(* What main has loaded for a run that programs it. *)
Agrees == Images(memory, Meant) /\ (opt.args = 2 \/ ~Spoiled(opt.file))

LEMMA ProgramsFile ==
    ASSUME opt \in CommandLines, Programs_file PROVE FileNamed /\ opt.args \in {1, 2}
<1>1. Commands \in {<<"program">>, <<"write">>} /\ opt.args \in 0 .. 3
  BY McprogAssumption DEF Programs_file
<1>2. Head(Commands) \in {"program", "write"}
  BY <1>1
<1>3. opt.args \in {1, 2}
  BY <1>1 DEF Commands
<1> QED
  BY <1>2, <1>3 DEF FileNamed

LEMMA LoadedMeant ==
    ASSUME opt \in CommandLines, main, Programs_file, ~Excepted PROVE Agrees'
<1>1. /\ opt' = opt /\ memory' = Loaded /\ Loaded.status # "exit"
      /\ FileNamed /\ opt.args \in {1, 2} /\ IsFile(opt.file) /\ opt.addr \in Nat
  BY ProgramsFile, McprogAssumption DEF main
<1>2. CASE opt.args = 1
  <2>1. Loaded = read_file(opt.file, K) /\ Meant = Meaning(opt.file, DEFAULT_ADDR)
    BY <1>1, <1>2 DEF Loaded, Meant
  <2>2. /\ DataLines(opt.file) = {} => Len(opt.file.bytes) <= MaxImage
        /\ ~BeginsAtZero(opt.file)
    <3>1. CASE DataLines(opt.file) = {}
      <4>1. Binary_file /\ ~(Len(opt.file.bytes) > MaxImage)
        BY <3>1 DEF Excepted, Binary_file
      <4>2. Len(opt.file.bytes) \in Nat /\ MaxImage \in Nat
        BY <1>1, ImageAssumption DEF IsFile
      <4>3. ~BeginsAtZero(opt.file)
        <5>1. Cardinality(DataLines(opt.file)) = 0
          BY <3>1, FS_EmptySet
        <5> QED
          BY <5>1 DEF BeginsAtZero
      <4> QED
        BY <4>1, <4>2, <4>3
    <3>2. CASE DataLines(opt.file) # {}
      BY <1>2, <3>2 DEF Excepted, Binary_file
    <3> QED
      BY <3>1, <3>2
  <2>3. Images(Loaded, Meant) /\ ~Spoiled(opt.file)
    BY <1>1, <2>1, <2>2, FileMeant
  <2> QED
    BY <1>1, <2>3 DEF Agrees, Images, Meant
<1>3. CASE opt.args = 2
  <2>1. Loaded = read_bin(opt.file, opt.addr) /\ Meant = BinaryMeaning(opt.file, opt.addr)
    BY <1>1, <1>3 DEF Loaded, Meant
  <2>2. Len(opt.file.bytes) <= MaxImage
    <3>1. Binary_file /\ ~(Len(opt.file.bytes) > MaxImage)
      BY <1>3 DEF Excepted, Binary_file
    <3>2. Len(opt.file.bytes) \in Nat /\ MaxImage \in Nat
      BY <1>1, ImageAssumption DEF IsFile
    <3> QED
      BY <3>1, <3>2
  <2>3. Images(Loaded, Meant)
    BY <1>1, <2>1, <2>2, BinMeant
  <2> QED
    BY <1>1, <1>3, <2>3 DEF Agrees, Images, Meant
<1> QED
  BY <1>1, <1>2, <1>3

-----------------------------------------------------------------------------
(* What an erase has yet to do.  A half that does not erase has nothing left. *)
Settled(f) == \A h \in {0, 1} : f.mode[h] # "erasing" => f.erasing \cap InHalf(f, h) = {}
SettledType == {f \in FlashType : Settled(f)}

LEMMA WriteSettles ==
    ASSUME NEW f \in SettledType, NEW w \in Writes, NEW g \in AfterWrite(f, w)
    PROVE  g \in SettledType
<1> DEFINE h == HalfOf(f.width, w.unit)
<1>1. f \in FlashType /\ Settled(f) /\ h \in {0, 1}
  BY DEF SettledType, HalfOf, Writes
<1>2. CASE g = f
  BY <1>2
<1>3. CASE f.mode[h] \notin Busy
  <2>1. PICK m \in Modes : g \in Near(f, h, m, {w.unit}, Erases(f, h, m))
    BY <1>1, AfterWriteTyped
  <2>2. /\ g \in FlashType /\ g.width = f.width /\ g.mode[h] = m
        /\ \A i \in {0, 1} \ {h} : g.mode[i] = f.mode[i]
        /\ g.erasing \subseteq f.erasing \cup Erases(f, h, m)
    BY <2>1 DEF Near
  <2> HIDE DEF h
  <2>3. ASSUME NEW i \in {0, 1}, g.mode[i] # "erasing" PROVE g.erasing \cap InHalf(g, i) = {}
    <3>1. InHalf(g, i) = InHalf(f, i)
      BY <2>2 DEF InHalf
    <3>2. f.erasing \cap InHalf(f, i) = {}
      BY <1>1, <1>3, <2>2, <2>3 DEF Settled, Busy
    <3>3. Erases(f, h, m) \cap InHalf(f, i) = {}
      <4>1. CASE i = h
        BY <2>2, <2>3, <4>1 DEF Erases
      <4>2. CASE i # h
        BY <4>2 DEF Erases, InHalf
      <4> QED
        BY <4>1, <4>2
    <3> QED
      BY <2>2, <3>1, <3>2, <3>3
  <2> QED
    BY <2>2, <2>3 DEF SettledType, Settled
<1>4. f.mode[h] \in Busy => g = f
  BY DEF AfterWrite
<1> QED
  BY <1>2, <1>3, <1>4

LEMMA AfterSettles ==
    ASSUME NEW f \in SettledType, NEW ws \in Seq(Writes) PROVE After(f, ws) \subseteq SettledType
<1>1. DOMAIN ws = 1 .. Len(ws) /\ Len(ws) \in Nat
  OBVIOUS
<1>2. \A g \in SettledType, i \in 1 .. Len(ws) : AfterWrite(g, ws[i]) \subseteq SettledType
  <2>1. \A i \in 1 .. Len(ws) : ws[i] \in Writes
    OBVIOUS
  <2> QED
    BY <2>1, WriteSettles
<1> QED
  BY <1>1, <1>2, AfterKeeps

LEMMA EndSettles ==
    ASSUME flash \in SettledType, NEW h \in {0, 1}, OperationDone(h)
    PROVE  /\ flash' \in SettledType
           /\ flash'.width = flash.width /\ flash'.kind = flash.kind
           /\ \A u \in Units : u \notin flash.erasing => flash'.mem[u] = flash.mem[u]
           /\ flash'.erasing \subseteq flash.erasing
           /\ flash'.mode[h] = IF flash.kind = "micron" THEN "status" ELSE "read"
           /\ \A i \in {0, 1} \ {h} : flash'.mode[i] = flash.mode[i]
<1> DEFINE done == flash.erasing \cap InHalf(flash, h)
           m == IF flash.kind = "micron" THEN "status" ELSE "read"
           mem == [u \in Units |-> IF u \in done THEN Erased ELSE flash.mem[u]]
<1>1. flash' = [flash EXCEPT !.mode[h] = m, !.erasing = @ \ done, !.mem = mem]
  BY DEF OperationDone, OperationEnds
<1>2. flash \in FlashType /\ Settled(flash)
  BY DEF SettledType
<1>3. mem \in [Units -> SUBSET Bits] /\ m \in Modes
  BY <1>2 DEF FlashType, Erased, Modes
<1>4. \A u \in Units : u \notin flash.erasing => mem[u] = flash.mem[u]
  OBVIOUS
<1> HIDE DEF mem, m
<1>5. /\ flash' \in FlashType /\ flash'.kind = flash.kind /\ flash'.width = flash.width
      /\ flash'.mem = mem /\ flash'.erasing = flash.erasing \ done
      /\ flash'.mode[h] = m /\ \A i \in {0, 1} \ {h} : flash'.mode[i] = flash.mode[i]
  <2> HIDE DEF done
  <2> QED
    BY <1>1, <1>2, <1>3 DEF FlashType
<1>6. \A i \in {0, 1} : InHalf(flash', i) = InHalf(flash, i)
  BY <1>5 DEF InHalf
<1>7. ASSUME NEW i \in {0, 1}, flash'.mode[i] # "erasing"
      PROVE  flash'.erasing \cap InHalf(flash', i) = {}
  <2>1. CASE i = h
    BY <1>5, <1>6, <2>1
  <2>2. CASE i # h
    BY <1>2, <1>5, <1>6, <1>7, <2>2 DEF Settled
  <2> QED
    BY <2>1, <2>2
<1>8. flash' \in SettledType
  BY <1>5, <1>7 DEF SettledType, Settled
<1> QED
  BY <1>4, <1>5, <1>8 DEF m

LEMMA SettledStep ==
    ASSUME PlaceInv, flash \in SettledType, [Next]_vars PROVE flash' \in SettledType
<1>1. flash \in FlashType
  BY DEF SettledType
<1>2. CASE \E ws \in Seq(Writes) : flash' \in After(flash, ws)
  BY <1>2, AfterSettles
<1>3. CASE WriteBlock
  <2>1. flash' \in FlashType
    BY <1>1, FlashTyped
  <2> DEFINE mem == [u \in Units |->
                        IF u - Base \in 0 .. Words * K - 1 /\ (u - Base) \div K \in BlockWords
                          THEN DataAt(u - Base) ELSE flash.mem[u]]
  <2>2. flash' = [flash EXCEPT !.mem = mem] \/ UNCHANGED flash
    BY <1>3 DEF WriteBlock
  <2> HIDE DEF mem
  <2>3. /\ flash'.mode = flash.mode /\ flash'.erasing = flash.erasing
        /\ flash'.width = flash.width
    BY <1>1, <2>2 DEF FlashType
  <2> QED
    BY <2>1, <2>3 DEF SettledType, Settled, InHalf
<1>4. CASE UNCHANGED flash
  BY <1>4
<1> QED
  BY <1>1, <1>2, <1>3, <1>4, FlashWays, EndSettles

LEMMA SettledInit == Init => flash \in SettledType
<1> SUFFICES ASSUME Init PROVE flash \in SettledType
  OBVIOUS
<1>1. flash \in FlashType /\ flash.erasing = {}
  BY ChipInit DEF Init, Fresh, ChipInv
<1> QED
  BY <1>1 DEF SettledType, Settled

-----------------------------------------------------------------------------
(* The steps of the program, by what they do to the image and to the outcome. *)
LEMMA InputStays ==
    ASSUME [Next]_vars PROVE UNCHANGED opt /\ (main \/ UNCHANGED memory)
  BY DEF Next, mcprog, vars, Rejected, main, Open, StopCpu, Stopped, StopFails, Configure,
     ConfigureFails, NoFlash, Detect, input,
     Erase, NoErase, EraseNothing, PollErase, target_erase, target_erase_sector, MicronErase,
     MicronErased, MicronEraseTimeout, Blocks, StartBlock, WriteBlock, ProgramWord, ProgramPage,
     ProgramBuffer, EndBlock, MicronProgramTimeout, ReadBlock, VerifyMatch, VerifyFails, Rewrite,
     check_clean, CopyBlock, CopyFails, CopyDone, QuitRun, RunCpu, QuitClose, Interrupted,
     OperationDone

LEMMA LeavingSteps ==
    ASSUME [Next]_vars, pc \in Leaving
    PROVE  /\ pc' \in Leaving /\ UNCHANGED memory /\ outcome' \in {outcome, "interrupted"}
           /\ UNCHANGED flash \/ \E h \in {0, 1} : OperationDone(h)
<1>1. ~(mcprog /\ ~QuitRun /\ ~RunCpu /\ ~QuitClose)
  <2>1. ~Blocks
    BY AtBlocks DEF AtBlock, Leaving
  <2>2. ~Erase
    BY DEF Erase, NoErase, EraseNothing, PollErase, target_erase, target_erase_sector, Erasing,
       MicronErase, MicronErased, MicronEraseTimeout, Leaving
  <2> QED
    BY <2>1, <2>2 DEF mcprog, Rejected, main, Open, StopCpu, Stopped, StopFails, Configure,
       ConfigureFails, NoFlash, Detect,
       check_clean, CopyBlock, CopyFails, CopyDone, Leaving
<1>2. CASE QuitRun \/ RunCpu \/ QuitClose
  BY <1>2 DEF QuitRun, RunCpu, QuitClose, input, chip, result, Leaving
<1>3. CASE Interrupted
  BY <1>3 DEF Interrupted, input, chip, Leaving
<1>4. CASE \E h \in {0, 1} : OperationDone(h)
  BY <1>4 DEF OperationDone, input, result
<1>5. CASE UNCHANGED vars
  BY <1>5 DEF vars, input, chip, result
<1> QED
  BY <1>1, <1>2, <1>3, <1>4, <1>5 DEF Next

(* From main on, and once a run is done, memory_data is what the file says. *)
FileInv ==
    Programs_file /\ ~Excepted /\ (pc \notin Leaving \cup {"main"} \/ outcome = "done") => Agrees

LEMMA FileStep ==
    ASSUME opt \in CommandLines, FileInv, [Next]_vars,
           Programs_file /\ outcome = "done" => pc \in Leaving
    PROVE  FileInv'
<1>1. UNCHANGED opt
  BY InputStays
<1>2. Programs_file' = Programs_file /\ Excepted' = Excepted
  BY <1>1 DEF Programs_file, Commands, Excepted, Binary_file
<1>3. UNCHANGED memory => Agrees' = Agrees
  BY <1>1 DEF Agrees, Images, Meant
<1>4. CASE main
  BY <1>2, <1>4, LoadedMeant DEF FileInv
<1>5. CASE UNCHANGED memory /\ pc \in Leaving
  <2>1. pc' \in Leaving /\ outcome' \in {outcome, "interrupted"}
    BY <1>5, LeavingSteps
  <2> QED
    BY <1>2, <1>3, <1>5, <2>1 DEF FileInv
<1>6. CASE UNCHANGED memory /\ pc \notin Leaving \cup {"main"}
  BY <1>2, <1>3, <1>6 DEF FileInv
<1>7. CASE UNCHANGED memory /\ pc = "main"
  <2>1. main \/ (pc' \in Leaving \cup {"main"} /\ outcome' \in {outcome, "failed", "interrupted"})
    <3>1. ~Blocks /\ ~Erase
      BY <1>7, AtBlocks DEF AtBlock, Erase, NoErase, EraseNothing, PollErase, target_erase,
         target_erase_sector, Erasing, MicronErase, MicronErased, MicronEraseTimeout
    <3>2. mcprog => main \/ Rejected
      BY <1>7, <3>1 DEF mcprog, Open, StopCpu, Stopped, StopFails, Configure, ConfigureFails, NoFlash,
         Detect, check_clean,
         CopyBlock, CopyFails, CopyDone, QuitRun, RunCpu, QuitClose
    <3>3. Rejected => pc' \in Leaving /\ outcome' = "failed"
      BY DEF Rejected, Leaving
    <3>4. Interrupted => pc' \in Leaving /\ outcome' = "interrupted"
      BY DEF Interrupted, Leaving
    <3>5. ASSUME NEW h \in {0, 1}, OperationDone(h) PROVE UNCHANGED <<pc, outcome>>
      BY <3>5 DEF OperationDone, result
    <3>6. UNCHANGED vars => UNCHANGED <<pc, outcome>>
      BY DEF vars, result
    <3> QED
      BY <1>7, <3>2, <3>3, <3>4, <3>5, <3>6 DEF Next
  <2>2. Programs_file => outcome # "done"
    BY <1>7 DEF Leaving
  <2> QED
    BY <1>2, <1>4, <2>1, <2>2 DEF FileInv
<1> QED
  BY <1>4, <1>5, <1>6, <1>7, InputStays
-----------------------------------------------------------------------------
(* A unit holds d for good: no erase of it is under way, and its half can be read. *)
Sure(f, u, d) ==
    /\ u \in Units /\ f.mem[u] = d /\ u \notin f.erasing
    /\ HalfOf(f.width, u) = 1 => f.mode[1] = "read"

(* The first n units of the image are in f for good. *)
KeptIn(f, n) == \A i \in 0 .. memory.len - 1 : i < n => Sure(f, Base + i, DataAt(i))

(* The image lies in the flash region: mcprog looks at its first address only. *)
InsideRegion == pc \in AtBlock => \A i \in 0 .. memory.len - 1 : Base + i \in Units

(* What read as memory is in the memory for good. *)
LEMMA ReadSure ==
    ASSUME NEW f \in SettledType, f.mode[1] \in {"read"} \cup Busy,
           f.kind = "micron" => f.width = 32 /\ f.mode[1] = "read",
           NEW u \in Units, ReadUnit(f, u) # Status
    PROVE  /\ Sure(f, u, ReadUnit(f, u))
           /\ f.kind = "micron" => f.mode[0] = "read"
<1> DEFINE h == HalfOf(f.width, u)
           ready == IF f.kind = "micron" THEN f.mode[h] = "read" ELSE f.mode[h] \notin Busy \cup {"id"}
<1>1. h \in {0, 1} /\ (h = 1 => f.width = 64)
  BY DEF HalfOf, Units
<1>2. ready /\ ReadUnit(f, u) = f.mem[u]
  BY DEF ReadUnit
<1>3. f.mode[h] \notin Busy
  BY <1>2 DEF Busy
<1>4. u \notin f.erasing
  <2>1. u \in InHalf(f, h)
    BY DEF InHalf
  <2>2. f.mode[h] # "erasing"
    BY <1>3 DEF Busy
  <2> HIDE DEF h
  <2> QED
    BY <1>1, <2>1, <2>2 DEF SettledType, Settled
<1>5. h = 1 => f.mode[1] = "read"
  BY <1>3
<1>6. f.kind = "micron" => f.mode[0] = "read"
  BY <1>1, <1>2
<1> QED
  BY <1>2, <1>4, <1>5, <1>6 DEF Sure

LEMMA SureTouched ==
    ASSUME NEW us, NEW f, NEW g \in Touched(f, us, {}), g.mode[1] = f.mode[1],
           NEW u, u \notin us, NEW d, Sure(f, u, d)
    PROVE  Sure(g, u, d)
  BY DEF Sure, Touched

(* The end of an operation does not reach it. *)
LEMMA SureEnds ==
    ASSUME opt \in CommandLines, ChipInv, flash \in SettledType,
           NEW h \in {0, 1}, OperationDone(h), NEW u, NEW d, Sure(flash, u, d)
    PROVE  Sure(flash', u, d)
<1>1. /\ flash'.width = flash.width
      /\ \A v \in Units : v \notin flash.erasing => flash'.mem[v] = flash.mem[v]
      /\ flash'.erasing \subseteq flash.erasing
      /\ flash'.mode[h] = IF flash.kind = "micron" THEN "status" ELSE "read"
      /\ \A i \in {0, 1} \ {h} : flash'.mode[i] = flash.mode[i]
  BY EndSettles
<1>2. u \in Units /\ flash'.mem[u] = d /\ u \notin flash'.erasing
  BY <1>1 DEF Sure
<1>3. ASSUME HalfOf(flash.width, u) = 1 PROVE flash'.mode[1] = "read"
  <2>1. flash.mode[1] = "read" /\ flash.kind # "micron"
    BY <1>3, KindsOf DEF Sure, HalfOf, ChipInv
  <2> QED
    BY <1>1, <2>1
<1> QED
  BY <1>1, <1>2, <1>3 DEF Sure

(* What a half can be: known from the modes of the chip. *)
LEMMA OtherHalf ==
    ASSUME opt \in CommandLines, ChipInv
    PROVE  /\ flash.mode[1] \in {"read"} \cup Busy
           /\ flash.kind = "micron" => flash.width = 32 /\ flash.mode[1] = "read"
           /\ flash.kind = opt.kind /\ flash.width = opt.width /\ flash \in FlashType
<1>1. flash.kind = opt.kind /\ flash.width = opt.width /\ flash \in FlashType /\ ModesInv
  BY DEF ChipInv
<1>2. flash.mode[1] \in {"read", "erasing"}
  BY <1>1, KindsOf DEF ModesInv
<1>3. flash.kind = "micron" => flash.width = 32 /\ flash.mode[1] = "read"
  BY <1>1, KindsOf DEF ModesInv
<1> QED
  BY <1>1, <1>2, <1>3 DEF Busy

-----------------------------------------------------------------------------
(* The loop over blocks keeps what it has verified. *)
Reached == IF pc = "verify" THEN word * K ELSE first * K

LEMMA HereIsAhead ==
    ASSUME NEW u \in Here
    PROVE  /\ pc = "verify" => u - Base \in word * K .. word * K + K - 1
           /\ pc # "verify" => u - Base >= first * K
  BY DEF Here

LEMMA Units2 ==
    ASSUME PlaceInv
    PROVE  /\ Base \in Int /\ memory.len \in Nat /\ word * K \in Int /\ first * K \in Int
<1>1. opt \in CommandLines /\ NumberInv
  BY DEF PlaceInv, CommandInv
<1>2. /\ memory.base \in Nat /\ memory.len \in Nat /\ first \in Nat
      /\ word \in 0 .. Words + BLOCKSZ
  BY <1>1 DEF NumberInv
<1>3. Base \in Int
  BY <1>1, <1>2, McprogAssumption DEF Base
<1>4. K \in {1, 2}
  BY <1>1, <1>2, WordsTyped
<1>5. word \in Int
  BY <1>2
<1> QED
  BY <1>2, <1>3, <1>4, <1>5

LEMMA KeptBefore ==
    ASSUME PlaceInv, pc \in AtBlock, BlockMoves, KeptIn(flash, Reached)
    PROVE  KeptIn(flash', Reached)
<1>1. ASSUME NEW i \in 0 .. memory.len - 1, i < Reached PROVE Sure(flash', Base + i, DataAt(i))
  <2>1. Sure(flash, Base + i, DataAt(i))
    BY <1>1 DEF KeptIn
  <2> DEFINE w == word * K
             f == first * K
             b == Base
             u == b + i
  <2>2. b \in Int /\ w \in Int /\ f \in Int /\ i \in Int
    BY Units2
  <2>3. Reached = IF pc = "verify" THEN w ELSE f
    BY DEF Reached
  <2>4. u \in Here => /\ pc = "verify" => u - b \in w .. w + K - 1
                      /\ pc # "verify" => u - b >= f
    BY HereIsAhead
  <2> HIDE DEF w, f, b
  <2>5. u - b = i
    BY <2>2
  <2> HIDE DEF u
  <2>6. u \notin Here
    <3>1. CASE pc = "verify"
      <4>1. \A n : \A x \in w .. n : x >= w
        BY <2>2
      <4> QED
        BY <1>1, <2>2, <2>3, <2>4, <2>5, <3>1, <4>1
    <3>2. CASE pc # "verify"
      BY <1>1, <2>2, <2>3, <2>4, <2>5, <3>2
    <3> QED
      BY <3>1, <3>2
  <2> QED
    BY <2>1, <2>6, SureTouched DEF BlockMoves, u, b
<1> QED
  BY <1>1 DEF KeptIn

(* What has been read of word k as memory is there for good. *)
WordRead(f, b, k) ==
    \A i \in 0 .. K - 1 :
        b[i] # Status /\ k * K + i < memory.len =>
            /\ Sure(f, WordAddr(k) + i, b[i])
            /\ f.kind = "micron" => f.mode[0] = "read"

BlockRead == pc = "verify" => \A k \in BlockWords : WordRead(flash, block[k], k)

LEMMA UnitOf ==
    ASSUME PlaceInv, NEW k \in BlockWords, NEW i \in 0 .. K - 1
    PROVE  /\ WordAddr(k) + i = Base + (k * K + i) /\ k * K + i \in Nat
           /\ (WordAddr(k) + i) - Base = k * K + i
           /\ InsideRegion /\ pc \in AtBlock /\ k * K + i < memory.len => WordAddr(k) + i \in Units
<1> DEFINE b == k * K
           a == WordAddr(k)
<1>1. /\ K \in {1, 2} /\ Base \in Int /\ b \in Nat /\ a \in Int /\ a - Base = b
      /\ memory.len \in Nat
  BY PlaceOf DEF PlaceInv, CommandInv, NumberInv
<1> HIDE DEF a, b
<1>2. i \in Nat
  BY <1>1
<1>3. a + i = Base + (b + i) /\ b + i \in Nat /\ (a + i) - Base = b + i
  BY <1>1, <1>2
<1>4. b + i < memory.len => b + i \in 0 .. memory.len - 1
  BY <1>1, <1>2
<1>5. InsideRegion /\ pc \in AtBlock /\ b + i < memory.len => a + i \in Units
  BY <1>3, <1>4 DEF InsideRegion
<1> QED
  BY <1>3, <1>5 DEF a, b

LEMMA ReadsWord ==
    ASSUME PlaceInv, InsideRegion, pc \in AtBlock, NEW f \in SettledType,
           f.mode[1] \in {"read"} \cup Busy,
           f.kind = "micron" => f.width = 32 /\ f.mode[1] = "read",
           NEW k \in BlockWords
    PROVE  WordRead(f, ReadWord(f, WordAddr(k)), k)
<1> DEFINE b == ReadWord(f, WordAddr(k))
<1>1. ASSUME NEW i \in 0 .. K - 1, b[i] # Status, k * K + i < memory.len
      PROVE  /\ Sure(f, WordAddr(k) + i, b[i])
             /\ f.kind = "micron" => f.mode[0] = "read"
  <2>1. b[i] = ReadUnit(f, WordAddr(k) + i)
    BY DEF ReadWord
  <2>2. WordAddr(k) + i \in Units
    BY <1>1, UnitOf
  <2> DEFINE u == WordAddr(k) + i
  <2> HIDE DEF u, b
  <2>3. u \in Units /\ b[i] = ReadUnit(f, u) /\ ReadUnit(f, u) # Status
    BY <1>1, <2>1, <2>2 DEF u
  <2>4. Sure(f, u, ReadUnit(f, u)) /\ (f.kind = "micron" => f.mode[0] = "read")
    BY <2>3, ReadSure
  <2> QED
    BY <2>3, <2>4 DEF u
<1> HIDE DEF b
<1>2. WordRead(f, b, k)
  BY <1>1 DEF WordRead
<1> QED
  BY <1>2 DEF b

LEMMA BlockReadOn ==
    ASSUME UNCHANGED <<opt, memory, first>>, \A k \in BlockWords : WordRead(flash', block'[k], k)
    PROVE  BlockRead'
<1>1. K' = K /\ Base' = Base /\ BlockWords' = BlockWords /\ memory' = memory
  BY DEF K, Base, BlockWords, Words
<1> QED
  BY <1>1, Zenon DEF BlockRead, WordRead, WordAddr

LEMMA BlockIsRead ==
    ASSUME PlaceInv, ChipInv, flash \in SettledType, InsideRegion, ReadBlock PROVE BlockRead'
<1>1. /\ pc = "read" /\ UNCHANGED <<opt, memory, flash, first>> /\ opt \in CommandLines
      /\ block' = [k \in BlockWords |-> ReadWord(flash, WordAddr(k))]
  BY DEF ReadBlock, input, chip, PlaceInv, CommandInv
<1>3. \A k \in BlockWords : WordRead(flash, ReadWord(flash, WordAddr(k)), k)
  <2>1. pc \in AtBlock
    BY <1>1 DEF AtBlock
  <2> QED
    BY <1>1, <2>1, OtherHalf, ReadsWord
<1>4. \A k \in BlockWords : WordRead(flash', block'[k], k)
  BY <1>1, <1>3
<1> QED
  BY <1>1, <1>4, BlockReadOn

(* A word that has been found right is in the memory for good. *)
LEMMA Verified ==
    ASSUME PlaceInv, pc = "verify", Matches, BlockRead, KeptIn(flash, Reached)
    PROVE  /\ KeptIn(flash, word * K + K)
           /\ flash.kind = "micron" => flash.mode[0] = "read"
<1>1. /\ opt \in CommandLines /\ NumberInv /\ word \in BlockWords
      /\ block[word] = Expected(word)
  BY DEF PlaceInv, CommandInv, NumberInv, Matches
<1>2. /\ memory.len \in Nat /\ K \in {1, 2} /\ Words \in Nat /\ Words * K < memory.len + K
  BY <1>1, WordsTyped DEF NumberInv
<1>3. word \in Nat /\ word < Words
  BY <1>1, InBlock
<1> DEFINE w == word * K
<1>4. w \in Nat /\ w < memory.len
  BY <1>2, <1>3
<1>5. ASSUME NEW j \in 0 .. K - 1, w + j < memory.len
      PROVE  /\ Sure(flash, Base + (w + j), DataAt(w + j))
             /\ flash.kind = "micron" => flash.mode[0] = "read"
  <2>1. block[word][j] = DataAt(w + j)
    BY <1>1 DEF Expected
  <2>2. DataAt(w + j) # Status
    <3>1. w + j \in Nat
      BY <1>2, <1>4
    <3> HIDE DEF w
    <3>2. DataAt(w + j) \in SUBSET Bits
      BY <1>1, <3>1, DataTyped
    <3> QED
      BY <3>2, FlashAssumption DEF Status
  <2>3. WordRead(flash, block[word], word)
    BY <1>1 DEF BlockRead
  <2>4. Sure(flash, WordAddr(word) + j, DataAt(w + j)) /\ (flash.kind = "micron" => flash.mode[0] = "read")
    BY <1>5, <2>1, <2>2, <2>3 DEF WordRead
  <2>5. WordAddr(word) + j = Base + (w + j)
    BY <1>1, UnitOf
  <2> QED
    BY <2>4, <2>5
<1>6. ASSUME NEW i \in 0 .. memory.len - 1, i < w + K PROVE Sure(flash, Base + i, DataAt(i))
  <2>1. CASE i < w
    BY <1>6, <2>1 DEF KeptIn, Reached
  <2>2. CASE ~(i < w)
    <3> DEFINE j == i - w
    <3> HIDE DEF w
    <3>1. j \in 0 .. K - 1 /\ w + j = i /\ i < memory.len
      BY <1>2, <1>4, <1>6, <2>2
    <3> HIDE DEF j
    <3>2. Sure(flash, Base + (w + j), DataAt(w + j))
      BY <1>5, <3>1
    <3> QED
      BY <3>1, <3>2
  <2> QED
    BY <2>1, <2>2
<1>7. 0 \in 0 .. K - 1 /\ w + 0 < memory.len
  <2> HIDE DEF w
  <2> QED
    BY <1>2, <1>4
<1>8. flash.kind = "micron" => flash.mode[0] = "read"
  BY <1>5, <1>7
<1> QED
  BY <1>6, <1>8 DEF KeptIn

LEMMA VerifyReaches ==
    ASSUME PlaceInv, BlockRead, KeptIn(flash, Reached), VerifyMatch
    PROVE  /\ KeptIn(flash, Reached') /\ pc' \in {"verify", "block"} /\ BlockRead'
           /\ flash.kind = "micron" => flash.mode[0] = "read"
<1>1. /\ pc = "verify" /\ Matches /\ UNCHANGED <<opt, memory, flash>>
      /\ IF word + 1 \in BlockWords
           THEN word' = word + 1 /\ UNCHANGED <<pc, first, block>>
           ELSE pc' = "block" /\ first' = first + BLOCKSZ
  BY DEF VerifyMatch, input, chip
<1>2. KeptIn(flash, word * K + K) /\ (flash.kind = "micron" => flash.mode[0] = "read")
  BY <1>1, Verified
<1>3. /\ opt \in CommandLines /\ NumberInv /\ word \in BlockWords
  BY <1>1 DEF PlaceInv, CommandInv, NumberInv
<1>4. /\ memory.len \in Nat /\ K \in {1, 2} /\ Words \in Nat /\ memory.len <= Words * K
  BY <1>3, WordsTyped DEF NumberInv
<1>5. /\ word \in Nat /\ word < Words /\ word < first + BLOCKSZ /\ first \in Nat
      /\ BLOCKSZ \in Nat /\ first <= word
  BY <1>3, InBlock DEF NumberInv
<1>6. K' = K /\ Base' = Base
  BY <1>1 DEF K, Base
<1>7. CASE word + 1 \in BlockWords
  <2>1. /\ word' = word + 1 /\ UNCHANGED <<pc, first, block>> /\ pc' = "verify"
    BY <1>1, <1>7
  <2>2. Reached' = word' * K
    BY <1>6, <2>1 DEF Reached
  <2>3. word' * K = word * K + K
    BY <1>4, <1>5, <2>1
  <2>4. BlockRead'
    <3>1. \A k \in BlockWords : WordRead(flash', block'[k], k)
      BY <1>1, <2>1 DEF BlockRead
    <3> QED
      BY <1>1, <2>1, <3>1, BlockReadOn
  <2> QED
    BY <1>2, <2>1, <2>2, <2>3, <2>4
<1>8. CASE word + 1 \notin BlockWords
  <2>1. pc' = "block" /\ first' = first + BLOCKSZ
    BY <1>1, <1>8
  <2>2. Reached' = first' * K /\ BlockRead'
    BY <1>6, <2>1 DEF Reached, BlockRead
  <2>3. word + 1 = first' \/ word + 1 = Words
    <3>1. ~(first <= word + 1 /\ word + 1 < Words /\ word + 1 < first + BLOCKSZ)
      BY <1>3, <1>5, <1>8, InBlock
    <3> QED
      BY <1>4, <1>5, <2>1, <3>1
  <2>4. CASE word + 1 = first'
    <3>1. first' * K = word * K + K
      BY <1>4, <1>5, <2>4
    <3> QED
      BY <1>2, <2>1, <2>2, <3>1
  <2>5. CASE word + 1 = Words
    <3>1. memory.len <= word * K + K
      BY <1>4, <1>5, <2>5
    <3>2. word * K + K \in Int
      BY <1>4, <1>5
    <3> DEFINE m == word * K + K
    <3> HIDE DEF m
    <3>3. \A i \in 0 .. memory.len - 1 : i < m
      BY <1>4, <3>1, <3>2 DEF m
    <3>4. KeptIn(flash, first' * K)
      BY <1>2, <3>3 DEF KeptIn, m
    <3> QED
      BY <1>2, <2>1, <2>2, <3>4
  <2> QED
    BY <2>3, <2>4, <2>5
<1> QED
  BY <1>7, <1>8

LEMMA OtherWord ==
    ASSUME PlaceInv, pc = "verify", NEW k \in BlockWords, k # word, NEW i \in 0 .. K - 1
    PROVE  WordAddr(k) + i \notin Here
<1> DEFINE u == WordAddr(k) + i
<1>1. /\ opt \in CommandLines /\ NumberInv /\ word \in BlockWords
  BY DEF PlaceInv, CommandInv, NumberInv
<1>2. k \in Nat /\ word \in Nat /\ K \in {1, 2}
  BY <1>1, PlaceOf
<1>3. u - Base = k * K + i
  BY UnitOf
<1> HIDE DEF u
<1>4. u \in Here => u - Base \in word * K .. word * K + K - 1
  BY HereIsAhead
<1>5. k * K + i \notin word * K .. word * K + K - 1
  BY <1>2
<1> QED
  BY <1>3, <1>4, <1>5 DEF u

(* A word that is rewritten is read again, and the others are as they were. *)
LEMMA RewriteReads ==
    ASSUME PlaceInv, ChipInv, flash \in SettledType, flash' \in SettledType, InsideRegion, BlockRead,
           Rewrite
    PROVE  BlockRead'
<1>1. /\ pc = "verify" /\ UNCHANGED <<opt, memory, first>> /\ opt \in CommandLines
      /\ block' = [block EXCEPT ![word] = ReadWord(flash', WordAddr(word))]
      /\ word \in BlockWords /\ DOMAIN block = BlockWords /\ pc \in AtBlock
  BY DEF Rewrite, input, PlaceInv, CommandInv, NumberInv, ReadInv, AtBlock
<1>2. /\ flash' \in Touched(flash, Here, {}) /\ flash'.mode[1] = flash.mode[1]
      /\ opt.kind = "micron" => flash'.mode[0] = flash.mode[0]
  BY ChipRewrite DEF BlockMoves
<1>3. flash'.kind = flash.kind /\ flash'.width = flash.width
  BY <1>2 DEF Touched
<1>4. /\ flash'.mode[1] \in {"read"} \cup Busy
      /\ flash'.kind = "micron" => flash'.width = 32 /\ flash'.mode[1] = "read"
      /\ flash'.kind = "micron" => flash'.mode[0] = flash.mode[0]
  BY <1>1, <1>2, <1>3, OtherHalf
<1>5. ASSUME NEW k \in BlockWords PROVE WordRead(flash', block'[k], k)
  <2>1. CASE k = word
    <3>1. block'[k] = ReadWord(flash', WordAddr(k))
      BY <1>1, <2>1
    <3>2. WordRead(flash', ReadWord(flash', WordAddr(k)), k)
      BY <1>1, <1>4, ReadsWord
    <3> QED
      BY <3>1, <3>2
  <2>2. CASE k # word
    <3>1. block'[k] = block[k] /\ WordRead(flash, block[k], k)
      BY <1>1, <2>2 DEF BlockRead
    <3> DEFINE b == block[k]
    <3> HIDE DEF b
    <3>2. ASSUME NEW i \in 0 .. K - 1, b[i] # Status, k * K + i < memory.len
          PROVE  /\ Sure(flash', WordAddr(k) + i, b[i])
                 /\ flash'.kind = "micron" => flash'.mode[0] = "read"
      <4> DEFINE u == WordAddr(k) + i
      <4>1. Sure(flash, u, b[i]) /\ (flash.kind = "micron" => flash.mode[0] = "read")
        BY <3>1, <3>2 DEF WordRead, b
      <4>2. u \notin Here
        BY <1>1, <2>2, OtherWord
      <4> HIDE DEF u
      <4>3. Sure(flash', u, b[i])
        BY <1>2, <4>1, <4>2, SureTouched
      <4> QED
        BY <1>3, <1>4, <4>1, <4>3 DEF u
    <3>3. WordRead(flash', b, k)
      BY <3>2 DEF WordRead
    <3> QED
      BY <3>1, <3>3 DEF b
  <2> QED
    BY <2>1, <2>2
<1> QED
  BY <1>1, <1>5, BlockReadOn

-----------------------------------------------------------------------------
(* A run that programs a file verifies it from its first word to its last. *)
DoneInv ==
    outcome = "done" =>
        /\ KeptIn(flash, memory.len) /\ pc \in Leaving
        /\ memory.len > 0 => flash.mode[0] = "read"

KeptInv ==
    Programs_file =>
        /\ pc \notin AtBlock \cup Leaving => first = 0
        /\ pc \in AtBlock => KeptIn(flash, Reached)
        /\ pc = "block" /\ first > 0 /\ flash.kind = "micron" => flash.mode[0] = "read"
        /\ BlockRead
        /\ DoneInv

LEMMA KeptFrame ==
    ASSUME UNCHANGED <<opt, memory>>
    PROVE  /\ KeptIn(flash, Reached)' <=> KeptIn(flash', Reached')
           /\ KeptIn(flash, memory.len)' <=> KeptIn(flash', memory.len)
           /\ Programs_file' <=> Programs_file
<1>1. Base' = Base /\ Commands' = Commands
  BY DEF Base, Commands
<1>2. Programs_file' <=> Programs_file
  BY <1>1 DEF Programs_file
<1>3. \A i : DataAt(i)' = DataAt(i)
  BY DEF DataAt
<1>4. memory' = memory
  OBVIOUS
<1>5. KeptIn(flash, Reached)' <=> KeptIn(flash', Reached')
  BY <1>1, <1>4, Zenon DEF KeptIn, DataAt
<1>6. KeptIn(flash, memory.len)' <=> KeptIn(flash', memory.len)
  BY <1>1, <1>4, Zenon DEF KeptIn, DataAt
<1> QED
  BY <1>2, <1>5, <1>6

LEMMA KeptOut ==
    ASSUME pc' \in Leaving, outcome' # "done" PROVE KeptInv'
  BY DEF KeptInv, DoneInv, BlockRead, Leaving, AtBlock

LEMMA KeptEarly ==
    ASSUME pc' \notin AtBlock \cup Leaving \/ pc' = "block", first' = 0, outcome' # "done" PROVE KeptInv'
<1>1. pc' = "block" => KeptIn(flash, Reached)'
  <2>1. CASE pc' = "block"
    <3>1. Reached' = 0
      <4>1. K' \in {1, 2}
        BY DEF K, UnitsPerWord
      <4>2. 0 * K' = 0
        <5>1. \A x \in {1, 2} : 0 * x = 0
          OBVIOUS
        <5> QED
          BY <4>1, <5>1, Zenon
      <4>3. Reached' = first' * K'
        BY <2>1 DEF Reached
      <4> QED
        BY <4>2, <4>3
    <3>2. \A i \in 0 .. memory'.len - 1 : ~(i < 0)
      OBVIOUS
    <3> QED
      BY <3>1, <3>2 DEF KeptIn
  <2> QED
    BY <2>1
<1>2. DoneInv' /\ BlockRead'
  BY DEF DoneInv, BlockRead, AtBlock
<1>3. pc' \in AtBlock => pc' = "block"
  BY DEF AtBlock
<1>4. ~(first' > 0)
  OBVIOUS
<1> QED
  BY <1>1, <1>2, <1>3, <1>4 DEF KeptInv

LEMMA KeptInBlock ==
    ASSUME UNCHANGED <<opt, memory>>, pc' \in AtBlock, outcome' # "done",
           KeptIn(flash', Reached'), BlockRead',
           pc' = "block" /\ flash'.kind = "micron" => flash'.mode[0] = "read"
    PROVE  KeptInv'
<1>1. KeptIn(flash, Reached)'
  BY KeptFrame
<1> QED
  BY <1>1 DEF KeptInv, DoneInv, AtBlock, Leaving

LEMMA KeptSteady ==
    ASSUME KeptInv, UNCHANGED <<opt, memory>>, outcome' \in {outcome, "interrupted"},
           \/ UNCHANGED <<pc, first, word, block>>
           \/ pc \in Leaving /\ pc' \in Leaving,
           flash'.kind = flash.kind, flash.mode[0] = "read" => flash'.mode[0] = "read",
           \A u, d : Sure(flash, u, d) => Sure(flash', u, d)
    PROVE  KeptInv'
<1>1. SUFFICES ASSUME Programs_file PROVE KeptInv'
  BY KeptFrame DEF KeptInv
<1>2. \A n : KeptIn(flash, n) => KeptIn(flash', n)
  BY DEF KeptIn
<1>3. DoneInv'
  <2>1. outcome' = "done" => outcome = "done"
    OBVIOUS
  <2>2. outcome' = "done" => KeptIn(flash, memory.len)'
    BY <1>1, <1>2, <2>1, KeptFrame DEF KeptInv, DoneInv
  <2> QED
    BY <1>1, <2>1, <2>2 DEF KeptInv, DoneInv
<1>4. CASE pc' \in Leaving
  BY <1>3, <1>4 DEF KeptInv, BlockRead, AtBlock, Leaving
<1>5. CASE UNCHANGED <<pc, first, word, block>>
  <2>1. K' = K
    BY DEF K
  <2>2. Reached' = Reached
    BY <1>5, <2>1 DEF Reached
  <2>3. pc \in AtBlock => KeptIn(flash, Reached)'
    BY <1>1, <1>2, <2>2, KeptFrame DEF KeptInv
  <2>4. BlockRead'
    <3>1. CASE pc = "verify"
      <4>1. ASSUME NEW k \in BlockWords PROVE WordRead(flash', block'[k], k)
        <5>1. WordRead(flash, block[k], k)
          BY <1>1, <3>1 DEF KeptInv, BlockRead
        <5>2. block' = block
          BY <1>5
        <5> QED
          BY <5>1, <5>2 DEF WordRead
      <4> QED
        BY <1>5, <4>1, BlockReadOn
    <3>2. CASE pc # "verify"
      BY <1>5, <3>2 DEF BlockRead
    <3> QED
      BY <3>1, <3>2
  <2>5. /\ pc' = pc /\ first' = first
        /\ pc \notin AtBlock \cup Leaving => first = 0
        /\ pc = "block" /\ first > 0 /\ flash.kind = "micron" => flash.mode[0] = "read"
    BY <1>1, <1>5 DEF KeptInv
  <2> QED
    BY <1>3, <2>3, <2>4, <2>5 DEF KeptInv
<1> QED
  BY <1>4, <1>5

LEMMA KeptEnds ==
    ASSUME opt \in CommandLines, ChipInv, flash \in SettledType, KeptInv,
           NEW h \in {0, 1}, OperationDone(h)
    PROVE  KeptInv'
<1>1. /\ UNCHANGED <<opt, memory>> /\ UNCHANGED <<pc, first, word, block>> /\ UNCHANGED outcome
      /\ flash.mode[h] \in Busy
  BY DEF OperationDone, input, place, result
<1>2. /\ flash'.kind = flash.kind
      /\ \A i \in {0, 1} \ {h} : flash'.mode[i] = flash.mode[i]
  BY EndSettles
<1>3. flash.mode[0] = "read" => flash'.mode[0] = "read"
  <2>1. "read" \notin Busy
    BY DEF Busy
  <2> QED
    BY <1>1, <1>2, <2>1
<1>4. \A u, d : Sure(flash, u, d) => Sure(flash', u, d)
  BY SureEnds
<1> QED
  BY <1>1, <1>2, <1>3, <1>4, KeptSteady

-----------------------------------------------------------------------------
(* The loop over blocks ends when it has verified all of the image. *)
LEMMA LoopDone ==
    ASSUME PlaceInv, ChipInv, pc = "block", first >= Words, KeptInv, Programs_file
    PROVE  KeptIn(flash, memory.len) /\ (memory.len > 0 => flash.mode[0] = "read")
<1>1. opt \in CommandLines /\ NumberInv
  BY DEF PlaceInv, CommandInv
<1>2. /\ memory.len \in Nat /\ K \in {1, 2} /\ Words \in Nat /\ memory.len <= Words * K
      /\ first \in Nat
  BY <1>1, WordsTyped DEF NumberInv
<1> DEFINE f == first * K
<1>3. f \in Nat /\ memory.len <= f /\ (memory.len > 0 => first > 0)
  <2>1. \A x \in Nat, y \in {1, 2} : x * y \in Nat
    OBVIOUS
  <2>2. f \in Nat
    BY <1>2, <2>1
  <2>3. memory.len <= f
    BY <1>2
  <2>4. first = 0 => f = 0
    BY <1>2
  <2> HIDE DEF f
  <2> QED
    BY <1>2, <2>2, <2>3, <2>4
<1>4. KeptIn(flash, f)
  BY DEF KeptInv, AtBlock, Reached
<1> HIDE DEF f
<1>5. KeptIn(flash, memory.len)
  <2>1. \A i \in 0 .. memory.len - 1 : i < f
    BY <1>2, <1>3
  <2> QED
    BY <1>4, <2>1 DEF KeptIn
<1>6. ASSUME memory.len > 0 PROVE flash.mode[0] = "read"
  <2>1. first > 0
    BY <1>3, <1>6
  <2>2. CASE opt.kind = "micron"
    <3>1. flash.kind = "micron"
      BY <2>2 DEF ChipInv
    <3> QED
      BY <2>1, <3>1 DEF KeptInv
  <2>3. CASE opt.kind # "micron"
    BY <1>1, <2>3, KindsOf DEF ChipInv, ModesInv, Leaving
  <2> QED
    BY <2>2, <2>3
<1> QED
  BY <1>5, <1>6

LEMMA KeptStart ==
    ASSUME PlaceInv, ChipInv, WellPlaced, InsideRegion, KeptInv, Programs_file, StartBlock
    PROVE  KeptInv'
<1>1. /\ pc = "block" /\ UNCHANGED <<opt, memory, first>> /\ pc \in AtBlock
      /\ outcome # "done"
  BY DEF StartBlock, input, AtBlock, KeptInv, DoneInv, Leaving
<1>2. CASE first >= Words /\ Return("done") /\ UNCHANGED flash
  <2>1. pc' = "quit"
    <3>1. CommandInv /\ left # <<>> /\ Cmd \in {"program", "write"}
      BY <1>1 DEF PlaceInv, CommandInv, Active, PCs, Leaving
    <3>2. Tail(left) = <<>>
      BY <3>1, LeftCases
    <3>3. ~(Len(left) > 1)
      BY <3>1, <3>2, LeftCases
    <3> QED
      BY <1>2, <3>3 DEF Return
  <2>2. KeptIn(flash, memory.len) /\ (memory.len > 0 => flash.mode[0] = "read")
    BY <1>1, <1>2, LoopDone
  <2>3. KeptIn(flash, memory.len)'
    BY <1>1, <1>2, <2>2, KeptFrame
  <2> QED
    BY <1>1, <1>2, <2>1, <2>2, <2>3 DEF KeptInv, DoneInv, BlockRead, AtBlock, Leaving
<1>3. CASE pc' \in {"read", "write", "program"} /\ UNCHANGED outcome
  <2>1. KeptIn(flash', Reached)
    <3>1. BlockMoves
      BY BlocksTouch DEF Blocks
    <3> QED
      BY <1>1, <3>1, KeptBefore DEF KeptInv
  <2>2. Reached' = Reached /\ BlockRead'
    BY <1>1, <1>3 DEF Reached, K, BlockRead
  <2> QED
    BY <1>1, <1>3, <2>1, <2>2, KeptInBlock DEF AtBlock
<1> QED
  BY <1>2, <1>3 DEF StartBlock, Goto

LEMMA KeptBlocks ==
    ASSUME PlaceInv, ChipInv, flash \in SettledType, flash' \in SettledType, WellPlaced,
           InsideRegion, KeptInv, Programs_file, Blocks
    PROVE  KeptInv'
<1>1. pc \in AtBlock /\ outcome # "done" /\ KeptIn(flash, Reached) /\ BlockRead
  BY AtBlocks DEF KeptInv, DoneInv, AtBlock, Leaving
<1>2. UNCHANGED <<opt, memory>>
  BY DEF Blocks, StartBlock, WriteBlock, ProgramWord, ProgramPage, ProgramBuffer, EndBlock,
     MicronProgramTimeout, ReadBlock, VerifyMatch, VerifyFails, Rewrite, input
<1>3. BlockMoves
  BY BlocksTouch
<1>4. KeptIn(flash', Reached)
  BY <1>1, <1>3, KeptBefore
<1>5. K' = K
  BY <1>2 DEF K
<1>6. CASE WriteBlock \/ ProgramWord \/ ProgramPage \/ ProgramBuffer \/ EndBlock \/ MicronProgramTimeout
  <2>1. /\ pc \in {"write", "program", "end block"} /\ pc' \in {"read", "program", "end block"}
        /\ UNCHANGED <<first, outcome>>
    BY <1>6 DEF WriteBlock, ProgramWord, ProgramPage, ProgramBuffer, EndBlock,
       MicronProgramTimeout, NextWord, Goto, place, result
  <2>2. Reached' = Reached /\ BlockRead'
    BY <1>5, <2>1 DEF Reached, BlockRead
  <2> QED
    BY <1>1, <1>2, <1>4, <2>1, <2>2, KeptInBlock DEF AtBlock
<1>7. CASE ReadBlock
  <2>1. /\ pc = "read" /\ pc' = "verify" /\ word' = first /\ UNCHANGED outcome
    BY <1>7 DEF ReadBlock, result
  <2>2. Reached' = Reached
    BY <1>5, <2>1 DEF Reached
  <2>3. BlockRead'
    BY <1>7, BlockIsRead
  <2> QED
    BY <1>1, <1>2, <1>4, <2>1, <2>2, <2>3, KeptInBlock DEF AtBlock
<1>8. CASE VerifyMatch
  <2>1. /\ KeptIn(flash, Reached') /\ pc' \in {"verify", "block"} /\ BlockRead'
        /\ flash.kind = "micron" => flash.mode[0] = "read"
    BY <1>1, <1>8, VerifyReaches
  <2>2. UNCHANGED <<flash, outcome>>
    BY <1>8 DEF VerifyMatch, chip, result
  <2> QED
    BY <1>1, <1>2, <2>1, <2>2, KeptInBlock DEF AtBlock
<1>9. CASE VerifyFails
  <2>1. pc' \in Leaving /\ outcome' = "error"
    BY <1>9, WaysOut DEF VerifyFails, Leaving
  <2> QED
    BY <2>1, KeptOut
<1>10. CASE Rewrite
  <2>1. \/ Exit("error")
        \/ UNCHANGED <<pc, outcome>>
    BY <1>10 DEF Rewrite
  <2>2. CASE Exit("error")
    <3>1. pc' \in Leaving /\ outcome' = "error"
      BY <2>2, WaysOut DEF Leaving
    <3> QED
      BY <3>1, KeptOut
  <2>3. CASE UNCHANGED <<pc, outcome>>
    <3>1. pc = "verify" /\ UNCHANGED <<word, first>>
      BY <1>10 DEF Rewrite
    <3>2. Reached' = Reached
      BY <1>5, <2>3, <3>1 DEF Reached
    <3>3. BlockRead'
      BY <1>1, <1>10, RewriteReads
    <3>4. UNCHANGED outcome /\ pc' = "verify" /\ pc' \in AtBlock /\ pc' # "block"
      BY <1>1, <2>3, <3>1
    <3> QED
      BY <1>1, <1>2, <1>4, <3>2, <3>3, <3>4, KeptInBlock
  <2> QED
    BY <2>1, <2>2, <2>3
<1> QED
  BY <1>6, <1>7, <1>8, <1>9, <1>10, KeptStart DEF Blocks

(* What comes before the loop. *)
LEMMA EarlySteps ==
    ASSUME CommandInv, Programs_file, pc \notin AtBlock \cup Leaving, mcprog
    PROVE  /\ UNCHANGED first
           /\ \/ pc' \in Leaving \cup {"open"} /\ outcome' = "failed"
              \/ UNCHANGED outcome /\ (pc' \notin AtBlock \cup Leaving \/ pc' = "block")
<1>1. ~Blocks /\ ~QuitRun /\ ~RunCpu /\ ~QuitClose
  BY AtBlocks DEF QuitRun, RunCpu, QuitClose, Leaving
<1>2. pc # "main" => Cmd \in {"program", "write"}
  <2>1. pc # "main" => left # <<>>
    BY DEF CommandInv, Active, Leaving
  <2>2. left # <<>> => Cmd \in {"program", "write"}
    <3>1. ASSUME left # <<>> PROVE Cmd \in {"program", "write"}
      <4>1. Commands \in {<<"program">>, <<"write">>}
        BY DEF Programs_file
      <4>2. left \in {Commands, <<"check">>}
        BY <3>1 DEF CommandInv
      <4>3. left # <<"check">>
        <5>1. left = <<"check">> => Commands \in {<<"check">>, <<"erase", "check">>}
          BY DEF CommandInv
        <5> DEFINE p == <<"program">>
                   w == <<"write">>
                   c == <<"check">>
                   e == <<"erase", "check">>
        <5>2. Head(p) = "program" /\ Head(w) = "write" /\ Head(c) = "check" /\ Head(e) = "erase"
          OBVIOUS
        <5>3. Commands \in {p, w} /\ (left = c => Commands \in {c, e})
          BY <4>1, <5>1
        <5> HIDE DEF p, w, c, e
        <5>4. left # c
          BY <5>2, <5>3
        <5> QED
          BY <5>4 DEF c
      <4>4. left \in {<<"program">>, <<"write">>}
        BY <4>1, <4>2, <4>3
      <4> QED
        BY <4>4 DEF Cmd
    <3> QED
      BY <3>1
  <2> QED
    BY <2>1, <2>2
<1>3. CASE Rejected \/ main \/ Open \/ StopCpu \/ Stopped \/ StopFails \/ ConfigureFails
           \/ NoFlash
  <2>1. /\ UNCHANGED first
        /\ \/ pc' \in {"quit", "ended", "open"} /\ outcome' = "failed"
           \/ UNCHANGED outcome /\ pc' \in {"open", "stop", "stopping", "configure"}
    BY <1>3, WaysOut DEF Rejected, main, Open, StopCpu, Stopped, StopFails, ConfigureFails,
       NoFlash, Goto, place
  <2> QED
    BY <2>1 DEF AtBlock, Leaving
<1>4. CASE Configure
  <2>1. pc = "configure" /\ Cmd # "info"
    BY <1>2, <1>4 DEF Configure
  <2>2. UNCHANGED <<first, outcome>> /\ pc' \in {"block", "detect"}
    BY <1>4, <2>1 DEF Configure, Goto, place
  <2> QED
    BY <2>2 DEF AtBlock, Leaving
<1>5. CASE Detect
  <2>1. pc = "detect" /\ Cmd \notin {"probe", "check", "read"}
    BY <1>2, <1>5 DEF Detect
  <2>2. UNCHANGED <<first, outcome>> /\ pc' = "erase"
    BY <1>5, <2>1 DEF Detect, Goto
  <2> QED
    BY <2>2 DEF AtBlock, Leaving
<1>6. CASE Erase
  <2>1. pc \in AtErase
    BY <1>6 DEF Erase, NoErase, EraseNothing, PollErase, target_erase, target_erase_sector,
       MicronErase, MicronErased, MicronEraseTimeout, Erasing, AtErase
  <2>2. Cmd # "erase"
    BY <1>2, <2>1 DEF AtErase
  <2>3. EraseReturns => Goto("block")
    BY <2>2 DEF EraseReturns
  <2>4. UNCHANGED <<first, outcome>> /\ pc' \in {"block", "erase", "poll", "poll micron"}
    BY <1>6, <2>3 DEF Erase, NoErase, EraseNothing, PollErase, target_erase, target_erase_sector,
       MicronErase, MicronErased, MicronEraseTimeout, Goto, place
  <2> QED
    BY <2>4 DEF AtBlock, Leaving
<1>7. ~check_clean /\ ~CopyBlock /\ ~CopyFails /\ ~CopyDone
  BY <1>2 DEF check_clean, CopyBlock, CopyFails, CopyDone, CommandInv
<1> QED
  BY <1>1, <1>3, <1>4, <1>5, <1>6, <1>7 DEF mcprog

LEMMA KeptStep ==
    ASSUME PlaceInv, ChipInv, flash \in SettledType, flash' \in SettledType, WellPlaced,
           InsideRegion, KeptInv, [Next]_vars
    PROVE  KeptInv'
<1>1. opt \in CommandLines /\ CommandInv
  BY DEF PlaceInv, CommandInv
<1>2. CASE ~Programs_file
  <2>1. Programs_file' <=> Programs_file
    BY InputStays DEF Programs_file, Commands
  <2> QED
    BY <1>2, <2>1 DEF KeptInv
<1>3. CASE Interrupted
  <2>1. pc' \in Leaving /\ outcome' = "interrupted"
    BY <1>3 DEF Interrupted, Leaving
  <2> QED
    BY <2>1, KeptOut
<1>4. CASE \E h \in {0, 1} : OperationDone(h)
  BY <1>1, <1>4, KeptEnds
<1>5. CASE UNCHANGED vars
  <2>1. UNCHANGED <<opt, memory, flash, outcome, pc, first, word, block>>
    BY <1>5 DEF vars, input, chip, place, result
  <2> QED
    BY <2>1, KeptSteady
<1>6. CASE mcprog /\ pc \in Leaving
  <2>1. /\ pc' \in Leaving /\ UNCHANGED <<opt, memory>> /\ outcome' \in {outcome, "interrupted"}
        /\ UNCHANGED flash \/ \E h \in {0, 1} : OperationDone(h)
    BY <1>6, LeavingSteps, InputStays
  <2>2. CASE UNCHANGED flash
    BY <1>6, <2>1, <2>2, KeptSteady
  <2> QED
    BY <1>4, <2>1, <2>2
<1>7. CASE mcprog /\ pc \in AtBlock /\ Programs_file
  <2>1. ~Erase
    BY <1>7 DEF Erase, NoErase, EraseNothing, PollErase, target_erase, target_erase_sector,
       MicronErase, MicronErased, MicronEraseTimeout, Erasing, AtBlock
  <2>2. Blocks
    BY <1>7, <2>1 DEF mcprog, Rejected, main, Open, StopCpu, Stopped, StopFails, Configure,
       ConfigureFails, NoFlash, Detect,
       check_clean, CopyBlock, CopyFails, CopyDone, QuitRun, RunCpu, QuitClose, AtBlock
  <2> QED
    BY <1>7, <2>2, KeptBlocks
<1>8. CASE mcprog /\ pc \notin AtBlock \cup Leaving /\ Programs_file
  <2>1. first = 0 /\ outcome # "done"
    BY <1>8 DEF KeptInv, DoneInv
  <2>2. /\ UNCHANGED first
        /\ \/ pc' \in Leaving \cup {"open"} /\ outcome' = "failed"
           \/ UNCHANGED outcome /\ (pc' \notin AtBlock \cup Leaving \/ pc' = "block")
    BY <1>1, <1>8, EarlySteps
  <2>3. CASE pc' \in Leaving
    <3>1. outcome' # "done"
      BY <2>1, <2>2
    <3> QED
      BY <2>3, <3>1, KeptOut
  <2>4. CASE pc' \notin Leaving
    <3>1. "open" \notin AtBlock \cup Leaving
      BY DEF AtBlock, Leaving
    <3>2. /\ first' = 0 /\ outcome' # "done"
          /\ pc' \notin AtBlock \cup Leaving \/ pc' = "block"
      BY <2>1, <2>2, <2>4, <3>1
    <3> QED
      BY <3>2, KeptEarly
  <2> QED
    BY <2>3, <2>4
<1> QED
  BY <1>2, <1>3, <1>4, <1>5, <1>6, <1>7, <1>8 DEF Next

(* All that is known of a run, and what it comes to at its end. *)
DoneParts == IInv /\ ChipInv /\ flash \in SettledType /\ KeptInv /\ FileInv

LEMMA DoneInit == Init => DoneParts
<1> SUFFICES ASSUME Init PROVE DoneParts
  OBVIOUS
<1>1. pc = "main" /\ outcome = "none" /\ first = 0
  BY DEF Init
<1>2. KeptInv /\ FileInv
  BY <1>1 DEF KeptInv, DoneInv, BlockRead, FileInv, AtBlock, Leaving
<1> QED
  BY <1>2, IInvInit, ChipInit, SettledInit DEF DoneParts

LEMMA DoneStep == DoneParts /\ WellPlaced /\ InsideRegion /\ [Next]_vars => DoneParts'
<1> SUFFICES ASSUME DoneParts, WellPlaced, InsideRegion, [Next]_vars PROVE DoneParts'
  OBVIOUS
<1>1. /\ IInv /\ PlaceInv /\ ChipInv /\ flash \in SettledType /\ KeptInv /\ FileInv
      /\ opt \in CommandLines
  BY DEF DoneParts, IInv, PlaceInv, CommandInv
<1>2. IInv' /\ ChipInv'
  BY <1>1, IInvStep, ChipStep
<1>3. flash' \in SettledType
  BY <1>1, SettledStep
<1>4. KeptInv'
  BY <1>1, <1>3, KeptStep
<1>5. Programs_file /\ outcome = "done" => pc \in Leaving
  BY <1>1 DEF KeptInv, DoneInv
<1>6. FileInv'
  BY <1>1, <1>5, FileStep
<1> QED
  BY <1>2, <1>3, <1>4, <1>6 DEF DoneParts

LEMMA MeantTyped ==
    ASSUME opt \in CommandLines, NEW a \in DOMAIN Meant PROVE a \in Int
<1>1. IsFile(opt.file) /\ opt.addr \in Nat /\ DEFAULT_ADDR \in Nat
  BY McprogAssumption, ImageAssumption
<1>2. ASSUME NEW base \in Nat, NEW b \in DOMAIN BinaryMeaning(opt.file, base) PROVE b \in Int
  <2>1. Len(opt.file.bytes) \in Nat
    BY <1>1 DEF IsFile
  <2>2. b \in base .. base + Len(opt.file.bytes) - 1
    BY DEF BinaryMeaning
  <2> QED
    BY <2>1, <2>2
<1>3. CASE opt.args = 2
  <2>1. Meant = BinaryMeaning(opt.file, opt.addr)
    BY <1>3 DEF Meant
  <2> QED
    BY <1>1, <1>2, <2>1
<1>4. CASE opt.args # 2 /\ DataLines(opt.file) = {}
  <2>1. Meant = BinaryMeaning(opt.file, DEFAULT_ADDR)
    BY <1>4 DEF Meant, Meaning
  <2> QED
    BY <1>1, <1>2, <2>1
<1>5. CASE opt.args # 2 /\ DataLines(opt.file) # {}
  <2>1. Meant = Meaning(opt.file, DEFAULT_ADDR)
    BY <1>5 DEF Meant
  <2> QED
    BY <1>1, <1>5, <2>1, MeantAt
<1> QED
  BY <1>3, <1>4, <1>5

LEMMA DoneFollows == DoneParts => DoneMeansProgrammed
<1> SUFFICES ASSUME DoneParts, outcome = "done", Programs_file, ~Excepted
             PROVE  /\ \A a \in DOMAIN Meant : ReadUnit(flash, a - opt.region) = Meant[a]
                    /\ opt.args = 2 \/ ~Spoiled(opt.file)
  BY DEF DoneMeansProgrammed
<1>1. /\ opt \in CommandLines /\ NumberInv /\ ChipInv
  BY DEF DoneParts, IInv, PlaceInv, CommandInv
<1>2. /\ KeptIn(flash, memory.len)
      /\ memory.len > 0 => flash.mode[0] = "read"
  BY DEF DoneParts, KeptInv, DoneInv
<1>3. Images(memory, Meant) /\ (opt.args = 2 \/ ~Spoiled(opt.file))
  BY DEF DoneParts, FileInv, Agrees
<1>4. /\ memory.base \in Nat /\ memory.len \in Nat /\ memory.len <= MaxImage /\ opt.region \in Nat
  <2>1. Commands # <<"read">>
    <3> DEFINE p == <<"program">>
               w == <<"write">>
               r == <<"read">>
    <3>1. Head(p) = "program" /\ Head(w) = "write" /\ Head(r) = "read"
      OBVIOUS
    <3>2. Commands \in {p, w}
      BY DEF Programs_file
    <3> HIDE DEF p, w, r
    <3>3. Commands # r
      BY <3>1, <3>2
    <3> QED
      BY <3>3 DEF r
  <2> QED
    BY <1>1, <2>1, KindsOf DEF NumberInv
<1>5. ASSUME NEW a \in DOMAIN Meant PROVE ReadUnit(flash, a - opt.region) = Meant[a]
  <2> DEFINE i == a - memory.base
             u == Base + i
             d == Meant[a]
  <2>1. i \in 0 .. memory.len - 1 /\ memory.data[i] = d
    BY <1>3 DEF Images
  <2>2. a \in Int
    BY <1>1, <1>3, MeantTyped
  <2>3. u = a - opt.region
    BY <1>4, <2>2 DEF Base
  <2> HIDE DEF i, d
  <2>4. i < memory.len /\ DataAt(i) = d
    <3>1. i < memory.len /\ i < MaxImage
      BY <1>4, <2>1, ImageAssumption
    <3> QED
      BY <2>1, <3>1 DEF DataAt
  <2>5. Sure(flash, u, d)
    BY <1>2, <2>1, <2>4 DEF KeptIn
  <2>6. flash.mode[0] = "read"
    BY <1>2, <1>4, <2>1
  <2> HIDE DEF u
  <2>7. flash.mode[HalfOf(flash.width, u)] = "read"
    <3>1. HalfOf(flash.width, u) \in {0, 1}
      BY <2>5 DEF HalfOf, Sure, Units
    <3> QED
      BY <2>5, <2>6, <3>1 DEF Sure
  <2>8. ReadUnit(flash, u) = d
    BY <2>5, <2>7 DEF ReadUnit, Sure, Busy
  <2> QED
    BY <2>3, <2>8 DEF u, d
<1> QED
  BY <1>3, <1>5

(* A run of mcprog that programs a file and returns normally leaves the memory as
   the file says, each record at its address and the later over the earlier, and no
   record of a HEX file was spoiled: for every file, format, kind of flash, bus,
   block size, erase and number of weak cells.  The image has to lie inside the
   flash, which mcprog does not look at, and a 64-bit image is WellPlaced. *)
THEOREM ProgrammedWhenDone ==
    Spec => ([]WellPlaced /\ []InsideRegion => []DoneMeansProgrammed)
<1>1. Init => DoneParts
  BY DoneInit
<1>2. DoneParts /\ WellPlaced /\ InsideRegion /\ [Next]_vars => DoneParts'
  BY DoneStep
<1>3. DoneParts => DoneMeansProgrammed
  BY DoneFollows
<1> QED
  BY <1>1, <1>2, <1>3, PTL DEF Spec
=============================================================================

-------------------------- MODULE TargetRegsProofs --------------------------
(***************************************************************************)
(* Looking into a stopped CPU, for any registers, memory and values: what  *)
(* is saved is typed, that is, no read returned the value of a bus nobody  *)
(* drives; the debug bit is gone when the program runs; and on the MC12 GP *)
(* points at word 0 of the internal memory from the stop to the resume,    *)
(* unless the debugger writes GP itself.                                   *)
(*                                                                         *)
(* The argument is about adapter->oscr, the host's copy of the chip's      *)
(* OSCR: it is stale after a reset, and true whenever the CPU is stopped,  *)
(* which is the only time it decides what is written.                      *)
(***************************************************************************)
EXTENDS TargetRegs, TLAPS

(* A chip whose OSCR is what the host believes. *)
Known(c) == c \in Chips /\ c.copy = c.oscr

(* One whose memory reads are enabled as well. *)
Readable(c) == Known(c) /\ {"SlctMEM", "RO"} \subseteq c.oscr

Looking ==
    /\ TypeOK
    /\ cpu = "running" => is_running
    /\ is_running => "DBM" \notin m.oscr
    /\ ~is_running => m.copy = m.oscr
    /\ ~is_running /\ MC12(m) => {GP, FP} \subseteq DOMAIN cached

-----------------------------------------------------------------------------
(* Access to the chip. *)
LEMMA Names ==
    /\ GP \in Regs /\ FP \in Regs /\ GP # FP /\ GP \in Gprs
    /\ GP \notin Others /\ FP \notin Others
    /\ CRAM_ADDR \in Addrs /\ CRAM_ADDR \in Words
    /\ Boot \in Pcs \cup {Boot} /\ Jump(Boot) \in Pipes
BY RegsAssumption DEF Regs, GP, FP, Jump, Pipes

LEMMA ExecTyped ==
    ASSUME NEW c \in Chips
    PROVE  /\ target_exec(c) \in Chips
           /\ target_exec(c).reg = c.reg /\ target_exec(c).ram = c.ram
           /\ target_exec(c).oscr = c.oscr /\ target_exec(c).copy = c.copy
           /\ target_exec(c).idcode = c.idcode /\ target_exec(c).trap = c.trap
BY Names DEF target_exec, Chips

LEMMA WriteOscrTyped ==
    ASSUME NEW c \in Chips, NEW bits \in SUBSET OscrBits
    PROVE  /\ Known(WriteOscr(c, bits))
           /\ WriteOscr(c, bits).reg = c.reg /\ WriteOscr(c, bits).ram = c.ram
           /\ WriteOscr(c, bits).oscr = bits
           /\ WriteOscr(c, bits).idcode = c.idcode /\ WriteOscr(c, bits).trap = c.trap
           /\ WriteOscr(c, bits).pipe = c.pipe
BY DEF WriteOscr, Known, Chips

(* A register of a chip may be given any word. *)
LEMMA RegTyped ==
    ASSUME NEW c \in Chips, NEW r \in Regs, NEW w \in Words
    PROVE  /\ [c EXCEPT !.reg[r] = w] \in Chips
           /\ [c EXCEPT !.reg[r] = w].oscr = c.oscr
           /\ [c EXCEPT !.reg[r] = w].copy = c.copy
           /\ [c EXCEPT !.reg[r] = w].idcode = c.idcode
           /\ [c EXCEPT !.reg[r] = w].trap = c.trap /\ [c EXCEPT !.reg[r] = w].pipe = c.pipe
           /\ [c EXCEPT !.reg[r] = w].ram = c.ram
           /\ [c EXCEPT !.reg[r] = w].reg = [c.reg EXCEPT ![r] = w]
           /\ [c EXCEPT !.reg[r] = w].reg[r] = w
           /\ \A x \in Regs \ {r} : [c EXCEPT !.reg[r] = w].reg[x] = c.reg[x]
BY DEF Chips

LEMMA RamTyped ==
    ASSUME NEW c \in Chips, NEW a \in Addrs, NEW w \in Words
    PROVE  /\ [c EXCEPT !.ram[a] = w] \in Chips
           /\ [c EXCEPT !.ram[a] = w].oscr = c.oscr
           /\ [c EXCEPT !.ram[a] = w].copy = c.copy
           /\ [c EXCEPT !.ram[a] = w].idcode = c.idcode
           /\ [c EXCEPT !.ram[a] = w].trap = c.trap /\ [c EXCEPT !.ram[a] = w].pipe = c.pipe
           /\ [c EXCEPT !.ram[a] = w].ram = [c.ram EXCEPT ![a] = w]
           /\ [c EXCEPT !.ram[a] = w].reg = c.reg
BY DEF Chips

LEMMA PipeTyped ==
    ASSUME NEW c \in Chips, NEW p \in Pipes
    PROVE  /\ [c EXCEPT !.pipe = p] \in Chips
           /\ [c EXCEPT !.pipe = p].oscr = c.oscr
           /\ [c EXCEPT !.pipe = p].copy = c.copy
           /\ [c EXCEPT !.pipe = p].idcode = c.idcode /\ [c EXCEPT !.pipe = p].trap = c.trap
           /\ [c EXCEPT !.pipe = p].ram = c.ram /\ [c EXCEPT !.pipe = p].pipe = p
           /\ [c EXCEPT !.pipe = p].reg = c.reg
BY DEF Chips

(* With a true copy of OSCR a read is always enabled before it is made. *)
LEMMA ReadWordEnables ==
    ASSUME NEW c, Known(c)
    PROVE  /\ Readable(target_read_word(c))
           /\ target_read_word(c).reg = c.reg
           /\ target_read_word(c).ram = c.ram
           /\ target_read_word(c).idcode = c.idcode
           /\ target_read_word(c).trap = c.trap
<1> DEFINE new == c.copy \cup {"SlctMEM", "RO"}
           d == target_read_start(c)
<1>1. c \in Chips /\ c.copy = c.oscr /\ new \in SUBSET OscrBits
  BY DEF Known, Chips, OscrBits
<1>2. /\ Known(d) /\ d.oscr = new
      /\ d.reg = c.reg /\ d.ram = c.ram /\ d.idcode = c.idcode /\ d.trap = c.trap
  <2>1. CASE new # c.copy
    <3>1. d = WriteOscr(c, new)
      BY <2>1 DEF target_read_start
    <3> QED
      BY <1>1, <3>1, WriteOscrTyped
  <2>2. CASE new = c.copy
    <3>1. d = c
      BY <2>2 DEF target_read_start
    <3> QED
      BY <1>1, <2>2, <3>1 DEF Known
  <2> QED
    BY <2>1, <2>2
<1>3. target_read_word(c) = [d EXCEPT !.copy = d.oscr]
  BY DEF target_read_word, target_read_next
<1> HIDE DEF d
<1>4. d \in Chips
  BY <1>2 DEF Known
<1>5. /\ [d EXCEPT !.copy = d.oscr] \in Chips
      /\ [d EXCEPT !.copy = d.oscr].copy = d.oscr
      /\ [d EXCEPT !.copy = d.oscr].oscr = d.oscr
      /\ [d EXCEPT !.copy = d.oscr].reg = d.reg
      /\ [d EXCEPT !.copy = d.oscr].ram = d.ram
      /\ [d EXCEPT !.copy = d.oscr].idcode = d.idcode
      /\ [d EXCEPT !.copy = d.oscr].trap = d.trap
  BY <1>4 DEF Chips
<1> QED
  BY <1>2, <1>3, <1>5 DEF Readable, Known

LEMMA ReadableValue ==
    ASSUME NEW c, Readable(c), NEW a \in Addrs
    PROVE  MemValue(c, a) \in Words /\ MemValue(c, a) = c.ram[a]
BY DEF Readable, Known, MemValue, Chips

LEMMA WriteWordTyped ==
    ASSUME NEW c \in Chips, NEW a \in Addrs, NEW w \in Words
    PROVE  /\ target_write_word(c, a, w) \in Chips
           /\ target_write_word(c, a, w).reg = c.reg
           /\ target_write_word(c, a, w).idcode = c.idcode
           /\ target_write_word(c, a, w).trap = c.trap
           /\ Known(c) => /\ Known(target_write_word(c, a, w))
                          /\ target_write_word(c, a, w).ram = [c.ram EXCEPT ![a] = w]
<1> DEFINE new == (c.copy \ {"RO"}) \cup {"SlctMEM"}
           d == IF new # c.copy THEN WriteOscr(c, new) ELSE c
<1>1. new \in SUBSET OscrBits
  BY DEF Chips, OscrBits
<1>2. /\ d \in Chips /\ d.reg = c.reg /\ d.idcode = c.idcode
      /\ d.trap = c.trap /\ d.ram = c.ram
      /\ Known(c) => Known(d) /\ "SlctMEM" \in d.oscr /\ "RO" \notin d.oscr
  <2>1. CASE new # c.copy
    <3>1. d = WriteOscr(c, new)
      BY <2>1
    <3>2. /\ Known(d) /\ d.reg = c.reg /\ d.idcode = c.idcode
          /\ d.trap = c.trap /\ d.ram = c.ram /\ d.oscr = new
      BY <1>1, <3>1, WriteOscrTyped
    <3> QED
      BY <3>2 DEF Known
  <2>2. CASE new = c.copy
    BY <2>2 DEF Known
  <2> QED
    BY <2>1, <2>2
<1>3. target_write_word(c, a, w) = IF "SlctMEM" \in d.oscr /\ "RO" \notin d.oscr
                                      THEN [d EXCEPT !.ram[a] = w] ELSE d
  BY DEF target_write_word
<1> HIDE DEF d
<1>4. CASE "SlctMEM" \in d.oscr /\ "RO" \notin d.oscr
  BY <1>2, <1>3, <1>4, RamTyped DEF Known
<1>5. CASE ~("SlctMEM" \in d.oscr /\ "RO" \notin d.oscr)
  BY <1>2, <1>3, <1>5
<1> QED
  BY <1>4, <1>5

-----------------------------------------------------------------------------
(* Reading and writing a register of the stopped CPU.  On the MC12 anything
   but a read of a general register costs FP; neither disturbs GP. *)
LEMMA StoreAndReadEnables ==
    ASSUME NEW c, Known(c), NEW r \in Regs
    PROVE  /\ Readable(StoreAndRead(c, r))
           /\ StoreAndRead(c, r).reg = c.reg
           /\ StoreAndRead(c, r).idcode = c.idcode
<1> DEFINE e == target_exec(c)
           s == IF c.reg[GP] \in Addrs
                  THEN [e EXCEPT !.ram[c.reg[GP]] = c.reg[r]] ELSE e
<1>1. c \in Chips /\ c.reg[r] \in Words
  BY DEF Known, Chips
<1>2. Known(e) /\ e.reg = c.reg /\ e.idcode = c.idcode
  BY <1>1, ExecTyped DEF Known
<1>3. StoreAndRead(c, r) = target_read_word(s)
  BY DEF StoreAndRead
<1> HIDE DEF e
<1>4. Known(s) /\ s.reg = c.reg /\ s.idcode = c.idcode
  <2>1. CASE c.reg[GP] \in Addrs
    <3>1. s = [e EXCEPT !.ram[c.reg[GP]] = c.reg[r]]
      BY <2>1
    <3> QED
      BY <1>1, <1>2, <2>1, <3>1, RamTyped DEF Known
  <2>2. CASE c.reg[GP] \notin Addrs
    BY <1>2, <2>2
  <2> QED
    BY <2>1, <2>2
<1> HIDE DEF s
<1> QED
  BY <1>3, <1>4, ReadWordEnables

LEMMA FetchedTyped ==
    ASSUME NEW c, Known(c), NEW r \in Regs
    PROVE  /\ Known(Fetched(c, r))
           /\ Fetched(c, r).reg[GP] = c.reg[GP]
           /\ Fetched(c, r).idcode = c.idcode
           /\ FetchedValue(c, r) \in Words
<1>1. c \in Chips /\ c.reg[r] \in Words
  BY DEF Known, Chips
<1>2. CASE ~MC12(c)
  BY <1>1, <1>2 DEF Fetched, FetchedValue
<1>3. CASE MC12(c) /\ r \in Others
  <2> DEFINE f == [c EXCEPT !.reg[FP] = c.reg[r]]
  <2>1. Known(f) /\ f.reg[GP] = c.reg[GP] /\ f.idcode = c.idcode
    BY <1>1, Names, RegTyped DEF Known
  <2>2. Fetched(c, r) = StoreAndRead(f, FP)
    BY <1>3 DEF Fetched
  <2> HIDE DEF f
  <2>3. Readable(Fetched(c, r)) /\ Fetched(c, r).reg = f.reg
        /\ Fetched(c, r).idcode = c.idcode
    BY <2>1, <2>2, Names, StoreAndReadEnables
  <2>4. FetchedValue(c, r) = MemValue(Fetched(c, r), CRAM_ADDR)
    BY <1>3 DEF FetchedValue
  <2> QED
    BY <2>1, <2>3, <2>4, Names, ReadableValue DEF Readable
<1>4. CASE MC12(c) /\ r \notin Others
  <2>1. Fetched(c, r) = StoreAndRead(c, r)
    BY <1>4 DEF Fetched
  <2>2. Readable(Fetched(c, r)) /\ Fetched(c, r).reg = c.reg
        /\ Fetched(c, r).idcode = c.idcode
    BY <2>1, StoreAndReadEnables
  <2>3. FetchedValue(c, r) = MemValue(Fetched(c, r), CRAM_ADDR)
    BY <1>4 DEF FetchedValue
  <2> QED
    BY <2>2, <2>3, Names, ReadableValue DEF Readable
<1> QED
  BY <1>2, <1>3, <1>4

LEMMA StoredTyped ==
    ASSUME NEW c, Known(c), NEW r \in Regs, NEW w \in Words
    PROVE  /\ Known(Stored(c, r, w))
           /\ Stored(c, r, w).idcode = c.idcode
           /\ r # GP => Stored(c, r, w).reg[GP] = c.reg[GP]
<1> DEFINE e == target_exec(c)
<1>1. e \in Chips /\ Known(e) /\ e.reg = c.reg /\ e.idcode = c.idcode
  BY ExecTyped DEF Known
<1>2. CASE MC12(c) /\ r \notin Gprs
  <2> DEFINE f == [e EXCEPT !.reg[FP] = w]
             g == [f EXCEPT !.reg[r] = w]
  <2>1. Stored(c, r, w) = [e EXCEPT !.reg[FP] = w, !.reg[r] = w]
    BY <1>2 DEF Stored
  <2> HIDE DEF e
  <2>2. [e EXCEPT !.reg[FP] = w, !.reg[r] = w] = g
    BY <1>1 DEF Chips
  <2>3. f \in Chips /\ Known(f) /\ f.reg[GP] = c.reg[GP] /\ f.idcode = c.idcode
    BY <1>1, Names, RegTyped DEF Known
  <2> HIDE DEF f
  <2>4. Known(g) /\ g.idcode = c.idcode /\ (r # GP => g.reg[GP] = c.reg[GP])
    BY <2>3, Names, RegTyped DEF Known
  <2> QED
    BY <2>1, <2>2, <2>4
<1>3. CASE ~(MC12(c) /\ r \notin Gprs)
  <2>1. Stored(c, r, w) = [e EXCEPT !.reg[r] = w]
    BY <1>3 DEF Stored
  <2> HIDE DEF e
  <2> QED
    BY <1>1, <2>1, Names, RegTyped DEF Known
<1> QED
  BY <1>2, <1>3

-----------------------------------------------------------------------------
(* Entry, exit, and the program in between. *)
LEMMA ExecutedTyped ==
    ASSUME NEW c \in Chips, NEW d \in Executed(c)
    PROVE  d \in Chips /\ d.oscr = c.oscr /\ d.copy = c.copy /\ d.idcode = c.idcode
<1>1. CASE c.trap # NO_EXCEPTION
  <2>1. d = [c EXCEPT !.pipe = Jump(c.trap), !.trap = NO_EXCEPTION]
    BY <1>1 DEF Executed
  <2>2. c.trap \in Pcs /\ Jump(c.trap) \in Pipes
    BY <1>1 DEF Chips, Pipes, Jump
  <2> QED
    BY <2>1, <2>2 DEF Chips
<1>2. CASE c.trap = NO_EXCEPTION
  <2>1. \/ \E r \in Regs, w \in Words : d = [c EXCEPT !.reg[r] = w]
        \/ \E a \in Addrs, w \in Words : d = [c EXCEPT !.ram[a] = w]
        \/ \E p \in Pcs \X (Pcs \cup {"seq"}) : d = [c EXCEPT !.pipe = p]
        \/ \E p \in Pcs : d = [c EXCEPT !.trap = p]
    BY <1>2 DEF Executed
  <2>2. ASSUME NEW r \in Regs, NEW w \in Words, d = [c EXCEPT !.reg[r] = w]
        PROVE  d \in Chips /\ d.oscr = c.oscr /\ d.copy = c.copy /\ d.idcode = c.idcode
    BY <2>2, RegTyped
  <2>3. ASSUME NEW a \in Addrs, NEW w \in Words, d = [c EXCEPT !.ram[a] = w]
        PROVE  d \in Chips /\ d.oscr = c.oscr /\ d.copy = c.copy /\ d.idcode = c.idcode
    BY <2>3, RamTyped
  <2>4. ASSUME NEW p \in Pcs \X (Pcs \cup {"seq"}), d = [c EXCEPT !.pipe = p]
        PROVE  d \in Chips /\ d.oscr = c.oscr /\ d.copy = c.copy /\ d.idcode = c.idcode
    <3>1. p \in Pipes
      BY DEF Pipes
    <3> QED
      BY <2>4, <3>1, PipeTyped
  <2>5. ASSUME NEW p \in Pcs, d = [c EXCEPT !.trap = p]
        PROVE  d \in Chips /\ d.oscr = c.oscr /\ d.copy = c.copy /\ d.idcode = c.idcode
    BY <2>5 DEF Chips
  <2> QED
    BY <2>1, <2>2, <2>3, <2>4, <2>5
<1> QED
  BY <1>1, <1>2

LEMMA HaltedTyped ==
    ASSUME NEW c \in Chips
    PROVE  Known(Halted(c)) /\ Halted(c).reg = c.reg /\ Halted(c).idcode = c.idcode
<1> DEFINE e == target_exec(c)
           t == [e EXCEPT !.trap = NO_EXCEPTION]
           bits == (c.oscr \ {"NDS"}) \cup {"DBM"}
<1>1. e \in Chips /\ e.reg = c.reg /\ e.idcode = c.idcode
  BY ExecTyped
<1>2. bits \in SUBSET OscrBits
  BY DEF Chips, OscrBits
<1>3. Halted(c) = WriteOscr(t, bits)
  BY DEF Halted
<1> HIDE DEF e, bits
<1>4. t \in Chips /\ t.reg = e.reg /\ t.idcode = e.idcode
  BY <1>1 DEF Chips
<1> HIDE DEF t
<1> QED
  BY <1>1, <1>2, <1>3, <1>4, WriteOscrTyped

(* What an entry leaves: a typed chip with a true copy of OSCR, and on the MC12
   the saved word and registers, with GP as the base. *)
LEMMA SaveTyped ==
    ASSUME mem0 \in Words, NEW c \in Chips, NEW s \in BOOLEAN, target_save_state(c, s)
    PROVE  /\ Known(m') /\ m'.idcode = c.idcode
           /\ mem0' \in Words /\ pipe' \in Pipes
           /\ exception' \in Pcs \cup {NO_EXCEPTION}
           /\ DOMAIN cached' \subseteq Regs
           /\ \A r \in DOMAIN cached' : cached'[r] \in Words
           /\ MC12(m') => {GP, FP} \subseteq DOMAIN cached' /\ m'.reg[GP] = CRAM_ADDR
<1> DEFINE h == Halted(c)
           a == target_read_word(h)
           e == target_exec(a)
           b == [e EXCEPT !.reg[GP] = CRAM_ADDR]
           d == IF MC12(c) THEN Fetched(b, FP) ELSE h
           last == IF s THEN target_read_word(d) ELSE d
<1>1. /\ pipe' = c.pipe /\ exception' = c.trap
      /\ MC12(c) => /\ mem0' = MemValue(a, CRAM_ADDR)
                    /\ cached' = [r \in {GP, FP} |->
                                     IF r = GP THEN a.reg[GP] ELSE FetchedValue(b, FP)]
      /\ ~MC12(c) => cached' = [r \in {} |-> mem0] /\ mem0' = mem0
      /\ m' = last
  BY DEF target_save_state
<1>2. Known(h) /\ h.idcode = c.idcode
  BY HaltedTyped
<1> HIDE DEF h
<1>3. Readable(a) /\ a.idcode = c.idcode
  BY <1>2, ReadWordEnables
<1>4. MemValue(a, CRAM_ADDR) \in Words /\ a.reg[GP] \in Words
  BY <1>3, Names, ReadableValue DEF Readable, Known, Chips
<1> HIDE DEF a
<1>5. Known(e) /\ e.idcode = c.idcode
  BY <1>3, ExecTyped DEF Readable, Known
<1> HIDE DEF e
<1>6. Known(b) /\ b.idcode = c.idcode /\ b.reg[GP] = CRAM_ADDR
  BY <1>5, Names, RegTyped DEF Known
<1> HIDE DEF b
<1>7. Known(d) /\ d.idcode = c.idcode /\ (MC12(c) => d.reg[GP] = CRAM_ADDR)
      /\ FetchedValue(b, FP) \in Words
  BY <1>2, <1>6, Names, FetchedTyped
<1> HIDE DEF d
<1>8. Known(last) /\ last.idcode = c.idcode /\ (MC12(c) => last.reg[GP] = CRAM_ADDR)
  BY <1>7, ReadWordEnables DEF Readable
<1> HIDE DEF last
<1>9. c.pipe \in Pipes /\ c.trap \in Pcs \cup {NO_EXCEPTION}
  BY DEF Chips
<1>10. MC12(m') <=> MC12(c)
  BY <1>1, <1>8 DEF MC12
<1>11. CASE MC12(c)
  <2>1. DOMAIN cached' = {GP, FP}
    BY <1>1, <1>11
  <2>2. \A r \in DOMAIN cached' : cached'[r] \in Words
    BY <1>1, <1>4, <1>7, <1>11, <2>1
  <2> QED
    BY <1>1, <1>4, <1>8, <1>9, <1>11, <2>1, <2>2, Names
<1>12. CASE ~MC12(c)
  <2>1. DOMAIN cached' = {}
    BY <1>1, <1>12
  <2> QED
    BY <1>1, <1>8, <1>9, <1>10, <1>12, <2>1
<1> QED
  BY <1>11, <1>12

(* An exit takes the debug bit away. *)
LEMMA RestoreTyped ==
    ASSUME Looking, ~is_running
    PROVE  /\ target_restore_state \in Chips
           /\ target_restore_state.idcode = m.idcode
           /\ "DBM" \notin target_restore_state.oscr
<1> DEFINE p == RestoreRegs(m)
           q == RestorePipe(p)
           bits == (q.copy \cup {"NDS"}) \ {"DBM"}
<1>1. m \in Chips /\ mem0 \in Words /\ pipe \in Pipes
      /\ exception \in Pcs \cup {NO_EXCEPTION}
  BY DEF Looking, TypeOK
<1>2. p \in Chips /\ p.idcode = m.idcode
  <2>1. CASE MC12(m)
    <3> DEFINE f == [m EXCEPT !.reg[FP] = cached[FP]]
               g == [f EXCEPT !.reg[GP] = cached[GP]]
    <3>1. cached[FP] \in Words /\ cached[GP] \in Words
      BY <2>1 DEF Looking, TypeOK
    <3>2. p = target_write_word([m EXCEPT !.reg[FP] = cached[FP], !.reg[GP] = cached[GP]],
                                CRAM_ADDR, mem0)
      BY <2>1 DEF RestoreRegs
    <3>3. [m EXCEPT !.reg[FP] = cached[FP], !.reg[GP] = cached[GP]] = g
      BY <1>1 DEF Chips
    <3>4. f \in Chips /\ f.idcode = m.idcode
      BY <1>1, <3>1, Names, RegTyped
    <3> HIDE DEF f
    <3>5. g \in Chips /\ g.idcode = m.idcode
      BY <3>1, <3>4, Names, RegTyped
    <3> HIDE DEF g, p
    <3> QED
      BY <1>1, <3>2, <3>3, <3>5, Names, WriteWordTyped, ZenonT(60)
  <2>2. CASE ~MC12(m)
    BY <1>1, <2>2 DEF RestoreRegs
  <2> QED
    BY <2>1, <2>2
<1> HIDE DEF p
<1>3. q \in Chips /\ q.idcode = m.idcode
  <2> DEFINE n == IF exception = NO_EXCEPTION THEN pipe ELSE Jump(exception)
  <2>1. n \in Pipes
    BY <1>1 DEF Jump, Pipes
  <2>2. q = [p EXCEPT !.pipe = n]
    BY DEF RestorePipe
  <2> HIDE DEF n, q
  <2> QED
    BY <1>2, <2>1, <2>2, PipeTyped
<1>4. target_restore_state = WriteOscr(q, bits)
  BY DEF target_restore_state, RestoreOscr, p
<1> HIDE DEF q
<1>5. bits \in SUBSET OscrBits /\ "DBM" \notin bits
  BY <1>3 DEF Chips, OscrBits
<1> HIDE DEF bits
<1> QED
  BY <1>3, <1>4, <1>5, WriteOscrTyped DEF Known

-----------------------------------------------------------------------------
(* The invariant. *)
LEMMA LookingInit == Init => Looking
<1> SUFFICES ASSUME Init PROVE Looking
  OBVIOUS
<1>1. m \in Chips /\ m.oscr = {} /\ m.copy = {}
  BY Names DEF Init, Chips
<1>2. TypeOK
  BY <1>1, Names DEF Init, TypeOK
<1> QED
  BY <1>1, <1>2 DEF Init, Looking

(* The CPU enters debug mode under the host's hand, or was there. *)
LEMMA EntryLooks ==
    ASSUME mem0 \in Words, NEW c \in Chips, NEW s \in BOOLEAN, target_save_state(c, s),
           is_running' = FALSE, cpu' = "stopped"
    PROVE  Looking' /\ GpIsBase'
<1>1. /\ Known(m')
      /\ mem0' \in Words /\ pipe' \in Pipes
      /\ exception' \in Pcs \cup {NO_EXCEPTION}
      /\ DOMAIN cached' \subseteq Regs
      /\ \A r \in DOMAIN cached' : cached'[r] \in Words
      /\ MC12(m') => {GP, FP} \subseteq DOMAIN cached' /\ m'.reg[GP] = CRAM_ADDR
  BY SaveTyped
<1>2. TypeOK'
  BY <1>1 DEF TypeOK, Known
<1> QED
  BY <1>1, <1>2 DEF Looking, GpIsBase, Known, MC12

(* The CPU goes on running with the debug bit off. *)
LEMMA ExitLooks ==
    ASSUME Looking, Leave, m' \in Chips, "DBM" \notin m'.oscr,
           exception' \in Pcs \cup {NO_EXCEPTION}
    PROVE  Looking' /\ GpIsBase'
<1>1. TypeOK'
  BY DEF Looking, TypeOK, Leave
<1> QED
  BY <1>1 DEF Looking, GpIsBase, Leave

(* A request leaves the CPU stopped, and forgets nothing that was saved. *)
LEMMA RequestLooks ==
    ASSUME Looking, ~is_running, UNCHANGED <<cpu, is_running, mem0, pipe>>,
           Known(m'), m'.idcode = m.idcode,
           exception' \in Pcs \cup {NO_EXCEPTION},
           DOMAIN cached \subseteq DOMAIN cached', DOMAIN cached' \subseteq Regs,
           \A r \in DOMAIN cached' : cached'[r] \in Words
    PROVE  Looking'
<1>1. TypeOK'
  BY DEF Looking, TypeOK, Known
<1> QED
  BY <1>1 DEF Looking, Known, MC12

(* On an MC12 the debugger writes any register but GP. *)
GpLeftAlone == "MC12" \in Idcodes => GP \notin DbgWrites["MC12"]

Quiet == Looking /\ GpIsBase

LEMMA LookingNext ==
    ASSUME Looking, [Next]_vars
    PROVE  Looking' /\ (GpLeftAlone /\ GpIsBase => GpIsBase')
<1> USE DEF Known
<1>1. /\ m \in Chips /\ mem0 \in Words /\ exception \in Pcs \cup {NO_EXCEPTION}
      /\ is_running \in BOOLEAN /\ pipe \in Pipes
      /\ DOMAIN cached \subseteq Regs /\ \A r \in DOMAIN cached : cached[r] \in Words
  BY DEF Looking, TypeOK
<1>2. ~is_running => Known(m) /\ cpu = "stopped"
  BY <1>1 DEF Looking, TypeOK
<1>3. CASE CpuRuns
  <2>1. m' \in Chips /\ m'.oscr = m.oscr /\ m'.copy = m.copy /\ m'.idcode = m.idcode
    BY <1>1, <1>3, ExecutedTyped DEF CpuRuns
  <2>2. is_running /\ is_running' = is_running
    BY <1>3 DEF CpuRuns, Looking
  <2>3. TypeOK'
    BY <1>3, <2>1 DEF CpuRuns, Looking, TypeOK
  <2> QED
    BY <1>3, <2>1, <2>2, <2>3 DEF CpuRuns, Looking, GpIsBase
<1>4. CASE CpuHalts
  <2>1. TypeOK'
    BY <1>4 DEF CpuHalts, Looking, TypeOK
  <2> QED
    BY <1>4, <2>1 DEF CpuHalts, Looking, GpIsBase
<1>5. CASE target_stop
  <2>1. target_save_state(m, TRUE)
    BY <1>5 DEF target_stop
  <2> QED
    BY <1>1, <1>5, <2>1, EntryLooks DEF target_stop
<1>6. CASE target_is_stopped
  <2>1. target_save_state(m, FALSE)
    BY <1>6 DEF target_is_stopped
  <2> QED
    BY <1>1, <1>6, <2>1, EntryLooks DEF target_is_stopped
<1>7. CASE target_step
  <2>1. PICK c \in Executed(target_restore_state) : target_save_state(c, FALSE)
    BY <1>7 DEF target_step
  <2>2. c \in Chips
    BY <1>7, RestoreTyped, ExecutedTyped DEF target_step
  <2>3. is_running' = FALSE /\ cpu' = "stopped"
    BY <1>1, <1>2, <1>7 DEF target_step
  <2> QED
    BY <1>1, <2>1, <2>2, <2>3, EntryLooks
<1>8. CASE target_resume
  <2>1. m' \in Chips /\ "DBM" \notin m'.oscr
    BY <1>8, RestoreTyped DEF target_resume
  <2> QED
    BY <1>1, <1>8, <2>1, ExitLooks DEF target_resume
<1>9. CASE target_restart
  <2> DEFINE c == IF is_running THEN m ELSE target_restore_state
  <2>1. c \in Chips
    BY <1>1, RestoreTyped
  <2>2. m' = [c EXCEPT !.pipe = Jump(Boot), !.trap = NO_EXCEPTION, !.oscr = {}]
    BY <1>9 DEF target_restart
  <2> HIDE DEF c
  <2>3. m' \in Chips /\ "DBM" \notin m'.oscr
    BY <2>1, <2>2, Names DEF Chips
  <2> QED
    BY <1>1, <1>9, <2>3, ExitLooks DEF target_restart
<1>10. ASSUME NEW pc \in Pcs, target_run(pc)
       PROVE  Looking' /\ GpIsBase'
  <2>1. Jump(pc) \in Pipes
    BY DEF Jump, Pipes
  <2>2. m' \in Chips /\ "DBM" \notin m'.oscr
    BY <1>10, <2>1, RestoreTyped, PipeTyped DEF target_run
  <2> QED
    BY <1>10, <2>2, ExitLooks DEF target_run
<1>11. ASSUME NEW pc \in Pcs, WritePc(pc)
       PROVE  Looking' /\ (GpIsBase => GpIsBase')
  <2>1. Looking'
    BY <1>1, <1>2, <1>11, RequestLooks DEF WritePc
  <2> QED
    BY <1>11, <2>1 DEF WritePc, GpIsBase
<1>12. CASE ReadPc
  <2>1. Looking'
    BY <1>1, <1>2, <1>12, RequestLooks DEF ReadPc
  <2> QED
    BY <1>12, <2>1 DEF ReadPc, GpIsBase
<1>13. ASSUME NEW r \in Regs, target_read_register(r)
       PROVE  Looking' /\ (GpIsBase => GpIsBase')
  <2>1. /\ Known(Fetched(m, r)) /\ Fetched(m, r).reg[GP] = m.reg[GP]
        /\ Fetched(m, r).idcode = m.idcode /\ FetchedValue(m, r) \in Words
    BY <1>2, <1>13, FetchedTyped DEF target_read_register
  <2>2. /\ Known(m') /\ m'.idcode = m.idcode /\ m'.reg[GP] = m.reg[GP]
        /\ DOMAIN cached \subseteq DOMAIN cached' /\ DOMAIN cached' \subseteq Regs
        /\ \A x \in DOMAIN cached' : cached'[x] \in Words
    <3>1. CASE r \in DOMAIN cached
      BY <1>1, <1>2, <1>13, <3>1 DEF target_read_register
    <3>2. CASE r \notin DOMAIN cached
      <4>1. /\ m' = Fetched(m, r)
            /\ cached' = [x \in DOMAIN cached \cup {r} |->
                             IF x = r THEN FetchedValue(m, r) ELSE cached[x]]
        BY <1>13, <3>2 DEF target_read_register
      <4> QED
        BY <1>1, <2>1, <4>1
    <3> QED
      BY <3>1, <3>2
  <2>3. ~is_running /\ UNCHANGED <<cpu, is_running, mem0, pipe, exception>>
    BY <1>13 DEF target_read_register
  <2>4. Looking'
    BY <1>1, <2>2, <2>3, RequestLooks
  <2> QED
    BY <2>2, <2>3, <2>4 DEF GpIsBase, MC12
<1>14. ASSUME NEW r \in DbgWrites[m.idcode], NEW w \in Words, target_write_register(r, w)
       PROVE  Looking' /\ (GpLeftAlone /\ GpIsBase => GpIsBase')
  <2>1. r \in Regs /\ m.idcode \in Idcodes
    BY <1>1, RegsAssumption DEF Chips
  <2>2. /\ Known(m') /\ m'.idcode = m.idcode /\ (r # GP => m'.reg[GP] = m.reg[GP])
    BY <1>2, <1>14, <2>1, StoredTyped DEF target_write_register
  <2>3. /\ ~is_running /\ UNCHANGED <<cpu, is_running, mem0, pipe, exception>>
        /\ cached' = [x \in DOMAIN cached \cup {r} |-> IF x = r THEN w ELSE cached[x]]
    BY <1>14 DEF target_write_register
  <2>4. /\ DOMAIN cached \subseteq DOMAIN cached' /\ DOMAIN cached' \subseteq Regs
        /\ \A x \in DOMAIN cached' : cached'[x] \in Words
    BY <1>1, <2>1, <2>3
  <2>5. Looking'
    BY <1>1, <2>2, <2>3, <2>4, RequestLooks
  <2>6. GpLeftAlone /\ MC12(m) => r # GP
    BY <2>1 DEF GpLeftAlone, MC12
  <2> QED
    BY <2>2, <2>3, <2>5, <2>6 DEF GpIsBase, MC12
<1>15. ASSUME NEW a \in DbgAddrs[m.idcode], ReadMem(a)
       PROVE  Looking' /\ (GpIsBase => GpIsBase')
  <2>1. Known(m') /\ m'.reg = m.reg /\ m'.idcode = m.idcode
    BY <1>2, <1>15, ReadWordEnables DEF ReadMem, Readable
  <2>2. Looking'
    BY <1>1, <1>15, <2>1, RequestLooks DEF ReadMem
  <2> QED
    BY <1>15, <2>1, <2>2 DEF ReadMem, GpIsBase, MC12
<1>16. ASSUME NEW a \in DbgAddrs[m.idcode], NEW w \in Words, WriteMem(a, w)
       PROVE  Looking' /\ (GpIsBase => GpIsBase')
  <2>1. a \in Addrs
    BY <1>1, RegsAssumption DEF Chips
  <2>2. Known(m') /\ m'.reg = m.reg /\ m'.idcode = m.idcode
    BY <1>2, <1>16, <2>1, WriteWordTyped DEF WriteMem
  <2>3. Looking'
    BY <1>1, <1>16, <2>2, RequestLooks DEF WriteMem
  <2> QED
    BY <1>16, <2>2, <2>3 DEF WriteMem, GpIsBase, MC12
<1>17. CASE UNCHANGED vars
  BY <1>17 DEF vars, Looking, TypeOK, GpIsBase
<1> QED
  BY <1>3, <1>4, <1>5, <1>6, <1>7, <1>8, <1>9, <1>10, <1>11, <1>12, <1>13, <1>14,
     <1>15, <1>16, <1>17 DEF Next

LEMMA LookingAlways == Spec => []Looking
<1>1. Looking /\ [Next]_vars => Looking'
  BY LookingNext
<1> QED
  BY <1>1, LookingInit, PTL DEF Spec

-----------------------------------------------------------------------------
(* Nothing the host has saved is the value of an undriven bus: memory reads are
   enabled whenever target_read_next takes one, for any registers and memory. *)
THEOREM SavedIsTyped == Spec => []TypeOK
<1>1. Looking => TypeOK
  BY DEF Looking
<1> QED
  BY <1>1, LookingAlways, PTL

(* target_restore_state and the reset of target_restart take the debug bit away:
   no program is ever left to run with it. *)
THEOREM DebugBitGone == Spec => []RunsWithoutDebugBit
<1>1. Looking => RunsWithoutDebugBit
  BY DEF Looking, RunsWithoutDebugBit
<1> QED
  BY <1>1, LookingAlways, PTL

(* "Uses GP as the base" of target_read_reg and its relatives: as long as the
   debugger writes no GP on an MC12, no request moves GP from word 0. *)
THEOREM GpStaysBase ==
    ASSUME GpLeftAlone
    PROVE  Spec => []GpIsBase
<1>1. Init => Quiet
  BY LookingInit DEF Init, Quiet, GpIsBase
<1>2. Quiet /\ [Next]_vars => Quiet'
  BY LookingNext DEF Quiet
<1>3. Quiet => GpIsBase
  BY DEF Quiet
<1> QED
  BY <1>1, <1>2, <1>3, PTL DEF Spec

-----------------------------------------------------------------------------
(* The refinements.  TargetRegs implements RunControl, which is all the
   stub needs to know of it, and DebuggedCpu, which is what a debugger may
   expect: for any registers, memory, words and addresses, as long as on the
   MC12 the debugger keeps off GP and word 0 of the internal memory, which the
   host works with.

   A call of target.c feeds the stopped CPU several instructions, and each may
   spoil what the abstract specification says must stay.  The argument is that
   nothing is spoiled but what has been saved, that what is cached is what the
   chip holds, and that the way out puts it all back. *)

(* The exception of the pipeline has been taken out of the chip, and the cache
   holds what the chip holds, but for the registers that were saved. *)
Faithful ==
    ~is_running => /\ m.trap = NO_EXCEPTION
                   /\ \A r \in DOMAIN cached : Saved(r) \/ cached[r] = m.reg[r]

(* On an MC12 the debugger keeps off what the host works with. *)
KeepsOff ==
    "MC12" \in Idcodes => /\ GP \notin DbgWrites["MC12"]
                          /\ CRAM_ADDR \notin DbgAddrs["MC12"]

-----------------------------------------------------------------------------
(* Run control. *)
LEMMA RunControlStep == Looking /\ [Next]_vars => [RC!RCNext]_(RC!rcvars)
<1> SUFFICES ASSUME Looking, [Next]_vars
             PROVE  RC!RCNext \/ UNCHANGED <<is_running, cpu>>
  BY DEF RC!rcvars
<1> USE DEF RC!RCNext
<1>1. is_running \in BOOLEAN /\ cpu \in {"running", "stopped"}
      /\ (cpu = "running" => is_running)
  BY DEF Looking, TypeOK
<1>2. CASE CpuRuns \/ ReadPc \/ target_step
  BY <1>2 DEF CpuRuns, ReadPc, target_step
<1>3. CASE CpuHalts
  BY <1>3 DEF CpuHalts, RC!CpuHalts
<1>4. CASE target_stop
  BY <1>1, <1>4 DEF target_stop, RC!target_stop
<1>5. CASE target_is_stopped
  <2>1. RC!target_is_stopped(TRUE)
    BY <1>1, <1>5 DEF target_is_stopped, RC!target_is_stopped
  <2> QED
    BY <2>1
<1>6. CASE target_resume
  BY <1>1, <1>6 DEF target_resume, Leave, RC!target_resume
<1>7. ASSUME NEW pc \in Pcs, target_run(pc) \/ WritePc(pc)
      PROVE  RC!RCNext \/ UNCHANGED <<is_running, cpu>>
  BY <1>1, <1>7 DEF target_run, WritePc, Leave, RC!target_run
<1>8. CASE target_restart
  BY <1>8 DEF target_restart, Leave, RC!target_restart
<1>9. ASSUME NEW r \in Regs, target_read_register(r)
      PROVE  UNCHANGED <<is_running, cpu>>
  BY <1>9 DEF target_read_register
<1>10. ASSUME NEW r, NEW w, target_write_register(r, w)
       PROVE  UNCHANGED <<is_running, cpu>>
  BY <1>10 DEF target_write_register
<1>11. ASSUME NEW a, ReadMem(a) \/ \E w \in Words : WriteMem(a, w)
       PROVE  UNCHANGED <<is_running, cpu>>
  BY <1>11 DEF ReadMem, WriteMem
<1>12. CASE UNCHANGED vars
  BY <1>12 DEF vars
<1> QED
  BY <1>2, <1>3, <1>4, <1>5, <1>6, <1>7, <1>8, <1>9, <1>10, <1>11, <1>12 DEF Next

(* However much goes on between a stop and a resume, to the stub the module is
   run control: is_running and the state of the CPU move by its operations only. *)
THEOREM RunControlImplemented == Spec => ImplementsRunControl
<1>1. Init => RC!RCInit
  BY DEF Init, RC!RCInit
<1>2. Spec => []Looking
  BY LookingAlways
<1> QED
  BY <1>1, <1>2, RunControlStep, PTL DEF Spec, ImplementsRunControl, RC!RCSpec

-----------------------------------------------------------------------------
(* What looking at the chip leaves alone. *)

(* SW r, 0(GP) puts the register into word 0, and the read finds it there. *)
LEMMA StoreAndReadFinds ==
    ASSUME NEW c, Known(c), NEW r \in Regs, c.reg[GP] = CRAM_ADDR
    PROVE  /\ StoreAndRead(c, r).ram = [c.ram EXCEPT ![CRAM_ADDR] = c.reg[r]]
           /\ MemValue(StoreAndRead(c, r), CRAM_ADDR) = c.reg[r]
           /\ StoreAndRead(c, r).reg = c.reg /\ StoreAndRead(c, r).trap = c.trap
<1> DEFINE e == target_exec(c)
           s == [e EXCEPT !.ram[CRAM_ADDR] = c.reg[r]]
<1>1. c \in Chips /\ c.reg[r] \in Words /\ CRAM_ADDR \in Addrs
  BY Names DEF Known, Chips
<1>2. e \in Chips /\ Known(e) /\ e.reg = c.reg /\ e.ram = c.ram /\ e.trap = c.trap
  BY <1>1, ExecTyped DEF Known
<1>3. StoreAndRead(c, r) = target_read_word(s)
  BY <1>1 DEF StoreAndRead
<1> HIDE DEF e
<1>4. /\ Known(s) /\ s.reg = c.reg /\ s.trap = c.trap
      /\ s.ram = [c.ram EXCEPT ![CRAM_ADDR] = c.reg[r]]
  BY <1>1, <1>2, RamTyped DEF Known
<1> HIDE DEF s
<1>5. /\ Readable(StoreAndRead(c, r))
      /\ StoreAndRead(c, r).ram = s.ram /\ StoreAndRead(c, r).reg = s.reg
      /\ StoreAndRead(c, r).trap = s.trap
  BY <1>3, <1>4, ReadWordEnables
<1>6. MemValue(StoreAndRead(c, r), CRAM_ADDR) = s.ram[CRAM_ADDR]
  BY <1>1, <1>5, ReadableValue
<1>7. s.ram[CRAM_ADDR] = c.reg[r]
  BY <1>1, <1>4 DEF Chips
<1> QED
  BY <1>4, <1>5, <1>6, <1>7

LEMMA FetchedFinds ==
    ASSUME NEW c, Known(c), NEW r \in Regs, MC12(c) => c.reg[GP] = CRAM_ADDR
    PROVE  /\ FetchedValue(c, r) = c.reg[r]
           /\ Fetched(c, r).trap = c.trap
           /\ \A x \in Regs : ~(MC12(c) /\ x = FP) => Fetched(c, r).reg[x] = c.reg[x]
           /\ \A a \in Addrs : ~(MC12(c) /\ a = CRAM_ADDR) => Fetched(c, r).ram[a] = c.ram[a]
<1>1. c \in Chips /\ c.reg[r] \in Words /\ c.ram \in [Addrs -> Words]
  BY DEF Known, Chips
<1>2. CASE ~MC12(c)
  BY <1>2 DEF Fetched, FetchedValue
<1>3. CASE MC12(c) /\ r \in Others
  <2> DEFINE f == [c EXCEPT !.reg[FP] = c.reg[r]]
  <2>1. /\ Known(f) /\ f.reg[GP] = CRAM_ADDR /\ f.reg[FP] = c.reg[r] /\ f.trap = c.trap
        /\ f.ram = c.ram /\ \A x \in Regs \ {FP} : f.reg[x] = c.reg[x]
    BY <1>1, <1>3, Names, RegTyped DEF Known
  <2>2. Fetched(c, r) = StoreAndRead(f, FP)
    BY <1>3 DEF Fetched
  <2> HIDE DEF f
  <2>3. /\ Fetched(c, r).ram = [f.ram EXCEPT ![CRAM_ADDR] = f.reg[FP]]
        /\ MemValue(Fetched(c, r), CRAM_ADDR) = f.reg[FP]
        /\ Fetched(c, r).reg = f.reg /\ Fetched(c, r).trap = f.trap
    BY <2>1, <2>2, Names, StoreAndReadFinds
  <2>4. FetchedValue(c, r) = MemValue(Fetched(c, r), CRAM_ADDR)
    BY <1>3 DEF FetchedValue
  <2> QED
    BY <1>1, <1>3, <2>1, <2>3, <2>4
<1>4. CASE MC12(c) /\ r \notin Others
  <2>1. Fetched(c, r) = StoreAndRead(c, r)
    BY <1>4 DEF Fetched
  <2>2. /\ Fetched(c, r).ram = [c.ram EXCEPT ![CRAM_ADDR] = c.reg[r]]
        /\ MemValue(Fetched(c, r), CRAM_ADDR) = c.reg[r]
        /\ Fetched(c, r).reg = c.reg /\ Fetched(c, r).trap = c.trap
    BY <1>4, <2>1, StoreAndReadFinds
  <2>3. FetchedValue(c, r) = MemValue(Fetched(c, r), CRAM_ADDR)
    BY <1>4 DEF FetchedValue
  <2> QED
    BY <1>1, <1>4, <2>2, <2>3
<1> QED
  BY <1>2, <1>3, <1>4

LEMMA StoredStores ==
    ASSUME NEW c, Known(c), NEW r \in Regs, NEW w \in Words
    PROVE  /\ Stored(c, r, w).ram = c.ram /\ Stored(c, r, w).trap = c.trap
           /\ Stored(c, r, w).reg[r] = w
           /\ \A x \in Regs \ {r} : ~(MC12(c) /\ x = FP) => Stored(c, r, w).reg[x] = c.reg[x]
<1> DEFINE e == target_exec(c)
<1>1. /\ e \in Chips /\ e.reg = c.reg /\ e.ram = c.ram /\ e.trap = c.trap
      /\ c.reg \in [Regs -> Words]
  BY ExecTyped DEF Known, Chips
<1>2. CASE MC12(c) /\ r \notin Gprs
  <2> DEFINE f == [e EXCEPT !.reg[FP] = w]
             g == [f EXCEPT !.reg[r] = w]
  <2>1. Stored(c, r, w) = [e EXCEPT !.reg[FP] = w, !.reg[r] = w]
    BY <1>2 DEF Stored
  <2> HIDE DEF e
  <2>2. [e EXCEPT !.reg[FP] = w, !.reg[r] = w] = g
    BY <1>1 DEF Chips
  <2>3. /\ f \in Chips /\ f.ram = c.ram /\ f.trap = c.trap
        /\ \A x \in Regs \ {FP} : f.reg[x] = c.reg[x]
    BY <1>1, Names, RegTyped
  <2> HIDE DEF f
  <2>4. g.ram = f.ram /\ g.trap = f.trap
    BY <2>3, RegTyped
  <2>5. g.reg = [f.reg EXCEPT ![r] = w]
    BY <2>3, RegTyped
  <2>6. f.reg \in [Regs -> Words]
    BY <2>3 DEF Chips
  <2> HIDE DEF g
  <2>7. Stored(c, r, w) = g
    BY <2>1, <2>2, Zenon
  <2>8. g.reg[r] = w
    BY <2>5, <2>6
  <2>9. \A x \in Regs \ {r} : x # FP => g.reg[x] = c.reg[x]
    BY <2>3, <2>5, <2>6
  <2>10. g.ram = c.ram /\ g.trap = c.trap
    BY <2>3, <2>4, Zenon
  <2> QED
    BY <1>2, <2>7, <2>8, <2>9, <2>10, Zenon
<1>3. CASE ~(MC12(c) /\ r \notin Gprs)
  <2>1. Stored(c, r, w) = [e EXCEPT !.reg[r] = w]
    BY <1>3 DEF Stored
  <2> HIDE DEF e
  <2> QED
    BY <1>1, <2>1, RegTyped
<1> QED
  BY <1>2, <1>3

-----------------------------------------------------------------------------
(* Entry and exit keep the contents. *)

LEMMA HaltedKeeps ==
    ASSUME NEW c \in Chips
    PROVE  /\ Halted(c).ram = c.ram /\ Halted(c).trap = NO_EXCEPTION
<1> DEFINE e == target_exec(c)
           t == [e EXCEPT !.trap = NO_EXCEPTION]
           bits == (c.oscr \ {"NDS"}) \cup {"DBM"}
<1>1. e \in Chips /\ e.ram = c.ram
  BY ExecTyped
<1>2. bits \in SUBSET OscrBits
  BY DEF Chips, OscrBits
<1>3. Halted(c) = WriteOscr(t, bits)
  BY DEF Halted
<1> HIDE DEF e, bits
<1>4. t \in Chips /\ t.ram = e.ram /\ t.trap = NO_EXCEPTION
  BY <1>1 DEF Chips
<1> HIDE DEF t
<1> QED
  BY <1>1, <1>2, <1>3, <1>4, WriteOscrTyped

(* After an entry the program's contents are those the chip had. *)
LEMMA SaveKeeps ==
    ASSUME mem0 \in Words, NEW c \in Chips, NEW s \in BOOLEAN, target_save_state(c, s),
           is_running' = FALSE
    PROVE  /\ regs' = c.reg /\ mem' = c.ram /\ continuation' = Continuation(c)
           /\ Faithful'
<1> DEFINE h == Halted(c)
           a == target_read_word(h)
           e == target_exec(a)
           b == [e EXCEPT !.reg[GP] = CRAM_ADDR]
           d == IF MC12(c) THEN Fetched(b, FP) ELSE h
           last == IF s THEN target_read_word(d) ELSE d
<1>1. /\ pipe' = c.pipe /\ exception' = c.trap
      /\ MC12(c) => /\ mem0' = MemValue(a, CRAM_ADDR)
                    /\ cached' = [r \in {GP, FP} |->
                                     IF r = GP THEN a.reg[GP] ELSE FetchedValue(b, FP)]
      /\ ~MC12(c) => cached' = [r \in {} |-> mem0]
      /\ m' = last
  BY DEF target_save_state
<1>2. /\ Known(h) /\ h.idcode = c.idcode
      /\ h.reg = c.reg /\ h.ram = c.ram /\ h.trap = NO_EXCEPTION
  BY HaltedTyped, HaltedKeeps
<1> HIDE DEF h
<1>3. /\ Readable(a) /\ a.idcode = c.idcode
      /\ a.reg = c.reg /\ a.ram = c.ram /\ a.trap = NO_EXCEPTION
  BY <1>2, ReadWordEnables
<1>4. MemValue(a, CRAM_ADDR) = c.ram[CRAM_ADDR]
  BY <1>3, Names, ReadableValue
<1> HIDE DEF a
<1>5. /\ e \in Chips /\ Known(e) /\ e.idcode = c.idcode
      /\ e.reg = c.reg /\ e.ram = c.ram /\ e.trap = NO_EXCEPTION
  BY <1>3, ExecTyped DEF Readable, Known
<1> HIDE DEF e
<1>6. /\ Known(b) /\ b.idcode = c.idcode /\ b.trap = NO_EXCEPTION
      /\ b.ram = c.ram /\ b.reg = [c.reg EXCEPT ![GP] = CRAM_ADDR]
  BY <1>5, Names, RegTyped DEF Known
<1>7. b.reg[GP] = CRAM_ADDR /\ \A x \in Regs \ {GP} : b.reg[x] = c.reg[x]
  BY <1>6, Names DEF Chips
<1> HIDE DEF b
<1>8. /\ Known(d) /\ d.idcode = c.idcode /\ d.trap = NO_EXCEPTION
      /\ FetchedValue(b, FP) = c.reg[FP]
      /\ \A x \in Regs : ~(MC12(c) /\ x \in {GP, FP}) => d.reg[x] = c.reg[x]
      /\ \A x \in Addrs : ~(MC12(c) /\ x = CRAM_ADDR) => d.ram[x] = c.ram[x]
  <2>1. /\ FetchedValue(b, FP) = b.reg[FP]
        /\ Known(Fetched(b, FP)) /\ Fetched(b, FP).idcode = b.idcode
        /\ Fetched(b, FP).trap = b.trap
        /\ \A x \in Regs : ~(MC12(b) /\ x = FP) => Fetched(b, FP).reg[x] = b.reg[x]
        /\ \A x \in Addrs : ~(MC12(b) /\ x = CRAM_ADDR) => Fetched(b, FP).ram[x] = b.ram[x]
    <3>1. Known(b) /\ FP \in Regs /\ b.reg[GP] = CRAM_ADDR
      BY <1>6, <1>7, Names
    <3>2. Known(Fetched(b, FP)) /\ Fetched(b, FP).idcode = b.idcode
      BY <3>1, FetchedTyped
    <3> QED
      BY <3>1, <3>2, FetchedFinds
  <2>2. MC12(b) <=> MC12(c)
    BY <1>6 DEF MC12
  <2>3. CASE MC12(c)
    BY <1>6, <1>7, <2>1, <2>2, <2>3, Names
  <2>4. CASE ~MC12(c)
    BY <1>2, <1>7, <2>1, <2>4, Names
  <2> QED
    BY <2>3, <2>4
<1> HIDE DEF d
<1>9. /\ Known(last) /\ last.idcode = c.idcode /\ last.trap = NO_EXCEPTION
      /\ last.reg = d.reg /\ last.ram = d.ram
  BY <1>8, ReadWordEnables DEF Readable
<1> HIDE DEF last
<1>10. /\ m'.trap = NO_EXCEPTION /\ (MC12(m)' <=> MC12(c))
       /\ \A x \in Regs : ~(MC12(c) /\ x \in {GP, FP}) => m'.reg[x] = c.reg[x]
       /\ \A x \in Addrs : ~(MC12(c) /\ x = CRAM_ADDR) => m'.ram[x] = c.ram[x]
  BY <1>1, <1>8, <1>9 DEF MC12
<1>11. c.reg \in [Regs -> Words] /\ c.ram \in [Addrs -> Words]
  BY DEF Chips
<1>12. MC12(c) => mem0' = c.ram[CRAM_ADDR] /\ DOMAIN cached' = {GP, FP}
                  /\ cached'[GP] = c.reg[GP] /\ cached'[FP] = c.reg[FP]
  BY <1>1, <1>3, <1>4, <1>8, Names
<1>13. regs' = c.reg
  <2>1. \A r \in Regs : regs'[r] = c.reg[r]
    BY <1>10, <1>12 DEF regs, Saved
  <2>2. regs' = [r \in Regs |-> regs'[r]]
    BY DEF regs
  <2> QED
    BY <1>11, <2>1, <2>2
<1>14. mem' = c.ram
  <2>1. \A a_1 \in Addrs : mem'[a_1] = c.ram[a_1]
    BY <1>10, <1>12 DEF mem
  <2>2. mem' = [a_1 \in Addrs |-> mem'[a_1]]
    BY DEF mem
  <2> QED
    BY <1>11, <2>1, <2>2
<1>15. continuation' = Continuation(c)
  BY <1>1 DEF continuation, Continuation
<1>16. Faithful'
  <2>1. \A r \in DOMAIN cached' : Saved(r)'
    BY <1>1, <1>10, <1>12 DEF Saved
  <2> QED
    BY <1>10, <2>1 DEF Faithful
<1> QED
  BY <1>13, <1>14, <1>15, <1>16

(* On the way out the chip gets the program's contents back. *)
LEMMA RestoreKeeps ==
    ASSUME Looking, Faithful, ~is_running
    PROVE  /\ target_restore_state.reg = regs
           /\ target_restore_state.ram = mem
           /\ target_restore_state.pipe = continuation
           /\ target_restore_state.trap = NO_EXCEPTION
<1> DEFINE p == RestoreRegs(m)
           q == RestorePipe(p)
           bits == (q.copy \cup {"NDS"}) \ {"DBM"}
<1>1. /\ m \in Chips /\ Known(m) /\ mem0 \in Words /\ pipe \in Pipes /\ m.trap = NO_EXCEPTION
      /\ exception \in Pcs \cup {NO_EXCEPTION}
  BY DEF Looking, TypeOK, Faithful, Known
<1>2. p \in Chips /\ p.reg = regs /\ p.ram = mem /\ p.trap = NO_EXCEPTION
  <2>1. CASE MC12(m)
    <3> DEFINE f == [m EXCEPT !.reg[FP] = cached[FP]]
               g == [f EXCEPT !.reg[GP] = cached[GP]]
    <3>1. cached[FP] \in Words /\ cached[GP] \in Words
      BY <2>1 DEF Looking, TypeOK
    <3>2. p = target_write_word([m EXCEPT !.reg[FP] = cached[FP], !.reg[GP] = cached[GP]],
                                CRAM_ADDR, mem0)
      BY <2>1 DEF RestoreRegs
    <3>3. [m EXCEPT !.reg[FP] = cached[FP], !.reg[GP] = cached[GP]] = g
      BY <1>1 DEF Chips
    <3>4. /\ f \in Chips /\ Known(f) /\ f.ram = m.ram /\ f.trap = NO_EXCEPTION
          /\ f.reg = [m.reg EXCEPT ![FP] = cached[FP]]
      BY <1>1, <3>1, Names, RegTyped DEF Known
    <3> HIDE DEF f
    <3>5. /\ g \in Chips /\ Known(g) /\ g.ram = m.ram /\ g.trap = NO_EXCEPTION
          /\ g.reg = [f.reg EXCEPT ![GP] = cached[GP]]
      BY <3>1, <3>4, Names, RegTyped DEF Known
    <3> HIDE DEF g, p
    <3>6. /\ p \in Chips /\ p.reg = g.reg /\ p.trap = NO_EXCEPTION
          /\ p.ram = [m.ram EXCEPT ![CRAM_ADDR] = mem0]
      <4>1. p = target_write_word(g, CRAM_ADDR, mem0)
        BY <3>2, <3>3
      <4>2. CRAM_ADDR \in Addrs
        BY Names
      <4>3. p \in Chips /\ p.reg = g.reg /\ p.trap = g.trap
        BY <1>1, <3>5, <4>1, <4>2, WriteWordTyped, ZenonT(60)
      <4>4. p.ram = [g.ram EXCEPT ![CRAM_ADDR] = mem0]
        BY <1>1, <3>5, <4>1, <4>2, WriteWordTyped
      <4>5. p \in Chips /\ p.reg = g.reg /\ p.trap = NO_EXCEPTION
        BY <3>5, <4>3, Zenon
      <4>6. p.ram = [m.ram EXCEPT ![CRAM_ADDR] = mem0]
        BY <3>5, <4>4, Zenon
      <4> QED
        BY <4>5, <4>6, Zenon
    <3>7. m.reg \in [Regs -> Words] /\ m.ram \in [Addrs -> Words]
      BY <1>1 DEF Chips
    <3>8. p.reg = regs
      BY <2>1, <3>4, <3>5, <3>6, <3>7, Names DEF regs, Saved
    <3>9. p.ram = mem
      BY <2>1, <3>6, <3>7 DEF mem
    <3> QED
      BY <3>6, <3>8, <3>9
  <2>2. CASE ~MC12(m)
    <3>1. p = m
      BY <2>2 DEF RestoreRegs
    <3>2. m.reg \in [Regs -> Words] /\ m.ram \in [Addrs -> Words]
      BY <1>1 DEF Chips
    <3> HIDE DEF p
    <3> QED
      BY <1>1, <2>2, <3>1, <3>2 DEF regs, Saved, mem
  <2> QED
    BY <2>1, <2>2
<1> HIDE DEF p
<1>3. /\ q \in Chips /\ q.reg = regs /\ q.ram = mem /\ q.trap = NO_EXCEPTION
      /\ q.pipe = continuation
  <2> DEFINE n == IF exception = NO_EXCEPTION THEN pipe ELSE Jump(exception)
  <2>1. n \in Pipes
    BY <1>1 DEF Jump, Pipes
  <2>2. q = [p EXCEPT !.pipe = n]
    BY DEF RestorePipe
  <2>3. continuation = n
    BY DEF continuation
  <2> HIDE DEF n, q
  <2> QED
    BY <1>2, <2>1, <2>2, <2>3, PipeTyped
<1>4. target_restore_state = WriteOscr(q, bits)
  BY DEF target_restore_state, RestoreOscr, p
<1> HIDE DEF q
<1>5. bits \in SUBSET OscrBits
  BY <1>3 DEF Chips, OscrBits
<1> HIDE DEF bits
<1> QED
  BY <1>3, <1>4, <1>5, WriteOscrTyped

-----------------------------------------------------------------------------
(* Every step is one of DebuggedCpu, or invisible. *)

Invisible == UNCHANGED <<cpu, regs, mem, continuation, answer>>

(* The contents while the host takes the CPU to be running are the chip's. *)
LEMMA RunningView ==
    ASSUME m \in Chips, is_running
    PROVE  regs = m.reg /\ mem = m.ram /\ continuation = Continuation(m)
BY DEF Chips, regs, mem, Saved, continuation

LEMMA RunningViewNext ==
    ASSUME m' \in Chips, is_running'
    PROVE  regs' = m'.reg /\ mem' = m'.ram /\ continuation' = Continuation(m)'
BY DEF Chips, regs, mem, Saved, continuation

(* One instruction of the program, from the contents of chip c to those of d. *)
LEMMA ExecutedIsInstruction ==
    ASSUME NEW c \in Chips, NEW d \in Executed(c),
           regs = c.reg, mem = c.ram, continuation = Continuation(c),
           regs' = d.reg, mem' = d.ram, continuation' = Continuation(d)
    PROVE  Cpu!Instruction
<1> USE DEF Cpu!Instruction
<1>1. CASE c.trap # NO_EXCEPTION
  <2>1. d = [c EXCEPT !.pipe = Jump(c.trap), !.trap = NO_EXCEPTION]
    BY <1>1 DEF Executed
  <2>2. d.reg = c.reg /\ d.ram = c.ram /\ d.trap = NO_EXCEPTION /\ d.pipe = Jump(c.trap)
    BY <2>1 DEF Chips
  <2>3. UNCHANGED <<regs, mem, continuation>>
    BY <1>1, <2>2 DEF Continuation
  <2> QED
    BY <2>3
<1>2. CASE c.trap = NO_EXCEPTION
  <2>1. \/ \E r \in Regs, w \in Words : d = [c EXCEPT !.reg[r] = w]
        \/ \E a \in Addrs, w \in Words : d = [c EXCEPT !.ram[a] = w]
        \/ \E p \in Pcs \X (Pcs \cup {"seq"}) : d = [c EXCEPT !.pipe = p]
        \/ \E p \in Pcs : d = [c EXCEPT !.trap = p]
    BY <1>2 DEF Executed
  <2>2. ASSUME NEW r \in Regs, NEW w \in Words, d = [c EXCEPT !.reg[r] = w]
        PROVE  Cpu!Instruction
    <3>1. d.ram = c.ram /\ d.trap = c.trap /\ d.pipe = c.pipe
      BY <2>2, RegTyped
    <3>2. d.reg = [c.reg EXCEPT ![r] = w]
      BY <2>2, RegTyped
    <3>3. regs' = [regs EXCEPT ![r] = w] /\ UNCHANGED <<mem, continuation>>
      BY <3>1, <3>2 DEF Continuation
    <3> QED
      BY <3>3
  <2>3. ASSUME NEW a \in Addrs, NEW w \in Words, d = [c EXCEPT !.ram[a] = w]
        PROVE  Cpu!Instruction
    <3>1. d.reg = c.reg /\ d.trap = c.trap /\ d.pipe = c.pipe
      BY <2>3, RamTyped
    <3>2. d.ram = [c.ram EXCEPT ![a] = w]
      BY <2>3, RamTyped
    <3>3. mem' = [mem EXCEPT ![a] = w] /\ UNCHANGED <<regs, continuation>>
      BY <3>1, <3>2 DEF Continuation
    <3> QED
      BY <3>3
  <2>4. ASSUME NEW p \in Pcs \X (Pcs \cup {"seq"}), d = [c EXCEPT !.pipe = p]
        PROVE  Cpu!Instruction
    <3>1. p \in Pipes /\ p[1] \in Pcs /\ p[2] \in Pcs \cup {"seq"} /\ p = <<p[1], p[2]>>
      BY DEF Pipes
    <3>2. d.reg = c.reg /\ d.ram = c.ram /\ d.trap = c.trap /\ d.pipe = p
      BY <2>4, <3>1, PipeTyped
    <3>3. continuation' = <<p[1], p[2]>> /\ UNCHANGED <<regs, mem>>
      BY <1>2, <3>1, <3>2 DEF Continuation
    <3> QED
      BY <3>1, <3>3
  <2>5. ASSUME NEW p \in Pcs, d = [c EXCEPT !.trap = p]
        PROVE  Cpu!Instruction
    <3>1. d.reg = c.reg /\ d.ram = c.ram /\ d.trap = p
      BY <2>5 DEF Chips
    <3>2. p # NO_EXCEPTION
      BY RegsAssumption
    <3>3. continuation' = <<p, "seq">> /\ UNCHANGED <<regs, mem>>
      BY <3>1, <3>2 DEF Continuation, Jump
    <3> QED
      BY <3>3
  <2> QED
    BY <2>1, <2>2, <2>3, <2>4, <2>5
<1> QED
  BY <1>1, <1>2

(* The debugger lets the CPU run: target_resume, target_run. *)
LEMMA ExitContinues ==
    ASSUME Looking, Faithful, Leave, ~is_running, m' \in Chips,
           m'.reg = regs, m'.ram = mem, m'.trap = NO_EXCEPTION,
           m'.pipe \in {continuation} \cup {Jump(pc) : pc \in Pcs}
    PROVE  Faithful' /\ Cpu!Continues
<1>1. is_running' = TRUE /\ cpu' = "running" /\ answer' = NoAnswer
  BY DEF Leave
<1>2. regs' = m'.reg /\ mem' = m'.ram /\ continuation' = m'.pipe
  BY <1>1, RunningViewNext DEF Continuation
<1>3. cpu = "stopped"
  BY DEF Looking, TypeOK
<1>4. continuation' \in {continuation} \cup {Cpu!Jump(pc) : pc \in Pcs}
  BY <1>2 DEF Jump, Cpu!Jump
<1> QED
  BY <1>1, <1>2, <1>3, <1>4 DEF Faithful, Cpu!Continues, NoAnswer, Cpu!NoAnswer

(* A request to the stopped CPU leaves the host's view of the run alone. *)
LEMMA RequestView ==
    ASSUME ~is_running, UNCHANGED <<is_running, mem0, pipe, exception>>,
           m'.idcode = m.idcode, m \in Chips, m' \in Chips
    PROVE  /\ continuation' = continuation
           /\ \A r \in Regs : regs[r] = IF MC12(m) /\ r \in {GP, FP} THEN cached[r] ELSE m.reg[r]
           /\ \A r \in Regs : regs'[r] = IF MC12(m) /\ r \in {GP, FP} THEN cached'[r]
                                         ELSE m'.reg[r]
           /\ \A a \in Addrs : mem[a] = IF MC12(m) /\ a = CRAM_ADDR THEN mem0 ELSE m.ram[a]
           /\ \A a \in Addrs : mem'[a] = IF MC12(m) /\ a = CRAM_ADDR THEN mem0 ELSE m'.ram[a]
           /\ regs = [r \in Regs |-> regs[r]] /\ regs' = [r \in Regs |-> regs'[r]]
           /\ mem = [a \in Addrs |-> mem[a]] /\ mem' = [a \in Addrs |-> mem'[a]]
<1>1. MC12(m)' <=> MC12(m)
  BY DEF MC12
<1> QED
  BY <1>1 DEF continuation, regs, mem, Saved

LEMMA ReadRegisterReads ==
    ASSUME Looking, GpIsBase, Faithful, NEW r \in Regs, target_read_register(r)
    PROVE  Faithful' /\ Cpu!Reads
<1>1. /\ ~is_running /\ cpu = "stopped" /\ Known(m) /\ m \in Chips
      /\ UNCHANGED <<cpu, is_running, mem0, pipe, exception>>
      /\ MC12(m) => m.reg[GP] = CRAM_ADDR /\ {GP, FP} \subseteq DOMAIN cached
  BY DEF target_read_register, Looking, TypeOK, Known, GpIsBase
<1>2. CASE r \in DOMAIN cached
  <2>1. m' = m /\ cached' = cached /\ answer' = <<r, cached[r]>>
    BY <1>2 DEF target_read_register
  <2>2. cached[r] = regs[r]
    BY <1>1, <1>2 DEF Faithful, regs, Saved
  <2>3. UNCHANGED <<regs, mem, continuation>>
    BY <1>1, <2>1 DEF regs, mem, continuation, Saved, MC12
  <2> QED
    BY <1>1, <2>1, <2>2, <2>3 DEF Faithful, Saved, MC12, Cpu!Reads
<1>3. CASE r \notin DOMAIN cached
  <2>1. /\ m' = Fetched(m, r) /\ answer' = <<r, FetchedValue(m, r)>>
        /\ cached' = [x \in DOMAIN cached \cup {r} |->
                        IF x = r THEN FetchedValue(m, r) ELSE cached[x]]
    BY <1>3 DEF target_read_register
  <2>2. /\ FetchedValue(m, r) = m.reg[r] /\ m'.trap = m.trap
        /\ \A x \in Regs : ~(MC12(m) /\ x = FP) => m'.reg[x] = m.reg[x]
        /\ \A a \in Addrs : ~(MC12(m) /\ a = CRAM_ADDR) => m'.ram[a] = m.ram[a]
    BY <1>1, <2>1, FetchedFinds
  <2>3. Known(m') /\ m' \in Chips /\ m'.idcode = m.idcode
    BY <1>1, <2>1, FetchedTyped DEF Known
  <2>4. ~(MC12(m) /\ r \in {GP, FP})
    BY <1>1, <1>3
  <2>5. \A x \in DOMAIN cached : cached'[x] = cached[x]
    BY <1>3, <2>1
  <2>6. UNCHANGED <<regs, mem, continuation>> /\ m.reg[r] = regs[r]
    <3>1. continuation' = continuation
      BY <1>1, <2>3, RequestView
    <3>2. \A x \in Regs : regs'[x] = regs[x]
      BY <1>1, <2>2, <2>3, <2>5, RequestView
    <3>3. \A a \in Addrs : mem'[a] = mem[a]
      BY <1>1, <2>2, <2>3, RequestView
    <3>4. regs' = regs /\ mem' = mem
      BY <1>1, <2>3, <3>2, <3>3, RequestView
    <3>5. m.reg[r] = regs[r]
      BY <1>1, <2>3, <2>4, RequestView
    <3> QED
      BY <3>1, <3>4, <3>5
  <2>7. Faithful'
    <3>1. MC12(m)' <=> MC12(m)
      BY <2>3 DEF MC12
    <3>2. m'.trap = NO_EXCEPTION
      BY <1>1, <2>2 DEF Faithful
    <3>3. DOMAIN cached' = DOMAIN cached \cup {r} /\ cached'[r] = m.reg[r]
      BY <2>1, <2>2
    <3>4. DOMAIN cached \subseteq Regs
      BY DEF Looking, TypeOK
    <3>5. ASSUME NEW x \in DOMAIN cached', ~(MC12(m) /\ x \in {GP, FP})
          PROVE  cached'[x] = m'.reg[x]
      <4>1. m'.reg[x] = m.reg[x]
        BY <2>2, <3>3, <3>4, <3>5
      <4>2. CASE x = r
        BY <3>3, <4>1, <4>2
      <4>3. CASE x # r
        BY <1>1, <2>5, <3>3, <3>5, <4>1, <4>3 DEF Faithful, Saved
      <4> QED
        BY <4>2, <4>3
    <3> QED
      BY <1>1, <3>1, <3>2, <3>5 DEF Faithful, Saved
  <2> QED
    BY <1>1, <2>1, <2>2, <2>6, <2>7 DEF Cpu!Reads
<1> QED
  BY <1>2, <1>3

LEMMA WriteRegisterWrites ==
    ASSUME Looking, Faithful, NEW r \in Regs, NEW w \in Words, MC12(m) => r # GP,
           target_write_register(r, w)
    PROVE  Faithful' /\ Cpu!Writes
<1>1. /\ ~is_running /\ cpu = "stopped" /\ Known(m) /\ m \in Chips
      /\ UNCHANGED <<cpu, is_running, mem0, pipe, exception>> /\ answer' = NoAnswer
      /\ m' = Stored(m, r, w)
      /\ cached' = [x \in DOMAIN cached \cup {r} |-> IF x = r THEN w ELSE cached[x]]
      /\ MC12(m) => {GP, FP} \subseteq DOMAIN cached
      /\ DOMAIN cached \subseteq Regs
  BY DEF target_write_register, Looking, TypeOK, Known
<1>2. /\ m'.ram = m.ram /\ m'.trap = m.trap /\ m'.reg[r] = w
      /\ \A x \in Regs \ {r} : ~(MC12(m) /\ x = FP) => m'.reg[x] = m.reg[x]
  BY <1>1, StoredStores
<1>3. Known(m') /\ m' \in Chips /\ m'.idcode = m.idcode
  BY <1>1, StoredTyped DEF Known
<1>4. DOMAIN cached' = DOMAIN cached \cup {r} /\ cached'[r] = w
      /\ \A x \in DOMAIN cached \ {r} : cached'[x] = cached[x]
  BY <1>1
<1>5. continuation' = continuation
  BY <1>1, <1>3, RequestView
<1>6. \A x \in Regs : regs'[x] = IF x = r THEN w ELSE regs[x]
  BY <1>1, <1>2, <1>3, <1>4, RequestView, SMTT(60)
<1>7. regs' = [regs EXCEPT ![r] = w]
  BY <1>1, <1>3, <1>6, RequestView
<1>8. mem' = mem
  <2>1. \A a \in Addrs : mem'[a] = mem[a]
    BY <1>1, <1>2, <1>3, RequestView
  <2> QED
    BY <1>1, <1>3, <2>1, RequestView
<1>9. Faithful'
  <2>1. MC12(m)' <=> MC12(m)
    BY <1>3 DEF MC12
  <2>2. m'.trap = NO_EXCEPTION
    BY <1>1, <1>2 DEF Faithful
  <2>3. ASSUME NEW x \in DOMAIN cached', ~(MC12(m) /\ x \in {GP, FP})
        PROVE  cached'[x] = m'.reg[x]
    <3>1. CASE x = r
      BY <1>2, <1>4, <3>1
    <3>2. CASE x # r
      BY <1>1, <1>2, <1>4, <2>3, <3>2 DEF Faithful, Saved
    <3> QED
      BY <3>1, <3>2
  <2> QED
    BY <1>1, <2>1, <2>2, <2>3 DEF Faithful, Saved
<1> QED
  BY <1>1, <1>5, <1>7, <1>8, <1>9 DEF Cpu!Writes, NoAnswer, Cpu!NoAnswer

LEMMA ReadMemReads ==
    ASSUME Looking, Faithful, NEW a \in Addrs, MC12(m) => a # CRAM_ADDR, ReadMem(a)
    PROVE  Faithful' /\ Cpu!Reads
<1>1. /\ ~is_running /\ cpu = "stopped" /\ Known(m) /\ m \in Chips
      /\ UNCHANGED <<cpu, is_running, cached, mem0, pipe, exception>>
      /\ m' = target_read_word(m) /\ answer' = <<a, MemValue(m', a)>>
  BY DEF ReadMem, Looking, TypeOK, Known
<1>2. /\ Readable(m') /\ m' \in Chips /\ m'.reg = m.reg /\ m'.ram = m.ram
      /\ m'.trap = m.trap /\ m'.idcode = m.idcode
  BY <1>1, ReadWordEnables DEF Readable, Known
<1>3. MemValue(m', a) = m.ram[a]
  BY <1>2, ReadableValue
<1>4. UNCHANGED <<regs, mem, continuation>>
  BY <1>1, <1>2 DEF regs, mem, continuation, Saved, MC12
<1>5. m.ram[a] = mem[a]
  BY <1>1 DEF mem
<1>6. Faithful'
  BY <1>1, <1>2 DEF Faithful, Saved, MC12
<1>7. answer' = <<a, mem[a]>>
  BY <1>1, <1>3, <1>5
<1> QED
  BY <1>1, <1>4, <1>6, <1>7 DEF Cpu!Reads

LEMMA WriteMemWrites ==
    ASSUME Looking, Faithful, NEW a \in Addrs, NEW w \in Words, MC12(m) => a # CRAM_ADDR,
           WriteMem(a, w)
    PROVE  Faithful' /\ Cpu!Writes
<1>1. /\ ~is_running /\ cpu = "stopped" /\ Known(m) /\ m \in Chips
      /\ UNCHANGED <<cpu, is_running, cached, mem0, pipe, exception>>
      /\ m' = target_write_word(m, a, w) /\ answer' = NoAnswer
  BY DEF WriteMem, Looking, TypeOK, Known
<1>2. Known(m') /\ m' \in Chips /\ m'.reg = m.reg /\ m'.idcode = m.idcode /\ m'.trap = m.trap
  BY <1>1, WriteWordTyped DEF Known
<1>3. m'.ram = [m.ram EXCEPT ![a] = w]
  BY <1>1, WriteWordTyped
<1>4. regs' = regs /\ continuation' = continuation
  BY <1>1, <1>2 DEF regs, continuation, Saved, MC12
<1>5. \A x \in Addrs : mem'[x] = IF x = a THEN w ELSE mem[x]
  <2>1. m.ram \in [Addrs -> Words]
    BY <1>1 DEF Chips
  <2>2. \A x \in Addrs : m'.ram[x] = IF x = a THEN w ELSE m.ram[x]
    BY <1>3, <2>1
  <2> QED
    BY <1>1, <1>2, <2>2, RequestView
<1>6. mem' = [mem EXCEPT ![a] = w]
  BY <1>1, <1>2, <1>5, RequestView
<1>7. Faithful'
  BY <1>1, <1>2 DEF Faithful, Saved, MC12
<1> QED
  BY <1>1, <1>4, <1>6, <1>7 DEF Cpu!Writes, NoAnswer, Cpu!NoAnswer

LEMMA TransparentStep ==
    ASSUME KeepsOff, Looking, GpIsBase, Faithful, [Next]_vars
    PROVE  Faithful' /\ (Cpu!Next \/ Invisible)
<1> USE DEF Cpu!Next
<1>1. /\ m \in Chips /\ mem0 \in Words
      /\ is_running \in BOOLEAN /\ cpu \in {"running", "stopped"}
      /\ (cpu = "running" => is_running) /\ (~is_running => cpu = "stopped")
      /\ pipe \in Pipes /\ exception \in Pcs \cup {NO_EXCEPTION}
  BY DEF Looking, TypeOK
<1>2. CASE CpuRuns
  <2>1. /\ m' \in Executed(m) /\ m' \in Chips
        /\ UNCHANGED <<cpu, is_running, answer>> /\ is_running /\ cpu = "running"
    BY <1>1, <1>2, ExecutedTyped DEF CpuRuns
  <2>2. regs = m.reg /\ mem = m.ram /\ continuation = Continuation(m)
    BY <1>1, <2>1, RunningView
  <2>3. regs' = m'.reg /\ mem' = m'.ram /\ continuation' = Continuation(m')
    BY <2>1, RunningViewNext DEF Continuation
  <2>4. Cpu!Instruction
    BY <1>1, <2>1, <2>2, <2>3, ExecutedIsInstruction
  <2> QED
    BY <2>1, <2>4 DEF Faithful, Cpu!Runs
<1>3. CASE CpuHalts
  <2>1. UNCHANGED <<regs, mem, continuation, answer, is_running>>
    BY <1>3 DEF CpuHalts, regs, mem, continuation, Saved, Continuation, MC12
  <2> QED
    BY <1>1, <1>3, <2>1 DEF CpuHalts, Faithful, Cpu!Stops
<1>4. CASE target_stop \/ target_is_stopped
  <2>1. PICK s \in BOOLEAN : target_save_state(m, s)
    BY <1>4 DEF target_stop, target_is_stopped
  <2>2. is_running /\ is_running' = FALSE /\ cpu' = "stopped" /\ answer' = answer
    BY <1>4 DEF target_stop, target_is_stopped
  <2>3. /\ regs' = m.reg /\ mem' = m.ram /\ continuation' = Continuation(m) /\ Faithful'
    BY <1>1, <2>1, <2>2, SaveKeeps
  <2>4. regs = m.reg /\ mem = m.ram /\ continuation = Continuation(m)
    BY <1>1, <2>2, RunningView
  <2>5. CASE cpu = "running"
    BY <2>2, <2>3, <2>4, <2>5 DEF Cpu!Stops
  <2>6. CASE cpu = "stopped"
    BY <2>2, <2>3, <2>4, <2>6 DEF Invisible
  <2> QED
    BY <1>1, <2>5, <2>6
<1>5. CASE target_step
  <2> DEFINE c == target_restore_state
  <2>1. ~is_running /\ UNCHANGED <<cpu, is_running>> /\ answer' = NoAnswer
    BY <1>5 DEF target_step
  <2>2. PICK d \in Executed(c) : target_save_state(d, FALSE)
    BY <1>5 DEF target_step
  <2>3. /\ c \in Chips /\ c.reg = regs /\ c.ram = mem /\ c.trap = NO_EXCEPTION
        /\ c.pipe = continuation
    BY <2>1, RestoreTyped, RestoreKeeps
  <2> HIDE DEF c
  <2>4. d \in Chips
    BY <2>2, <2>3, ExecutedTyped
  <2>5. is_running' = FALSE
    BY <1>1, <2>1
  <2>6. regs' = d.reg /\ mem' = d.ram /\ continuation' = Continuation(d) /\ Faithful'
    BY <1>1, <2>2, <2>4, <2>5, SaveKeeps
  <2>7. Cpu!Instruction
    <3>1. continuation = Continuation(c)
      BY <2>3 DEF Continuation
    <3> QED
      BY <2>2, <2>3, <2>6, <3>1, ExecutedIsInstruction
  <2> QED
    BY <1>1, <2>1, <2>6, <2>7 DEF Cpu!Steps, NoAnswer, Cpu!NoAnswer
<1>6. CASE target_resume
  <2>1. ~is_running /\ m' = target_restore_state /\ Leave
    BY <1>6 DEF target_resume
  <2>2. /\ m' \in Chips /\ m'.reg = regs /\ m'.ram = mem /\ m'.trap = NO_EXCEPTION
        /\ m'.pipe = continuation
    BY <2>1, RestoreTyped, RestoreKeeps
  <2> QED
    BY <2>1, <2>2, ExitContinues
<1>7. ASSUME NEW pc \in Pcs, target_run(pc)
      PROVE  Faithful' /\ Cpu!Continues
  <2> DEFINE c == target_restore_state
  <2>1. ~is_running /\ m' = [c EXCEPT !.pipe = Jump(pc)] /\ Leave
    BY <1>7 DEF target_run
  <2>2. c \in Chips /\ c.reg = regs /\ c.ram = mem /\ c.trap = NO_EXCEPTION
    BY <2>1, RestoreTyped, RestoreKeeps
  <2>3. Jump(pc) \in Pipes
    BY DEF Jump, Pipes
  <2> HIDE DEF c
  <2>4. /\ m' \in Chips /\ m'.reg = regs /\ m'.ram = mem /\ m'.trap = NO_EXCEPTION
        /\ m'.pipe = Jump(pc)
    BY <2>1, <2>2, <2>3, PipeTyped
  <2> QED
    BY <2>1, <2>4, ExitContinues
<1>8. CASE target_restart
  <2> DEFINE c == IF is_running THEN m ELSE target_restore_state
  <2>1. /\ m' = [c EXCEPT !.pipe = Jump(Boot), !.trap = NO_EXCEPTION, !.oscr = {}]
        /\ is_running' = TRUE /\ cpu' = "running" /\ answer' = NoAnswer
    BY <1>8 DEF target_restart, Leave
  <2>2. c \in Chips /\ c.reg = regs /\ c.ram = mem
    BY <1>1, RunningView, RestoreTyped, RestoreKeeps
  <2> HIDE DEF c
  <2>3. /\ m' \in Chips /\ m'.reg = c.reg /\ m'.ram = c.ram /\ m'.trap = NO_EXCEPTION
        /\ m'.pipe = Jump(Boot)
    BY <2>1, <2>2, Names DEF Chips
  <2>4. regs' = regs /\ mem' = mem /\ continuation' = Jump(Boot)
    BY <2>1, <2>2, <2>3, RunningViewNext DEF Continuation
  <2> QED
    BY <2>1, <2>4
       DEF Faithful, Cpu!Resets, Jump, Cpu!Jump, Boot, Cpu!Boot, NoAnswer, Cpu!NoAnswer
<1>9. ASSUME NEW pc \in Pcs, WritePc(pc)
      PROVE  Faithful' /\ Cpu!Writes
  <2>1. /\ ~is_running /\ exception' = pc /\ answer' = NoAnswer
        /\ UNCHANGED <<m, cpu, is_running, cached, mem0, pipe>>
    BY <1>9 DEF WritePc
  <2>2. continuation' = Cpu!Jump(pc)
    BY <2>1, RegsAssumption DEF continuation, Jump, Cpu!Jump
  <2>3. UNCHANGED <<regs, mem>>
    BY <2>1 DEF regs, mem, Saved, MC12
  <2> QED
    BY <1>1, <2>1, <2>2, <2>3 DEF Faithful, Saved, MC12, Cpu!Writes, NoAnswer, Cpu!NoAnswer
<1>10. CASE ReadPc
  <2>1. /\ ~is_running
        /\ answer' = <<"pc", IF exception # NO_EXCEPTION THEN exception ELSE pipe[1]>>
        /\ UNCHANGED <<m, cpu, is_running, cached, mem0, pipe, exception>>
    BY <1>10 DEF ReadPc
  <2>2. answer' = <<"pc", continuation[1]>>
    BY <2>1 DEF continuation, Jump
  <2>3. UNCHANGED <<regs, mem, continuation>>
    BY <2>1 DEF regs, mem, Saved, MC12, continuation
  <2> QED
    BY <1>1, <2>1, <2>2, <2>3 DEF Faithful, Saved, MC12, Cpu!Reads
<1>11. ASSUME NEW r \in Regs, target_read_register(r)
       PROVE  Faithful' /\ Cpu!Next
  BY <1>11, ReadRegisterReads
<1>12. ASSUME NEW r \in DbgWrites[m.idcode], NEW w \in Words, target_write_register(r, w)
       PROVE  Faithful' /\ Cpu!Next
  <2>1. r \in Regs /\ m.idcode \in Idcodes
    BY <1>1, RegsAssumption DEF Chips
  <2>2. MC12(m) => r # GP
    BY <2>1 DEF KeepsOff, MC12
  <2> QED
    BY <1>12, <2>1, <2>2, WriteRegisterWrites
<1>13. ASSUME NEW a \in DbgAddrs[m.idcode], ReadMem(a) \/ \E w \in Words : WriteMem(a, w)
       PROVE  Faithful' /\ Cpu!Next
  <2>1. a \in Addrs /\ m.idcode \in Idcodes
    BY <1>1, RegsAssumption DEF Chips
  <2>2. MC12(m) => a # CRAM_ADDR
    BY <2>1 DEF KeepsOff, MC12
  <2> QED
    BY <1>13, <2>1, <2>2, ReadMemReads, WriteMemWrites
<1>14. CASE UNCHANGED vars
  <2>1. UNCHANGED <<m, cpu, is_running, cached, mem0, pipe, exception, answer>>
    BY <1>14 DEF vars
  <2>2. UNCHANGED <<regs, mem, continuation>>
    BY <2>1 DEF regs, mem, Saved, MC12, continuation, Continuation
  <2> QED
    BY <2>1, <2>2 DEF Faithful, Saved, MC12, Invisible
<1> QED
  BY <1>2, <1>3, <1>4, <1>5, <1>6, <1>7, <1>8, <1>9, <1>10, <1>11, <1>12, <1>13, <1>14
     DEF Next

(* The debugger sees, and leaves, the program's own registers, memory and
   continuation, whatever target.c used of the chip in between, if on an MC12 it
   does not touch GP and word 0 of the internal memory. *)
THEOREM DebuggerSeesProgram ==
    ASSUME KeepsOff
    PROVE  Spec => Transparent
<1>1. Init => Cpu!Init /\ Faithful
  <2> SUFFICES ASSUME Init PROVE Cpu!Init /\ Faithful
    OBVIOUS
  <2>1. m \in Chips /\ is_running /\ m.pipe = Jump(Boot) /\ m.trap = NO_EXCEPTION
    BY Names DEF Init, Chips
  <2>2. regs = m.reg /\ mem = m.ram /\ continuation = Jump(Boot)
    BY <2>1, RunningView DEF Continuation
  <2>3. m.reg \in [Regs -> Words] /\ m.ram \in [Addrs -> Words]
    BY <2>1 DEF Chips
  <2> QED
    BY <2>1, <2>2, <2>3
       DEF Init, Faithful, Cpu!Init, Jump, Cpu!Jump, Boot, Cpu!Boot, NoAnswer, Cpu!NoAnswer
<1>2. Spec => [](Looking /\ GpIsBase)
  <2>1. GpLeftAlone
    BY DEF KeepsOff, GpLeftAlone
  <2>2. Spec => []GpIsBase
    BY <2>1, GpStaysBase
  <2> QED
    BY <2>2, LookingAlways, PTL
<1>3. Looking /\ GpIsBase /\ Faithful /\ [Next]_vars => Faithful' /\ [Cpu!Next]_(Cpu!cpuvars)
  <2>1. Looking /\ GpIsBase /\ Faithful /\ [Next]_vars => Faithful' /\ (Cpu!Next \/ Invisible)
    BY TransparentStep
  <2>2. Invisible => UNCHANGED Cpu!cpuvars
    BY DEF Invisible, Cpu!cpuvars
  <2> QED
    BY <2>1, <2>2
<1> QED
  BY <1>1, <1>2, <1>3, PTL DEF Spec, Transparent, Cpu!Spec
=============================================================================

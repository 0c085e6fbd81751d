---------------------------- MODULE AdapterMpsse -----------------------------
(***************************************************************************)
(* adapter-mpsse.c: commands for the MPSSE of an FT2232.  They collect in  *)
(* a buffer until an answer is wanted or the buffer is full.               *)
(***************************************************************************)
EXTENDS AdapterState

MpsseTms(n, tms, tdi, reads) ==
    [op |-> "tms", n |-> n, bits |-> tms, tdi |-> tdi, reads |-> reads, size |-> 3]
MpsseBytes(n, bits, reads) ==
    [op |-> "bytes", n |-> 8 * n, bits |-> bits, tdi |-> FALSE, reads |-> reads, size |-> 3 + n]
MpsseBits(n, bits, reads) ==
    [op |-> "bits", n |-> n, bits |-> bits, tdi |-> FALSE, reads |-> reads, size |-> 3]

(* What the FT2232 does with commands.  Bits that are no whole byte come in
   from the top; TMS stays low, where every prolog leaves it, during data. *)
MpsseEdges(cmd) ==
    [k \in 1 .. cmd.n |->
        IF cmd.op = "tms" THEN [tms |-> IF k - 1 \in cmd.bits THEN 1 ELSE 0, tdi |-> cmd.tdi]
        ELSE [tms |-> 0, tdi |-> k - 1 \in cmd.bits]]

MpsseReply(cmd, tdo) ==
    IF ~cmd.reads THEN <<>>
    ELSE IF cmd.op = "bytes"
           THEN [b \in 1 .. cmd.n \div 8 |-> ShiftedDown(tdo \cap (0 .. 8 * b - 1), 8 * (b - 1))]
           ELSE <<ShiftedUp(tdo, 8 - cmd.n)>>

Ft2232(r, cmd) ==
    TheOne({[chip |-> done.chip, input |-> r.input \o MpsseReply(cmd, done.tdo)] :
            done \in {Ticks(r.chip, MpsseEdges(cmd))}})

Performed(s) == Foreach(Ft2232, [chip |-> s.chip, input |-> <<>>], s.output)

(* A reply, with two bytes of status before it, is read into 64 bytes. *)
mpsse_flush_output(s) ==
    IF s.output = <<>> THEN s
    ELSE TheOne({[s EXCEPT !.chip = done.chip, !.input = done.input,
                           !.output = <<>>, !.size = 0,
                           !.over = @ \/ s.size > OutSize \/ Len(done.input) + 2 > 64] :
                 done \in {Performed(s)}})

SumSizes(cmds) == LET Add(sum, cmd) == sum + cmd.size IN Foreach(Add, 0, cmds)

(* A string of TMS bits is sent by at most seven. *)
Prolog(n, tms) ==
    IF n = 0 THEN <<>>
    ELSE IF n < 8 THEN <<MpsseTms(n, tms, FALSE, FALSE)>>
    ELSE <<MpsseTms(7, tms \cap (0 .. 6), FALSE, FALSE),
           MpsseTms(n - 7, ShiftedDown(tms, 7), FALSE, FALSE)>>

(* Data are framed by TMS 1-0-0 and, with the last bit, 1-1. *)
Framed(nbits, bits, reads) ==
    LET nbytes == (nbits - 1) \div 8
        last == (nbits - 1) % 8
    IN  (IF nbytes > 0
           THEN <<MpsseBytes(nbytes, bits \cap (0 .. 8 * nbytes - 1), reads)>> ELSE <<>>)
        \o (IF last > 0 THEN <<MpsseBits(last, ShiftedDown(bits, 8 * nbytes), reads)>> ELSE <<>>)
        \o <<MpsseTms(2, {0, 1}, nbits - 1 \in bits, reads)>>

\* mutant: a part of a byte is counted even when there is none.
FixWithRest(nbits) ==
    LET nbytes == (nbits - 1) \div 8
        last == (nbits - 1) % 8
    IN  [high_byte_bits |-> last,
         high_byte_mask |-> IF last > 0 THEN 8 * nbytes .. 8 * nbytes + 7 ELSE {},
         fix_high_bit |-> 8 * (nbytes + 1) + 6,
         high_bit |-> nbits - 1,
         bytes_per_word |-> nbytes + 2]

(* Where the bits of a word are found in the bytes of the reply. *)
FixOf(nbits) ==
    LET nbytes == (nbits - 1) \div 8
        last == (nbits - 1) % 8
        bytes == IF last > 0 THEN nbytes + 1 ELSE nbytes
    IN  [high_byte_bits |-> last,
         high_byte_mask |-> IF last > 0 THEN 8 * (bytes - 1) .. 8 * bytes - 1 ELSE {},
         fix_high_bit |-> 8 * bytes + 6,
         high_bit |-> nbits - 1,
         bytes_per_word |-> bytes + 1]

MpsseScan(prolog_nbits, prolog, nbits, bits, reads) ==
    [prolog_nbits |-> prolog_nbits, prolog |-> prolog, nbits |-> nbits, bits |-> bits,
     reads |-> reads]

MpsseCmds(scan) ==
    IF scan.nbits > 0
      THEN Prolog(scan.prolog_nbits + 3, scan.prolog \cup {scan.prolog_nbits})
             \o Framed(scan.nbits, scan.bits, scan.reads)
      ELSE Prolog(scan.prolog_nbits, scan.prolog)

(* Scans one after the other; a buffer that may be too full is sent before. *)
Collected(s, scan) ==
    TheOne({[t EXCEPT !.output = @ \o cmds, !.size = @ + SumSizes(cmds),
                      !.fix = IF scan.reads THEN FixOf(scan.nbits) ELSE @] :
            t \in {IF s.size > OutSize - 23 THEN mpsse_flush_output(s) ELSE s},
            cmds \in {MpsseCmds(scan)}})

mpsse_send(s, scans) == Foreach(Collected, s, scans)

(* The word that begins at byte `first' of the reply; of the eight bytes taken,
   those that were not read now are left from earlier. *)
mpsse_fix_data(s, first) ==
    LET Byte(b) == IF first + b <= Len(s.input) THEN s.input[first + b] ELSE 0 .. 7
        word == UNION {ShiftedUp(Byte(b), 8 * (b - 1)) : b \in 1 .. 8}
        high == s.fix.high_byte_mask
        fixed == IF s.fix.high_byte_bits > 0
                   THEN (word \ high)
                          \cup (ShiftedDown(word \cap high, 8 - s.fix.high_byte_bits) \cap high)
                   ELSE word
    IN  (fixed \cap (0 .. s.fix.high_bit - 1))
          \cup (IF s.fix.fix_high_bit \in word THEN {s.fix.high_bit} ELSE {})

mpsse_recv(s) ==
    TheOne({[t EXCEPT !.value = mpsse_fix_data(t, 0), !.input = <<>>] :
            t \in {mpsse_flush_output(u) : u \in {s}}})

mpsse_open(s) == mpsse_send(s, <<MpsseScan(6, 0 .. 4, 0, {}, FALSE)>>)

mpsse_get_idcode(s) == mpsse_recv(mpsse_send(s, <<MpsseScan(6, 0 .. 4, 32, {}, TRUE)>>))

mpsse_ir(s, ir) == mpsse_send(s, <<MpsseScan(1, {0}, 4, Bits(ir), TRUE)>>)

ReadScan(reg, reglen) == MpsseScan(0, {}, 9 + reglen, IRd(reg, {READ}), TRUE)
WriteScan(ird, reglen, value) == MpsseScan(0, {}, 9 + reglen, ird \cup ShiftedUp(value, 9), FALSE)

mpsse_oncd_read(s, reg, reglen) ==
    [mpsse_recv(mpsse_send(s, <<ReadScan(reg, reglen)>>)) EXCEPT !.value = ShiftedDown(@, 9)]

mpsse_oncd_write(s, ird, reglen, value) == mpsse_send(s, <<WriteScan(ird, reglen, value)>>)

-----------------------------------------------------------------------------
(* Blocks. *)

\* mutant: the copy is not updated.
SelectingWithoutCopy(s, oscr_new) ==
    IF oscr_new = s.oscr THEN s ELSE mpsse_oncd_write(s, Bits(OnCD_OSCR), 32, oscr_new)

(* What these functions do to the host's copy of OSCR, and then to OSCR. *)
Selecting(s, oscr_new) ==
    IF oscr_new = s.oscr THEN s
    ELSE mpsse_oncd_write([s EXCEPT !.oscr = oscr_new], Bits(OnCD_OSCR), 32, oscr_new)

Readable(oscr) == oscr \cup {SlctMEM, RO}
Writable(oscr) == (oscr \ {RO}) \cup {SlctMEM}

\* mutant: the two bytes of status are forgotten.
GroupWordsOfSixty == 11

GroupWords == 10    \* as many words as one reply has room for

(* The replies to some words are in the buffer one behind the other; they are
   added to the words read before. *)
ReadGroup(s, addrs) ==
    LET Word(t, addr) ==
            mpsse_send(t, <<WriteScan(Bits(OnCD_OMAR), 32, Bits(addr)),
                            WriteScan(Bits(OnCD_MEM), 0, {}), ReadScan(OnCD_OMDR, 32)>>)
        Fixed(t, i) == ShiftedDown(mpsse_fix_data(t, (i - 1) * t.fix.bytes_per_word), 9)
    IN  TheOne({[t EXCEPT !.value = @ \o [i \in DOMAIN addrs |-> Fixed(t, i)], !.input = <<>>] :
                t \in {mpsse_flush_output(u) : u \in {Foreach(Word, s, addrs)}}})

mpsse_read_block(s, addr, nwords) ==
    LET ready == {mpsse_flush_output(t) : t \in {Selecting(s, Readable(s.oscr))}}
    IN  Foreach(ReadGroup, [TheOne(ready) EXCEPT !.value = <<>>],
                Pieces(Addresses(addr, nwords), GroupWords))

(* mpsse_write_block, mpsse_write_nwords, and the loop of mpsse_program_block32. *)
mpsse_write_pairs(s, pairs) ==
    LET Word(t, pair) ==
            mpsse_send(t, <<WriteScan(Bits(OnCD_OMAR), 32, Bits(pair[1])),
                            WriteScan(Bits(OnCD_OMDR), 32, pair[2]),
                            WriteScan(Bits(OnCD_MEM), 0, {})>>)
    IN  Foreach(Word, Selecting(s, Writable(s.oscr)), pairs)

-----------------------------------------------------------------------------
mpsse_reset_cpu(s) ==
    [mpsse_flush_output(s) EXCEPT !.chip = SystemReset(@)]
=============================================================================

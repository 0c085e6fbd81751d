------------------------------ MODULE TapChip ------------------------------
(***************************************************************************)
(* The processor seen through its JTAG port, external to the repository:   *)
(* the TAP controller of IEEE 1149.1 with an instruction register of four  *)
(* bits, and behind it the debug block OnCD, as far as adapter-*.c and     *)
(* target.c use it.  The names and numbers are those of oncd.h.            *)
(*                                                                         *)
(* A word, and a string of bits on its way, is the set of the positions    *)
(* of its ones, the least significant bit being 0.  The memory is the      *)
(* sequence of the writes it has seen.                                     *)
(***************************************************************************)
EXTENDS Naturals, Sequences, FiniteSets

TAP_IDCODE == 3
TAP_DEBUG_REQUEST == 4
TAP_DEBUG_ENABLE == 5

OnCD_OSCR == 0
OnCD_PCfetch == 10
OnCD_OMAR == 11
OnCD_OMDR == 12
OnCD_MEM == 13
OnCD_GO == 15

\* bits of IRd, above the number of the register
RESUME == 5
READ == 6
FLUSH_PIPE == 6
STEP_1CLK == 7

\* bits of OSCR
SlctMEM == 0
RO == 1
RDYm == 5

Bits(n) == {i \in 0 .. 30 : (n \div 2^i) % 2 = 1}
ShiftedUp(S, k) == {i + k : i \in S}
ShiftedDown(S, k) == {i - k : i \in {j \in S : j >= k}}

(* TheOne({f(t) : t \in {e}}) is f(e).  What takes many steps to compute and is
   used more than once is bound in this way, for TLC evaluates it once then. *)
TheOne(P) == CHOOSE x \in P : TRUE

(* Step(...Step(Step(first, seq[1]), seq[2])..., seq[Len(seq)]). *)
Foreach(Step(_, _), first, seq) ==
    LET Upto[k \in 0 .. Len(seq)] ==
            IF k = 0 THEN {first} ELSE {Step(x, e) : x \in Upto[k - 1], e \in {seq[k]}}
    IN  TheOne(Upto[Len(seq)])

Concat(seqs) == LET Add(done, seq) == done \o seq IN Foreach(Add, <<>>, seqs)

(* A sequence in pieces of at most `size' elements. *)
Pieces(seq, size) ==
    [k \in 1 .. (Len(seq) + size - 1) \div size |->
        SubSeq(seq, size * (k - 1) + 1, IF size * k < Len(seq) THEN size * k ELSE Len(seq))]

Number == [S \in SUBSET (0 .. 6) |-> CHOOSE n \in 0 .. 127 : Bits(n) = S]

(* On TMS = 0 and on TMS = 1. *)
TapNext ==
    [TLR |-> <<"RTI", "TLR">>,     RTI |-> <<"RTI", "SelDR">>,
     SelDR |-> <<"CapDR", "SelIR">>, SelIR |-> <<"CapIR", "TLR">>,
     CapDR |-> <<"ShDR", "Ex1DR">>,  CapIR |-> <<"ShIR", "Ex1IR">>,
     ShDR |-> <<"ShDR", "Ex1DR">>,   ShIR |-> <<"ShIR", "Ex1IR">>,
     Ex1DR |-> <<"PauDR", "UpDR">>,  Ex1IR |-> <<"PauIR", "UpIR">>,
     PauDR |-> <<"PauDR", "Ex2DR">>, PauIR |-> <<"PauIR", "Ex2IR">>,
     Ex2DR |-> <<"ShDR", "UpDR">>,   Ex2IR |-> <<"ShIR", "UpIR">>,
     UpDR |-> <<"RTI", "SelDR">>,    UpIR |-> <<"RTI", "SelDR">>]

-----------------------------------------------------------------------------
(* Memory and registers of a chip c; pc stands for every register that is
   read and written as a whole. *)

MemAt(log, addr) ==
    LET hits == {k \in DOMAIN log : log[k][1] = addr}
    IN  IF hits = {} THEN {} ELSE log[CHOOSE k \in hits : \A j \in hits : j <= k][2]

Stepped(pc) == pc \cup {2}

MemAccess(c) ==
    IF SlctMEM \notin c.oscr THEN c
    ELSE IF RO \in c.oscr
           THEN [c EXCEPT !.omdr = MemAt(c.log, c.omar), !.oscr = @ \cup {RDYm}]
           ELSE [c EXCEPT !.log = Append(@, <<c.omar, c.omdr>>), !.oscr = @ \cup {RDYm}]

(* A running processor does not listen to the debug block. *)
OncdWrite(c, ird, reg, val) ==
    IF c.running \/ (reg # OnCD_GO /\ READ \in ird) THEN c
    ELSE CASE reg = OnCD_GO /\ RESUME \in ird -> [c EXCEPT !.running = TRUE]
           [] reg = OnCD_GO /\ RESUME \notin ird -> [c EXCEPT !.pc = Stepped(@)]
           [] reg = OnCD_OSCR -> [c EXCEPT !.oscr = (@ \cap {RDYm}) \cup (val \ {RDYm})]
           [] reg = OnCD_PCfetch -> [c EXCEPT !.pc = val]
           [] reg = OnCD_OMAR -> [c EXCEPT !.omar = val]
           [] reg = OnCD_OMDR -> [c EXCEPT !.omdr = val]
           [] reg = OnCD_MEM -> MemAccess(c)
           [] OTHER -> c

OncdValue(c, reg) ==
    CASE reg = OnCD_OSCR -> c.oscr
      [] reg = OnCD_PCfetch -> c.pc
      [] reg = OnCD_OMAR -> c.omar
      [] reg = OnCD_OMDR -> c.omdr
      [] OTHER -> {}

-----------------------------------------------------------------------------
(* The data register of OnCD: nine bits of command, then the register. *)
RegOf(in) == Number[in \cap (0 .. 4)]

Captured(c) == IF c.running THEN {0} ELSE {0, 2}

(* What the chip shows on TDO while bit c.n is shifted; c.in has come in. *)
TDO(c) ==
    CASE c.tap = "ShIR" -> IF c.n < 4 THEN c.n \in Captured(c) ELSE c.n - 4 \in c.in
      [] c.tap = "ShDR" /\ c.ir = TAP_IDCODE ->
            IF c.n < 32 THEN c.n \in c.id ELSE c.n - 32 \in c.in
      [] c.tap = "ShDR" /\ c.ir = TAP_DEBUG_ENABLE ->
            c.n >= 9 /\ READ \in c.in /\ c.n - 9 \in OncdValue(c, RegOf(c.in))
      [] OTHER -> TRUE

(* A rising edge of TCK: a bit is shifted in, then the next state is entered. *)
Shift(c, tdi) ==
    IF c.tap \in {"ShDR", "ShIR"}
      THEN [c EXCEPT !.n = @ + 1, !.in = IF tdi THEN @ \cup {c.n} ELSE @]
      ELSE c

Enter(c, to) ==
    CASE to \in {"CapDR", "CapIR"} -> [c EXCEPT !.tap = to, !.in = {}, !.n = 0]
      [] to = "TLR" -> [c EXCEPT !.tap = to, !.ir = TAP_IDCODE]
      [] to = "UpIR" ->
            TheOne({[c EXCEPT !.tap = to, !.in = {}, !.n = 0, !.ir = ir,
                              !.request = @ \/ (ir = TAP_DEBUG_REQUEST /\ c.running)] :
                    ir \in {Number[ShiftedDown(c.in, c.n - 4) \cap (0 .. 3)]}})
      [] to = "UpDR" ->
            LET done == [c EXCEPT !.tap = to, !.in = {}, !.n = 0]
            IN  IF c.ir = TAP_DEBUG_ENABLE
                  THEN TheOne({OncdWrite(d, c.in \cap (5 .. 8), reg, ShiftedDown(c.in, 9) \cap (0 .. 31)) :
                               d \in {done}, reg \in {RegOf(c.in)}})
                  ELSE done
      [] OTHER -> [c EXCEPT !.tap = to]

(* p: the chip after n edges, and the numbers of those, from 0, before which
   TDO was 1. *)
Ticked(p, edge) ==
    TheOne({[chip |-> Enter(c, TapNext[c.tap][edge.tms + 1]), n |-> p.n + 1,
             tdo |-> IF TDO(p.chip) THEN p.tdo \cup {p.n} ELSE p.tdo] :
            c \in {Shift(p.chip, edge.tdi)}})

Ticks(c, edges) == Foreach(Ticked, [chip |-> c, n |-> 0, tdo |-> {}], edges)

(* A reset of the system stops nothing and leaves the TAP alone. *)
SystemReset(c) ==
    [c EXCEPT !.running = TRUE, !.request = FALSE, !.pc = {},
              !.oscr = {}, !.omar = {}, !.omdr = {}]

EntersDebug(c) == [c EXCEPT !.running = FALSE, !.request = FALSE]

PowerOn(id) ==
    [tap |-> "TLR", ir |-> TAP_IDCODE, n |-> 0, in |-> {}, id |-> id,
     running |-> TRUE, request |-> FALSE, oscr |-> {}, omar |-> {}, omdr |-> {},
     pc |-> {}, log |-> <<>>]
=============================================================================

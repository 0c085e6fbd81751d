--------------------------- MODULE AdapterBitbang ----------------------------
(***************************************************************************)
(* adapter-bitbang.c: samples of the pins, exchanged with an FT232R.       *)
(*                                                                         *)
(* A reply comes in one piece: bitbang_send_recv counts the two bytes of   *)
(* status before each piece as data and never ends when there are several. *)
(***************************************************************************)
EXTENDS AdapterState

(* Every step is two samples of the pins, TCK low and high, that differ in
   nothing else. *)
Pins(tms, tdi) == [tms |-> tms, tdi |-> tdi]

bitbang_step(path) == [k \in 1 .. Len(path) |-> Pins(path[k], TRUE)]

(* The data bits; the last one leaves the Shift state. *)
bitbang_bits(nbits, bits) ==
    [k \in 1 .. nbits |-> Pins(IF k = nbits THEN 1 ELSE 0, k - 1 \in bits)]

(* One more sample is sent at the end.  The pins are read before each sample is
   put on them: the value is the set of the samples, from 0, that read TDO = 1. *)
bitbang_send_recv(s, steps) ==
    TheOne({[s EXCEPT !.chip = done.chip,
                      !.value = {2 * k : k \in done.tdo} \cup {2 * k + 1 : k \in done.tdo},
                      !.over = @ \/ 2 * Len(steps) + 1 > 128] : done \in {Ticks(s.chip, steps)}})

bitbang_read(s, offset, nbits) ==
    [s EXCEPT !.value = {n \in 0 .. nbits - 1 : offset + n * 2 + 1 \in s.value}]

tap_instr(s, ir) ==
    bitbang_read(bitbang_send_recv(s,
        bitbang_step(<<1, 1, 0, 0>>) \o bitbang_bits(4, Bits(ir)) \o bitbang_step(<<1>>)), 8, 4)

tap_data(s, nbits, bits) ==
    bitbang_read(bitbang_send_recv(s,
        bitbang_step(<<1, 0, 0>>) \o bitbang_bits(nbits, bits) \o bitbang_step(<<1>>)), 6, nbits)

bitbang_open(s) == bitbang_send_recv(s, bitbang_step(<<1, 1, 1, 1, 1, 0>>))

(* The steps of the reset are still in the buffer when tap_instr adds its own. *)
bitbang_get_idcode(s) ==
    tap_data(bitbang_send_recv(s,
        bitbang_step(<<1, 1, 1, 1, 1, 0, 1, 1, 0, 0>>)
          \o bitbang_bits(4, Bits(TAP_IDCODE)) \o bitbang_step(<<1>>)), 32, {})

bitbang_oncd_read(s, reg, reglen) ==
    [tap_data(s, 9 + reglen, Command(reg, {READ}, {})) EXCEPT !.value = ShiftedDown(@, 9)]

bitbang_oncd_write(s, ird, reglen, value) ==
    tap_data(s, 9 + reglen, ird \cup ShiftedUp(value, 9))
=============================================================================

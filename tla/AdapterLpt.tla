----------------------------- MODULE AdapterLpt -----------------------------
(***************************************************************************)
(* adapter-lpt.c: bytes exchanged with the firmware of a parallel port     *)
(* adapter, which is external.  It walks the TAP by itself; to a command   *)
(* of eight bits for OnCD it adds the ninth.                               *)
(***************************************************************************)
EXTENDS AdapterState

Path(tms) == [k \in 1 .. Len(tms) |-> [tms |-> tms[k], tdi |-> TRUE]]

DataBits(nbits, bits) ==
    [k \in 1 .. nbits |-> [tms |-> IF k = nbits THEN 1 ELSE 0, tdi |-> k - 1 \in bits]]

(* A walk to a Shift state, nbits of data, and a walk away from it. *)
Scan(s, there, nbits, bits, back) ==
    TheOne({[s EXCEPT !.chip = done.chip,
                      !.value = ShiftedDown(done.tdo \cap (0 .. Len(there) + nbits - 1), Len(there))] :
            done \in {Ticks(s.chip, Path(there) \o DataBits(nbits, bits) \o Path(back))}})

WriteIR(s, nbits, bits) == Scan(s, <<1, 1, 0, 0>>, nbits, bits, <<1, 0>>)
WriteDR(s, nbits, bits) == Scan(s, <<1, 0, 0>>, nbits, bits, <<1, 0>>)

set_ir(s, new) == WriteIR(s, 4, Bits(new))

(* By way of Pause-DR. *)
set_dr(s, len, data) == Scan(s, <<1, 0, 1, 0, 1, 0>>, len, data, <<0, 1, 1, 0>>)

(* len bits, the first eight of them for the command. *)
oncd_io(s, len, data) ==
    [WriteDR(s, len + 1, (data \cap (0 .. 7)) \cup ShiftedUp(data \ (0 .. 7), 1))
        EXCEPT !.value = (@ \cap (0 .. 7)) \cup ShiftedUp(ShiftedDown(@, 9), 8)]

lpt_oncd_read(s, reg, nbits) ==
    [oncd_io(s, 8 + nbits, IRd(reg, {READ})) EXCEPT !.value = ShiftedDown(@, 8)]

lpt_oncd_write(s, ird, nbits, val) == oncd_io(s, 8 + nbits, ird \cup ShiftedUp(val, 8))

lpt_open(s) == [s EXCEPT !.chip = Ticks(@, Path(<<0>>)).chip]

lpt_get_idcode(s) ==
    set_dr([s EXCEPT !.chip = Ticks(@, Path(<<1, 1, 1, 0>>)).chip], 32, {})
=============================================================================

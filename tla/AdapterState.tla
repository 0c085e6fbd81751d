---------------------------- MODULE AdapterState -----------------------------
(***************************************************************************)
(* What the JTAG adapters have in common.  Their functions are operators   *)
(* on a record s of the state of host and chip:                            *)
(*   kind    which adapter                                                 *)
(*   chip    the chip (TapChip)                                            *)
(*   oscr    adapter->oscr, the host's copy of that register               *)
(*   output  commands for the MPSSE that have not been sent yet            *)
(*   size    bytes_to_write: the bytes of these                            *)
(*   input   the bytes read for them, one set of ones each                 *)
(*   fix     how the bits of the last word read lie in these bytes         *)
(*   value   what the last read returned                                   *)
(*   over    a buffer has overflowed                                       *)
(*   failed  RDYm did not come, and the program exits                      *)
(*   sysrst  the adapter heeds SYS_RST in the header of a packet           *)
(*                                                                         *)
(* Transfers by USB and through the parallel port succeed.                 *)
(***************************************************************************)
EXTENDS TapChip

CONSTANT OutSize    \* sizeof (a->output) of adapter-mpsse.c, 4096 there

(* mpsse_read_block relies on this much: ten words of 38 bytes, and the 23 of
   the longest packet. *)
ASSUME OutAssumption == OutSize \in Nat /\ OutSize >= 10 * 38 + 23

Kinds == {"bitbang", "mpsse", "lpt", "usb", "usb_single"}

NoFix == [high_byte_bits |-> 0, high_byte_mask |-> {}, fix_high_bit |-> 0,
          high_bit |-> 0, bytes_per_word |-> 0]

NewAdapter(kind, sysrst, chip) ==
    [kind |-> kind, sysrst |-> sysrst, chip |-> chip, oscr |-> {}, output |-> <<>>, size |-> 0,
     input |-> <<>>, fix |-> NoFix, value |-> {}, over |-> FALSE, failed |-> FALSE]

IRd(reg, flags) == Bits(reg) \cup flags

(* data = reg | value << 9 *)
Command(reg, flags, value) == IRd(reg, flags) \cup ShiftedUp(value, 9)

Addresses(addr, n) == [k \in 1 .. n |-> addr + 4 * (k - 1)]

(* The words to write one by one, <<address, data>>, of a block from addr on. *)
Block(addr, data) == [k \in 1 .. Len(data) |-> <<addr + 4 * (k - 1), data[k]>>]

(* What a flash chip has to be written before a word, or a page, is: `last'
   after the two unlock cycles.  The byte addresses are scaled. *)
addr_odd == 20
addr_even == 8
cmd_aa == {1, 3, 5, 7}
cmd_55 == {0, 2, 4, 6}
cmd_a0 == {5, 7}

Unlocked(base, last) ==
    <<<<base + addr_odd, cmd_aa>>, <<base + addr_even, cmd_55>>, <<base + addr_odd, last>>>>

Programmed32(base, pairs) ==
    Concat([k \in DOMAIN pairs |-> Append(Unlocked(base, cmd_a0), pairs[k])])

(* Of a bus of 64 bits, each half has commands of its own. *)
Programmed64(base, pairs) ==
    Concat([k \in DOMAIN pairs |->
               Append(Unlocked(base + 4 * ((pairs[k][1] \div 4) % 2), cmd_a0), pairs[k])])

Unprotect(base) == Unlocked(base, {7, 15, 23, 31}) \o Unlocked(base, {5, 13, 21, 29})
Protect(base) == Unlocked(base, cmd_a0)

(* A page of such a chip is written twice. *)
ProgrammedPage(base, pairs) == Unprotect(base) \o pairs \o Protect(base) \o pairs
=============================================================================

----------------------------- MODULE AdapterUsb -----------------------------
(***************************************************************************)
(* adapter-usb.c: packets of commands for the firmware of the Elvees USB   *)
(* adapter, which is external.  A command is a header, a register of OnCD  *)
(* (or an instruction) and data; the comment before HDR gives the header.  *)
(* What a transfer of blocks does to OSCR the source does not tell: here   *)
(* the firmware puts back what it changed.                                 *)
(***************************************************************************)
EXTENDS AdapterLpt

H_DEBUG == {6}
H_32 == {4, 5}
H_16 == {5}
H_TRST == {3}
H_SYSRST == {2}
H_BLKWR == {0}
H_BLKRD == {1}
H_BLKEND == {0, 1}
H_IDCODE == {0, 1}

\* 0x7c ^ bits, 0xfc ^ bits
HDR(bits) == ((2 .. 6) \ bits) \cup (bits \ (2 .. 6))
HIR(bits) == ((2 .. 7) \ bits) \cup (bits \ (2 .. 7))

(* h_wr, h_rd and h_end, for blocks or for single words. *)
Transfer(s, bits) == IF s.kind = "usb_single" THEN bits \cup H_TRST ELSE bits

Cmd(h, ird, data) == [h |-> h, ird |-> ird, data |-> data]

-----------------------------------------------------------------------------
(* The firmware. *)

IsActive(h, bit) == bit \cap h = {}

(* TRST and SYS_RST, as the header of a plain command sets them; whether the
   firmware heeds SYS_RST there the source does not tell. *)
ResetLines(s, h) ==
    TheOne({IF IsActive(h, H_SYSRST) /\ s.sysrst THEN [t EXCEPT !.chip = SystemReset(@)] ELSE t :
            t \in {IF IsActive(h, H_TRST) THEN lpt_open(Scan(s, <<1, 1, 1, 1>>, 1, {0}, <<>>))
                    ELSE s}})

Width(h) == IF H_32 \cap h = {} THEN 32 ELSE IF H_32 \cap h = {4} THEN 16 ELSE 0

(* One word to or from memory, whatever OSCR says. *)
Access(c, addr, val, mode) ==
    LET t == MemAccess([c EXCEPT !.omar = addr, !.omdr = val, !.oscr = mode])
    IN  [t EXCEPT !.oscr = c.oscr \cup {RDYm}]

Next4(addr) == Bits(Number[addr] + 4)

(* r: the adapter, the next address of a block, the words of the reply. *)
Obeyed(r, cmd) ==
    LET s == r.s
        reg == RegOf(cmd.ird)
        kind == cmd.h \cap {0, 1}
        reads == READ \in cmd.ird
    IN
    TheOne(
    CASE 7 \in cmd.h ->
            {[r EXCEPT !.s = t, !.reply = Append(@, t.value)] :
             t \in {WriteIR(ResetLines(s, cmd.h), 8, cmd.ird)}}
      [] 7 \notin cmd.h /\ kind = {} ->
            {[r EXCEPT !.s = t,
                       !.reply = IF reads /\ reg # OnCD_GO
                                   THEN Append(@, ShiftedDown(t.value, 9)) ELSE @] :
             t \in {WriteDR(ResetLines(s, cmd.h), 9 + Width(cmd.h),
                            cmd.ird \cup ShiftedUp(cmd.data, 9))}}
      [] 7 \notin cmd.h /\ kind = H_IDCODE /\ reg = TAP_IDCODE ->
            {[r EXCEPT !.s = t, !.reply = Append(@, t.value)] : t \in {WriteDR(s, 32, {})}}
      [] 7 \notin cmd.h /\ kind # {} /\ reg = OnCD_OMAR -> {[r EXCEPT !.addr = cmd.data]}
      [] 7 \notin cmd.h /\ kind # {} /\ reg = OnCD_OMDR ->
            {[s |-> [s EXCEPT !.chip = c], addr |-> Next4(r.addr),
              reply |-> IF reads THEN Append(r.reply, c.omdr) ELSE r.reply] :
             c \in {Access(s.chip, r.addr, cmd.data,
                           IF reads THEN {SlctMEM, RO} ELSE {SlctMEM})}}
      [] OTHER -> {r})

-----------------------------------------------------------------------------
(* A packet; the value is the list of words it is answered with.  `room' is
   the number of commands the array it is put together in has room for. *)
Packet(s, cmds, room) ==
    TheOne({[done.s EXCEPT !.value = done.reply, !.over = @ \/ Len(cmds) > room] :
            done \in {Foreach(Obeyed, [s |-> s, addr |-> {}, reply |-> <<>>], cmds)}})

Reply(s) == [s EXCEPT !.value = @[1]]

(* A transfer ends with a look at OSCR. *)
Transferred(s, cmds, room) ==
    TheOne({[t EXCEPT !.failed = @ \/ RDYm \notin t.value[Len(t.value)]] :
            t \in {Packet(s, Append(cmds, Cmd(HDR(H_32), IRd(OnCD_OSCR, {READ}), {})), room)}})

usb_ir(s, bits, ir) ==
    Reply(Packet(s, <<Cmd(HIR(bits), Bits(ir) \cup ShiftedUp(Bits(ir), 4), {})>>, 1))

usb_get_idcode(s) ==
    Reply(Packet(usb_ir(s, H_DEBUG, TAP_IDCODE),
                 <<Cmd(HDR(H_32 \cup H_IDCODE), Bits(TAP_IDCODE), {})>>, 1))

usb_step_cpu(s) ==
    Packet(s, <<Cmd(HDR(H_16), IRd(OnCD_GO, {STEP_1CLK, FLUSH_PIPE}), {})>>, 1)

usb_run_cpu(s) == Packet(s, <<Cmd(HDR(H_16), IRd(OnCD_GO, {RESUME}), {})>>, 1)

usb_oncd_read(s, reg) == Reply(Packet(s, <<Cmd(HDR(H_32), IRd(reg, {READ}), {})>>, 1))

(* A write of no bits is one of 32, too. *)
usb_oncd_write(s, ird, val) == Packet(s, <<Cmd(HDR(H_32), ird, val)>>, 1)


(* TRST on the way to OnCD, and then the version of the firmware. *)
usb_open(s) ==
    Packet(Packet(s, <<Cmd(HDR(H_DEBUG \cup H_TRST), IRd(OnCD_MEM, {READ}), {})>>, 1),
           <<Cmd(HIR(H_DEBUG \cup H_TRST \cup H_SYSRST), 0 .. 7, {})>>, 1)

(* One write: the address begins a transfer, the data end it. *)
WriteCmds(s, addr, data) ==
    <<Cmd(HDR(H_32 \cup Transfer(s, H_BLKWR)), Bits(OnCD_OMAR), Bits(addr)),
      Cmd(HDR(H_32 \cup Transfer(s, H_BLKEND)), Bits(OnCD_OMDR), data)>>

AllWrites(s, pairs) == Concat([k \in DOMAIN pairs |-> WriteCmds(s, pairs[k][1], pairs[k][2])])

usb_write_nwords(s, pairs) ==
    Transferred(s, AllWrites(s, pairs), 2 * Len(pairs) + 1)

(* After each word a plain write of OMDR, for the delay. *)
usb_program_block32(s, base, pairs) ==
    LET delay == <<Cmd(HDR(H_32), Bits(OnCD_OMDR), {})>>
        words == [k \in DOMAIN pairs |-> AllWrites(s, Programmed32(base, <<pairs[k]>>)) \o delay]
    IN  Transferred(s, Concat(words), 9 * Len(pairs) + 1)

usb_program_block64(s, base, pairs) ==
    Transferred(s, AllWrites(s, Programmed64(base, pairs)), 8 * Len(pairs) + 1)

(* One array serves for the commands and then for the words. *)
usb_program_block32_unprotect(s, base, pairs) ==
    LET room == 18 + 2 * Len(pairs) + 1
    IN  Transferred(Transferred(s, AllWrites(s, Unprotect(base)), room),
                    AllWrites(s, pairs), room)

usb_program_block32_protect(s, base, pairs) ==
    LET room == 18 + 2 * Len(pairs) + 1
    IN  Transferred(Transferred(s, AllWrites(s, Protect(base)), room),
                    AllWrites(s, pairs), room)

(* The commands of a block that differ only in the last one's header. *)
BlockCmds(s, h, ird, addr, data) ==
    <<Cmd(HDR(H_32 \cup Transfer(s, h)), Bits(OnCD_OMAR), Bits(addr))>>
      \o [k \in 1 .. Len(data) |->
            Cmd(HDR(H_32 \cup Transfer(s, IF k < Len(data) THEN h ELSE H_BLKEND)), ird, data[k])]

usb_write_block(s, addr, data) ==
    Transferred(s, BlockCmds(s, H_BLKWR, Bits(OnCD_OMDR), addr, data), Len(data) + 2)

usb_read_block(s, addr, n) ==
    [Transferred(s, BlockCmds(s, H_BLKRD, IRd(OnCD_OMDR, {READ}), addr, [k \in 1 .. n |-> {}]),
                 n + 2) EXCEPT !.value = SubSeq(@, 1, n)]
=============================================================================

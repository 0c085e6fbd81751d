------------------------------ MODULE Adapters -------------------------------
(***************************************************************************)
(* struct _adapter_t of adapter.h: the table of functions that an adapter  *)
(* fills in and target.c calls through.  A function that the adapter of a  *)
(* kind does not have is absent here too.                                  *)
(***************************************************************************)
EXTENDS AdapterBitbang, AdapterMpsse, AdapterUsb

IsUsb(s) == s.kind \in {"usb", "usb_single"}
HasBlocks(s) == IsUsb(s) \/ s.kind = "mpsse"

oncd_write(s, value, reg, flags, nbits) ==
    CASE s.kind = "bitbang" -> bitbang_oncd_write(s, IRd(reg, flags), nbits, value)
      [] s.kind = "mpsse" -> mpsse_oncd_write(s, IRd(reg, flags), nbits, value)
      [] s.kind = "lpt" -> lpt_oncd_write(s, IRd(reg, flags), nbits, value)
      [] IsUsb(s) -> usb_oncd_write(s, IRd(reg, flags), value)

oncd_read(s, reg, nbits) ==
    CASE s.kind = "bitbang" -> bitbang_oncd_read(s, reg, nbits)
      [] s.kind = "mpsse" -> mpsse_oncd_read(s, reg, nbits)
      [] s.kind = "lpt" -> lpt_oncd_read(s, reg, nbits)
      [] IsUsb(s) -> usb_oncd_read(s, reg)

-----------------------------------------------------------------------------
(* What target.c asks of an adapter's oncd_write and oncd_read, as a list, and
   what it does in between with its copy of OSCR. *)
Write(value, reg, flags, nbits) ==
    [op |-> "write", value |-> value, reg |-> reg, flags |-> flags, nbits |-> nbits]
Read(reg) == [op |-> "read", reg |-> reg]

\* adapter->oscr = oncd_read (OnCD_OSCR); awaits: it gives up without RDYm
GetOscr(awaits) == [op |-> "get", awaits |-> awaits]

\* some bits of adapter->oscr are changed, and it is written; lazy: if that changes it
PutOscr(on, off, lazy) == [op |-> "put", on |-> on, off |-> off, lazy |-> lazy]

(* How often OSCR is looked at while RDYm does not come makes no difference:
   nothing else happens meanwhile. *)
Serve(s, r) == TheOne(
    CASE r.op = "write" ->
            {[oncd_write(s, r.value, r.reg, r.flags, r.nbits) EXCEPT !.value = s.value]}
      [] r.op = "read" -> {[oncd_read(s, r.reg, 32) EXCEPT !.value = Append(s.value, @)]}
      [] r.op = "get" ->
            {[t EXCEPT !.oscr = t.value, !.value = s.value,
                       !.failed = @ \/ (r.awaits /\ RDYm \notin t.value)] :
             t \in {oncd_read(s, OnCD_OSCR, 32)}}
      [] r.op = "put" ->
            {IF r.lazy /\ oscr_new = s.oscr THEN s
             ELSE [oncd_write([s EXCEPT !.oscr = oscr_new], oscr_new, OnCD_OSCR, {}, 32)
                       EXCEPT !.value = s.value] :
             oscr_new \in {(s.oscr \cup r.on) \ r.off}})

(* The value is the list of the words read. *)
Oncd(s, reqs) == Foreach(Serve, [s EXCEPT !.value = <<>>], reqs)

-----------------------------------------------------------------------------
(* An instruction; the value is what the register held before. *)
Instruction(s, ir) ==
    CASE s.kind = "bitbang" -> tap_instr(s, ir)
      [] s.kind = "mpsse" -> mpsse_recv(mpsse_ir(s, ir))
      [] s.kind = "lpt" -> set_ir(s, ir)
      [] IsUsb(s) -> usb_ir(s, H_DEBUG, ir)

open(s) ==
    CASE s.kind = "bitbang" -> bitbang_open(s)
      [] s.kind = "mpsse" -> mpsse_open(s)
      [] s.kind = "lpt" -> lpt_open(s)
      [] IsUsb(s) -> usb_open(s)

get_idcode(s) ==
    CASE s.kind = "bitbang" -> bitbang_get_idcode(s)
      [] s.kind = "mpsse" -> mpsse_get_idcode(s)
      [] s.kind = "lpt" -> lpt_get_idcode(s)
      [] IsUsb(s) -> usb_get_idcode(s)

(* The first step of stop_cpu. *)
DebugRequest(s) ==
    CASE s.kind = "mpsse" -> mpsse_send(s, <<MpsseScan(1, {0}, 4, Bits(TAP_DEBUG_REQUEST), FALSE)>>)
      [] IsUsb(s) -> usb_ir(s, H_DEBUG \cup H_SYSRST, TAP_DEBUG_REQUEST)
      [] OTHER -> Instruction(s, TAP_DEBUG_REQUEST)

(* The replies it waits for; the firmware of USB shifts eight bits. *)
InDebug(s, reply) ==
    CASE s.kind \in {"bitbang", "mpsse"} -> reply = {0, 2}
      [] s.kind = "lpt" -> 2 \in reply
      [] IsUsb(s) -> reply = {0, 2, 4, 6}

(* The chip's request is heard: only an adapter for USB asks for that, too. *)
Acknowledged(reply) == reply = {0, 2, 6}

reset_cpu(s) ==
    IF s.kind = "mpsse" THEN mpsse_reset_cpu(s) ELSE [s EXCEPT !.chip = SystemReset(@)]

(* target.c: the adapter's own function for this, or one word to OnCD. *)
StepCpu(s) ==
    IF IsUsb(s) THEN usb_step_cpu(s)
    ELSE Oncd(s, <<Write({}, OnCD_GO, {FLUSH_PIPE, STEP_1CLK}, 0)>>)
RunCpu(s) ==
    IF IsUsb(s) THEN usb_run_cpu(s)
    ELSE Oncd(s, <<Write({}, OnCD_GO, {RESUME, FLUSH_PIPE}, 0)>>)

read_block(s, addr, nwords) ==
    IF s.kind = "mpsse" THEN mpsse_read_block(s, addr, nwords) ELSE usb_read_block(s, addr, nwords)

write_block(s, pairs) ==
    IF s.kind = "mpsse" THEN mpsse_write_pairs(s, pairs)
    ELSE usb_write_block(s, pairs[1][1], [k \in DOMAIN pairs |-> pairs[k][2]])

write_nwords(s, pairs) ==
    IF s.kind = "mpsse" THEN mpsse_write_pairs(s, pairs) ELSE usb_write_nwords(s, pairs)

program_block32(s, base, pairs) ==
    IF s.kind = "mpsse" THEN mpsse_write_pairs(s, Programmed32(base, pairs))
    ELSE usb_program_block32(s, base, pairs)

\* mutant: what is collected for the MPSSE is dropped.
CloseAtOnce(s) == s

close(s) == IF s.kind = "mpsse" THEN mpsse_flush_output(s) ELSE s
=============================================================================

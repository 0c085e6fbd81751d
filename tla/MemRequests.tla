----------------------------- MODULE MemRequests -----------------------------
(***************************************************************************)
(* Requests for memory and registers, from the bytes on the line to the    *)
(* words of the chip and back: rp_getpkt, the handlers of gdbproxy.c and   *)
(* the methods of remote-elvees.c they call.                               *)
(*                                                                         *)
(* A word is the sequence of its bytes, the least significant one first,   *)
(* which is also their order in the memory of the host.  What target.c     *)
(* does for a word is in TargetRegs; replies that get lost, and the ACK    *)
(* of a reply, are in GdbProxy.  The target does not run.                  *)
(***************************************************************************)
EXTENDS Packets, FiniteSets

CONSTANTS
    Top,           \* RP_ELVEES_MAX_ADDRESS
    Limit,         \* (RP_VAL_DBG_PBUFSIZ - 32) / 2
    NumRegs,       \* RP_ELVEES_NUM_REGS
    Fp0,           \* RP_ELVEES_REGNUM_FP0
    Requests,      \* of the debugger
    Spoiling,      \* characters that others are spoiled into
    MaxRequests, MaxFaults

ASSUME MemAssumption ==
    /\ Top \in Nat /\ (Top + 1) % 4 = 0
    /\ {Limit, NumRegs, Fp0} \subseteq Nat \ {0} /\ Fp0 <= NumRegs
    /\ Spoiling \subseteq Byte
    /\ MaxRequests \in Nat /\ MaxFaults \in Nat

(* What a debugger asks; a register is one word. *)
ASSUME RequestsAssumption ==
    /\ Requests \subseteq [k : {"m", "M", "X", "p", "P", "g", "G"},
                           at : Byte, len : Byte, data : Seq(Byte)]
    /\ \A q \in Requests :
          /\ Len(q.data) \in Byte
          /\ q.k = "m" => q.len > 0
          /\ q.k = "P" => Len(q.data) = 4
          /\ q.k = "G" => q.data # <<>>

VARIABLES
    mem,           \* the words of the memory
    regs,          \* the registers
    reader,        \* the variables of rp_getpkt
    line,          \* characters sent and not yet read
    out,           \* what the proxy has written since the last request
    asked,         \* the last request
    count, faults  \* requests and faults so far

vars == <<mem, regs, reader, line, out, asked, count, faults>>

Nothing == [k |-> "none", at |-> 0, len |-> 0, data |-> <<>>]
Words == (Top + 1) \div 4

Init ==
    /\ mem = [w \in 0 .. Words - 1 |-> [i \in 1 .. 4 |-> (16 * w + 160 + i) % 256]]
    /\ regs = [r \in 0 .. NumRegs - 1 |-> [i \in 1 .. 4 |-> (16 * r + i) % 256]]
    /\ reader = NewPacket
    /\ line = <<>> /\ out = <<>>
    /\ asked = Nothing
    /\ count = 0 /\ faults = 0

-----------------------------------------------------------------------------
(* The debugger. *)

Hex(n) == IF n < 16 THEN <<HexDigits[n + 1]>> ELSE rp_encode_byte(n)

Escaped(data) ==
    LET Upto[k \in 0 .. Len(data)] ==
            IF k = 0 THEN <<>>
            ELSE Upto[k - 1] \o (IF data[k] \in {HashMark, Dollar, Brace}
                                   THEN <<Brace, Unescape(data[k])>> ELSE <<data[k]>>)
    IN  Upto[Len(data)]

Body(q) ==
    CASE q.k = "m" -> <<109>> \o Hex(q.at) \o <<Comma>> \o Hex(q.len)
      [] q.k = "M" -> <<77>> \o Hex(q.at) \o <<Comma>> \o Hex(Len(q.data))
                        \o <<Colon>> \o rp_encode_data(q.data)
      [] q.k = "X" -> <<88>> \o Hex(q.at) \o <<Comma>> \o Hex(Len(q.data))
                        \o <<Colon>> \o Escaped(q.data)
      [] q.k = "p" -> <<112>> \o Hex(q.at)
      [] q.k = "P" -> <<80>> \o Hex(q.at) \o <<EqualSign>> \o rp_encode_data(q.data)
      [] q.k = "g" -> <<103>>
      [] q.k = "G" -> <<71>> \o rp_encode_data(q.data)

Pending == asked # Nothing /\ out = <<>>

Ask(q) ==
    /\ ~ Pending /\ count < MaxRequests
    /\ asked' = q /\ out' = <<>> /\ count' = count + 1
    /\ UNCHANGED <<mem, regs, reader, line, faults>>

(* Unanswered, the request is sent again. *)
Packet == Frame(Body(asked))

Arrives(chars) ==
    /\ line = <<>> /\ line' = chars
    /\ UNCHANGED <<mem, regs, reader, out, asked, count>>

Send == Pending /\ Arrives(Packet) /\ UNCHANGED faults

Fault == Pending /\ faults < MaxFaults /\ faults' = faults + 1

SendCut == Fault /\ \E n \in 1 .. Len(Packet) - 1 : Arrives(SubSeq(Packet, 1, n))

SendSpoiled ==
    /\ Fault
    /\ \E n \in 1 .. Len(Packet), c \in Spoiling :
          c # Packet[n] /\ Arrives([Packet EXCEPT ![n] = c])

-----------------------------------------------------------------------------
(* The stub.  The word at an address that is one of a word. *)
target_read_word(a) == mem[a \div 4]

Lesser(a, b) == IF a < b THEN a ELSE b

(* Bytes up to the next word: nbytes. *)
HeadBytes(at, n) == IF at % 4 = 0 THEN 0 ELSE Lesser(4 - (at % 4), n)

(* What of a request does not lie beyond the last address. *)
Truncated(at, asks) == IF at + asks > Top + 1 THEN Top + 1 - at ELSE asks

(* Part of a word, whole words, part of a word. *)
elvees_read_mem(at, asks) ==
    LET n == Truncated(at, asks)
        head == HeadBytes(at, n)
        body == (n - head) \div 4
        block == at + head
        tail == (n - head) % 4
        first == IF head = 0 THEN <<>>
                 ELSE SubSeq(target_read_word(at - (at % 4)), (at % 4) + 1, (at % 4) + head)
        middle == [i \in 1 .. 4 * body |->
                      target_read_word(block + i - 1)[((i - 1) % 4) + 1]]
        last == IF tail = 0 THEN <<>>
                ELSE SubSeq(target_read_word(block + 4 * body), 1, tail)
    IN  IF at > Top THEN Failed ELSE [ok |-> TRUE, val |-> first \o middle \o last]

Patched_blind(w, from, data) ==   \* mutant: the rest of the word is not kept
    [i \in 1 .. 4 |-> IF i - from \in DOMAIN data THEN data[i - from] ELSE 0]

Patched(w, from, data) ==
    [i \in 1 .. 4 |-> IF i - from \in DOMAIN data THEN data[i - from] ELSE w[i]]

(* Part of a word, whole words, part of a word: what becomes of word w. *)
Written(at, data, w) ==
    LET n == Len(data)
        head == HeadBytes(at, n)
        body == (n - head) \div 4
        block == (at + head) \div 4
        tail == (n - head) % 4
    IN  IF head > 0 /\ w = at \div 4
          THEN Patched(mem[w], at % 4, SubSeq(data, 1, head))
        ELSE IF w \in block .. block + body - 1
          THEN SubSeq(data, head + 4 * (w - block) + 1, head + 4 * (w - block) + 4)
        ELSE IF tail > 0 /\ w = block + body
          THEN Patched(mem[w], 0, SubSeq(data, head + 4 * body + 1, n))
        ELSE mem[w]

elvees_write_mem(at, data) ==
    IF data = <<>> THEN [ok |-> TRUE, val |-> mem]
    ELSE IF at > Top \/ at + Len(data) - 1 > Top THEN Failed
    ELSE [ok |-> TRUE, val |-> [w \in DOMAIN mem |-> Written(at, data, w)]]

elvees_read_single_register(r) ==
    IF r >= NumRegs THEN Failed ELSE [ok |-> TRUE, val |-> regs[r]]

elvees_write_single_register(r, data) ==
    IF r >= NumRegs THEN Failed ELSE [ok |-> TRUE, val |-> [regs EXCEPT ![r] = data]]

(* Registers from Fp0 on are counted, but neither they nor their avail    *)
(* flags are set: whatever was there goes out, as digits or as "xx".      *)
Uninitialized == {[i \in 1 .. 8 * (NumRegs - Fp0) |-> c] : c \in {48, 120}}

elvees_read_registers ==
    [i \in 1 .. 4 * Fp0 |-> regs[(i - 1) \div 4][((i - 1) % 4) + 1]]

elvees_write_registers(data) ==
    [r \in DOMAIN regs |->
        IF 4 * r + 4 <= Len(data) THEN SubSeq(data, 4 * r + 1, 4 * r + 4) ELSE regs[r]]

-----------------------------------------------------------------------------
(* The handlers: what they reply, and the memory and registers they leave. *)

OkText == <<79, 75>>
ErrText == <<69, 48, 48>>
rp_write_retval(ok) == IF ok THEN OkText ELSE ErrText

Effect(m, r, texts) == [mem |-> m, regs |-> r, texts |-> texts]
Says(text) == Effect(mem, regs, {text})

HandleReadMemory(s) ==
    LET q == rp_decode_mem(Tail(s))
        got == elvees_read_mem(q.addr, Lesser(q.len, Limit))
    IN  Says(IF q.ok /\ got.ok THEN rp_encode_data(got.val) ELSE ErrText)

HandleWriteMemory(s) ==
    LET cp == {i \in 2 .. Len(s) : s[i] = Colon}
        at == CHOOSE i \in cp : \A j \in cp : i <= j
        q == rp_decode_mem(SubSeq(s, 2, at - 1))
        data == rp_decode_data(SubSeq(s, at + 1, Len(s)))
        put == elvees_write_mem(q.addr, data.val)
    IN  IF cp = {} \/ ~ q.ok \/ ~ data.ok \/ q.len # Len(data.val) \/ ~ put.ok
        THEN Says(ErrText)
        ELSE Effect(put.val, regs, {OkText})

HandleReadRegister(s) ==
    LET q == rp_decode_uint32(Tail(s), <<>>)
        got == elvees_read_single_register(q.val)
    IN  Says(IF q.ok /\ got.ok THEN rp_encode_data(got.val) ELSE ErrText)

HandleWriteRegister(s) ==
    LET q == rp_decode_reg_assignment(Tail(s))
        put == elvees_write_single_register(q.reg, q.data)
    IN  IF q.ok /\ put.ok THEN Effect(mem, put.val, {OkText}) ELSE Says(ErrText)

HandleReadRegisters ==
    Effect(mem, regs, {rp_encode_data(elvees_read_registers) \o u : u \in Uninitialized})

HandleWriteRegisters(s) ==
    LET data == rp_decode_data(Tail(s))
    IN  IF data.ok THEN Effect(mem, elvees_write_registers(data.val), {OkText})
        ELSE Says(ErrText)

(* Anything else is not supported. *)
Handled(s) ==
    CASE s # <<>> /\ s[1] = 109 -> HandleReadMemory(s)
      [] s # <<>> /\ s[1] = 77 -> HandleWriteMemory(s)
      [] s # <<>> /\ s[1] = 112 -> HandleReadRegister(s)
      [] s # <<>> /\ s[1] = 80 -> HandleWriteRegister(s)
      [] s # <<>> /\ s[1] = 103 -> HandleReadRegisters
      [] s # <<>> /\ s[1] = 71 -> HandleWriteRegisters(s)
      [] OTHER -> Says(<<>>)

-----------------------------------------------------------------------------
(* The main loop. *)

Got == rp_getpkt(reader, line)

(* In the middle of the packet rp_getpkt waits for more. *)
Wait ==
    /\ line # <<>> /\ Got.r.ret = "none"
    /\ reader' = Got.r /\ line' = <<>>
    /\ UNCHANGED <<mem, regs, out, asked, count, faults>>

(* An ACK, a NAK or a Control-C that nobody waits for. *)
Ignore ==
    /\ line # <<>> /\ Got.r.ret \in {"ack", "nak", "ctrlc"}
    /\ reader' = NewPacket /\ line' = SubSeq(line, Got.n + 1, Len(line))
    /\ UNCHANGED <<mem, regs, out, asked, count, faults>>

(* A packet is acknowledged and handled; rp_putpkt drops what follows it. *)
Serve ==
    /\ line # <<>> /\ Got.r.ret = "packet"
    /\ LET h == Handled(Got.r.buf)
       IN  /\ mem' = h.mem /\ regs' = h.regs
           /\ \E text \in h.texts : out' = Acknowledgement(Got.r) \o Frame(text)
    /\ reader' = NewPacket /\ line' = <<>>
    /\ UNCHANGED <<asked, count, faults>>

Next ==
    \/ \E q \in Requests : Ask(q)
    \/ Send \/ SendCut \/ SendSpoiled
    \/ Wait \/ Ignore \/ Serve

Spec == Init /\ [][Next]_vars

-----------------------------------------------------------------------------
(* Properties *)

TypeOK ==
    /\ mem \in [0 .. Words - 1 -> [1 .. 4 -> Byte]]
    /\ regs \in [0 .. NumRegs - 1 -> [1 .. 4 -> Byte]]
    /\ reader \in Readers /\ reader.ret = "none"
    /\ line \in Seq(Byte) /\ out \in Seq(Byte)
    /\ asked \in Requests \cup {Nothing}
    /\ count \in 0 .. MaxRequests /\ faults \in 0 .. MaxFaults

(* The memory as bytes. *)
BytesOf(m) == [a \in 0 .. Top |-> m[a \div 4][(a % 4) + 1]]

(* The debugger's view of what was written: after the ACK a frame whose sum *)
(* is right, with one of the texts a reply can be.  Of all registers, those *)
(* from Fp0 on may be anything.                                             *)
Answer ==
    LET text == SubSeq(out, 3, Len(out) - 3)
        sum == rp_decode_data(SubSeq(out, Len(out) - 1, Len(out)))
        digits == IF asked.k = "g" THEN SubSeq(text, 1, 8 * Fp0) ELSE text
        data == rp_decode_data(digits)
        framed == out[1] = PlusSign /\ out[2] = Dollar /\ out[Len(out) - 2] = HashMark
        kind == CASE asked = Nothing -> "none"
                  [] Pending -> "pending"
                  [] OTHER ->
                      IF ~ framed \/ ~ sum.ok \/ sum.val # <<Sum(text)>> THEN "garbled"
                      ELSE IF text = OkText THEN "OK"
                      ELSE IF text = ErrText THEN "ERR"
                      ELSE IF data.ok THEN "data" ELSE "garbled"
    IN  [k |-> kind, data |-> IF kind = "data" THEN data.val ELSE <<>>]

Expected == INSTANCE ByteMemory WITH
    CpuRegs <- Fp0,
    bytes <- BytesOf(mem),
    words <- regs,
    request <- asked,
    answer <- Answer

(* gdbproxy.c handlers and elvees_read_mem, elvees_write_mem: over a line    *)
(* that cuts and spoils packets, split into words and put together again,    *)
(* each request has its effect on the bytes exactly once, at the moment it   *)
(* is acknowledged, and its answer is the one the bytes give.                *)
ImplementsByteMemory ==
    [][Expected!BMNext]_(Expected!bmvars)

(* gdbproxy.c:1703: whatever a fault has left in rp_getpkt, a packet that    *)
(* arrives whole is accepted the first or the second time.  The second is    *)
(* needed, because the start that ends a truncated packet becomes the first  *)
(* character of the next one.                                                *)
TwoRepeatsSuffice ==
    Pending /\ line = <<>> =>
        LET first == rp_getpkt(reader, Packet).r
            second == rp_getpkt(first, Packet).r
        IN  "packet" \in {first.ret, second.ret}
=============================================================================

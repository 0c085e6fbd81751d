------------------------------- MODULE Packets -------------------------------
(***************************************************************************)
(* The bytes of the remote serial protocol: rp_getpkt, the frame that      *)
(* rp_putpkt writes, and the hex codecs of gdbproxy.c.                     *)
(*                                                                         *)
(* A character is its code.  The end of a C string is the end of a         *)
(* sequence: a decoder takes the rest of the string and returns what it    *)
(* leaves.  The 8-bit sums wrap.  Buffers are longer than any packet here, *)
(* so that the tests of their length are left out.                         *)
(***************************************************************************)
EXTENDS Integers, Sequences

Byte == 0 .. 255

CtrlC == 3
HashMark == 35
Dollar == 36
PlusSign == 43
Comma == 44
MinusSign == 45
Colon == 58
EqualSign == 61
Brace == 125       \* starts an escaped byte

(* ---- hex ---- *)

HexDigits == <<48, 49, 50, 51, 52, 53, 54, 55, 56, 57, 97, 98, 99, 100, 101, 102>>

rp_hex_nibble(c) ==
    CASE c \in 48 .. 57 -> c - 48
      [] c \in 65 .. 70 -> c - 55
      [] c \in 97 .. 102 -> c - 87
      [] OTHER -> -1

IsHex(c) == rp_hex_nibble(c) >= 0

rp_encode_byte(b) == <<HexDigits[b \div 16 + 1], HexDigits[(b % 16) + 1]>>

(* A byte per two characters. *)
rp_encode_data(data) ==
    [i \in 1 .. 2 * Len(data) |-> rp_encode_byte(data[(i + 1) \div 2])[2 - (i % 2)]]

Failed == [ok |-> FALSE, val |-> 0, rest |-> <<>>]

(* Pairs of digits; a digit left over is dropped, if it is not the only one. *)
rp_decode_data(s) ==
    LET n == Len(s) \div 2
        pairs == \A i \in 1 .. 2 * n : IsHex(s[i])
    IN  IF ~ pairs \/ Len(s) = 1
        THEN Failed
        ELSE [ok |-> TRUE, rest |-> <<>>,
              val |-> [i \in 1 .. n |->
                          16 * rp_hex_nibble(s[2 * i - 1]) + rp_hex_nibble(s[2 * i])]]

(* Digits up to stop, a character, or up to the end of the string, <<>>.  *)
(* That there is a digit at all is only tested by the string being empty. *)
rp_decode_uint(s, stop, digits) ==
    LET n == CHOOSE k \in 0 .. Len(s) :
                 /\ \A i \in 1 .. k : IsHex(s[i])
                 /\ k = Len(s) \/ k = digits \/ ~ IsHex(s[k + 1])
        Num[k \in 0 .. n] ==
            IF k = 0 THEN 0 ELSE 16 * Num[k - 1] + rp_hex_nibble(s[k])
        left == SubSeq(s, n + 1, Len(s))
        at == IF left = <<>> THEN <<>> ELSE <<left[1]>>
    IN  IF s = <<>> \/ at # stop
        THEN Failed
        ELSE [ok |-> TRUE, val |-> Num[n], rest |-> SubSeq(left, Len(stop) + 1, Len(left))]

rp_decode_uint32(s, stop) == rp_decode_uint(s, stop, 8)
rp_decode_uint64(s, stop) == rp_decode_uint(s, stop, 16)

(* AA..A,LL..L *)
rp_decode_mem(s) ==
    LET addr == rp_decode_uint64(s, <<Comma>>)
        len == rp_decode_uint32(addr.rest, <<>>)
    IN  [ok |-> addr.ok /\ len.ok, addr |-> addr.val, len |-> len.val]

(* NN=XX..XX *)
rp_decode_reg_assignment(s) ==
    LET reg == rp_decode_uint32(s, <<EqualSign>>)
        data == rp_decode_data(reg.rest)
    IN  [ok |-> reg.ok /\ data.ok, reg |-> reg.val, data |-> data.val]

(* ---- what rp_putpkt writes ---- *)

Sum(s) ==
    LET Upto[k \in 0 .. Len(s)] == IF k = 0 THEN 0 ELSE (Upto[k - 1] + s[k]) % 256
    IN  Upto[Len(s)]

Frame(s) == <<Dollar>> \o s \o <<HashMark>> \o rp_encode_byte(Sum(s))

(* ---- rp_getpkt ---- *)

(* The variables of one call; ret is what it returns, or "none".  *)
(* buf of the C code is not cleared, but only read up to pkt_len. *)
NewPacket == [state |-> 0, buf |-> <<>>, rx |-> 0, calc |-> 0, seq |-> <<>>,
              esc |-> FALSE, ret |-> "none"]

Readers == [state : 0 .. 9, buf : Seq(Byte), rx : Byte, calc : Byte, seq : Seq(Byte),
            esc : BOOLEAN, ret : {"none", "packet", "ack", "nak", "ctrlc"}]

Started_sum(r) ==   \* mutant: the sum is not reset
    [NewPacket EXCEPT !.state = 1, !.esc = r.esc, !.rx = r.rx]
Stored_wide(r, c, s) ==   \* mutant: the sum does not wrap
    [r EXCEPT !.buf = Append(@, c), !.rx = @ + c, !.state = s]

(* esc_found is the only variable a start of packet does not reset. *)
Started(r) == [NewPacket EXCEPT !.state = 1, !.esc = r.esc]
Next8(r, c, otherwise) == IF c = HashMark THEN [r EXCEPT !.state = 8] ELSE otherwise
Stored(r, c, s) == [r EXCEPT !.buf = Append(@, c), !.rx = (@ + c) % 256, !.state = s]
AsHex(r, c, read) == [r EXCEPT !.buf = @ \o rp_encode_byte(c), !.rx = (@ + read) % 256]
Unescape(c) == IF (c \div 32) % 2 = 1 THEN c - 32 ELSE c + 32

Waiting(r, c) ==
    CASE c = Dollar -> Started(r)
      [] c = CtrlC -> [r EXCEPT !.ret = "ctrlc"]
      [] c = PlusSign -> [r EXCEPT !.ret = "ack"]
      [] c = MinusSign -> [r EXCEPT !.ret = "nak"]
      [] OTHER -> r

(* The third character tells whether the first two are a sequence number. *)
ThirdChar(r, c) ==
    IF c = Colon THEN [r EXCEPT !.seq = r.buf, !.buf = <<>>, !.state = 4]
    ELSE Stored(r, c, 4)

(* A binary write becomes a write in hex. *)
FourthChar(r, c) ==
    LET s == Stored(r, c, 5)
    IN  IF s.buf[1] = 88 THEN [s EXCEPT !.buf[1] = 77, !.esc = FALSE, !.state = 6] ELSE s

BinaryChar(r, c) ==
    IF r.esc THEN [AsHex(r, Unescape(c), c) EXCEPT !.esc = FALSE]
    ELSE IF c = Brace THEN [r EXCEPT !.rx = (@ + c) % 256, !.esc = TRUE]
    ELSE Next8(r, c, AsHex(r, c, c))

Digit1(r, c) ==
    IF IsHex(c) THEN [r EXCEPT !.calc = rp_hex_nibble(c), !.state = 9]
    ELSE [r EXCEPT !.state = 0]

Digit2(r, c) ==
    LET sum == 16 * r.calc + rp_hex_nibble(c)
    IN  IF IsHex(c) /\ sum = r.rx THEN [r EXCEPT !.calc = sum, !.ret = "packet"]
        ELSE [r EXCEPT !.state = 0]

(* A start in mid-packet resets the variables, and is then itself taken  *)
(* for the first character of the new packet.                            *)
rp_getpkt_char(was, c) ==
    LET r == IF c = Dollar /\ was.state # 0 THEN Started(was) ELSE was
    IN  CASE r.state = 0 -> Waiting(r, c)
          [] r.state \in {1, 2} -> Next8(r, c, Stored(r, c, r.state + 1))
          [] r.state = 3 -> Next8(r, c, ThirdChar(r, c))
          [] r.state = 4 -> Next8(r, c, FourthChar(r, c))
          [] r.state = 5 -> Next8(r, c, Stored(r, c, 5))
          [] r.state = 6 -> Stored(r, c, IF c = Colon THEN 7 ELSE 6)
          [] r.state = 7 -> BinaryChar(r, c)
          [] r.state = 8 -> Digit1(r, c)
          [] r.state = 9 -> Digit2(r, c)

(* The loop over the characters there are, until it returns: the reader   *)
(* and the number of characters it has read.                              *)
rp_getpkt(reader, line) ==
    LET After[k \in 0 .. Len(line)] ==
            IF k = 0 THEN [r |-> reader, n |-> 0]
            ELSE LET before == After[k - 1]
                 IN  IF before.r.ret # "none" THEN before
                     ELSE [r |-> rp_getpkt_char(before.r, line[k]), n |-> k]
    IN  After[Len(line)]

(* What it writes: '+', and the sequence number of the packet. *)
Acknowledgement(r) == <<PlusSign>> \o r.seq
=============================================================================

----------------------------- MODULE ImageFiles -----------------------------
(***************************************************************************)
(* The readers of image files in mcprog.c: read_srec, read_hex, read_bin,  *)
(* which main tries in this order, and what a file means.                  *)
(*                                                                         *)
(* A file has lines, for the first two readers, and bytes, for the third.  *)
(* A line is a record [fmt, type, at, data, good]: fmt is its first        *)
(* character, "high" an extended address record (data is <<high>>), "good" *)
(* says that its sum is right.  Addresses and data are counted in units.   *)
(***************************************************************************)
EXTENDS Integers, SequencesExt

CONSTANTS
    MaxImage,    \* units of memory_data
    Segment,     \* units of 64 kbytes
    DEFAULT_ADDR

ASSUME ImageAssumption ==
    MaxImage \in Nat /\ Segment \in Nat \ {0} /\ DEFAULT_ADDR \in Nat \ {0}

Formats == {"S", ":", "text"}
Types == {"data", "high", "other", "end", "broken"}
Zero == {}
Blank == [i \in 0 .. MaxImage - 1 |-> Zero]

(* The state of a reader, and with it memory_base, memory_len, memory_data. *)
Start(base, data) ==
    [status |-> "reading", base |-> base, len |-> 0, data |-> data, high |-> 0]

Exits(s) == [s EXCEPT !.status = "exit"]
Ends(s) == [s EXCEPT !.status = "end"]

(* A line of another format ends a file only before the first data. *)
Foreign(s) == IF s.len = 0 THEN Ends(s) ELSE Exits(s)

Store_forgets(s, address, data) ==   \* mutant: the length is that of the last record
    LET base == IF s.base = 0 THEN address ELSE s.base
        from == address - base
        last == from + Len(data)
    IN  IF from < 0 \/ last > MaxImage THEN Exits(s)
        ELSE [s EXCEPT !.base = base, !.len = last,
                 !.data = [i \in DOMAIN @ |->
                              IF i \in from .. last - 1 THEN data[i - from + 1] ELSE @[i]]]

(* A data record; while memory_base is 0, its address becomes the base. *)
Store(s, address, data) ==
    LET base == IF s.base = 0 THEN address ELSE s.base
        from == address - base
        last == from + Len(data)
    IN  IF from < 0 \/ last > MaxImage THEN Exits(s)
        ELSE [s EXCEPT !.base = base, !.len = IF @ < last THEN last ELSE @,
                 !.data = [i \in DOMAIN @ |->
                              IF i \in from .. last - 1 THEN data[i - from + 1] ELSE @[i]]]

(* A turn of the loop of read_srec, which ignores the sum. *)
SrecLine(s, l) ==
    IF s.status # "reading" THEN s
    ELSE IF l.fmt # "S" THEN Foreign(s)
    ELSE CASE l.type = "end" -> Ends(s)
           [] l.type = "broken" -> Exits(s)
           [] l.type = "data" -> Store(s, l.at, l.data)
           [] OTHER -> s

(* A turn of the loop of read_hex; a word has k units. *)
HexLine(s, l, k) ==
    LET address == s.high * Segment + l.at
    IN  IF s.status # "reading" THEN s
        ELSE IF l.fmt # ":" THEN Foreign(s)
        ELSE IF l.type = "end" THEN Ends(s)
        ELSE IF l.type = "other" THEN s
        ELSE IF l.type = "broken" \/ address % k # 0 \/ ~l.good THEN Exits(s)
        ELSE IF l.type = "high" THEN [s EXCEPT !.high = l.data[1]]
        ELSE Store(s, address, l.data)

read_srec(file) == FoldLeft(SrecLine, Start(0, Blank), file.lines)

read_hex(file, k, s) ==
    FoldLeft(LAMBDA r, l : HexLine(r, l, k), Start(s.base, s.data), file.lines)

read_bin(file, base) ==
    LET len == IF Len(file.bytes) < MaxImage THEN Len(file.bytes) ELSE MaxImage
    IN  [Ends(Start(base, Blank)) EXCEPT
            !.len = len,
            !.data = [i \in DOMAIN @ |-> IF i < len THEN file.bytes[i + 1] ELSE @[i]]]

(* The file named by the only argument of the command line. *)
read_file(file, k) ==
    LET srec == read_srec(file)
        hex == read_hex(file, k, srec)
    IN  IF srec.status = "exit" \/ srec.len > 0 THEN srec
        ELSE IF hex.status = "exit" \/ hex.len > 0 THEN hex
        ELSE read_bin(file, DEFAULT_ADDR)

-----------------------------------------------------------------------------
(* What a file means, apart from how it is read: the records up to its end,*)
(* each at its own address, the last one on top.  The first line gives the *)
(* format; a line of another one ends the file like an end record.         *)
Ended(file, i) ==
    \E j \in 1 .. i : file.lines[j].type = "end" \/ file.lines[j].fmt # file.lines[1].fmt
DataLines(file) ==
    {i \in DOMAIN file.lines :
        file.lines[i].fmt # "text" /\ file.lines[i].type = "data" /\ ~Ended(file, i)}

AddressOf(file, i) ==
    LET highs == {j \in 1 .. i - 1 : file.lines[j].fmt = ":" /\ file.lines[j].type = "high"}
    IN  file.lines[i].at +
            IF highs = {} THEN 0 ELSE Segment * file.lines[Max(highs)].data[1]

Covers(file, i, a) == a - AddressOf(file, i) \in 0 .. Len(file.lines[i].data) - 1

(* The unit of each address; a file without data records is binary. *)
BinaryMeaning(file, base) ==
    [a \in base .. base + Len(file.bytes) - 1 |-> file.bytes[a - base + 1]]

Meaning(file, base) ==
    IF DataLines(file) = {} THEN BinaryMeaning(file, base)
      ELSE [a \in UNION {AddressOf(file, i) .. AddressOf(file, i) + Len(file.lines[i].data) - 1 :
                            i \in DataLines(file)} |->
               LET i == Max({j \in DataLines(file) : Covers(file, j, a)})
               IN  file.lines[i].data[a - AddressOf(file, i) + 1]]

(* A record of a HEX file whose sum is wrong; those of SREC are not looked at. *)
Spoiled(file) ==
    \E i \in DOMAIN file.lines :
        file.lines[i].fmt = ":" /\ ~file.lines[i].good /\ ~Ended(file, i)
        /\ file.lines[i].type \in {"data", "high"}

(* Of several records the first is at address 0, which memory_base takes   *)
(* for "not known".                                                        *)
BeginsAtZero(file) ==
    Cardinality(DataLines(file)) > 1 /\ AddressOf(file, Min(DataLines(file))) = 0
=============================================================================

------------------------------ MODULE MCMcprog ------------------------------
(***************************************************************************)
(* Command lines, files and boards for TLC.  The region is at 0 or, like   *)
(* DEFAULT_ADDR, at Home; a file has a few records at its beginning.       *)
(***************************************************************************)
EXTENDS Mcprog, TLC

Home == 16
Values == {{}, Bits}

(* Files without a format have bytes only. *)
TextLine == [fmt |-> "text", type |-> "other", at |-> 0, data |-> <<>>, good |-> TRUE]
Binary(bytes) == [lines |-> <<TextLine>>, bytes |-> bytes]
NoFile == Binary(<<>>)
Text(lines) == [lines |-> lines, bytes |-> <<Bits, {}>>]

Record(fmt, type, at, data) ==
    [fmt |-> fmt, type |-> type, at |-> at, data |-> data, good |-> TRUE]
S(at, data) == Record("S", "data", at, data)
H(at, data) == Record(":", "data", at, data)
High(h) == Record(":", "high", 0, <<h>>)
Other(fmt) == Record(fmt, "other", 0, <<>>)
End(fmt) == Record(fmt, "end", 0, <<>>)
Broken(fmt) == Record(fmt, "broken", 0, <<>>)
BadSum(line) == [line EXCEPT !.good = FALSE]

Falling == <<Bits, {}>>
Rising == <<{}, Bits>>

(* Two records of a format, apart, adjacent or overlapping, in any order. *)
Pairs(fmt, region) ==
    {<<Record(fmt, "data", region + a, x), Record(fmt, "data", region + b, y)>> :
        a, b \in {0, 1, 2, 4}, x \in {Falling}, y \in {Falling, Rising}}

HexOf(lines) ==
    <<High(Home \div Segment)>> \o
    [i \in DOMAIN lines |-> [lines[i] EXCEPT !.at = @ % Home]]

SrecFiles(region) ==
    {Text(p) : p \in Pairs("S", region)} \cup
    {Text(l) : l \in {
        <<Other("S"), S(region, Rising), End("S"), S(region, Falling)>>,
        <<S(region + 1, Rising), S(region, Falling)>>,
        <<S(region, Falling \o Rising), S(region + 1, Rising)>>,
        <<S(region, Rising), TextLine>>,
        <<S(region, Rising), Broken("S")>>,
        <<S(region, Rising), H(0, Falling)>>,
        <<S(region, Rising), S(region + MaxImage - 1, Falling)>>,
        <<BadSum(S(region, Rising)), S(region + 3, Falling)>>,
        <<S(region, <<>>), S(region, Rising)>>,
        <<Other("S"), End("S")>>,
        <<>>}}

HexFiles ==
    {Text(HexOf(p)) : p \in Pairs(":", Home)} \cup
    {Text(HexOf(l)) : l \in {
        <<H(Home, Rising), End(":"), H(Home, Falling)>>,
        <<H(Home, Falling \o Rising), H(Home, Rising)>>,
        <<Other(":"), H(Home + 2, Falling), High(Home \div Segment + 1), H(0, Rising)>>,
        <<H(Home, Rising), BadSum(H(Home + 2, Falling))>>,
        <<H(Home, Rising), End(":"), BadSum(H(Home + 2, Falling))>>,
        <<BadSum(High(5)), H(Home, Rising)>>,
        <<H(Home, Rising), Broken(":")>>,
        <<H(Home, Rising), S(Home + 2, Falling)>>,
        <<End(":")>>}}

-----------------------------------------------------------------------------
Plain == [args |-> 0, erase |-> -1, check |-> FALSE, verify |-> FALSE, write |-> FALSE,
          read |-> FALSE, info |-> FALSE, addr |-> Home, len |-> 0, file |-> NoFile]

Boards(width, kinds, regions) ==
    [width : {width}, kind : kinds, method : {"adapter"}, region : regions, was : Values]

AllBoards ==
    Boards(8, {"amd"}, {Home}) \cup Boards(64, {"amd"}, {Home}) \cup
    Boards(32, {"amd", "page", "micron"}, {Home})

On(lines, boards) == {l @@ b : l \in lines, b \in boards}

(* mcprog [-v][-e0,-e1,-e2][-c] file.bin address *)
BinaryLines(units) ==
    {[l EXCEPT !.args = 2, !.addr = a, !.file = Binary(bytes)] :
        l \in {[Plain EXCEPT !.erase = e, !.check = c] : e \in {-1, 0, 2}, c \in BOOLEAN}
                 \cup {[Plain EXCEPT !.verify = TRUE]},
        a \in {Home, Home + 2},
        bytes \in [1 .. units -> Values] }

(* mcprog [-e2] file, and mcprog -w [-v] file *)
FileLines(files) ==
    {[Plain EXCEPT !.args = 1, !.file = f, !.erase = e] : f \in files, e \in {-1, 2}}
WriteLines(files) ==
    {[Plain EXCEPT !.args = 1, !.file = f, !.write = TRUE, !.verify = v] :
        f \in files, v \in BOOLEAN}

(* The commands without an image, or with an empty one; -e1 with the name of a
   file is address 0. *)
OtherLines ==
    {[Plain EXCEPT !.args = n, !.erase = e, !.check = c] :
        n \in {0, 1}, e \in {-1, 1}, c \in BOOLEAN} \cup
    {[Plain EXCEPT !.args = 2, !.erase = e] : e \in {-1, 2}} \cup
    {[Plain EXCEPT !.args = n, !.info = TRUE] : n \in {0, 1}} \cup
    {[Plain EXCEPT !.args = 1, !.erase = 1, !.addr = 0, !.verify = v] : v \in BOOLEAN} \cup
    {[Plain EXCEPT !.args = 3, !.read = r, !.addr = a, !.len = n] :
        r \in BOOLEAN, a \in {Home, Home + 2}, n \in {0, 3, 5, 6}}

AllLines ==
    On(BinaryLines(5), Boards(8, {"amd"}, {Home})) \cup
    On(BinaryLines(3), Boards(32, {"amd", "page", "micron"}, {Home})) \cup
    On(BinaryLines(3), Boards(64, {"amd"}, {Home})) \cup
    On(FileLines(SrecFiles(Home) \cup HexFiles), Boards(8, {"amd"}, {Home})) \cup
    On(FileLines(SrecFiles(0)), Boards(32, {"amd"}, {0})) \cup
    On(WriteLines(SrecFiles(Home) \cup HexFiles), Boards(0, {"static"}, {Home})) \cup
    On(OtherLines, AllBoards \cup Boards(32, {"amd"}, {0}))

(* A 64-bit flash behind an adapter without a routine for it. *)
HalfLines ==
    {[l EXCEPT !.method = "generic"] :
        l \in On(BinaryLines(3), Boards(64, {"amd"}, {Home}))}
=============================================================================

------------------------------ MODULE FlashChip ------------------------------
(***************************************************************************)
(* The memory mcprog programs (external), as target.c uses it: NOR flash   *)
(* with the AMD command set, with the AMD commands and page mode of Atmel, *)
(* or with the command set of Micron; or static memory.                    *)
(*                                                                         *)
(* A unit is what one write programs: a byte on an 8-bit bus, a 32-bit word*)
(* on the others.  A 64-bit bus has two halves, each with a state machine  *)
(* of its own, selected by bit 2 of the address: here, by the parity of the*)
(* unit.  Programming only clears bits, but for the page mode, which erases*)
(* first; a weak cell does not change, at most MaxWeak times.  A busy chip *)
(* ignores writes; a chip that is not ready to be read returns Status.     *)
(***************************************************************************)
EXTENDS Integers, FiniteSets, SequencesExt

CONSTANTS
    Bits,        \* bits of a unit: an erased unit has them all
    N,           \* units of the flash region
    Sector,      \* units of a sector
    Page,        \* units of a page
    MaxWeak      \* programming operations that change nothing

ASSUME FlashAssumption ==
    /\ "status" \notin Bits
    /\ N \in Nat /\ N >= 4 /\ N % 2 = 0
    /\ Sector \in Nat \ {0} /\ Sector % 2 = 0
    /\ Page \in Nat \ {0}
    /\ MaxWeak \in Nat

Kinds == {"amd", "page", "micron", "static"}
Units == 0 .. N - 1
Erased == Bits
Status == {"status"}     \* reads as no data
Halves(width) == IF width = 64 THEN {0, 1} ELSE {0}
HalfOf(width, u) == IF width = 64 THEN u % 2 ELSE 0

(* flash_addr_odd and flash_addr_even, seen by one half of the bus. *)
AddrOdd(width, h) == IF width = 64 THEN N - 2 + h ELSE N - 1
AddrEven(width, h) == IF width = 64 THEN N - 4 + h ELSE N - 2

Modes == {"read", "aa", "unlocked", "program", "setup", "setup aa", "erase",
          "bypass", "bypass program", "bypass end", "id", "load",
          "status", "block erase", "count", "buffer", "erasing", "programming"}
Busy == {"erasing", "programming"}

(* A write on the bus; a command taken for data clears bits too. *)
Command(u, c) == [unit |-> u, cmd |-> c, data |-> {}]
Data(u, d) == [unit |-> u, cmd |-> "data", data |-> d]

FlashType == [kind : Kinds, width : {8, 32, 64, 0}, mem : [Units -> SUBSET Bits],
              mode : [{0, 1} -> Modes], erasing : SUBSET Units, weak : 0..MaxWeak]

Fresh(kind, width, content) ==
    [kind |-> kind, width |-> width, mem |-> [u \in Units |-> content],
     mode |-> [h \in {0, 1} |-> "read"], erasing |-> {}, weak |-> 0]

(* Steps of the AMD state machine that store nothing: mode, command, address. *)
NextMode(mode, cmd, at) ==
    CASE mode \in {"read", "id"} /\ cmd = "AA" /\ at = "odd" -> "aa"
      [] mode = "id" /\ cmd # "F0" /\ (cmd = "AA" => at # "odd") -> "id"
      [] mode = "aa" /\ cmd = "55" /\ at = "even" -> "unlocked"
      [] mode = "unlocked" /\ at = "odd" /\ cmd = "A0" -> "program"
      [] mode = "unlocked" /\ at = "odd" /\ cmd = "80" -> "setup"
      [] mode = "unlocked" /\ at = "odd" /\ cmd = "20" -> "bypass"
      [] mode = "unlocked" /\ at = "odd" /\ cmd = "90" -> "id"
      [] mode = "setup" /\ cmd = "AA" /\ at = "odd" -> "setup aa"
      [] mode = "setup aa" /\ cmd = "55" /\ at = "even" -> "erase"
      [] mode = "bypass" /\ cmd = "A0" -> "bypass program"
      [] mode = "bypass" /\ cmd = "90" -> "bypass end"
      [] mode = "bypass" /\ cmd \notin {"A0", "90"} -> "bypass"
      [] mode = "bypass end" /\ cmd # "00" -> "bypass"
      [] OTHER -> "read"

At(flash, w) ==
    LET h == HalfOf(flash.width, w.unit)
    IN  CASE w.unit = AddrOdd(flash.width, h) -> "odd"
          [] w.unit = AddrEven(flash.width, h) -> "even"
          [] OTHER -> "elsewhere"

InHalf(flash, h) == {u \in Units : HalfOf(flash.width, u) = h}

EraseUnits(flash, h, units) ==
    [flash EXCEPT !.mode[h] = "erasing", !.erasing = @ \cup (units \cap InHalf(flash, h))]

SectorOf(u) == {v \in Units : v \div Sector = u \div Sector}

(* A unit is set to new: it works, or a weak cell keeps its bits. *)
Programs(flash, h, w, new, next) ==
    {[flash EXCEPT !.mode[h] = next, !.mem[w.unit] = new]} \cup
        IF flash.weak < MaxWeak /\ new # flash.mem[w.unit]
          THEN {[flash EXCEPT !.mode[h] = next, !.weak = @ + 1]}
          ELSE {}

(* An AMD chip after one write: a set, because of the weak cells.  With    *)
(* pages, two sequences lead to the loading of a page; the last unit ends it.*)
AmdWrite(flash, h, w) ==
    LET mode == flash.mode[h]
        paged == flash.kind = "page"
        cleared == flash.mem[w.unit] \cap w.data
    IN  CASE mode = "bypass program" -> Programs(flash, h, w, cleared, "bypass")
          [] mode = "program" /\ ~paged -> Programs(flash, h, w, cleared, "read")
          [] mode \in {"program", "load"} /\ paged ->
                Programs(flash, h, w, w.data, IF (w.unit + 1) % Page = 0 THEN "read" ELSE "load")
          [] mode = "erase" /\ w.cmd = "10" /\ At(flash, w) = "odd" ->
                {EraseUnits(flash, h, Units)}
          [] mode = "erase" /\ w.cmd = "30" -> {EraseUnits(flash, h, SectorOf(w.unit))}
          [] mode = "erase" /\ w.cmd = "20" /\ paged -> {[flash EXCEPT !.mode[h] = "load"]}
          [] OTHER -> {[flash EXCEPT !.mode[h] = NextMode(mode, w.cmd, At(flash, w))]}

(* A Micron chip after one write; a buffer is programmed when confirmed.   *)
(* It has no weak cells: it would report them, and they end as a timeout.  *)
MicronWrite(flash, h, w) ==
    LET mode == flash.mode[h]
        To(m) == {[flash EXCEPT !.mode[h] = m]}
    IN  CASE mode = "block erase" ->
                IF w.cmd = "D0" THEN {EraseUnits(flash, h, SectorOf(w.unit))} ELSE To("status")
          [] mode = "count" -> To("buffer")
          [] mode = "buffer" ->
                CASE w.cmd = "data" -> {[flash EXCEPT !.mem[w.unit] = @ \cap w.data]}
                  [] w.cmd = "D0" -> To("programming")
                  [] OTHER -> To("status")
          [] OTHER ->
                CASE w.cmd = "20" -> To("block erase")
                  [] w.cmd = "E8" -> To("count")
                  [] w.cmd = "70" -> To("status")
                  [] w.cmd = "90" -> To("id")
                  [] w.cmd = "FF" -> To("read")
                  [] OTHER -> {flash}

AfterWrite(flash, w) ==
    LET h == HalfOf(flash.width, w.unit)
    IN  IF flash.mode[h] \in Busy THEN {flash}
        ELSE IF flash.kind = "micron" THEN MicronWrite(flash, h, w)
        ELSE AmdWrite(flash, h, w)

(* The flash after a sequence of writes. *)
After(flash, writes) ==
    FoldLeft(LAMBDA S, w : UNION {AfterWrite(f, w) : f \in S}, {flash}, writes)

(* A chip ends its operation; one of Micron then waits to be read. *)
OperationEnds(flash, h) ==
    LET done == flash.erasing \cap InHalf(flash, h)
    IN  [flash EXCEPT !.mode[h] = IF flash.kind = "micron" THEN "status" ELSE "read",
                      !.erasing = @ \ done,
                      !.mem = [u \in Units |-> IF u \in done THEN Erased ELSE @[u]]]

ReadUnit(flash, u) ==
    LET mode == flash.mode[HalfOf(flash.width, u)]
        ready == IF flash.kind = "micron" THEN mode = "read" ELSE mode \notin Busy \cup {"id"}
    IN  IF ready THEN flash.mem[u] ELSE Status
=============================================================================

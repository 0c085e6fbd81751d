----------------------------- MODULE Programmer -----------------------------
(***************************************************************************)
(* The state of mcprog, and do_program and do_write of mcprog.c over the   *)
(* flash routines of target.c: erase the flash, program the image block by *)
(* block, verify each block and rewrite what did not stick.  Module Mcprog *)
(* has the rest of the program around them.                                *)
(*                                                                         *)
(* One run is modelled, with any options, file, board and interruption.    *)
(* The board has one flash region, of N units from opt.region on; flash    *)
(* addresses count from there, those of files and options from 0.          *)
(***************************************************************************)
EXTENDS FlashChip, ImageFiles

CONSTANTS
    Rounds,      \* rounds of target_flash_detect that may succeed
    BLOCKSZ,     \* words of a block
    Buffer       \* words a Micron chip buffers

RoundWidth == <<32, 64, 32, 8, 32, 8>>
WidthOf(n) == RoundWidth[(n % 6) + 1]
UnitsPerWord(width) == IF width \in {0, 8} THEN 2 ELSE 1

ASSUME ProgrammerAssumption ==
    /\ Rounds \subseteq 0..23
    /\ BLOCKSZ \in Nat \ {0} /\ BLOCKSZ % Page = 0 /\ Buffer \in Nat \ {0}

VARIABLES
    pc,          \* where the program is
    opt,         \* command line, files and board: they never change
    left,        \* commands to do, with the one being done
    memory,      \* memory_base, memory_len and memory_data
    target,      \* the global variable: "none" (0) or "open"
    flash,
    cpu,         \* "running" or "stopped"
    is_running,  \* t->is_running: what the host believes of the CPU
    delay,       \* flash_delay is set
    micron,      \* micron_com_set
    area,        \* cur_len of target_erase_area, offset of target_erase
    first,       \* first word of the block at hand
    word,        \* word at hand
    block,       \* what verify_block has read of it
    try,         \* rewrites of the word at hand
    signals,     \* signals whose handler has been entered: it never returns
    cut,         \* history: target_stop or target_run has been cut short
    told,        \* what check_clean has said and do_read has written
    outcome

input == <<opt, memory>>
chip == <<flash, delay, micron>>
host == <<cpu, is_running, target, signals, cut>>
place == <<area, first, word, block, try>>
result == <<left, told, outcome>>
vars == <<pc, input, chip, host, place, result>>

PCs == {"main", "open", "stop", "stopping", "configure", "detect",
        "erase", "poll", "poll micron", "block", "write", "program", "end block",
        "read", "verify", "check", "copy", "quit", "run", "close", "ended"}

Cmd == Head(left)
K == UnitsPerWord(opt.width)
Words == (memory.len + K - 1) \div K
Base == memory.base - opt.region
InRegion == Base \in Units
WordAddr(k) == Base + k * K
ReadWord(f, u) == [i \in 0 .. K - 1 |-> ReadUnit(f, u + i)]
DataAt(i) == IF i < MaxImage THEN memory.data[i] ELSE Zero
Expected(k) == [i \in 0 .. K - 1 |-> DataAt(k * K + i)]
ErasedWord == [i \in 0 .. K - 1 |-> Erased]
BlockWords == first .. (IF first + BLOCKSZ < Words THEN first + BLOCKSZ ELSE Words) - 1

(* do_program erases the chip unless told otherwise; do_erase always does. *)
erase_mode == IF opt.erase < 0 THEN 1 ELSE opt.erase
EraseMode == IF Cmd = "erase" THEN 1 ELSE erase_mode

(* The commands main chooses.  With one argument, -e1 and -c take it for an *)
(* address: opt.addr is 0 where it is the name of a file.                  *)
Commands ==
    LET Transfer == IF opt.write THEN <<"write">> ELSE <<"program">>
    IN  IF opt.args = 3 THEN IF opt.read THEN <<"read">> ELSE <<>>
        ELSE IF opt.args = 2 THEN Transfer
        ELSE IF opt.args = 0 /\ opt.info THEN <<"info">>
        ELSE IF opt.erase = 1 THEN IF opt.check THEN <<"erase", "check">> ELSE <<"erase">>
        ELSE IF opt.check THEN <<"check">>
        ELSE IF opt.args = 0 THEN <<"probe">>
        ELSE IF opt.info THEN <<"info">> ELSE Transfer

(* exit(): quit() is an exit handler of all commands but do_info. *)
Exit(how) ==
    /\ outcome' = how
    /\ pc' = IF target = "none" \/ Commands = <<"info">> THEN "ended" ELSE "quit"
    /\ UNCHANGED left

(* A command returns to main: the next one, or quit(). *)
Return(how) ==
    /\ outcome' = how
    /\ left' = Tail(left)
    /\ pc' = IF Len(left) > 1 THEN "open" ELSE "quit"

Goto(where) == pc' = where /\ UNCHANGED <<left, outcome>>

-----------------------------------------------------------------------------
(* Command sequences; h is the half of the bus that the base selects. *)
Unlock(h) == <<Command(AddrOdd(opt.width, h), "AA"), Command(AddrEven(opt.width, h), "55")>>
Request(h, cmd) == Unlock(h) \o <<Command(AddrOdd(opt.width, h), cmd)>>
Program(h, u, d) == Request(h, "A0") \o <<Data(u, d)>>

DetectWrites_id(n) == Request(0, "90")   \* mutant: leaves the chip in ID mode

(* target_flash_detect in the round that reads a known identifier. *)
DetectWrites(n) ==
    Request(0, "90") \o
        (IF opt.width = 8 \/ n >= 4 THEN Request(0, "F0") ELSE <<Command(0, "F0")>>) \o
        IF opt.kind = "micron" THEN <<Command(0, "FF")>> ELSE <<>>

(* Only without flash_delay is the high half of a 64-bit bus erased. *)
ErasedHalves == IF delay THEN {0} ELSE Halves(opt.width)

EraseRequest_short(h, u, cmd) ==   \* mutant: unlocks once
    Request(h, "80") \o <<Command(u, cmd)>>

EraseRequest(h, u, cmd) == Request(h, "80") \o Unlock(h) \o <<Command(u, cmd)>>
EraseWrites ==
    FlattenSeq([i \in 1 .. Cardinality(ErasedHalves) |->
        EraseRequest(i - 1, AddrOdd(opt.width, i - 1), "10")])
EraseSectorWrites(u) ==
    FlattenSeq([i \in 1 .. Cardinality(ErasedHalves) |-> EraseRequest(i - 1, u + i - 1, "30")])

(* target_program_block64, without the adapter's routine, takes the half   *)
(* of the first word of the block for all of it.                           *)
ProgramHalf(k) ==
    IF opt.method = "adapter" THEN HalfOf(opt.width, WordAddr(k))
                              ELSE HalfOf(opt.width, WordAddr(first))

BypassWrites(k) ==
    FlattenSeq([i \in 1 .. K |-> LET u == WordAddr(k) + i - 1
                                 IN  <<Command(u, "A0"), Data(u, DataAt(k * K + i - 1))>>])

ProgramWordWrites(k) ==
    IF opt.width = 8 THEN BypassWrites(k)
    ELSE Program(ProgramHalf(k), WordAddr(k), DataAt(k))

(* target_program_block32_atmel: a whole page at a time, twice. *)
PageData(k) == [i \in 1 .. Page |-> Data(WordAddr(k) + i - 1, DataAt(k + i - 1))]
PageWrites(k) ==
    Request(0, "80") \o Request(0, "20") \o PageData(k) \o Request(0, "A0") \o PageData(k)

(* target_program_block32_micron: a buffer at a time; u is in its sector. *)
BufferWords ==
    word .. (IF word + Buffer \in BlockWords THEN word + Buffer ELSE Max(BlockWords) + 1) - 1
BufferWrites ==
    LET u == WordAddr(first)
    IN  <<Command(u, "E8"), Command(u, "count")>> \o
            [i \in 1 .. Cardinality(BufferWords) |->
                Data(WordAddr(word + i - 1), DataAt(word + i - 1))] \o
            <<Command(u, "D0")>>

RewriteWrites_byte0(k) ==   \* mutant: always the low byte
    Program(HalfOf(opt.width, WordAddr(k)), WordAddr(k), Expected(k)[0])

RewriteWrites_low(k) ==   \* mutant: the base is not moved to the half
    LET bad == CHOOSE i \in 0 .. K - 1 : block[k][i] # Expected(k)[i]
    IN  Program(0, WordAddr(k) + bad, Expected(k)[bad])

(* target_flash_rewrite: on an 8-bit bus, the first byte that differs; it   *)
(* knows neither static memory, which it leaves alone, nor Micron chips.   *)
RewriteWrites(k) ==
    LET bad == CHOOSE i \in 0 .. K - 1 :
                  /\ block[k][i] # Expected(k)[i]
                  /\ \A j \in 0 .. i - 1 : block[k][j] = Expected(k)[j]
        u == WordAddr(k) + bad
    IN  IF opt.width = 0 THEN <<>> ELSE Program(HalfOf(opt.width, u), u, Expected(k)[bad])

-----------------------------------------------------------------------------
(* Round n of target_flash_detect can know the chip of the board. *)
Finds(n) ==
    /\ WidthOf(n) = opt.width
    /\ opt.kind = "page" <=> n % 6 = 4
    /\ opt.kind = "micron" => n % 6 = 0

(* No flash region holds the address, or no round knows the flash. *)
NoFlash ==
    /\ pc = "detect"
    /\ IF InRegion \/ Cmd = "probe" THEN Return("failed") ELSE Exit("failed")
    /\ UNCHANGED <<input, chip, host, place, told>>

Detect ==
    /\ pc = "detect"
    /\ InRegion \/ Cmd = "probe"
    /\ flash.mode[0] \notin Busy
    /\ \E n \in {m \in Rounds : Finds(m)} :
          /\ flash' \in After(flash, DetectWrites(n))
          /\ delay' = (n >= 4)
    /\ micron' = (opt.kind = "micron")
    /\ area' = 0
    /\ CASE Cmd = "probe" -> Return("done")
         [] Cmd = "check" -> Goto("check")
         [] Cmd = "read" -> Goto("copy")
         [] OTHER -> Goto("erase")
    /\ UNCHANGED <<input, host, first, word, block, try, told>>

Clean == \A u \in Units : ReadUnit(flash, u) = Erased

SkipErase ==
    /\ Cmd = "program"
    /\ opt.verify \/ EraseMode = 0 \/ (opt.check /\ Clean)

(* After the erase: its callers ignore what it returns. *)
EraseReturns == IF Cmd = "erase" THEN Return("done") ELSE Goto("block")

NoErase ==
    /\ pc = "erase" /\ area = 0 /\ SkipErase
    /\ Goto("block")
    /\ UNCHANGED <<input, chip, host, place, told>>

Erasing == pc = "erase" /\ (area > 0 \/ ~SkipErase)
EraseAt == IF EraseMode = 1 THEN area ELSE Base + area
EraseLength == IF EraseMode = 1 THEN N ELSE memory.len

(* A sector of a Micron chip, which knows no other erase. *)
MicronErase ==
    /\ Erasing /\ micron /\ area < EraseLength
    /\ flash' \in After(flash, <<Command(EraseAt, "20"), Command(EraseAt, "D0")>>)
    /\ Goto("poll micron")
    /\ UNCHANGED <<input, delay, micron, host, place, told>>

target_erase ==
    /\ Erasing /\ ~micron /\ EraseMode = 1
    /\ flash' \in After(flash, EraseWrites)
    /\ Goto("poll")
    /\ UNCHANGED <<input, delay, micron, host, place, told>>

target_erase_sector ==
    /\ Erasing /\ ~micron /\ EraseMode = 2 /\ area < EraseLength
    /\ flash' \in After(flash, EraseSectorWrites(EraseAt))
    /\ Goto("poll")
    /\ UNCHANGED <<input, delay, micron, host, place, told>>

(* An empty area. *)
EraseNothing ==
    /\ Erasing /\ EraseMode = 2 /\ area >= EraseLength
    /\ EraseReturns
    /\ UNCHANGED <<input, chip, host, place, told>>

(* The status of the sector is read until the chip is ready. *)
MicronReady == flash.mode[0] = "status"

MicronErased ==
    /\ pc = "poll micron" /\ MicronReady
    /\ IF EraseMode = 1 /\ area + Sector < N
         THEN area' = area + Sector /\ Goto("erase") /\ UNCHANGED flash
         ELSE Goto("poll") /\ flash' \in After(flash, <<Command(0, "FF")>>) /\ UNCHANGED area
    /\ UNCHANGED <<input, delay, micron, host, first, word, block, try, told>>

(* Ten thousand reads of the status were not enough. *)
MicronEraseTimeout ==
    /\ pc = "poll micron" /\ ~MicronReady
    /\ EraseReturns
    /\ UNCHANGED <<input, chip, host, place, told>>

(* The endless loop that waits for the first word erased to be all ones. *)
PollErase ==
    /\ pc = "poll"
    /\ ReadWord(flash, IF EraseMode = 1 THEN 0 ELSE EraseAt) = ErasedWord
    /\ IF EraseMode = 2 /\ area + Sector < memory.len
         THEN Goto("erase") /\ area' = area + Sector
         ELSE EraseReturns /\ UNCHANGED area
    /\ UNCHANGED <<input, chip, host, first, word, block, try, told>>

(* The head of the loop over blocks; an 8-bit bus unlocks the bypass. *)
StartBlock ==
    /\ pc = "block"
    /\ word' = first
    /\ \/ first >= Words /\ Return("done") /\ UNCHANGED flash
       \/ first < Words /\ opt.verify /\ Goto("read") /\ UNCHANGED flash
       \/ /\ first < Words /\ ~opt.verify
          /\ flash' \in After(flash, IF opt.width = 8 THEN Request(0, "20") ELSE <<>>)
          /\ Goto(IF Cmd = "write" THEN "write" ELSE "program")
    /\ UNCHANGED <<input, delay, micron, host, area, first, block, try, told>>

(* write_block; there may be no memory at the address. *)
WriteBlock ==
    /\ pc = "write"
    /\ \/ flash' = [flash EXCEPT !.mem = [u \in Units |->
                        IF u - Base \in 0 .. Words * K - 1 /\ (u - Base) \div K \in BlockWords
                          THEN DataAt(u - Base) ELSE @[u]]]
       \/ UNCHANGED flash
    /\ Goto("read")
    /\ UNCHANGED <<input, delay, micron, host, place, told>>

PageMode == opt.width = 32 /\ delay /\ ~micron

NextWord(n) ==
    IF word + n \in BlockWords THEN word' = word + n /\ UNCHANGED pc
                               ELSE pc' = "end block" /\ UNCHANGED word

ProgramWord ==
    /\ pc = "program" /\ ~PageMode /\ ~micron
    /\ flash' \in After(flash, ProgramWordWrites(word))
    /\ NextWord(1)
    /\ UNCHANGED <<input, delay, micron, host, area, first, block, try, result>>

ProgramPage ==
    /\ pc = "program" /\ PageMode
    /\ flash' \in After(flash, PageWrites(word))
    /\ NextWord(Page)
    /\ UNCHANGED <<input, delay, micron, host, area, first, block, try, result>>

(* E8 is written until the chip takes it. *)
ProgramBuffer ==
    /\ pc = "program" /\ micron
    /\ flash.mode[0] \notin Busy
    /\ flash' \in After(flash, BufferWrites)
    /\ NextWord(Buffer)
    /\ UNCHANGED <<input, delay, micron, host, area, first, block, try, result>>

EndBlock ==
    /\ pc = "end block"
    /\ flash' \in After(flash,
          CASE micron -> <<Command(WordAddr(first), "70"), Command(WordAddr(first), "FF")>>
            [] opt.width = 8 -> <<Command(0, "90"), Command(0, "00")>>
            [] OTHER -> <<>>)
    /\ micron => MicronReady
    /\ pc' = "read"
    /\ UNCHANGED <<input, delay, micron, host, place, result>>

(* The block is given up without a word to the caller; the busy chip does  *)
(* not take the command to be read.                                        *)
MicronProgramTimeout ==
    /\ pc \in {"program", "end block"} /\ micron
    /\ flash.mode[0] \in Busy
    /\ flash' \in After(flash, <<Command(WordAddr(first), "FF")>>)
    /\ pc' = "read"
    /\ UNCHANGED <<input, delay, micron, host, place, result>>

ReadBlock ==
    /\ pc = "read"
    /\ block' = [k \in BlockWords |-> ReadWord(flash, WordAddr(k))]
    /\ word' = first
    /\ pc' = "verify"
    /\ UNCHANGED <<input, chip, host, area, first, try, result>>

Matches_low ==   \* mutant: one byte compared
    block[word][0] = Expected(word)[0]

Matches == block[word] = Expected(word)

(* The word is right: on to the next word, or to the next block. *)
VerifyMatch ==
    /\ pc = "verify" /\ Matches
    /\ try' = 0
    /\ IF word + 1 \in BlockWords
         THEN word' = word + 1 /\ UNCHANGED <<pc, first, block>>
         ELSE pc' = "block" /\ first' = first + BLOCKSZ /\ block' = <<>> /\ UNCHANGED word
    /\ UNCHANGED <<input, chip, host, area, result>>

(* target_flash_rewrite exits where no flash region is configured, refuses with
   flash_delay set, and is not called with -v. *)
CanRewrite == ~opt.verify /\ WordAddr(word) \in Units /\ (opt.width \in {0, 8} \/ ~delay)

(* Static memory is seldom in a flash region. *)
VerifyFails ==
    /\ pc = "verify" /\ ~Matches
    /\ ~CanRewrite \/ opt.width = 0
    /\ Exit("error")
    /\ UNCHANGED <<input, chip, host, place, told>>

Rewrite_once_more ==   \* mutant: one rewrite too many
    /\ pc = "verify" /\ ~Matches /\ CanRewrite
    /\ flash' \in After(flash, RewriteWrites(word))
    /\ block' = [block EXCEPT ![word] = ReadWord(flash', WordAddr(word))]
    /\ try' = try + 1
    /\ IF try + 1 > 4 THEN Exit("error") ELSE UNCHANGED <<pc, left, outcome>>
    /\ UNCHANGED <<input, delay, micron, host, area, first, word, told>>

(* The fourth rewrite is an error whatever is read back after it. *)
Rewrite ==
    /\ pc = "verify" /\ ~Matches /\ CanRewrite
    /\ flash' \in After(flash, RewriteWrites(word))
    /\ block' = [block EXCEPT ![word] = ReadWord(flash', WordAddr(word))]
    /\ try' = try + 1
    /\ IF try + 1 > 3 THEN Exit("error") ELSE UNCHANGED <<pc, left, outcome>>
    /\ UNCHANGED <<input, delay, micron, host, area, first, word, told>>

OperationDone(h) ==
    /\ flash.mode[h] \in Busy
    /\ flash' = OperationEnds(flash, h)
    /\ UNCHANGED <<pc, input, delay, micron, host, place, result>>

(* target_erase and target_erase_area; then the loop over blocks. *)
Erase ==
    \/ NoErase \/ EraseNothing \/ PollErase
    \/ target_erase \/ target_erase_sector
    \/ MicronErase \/ MicronErased \/ MicronEraseTimeout

Blocks ==
    \/ StartBlock \/ WriteBlock \/ ProgramWord \/ ProgramPage \/ ProgramBuffer
    \/ EndBlock \/ MicronProgramTimeout
    \/ ReadBlock \/ VerifyMatch \/ VerifyFails \/ Rewrite
=============================================================================

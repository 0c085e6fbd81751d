------------------------------- MODULE Mcprog -------------------------------
(***************************************************************************)
(* The whole of mcprog: main chooses what to do and reads the image file,  *)
(* each command opens and stops the CPU, and quit(), which every way out   *)
(* but one leads to, lets it run.  A signal may come at any point.         *)
(***************************************************************************)
EXTENDS Programmer

CONSTANTS
    CommandLines,   \* options, file and board of a run, see McprogAssumption
    Signals         \* signals with a handler: three on Linux, two elsewhere

ASSUME SignalsAssumption == Signals \in Nat

IsLine(l) ==
    /\ l.fmt \in Formats /\ l.type \in Types /\ l.at \in Nat /\ l.good \in BOOLEAN
    /\ l.type = "data" => l.data \in Seq(SUBSET Bits)
    /\ l.type = "high" => l.data[1] \in Nat

IsFile(file) ==
    /\ Len(file.lines) \in Nat /\ DOMAIN file.lines = 1 .. Len(file.lines)
    /\ \A i \in DOMAIN file.lines : IsLine(file.lines[i])
    /\ file.bytes \in Seq(SUBSET Bits)

(* "addr" and "len" are the numbers given; an image lies in one region.    *)
(* Only Elvees' own adapter has the routines for pages and for 64 bits; -w *)
(* is for static memory.                                                   *)
ASSUME McprogAssumption ==
    \A o \in CommandLines :
        /\ IsFile(o.file)
        /\ o.args \in 0..3 /\ o.erase \in -1..2 /\ o.addr \in Nat /\ o.len \in Nat
        /\ \A flag \in {o.check, o.verify, o.write, o.read, o.info} : flag \in BOOLEAN
        /\ o.kind \in Kinds /\ o.width \in {8, 32, 64, 0}
        /\ o.kind = "static" <=> o.width = 0
        /\ o.write => o.kind = "static"
        /\ o.kind \in {"page", "micron"} => o.width = 32
        /\ o.method \in {"adapter", "generic"}
        /\ o.kind = "page" => o.method = "adapter"
        /\ o.region \in Nat /\ o.was \in SUBSET Bits

Init ==
    /\ pc = "main"
    /\ opt \in CommandLines
    /\ left = <<>>
    /\ memory = Start(0, Blank)
    /\ target = "none"
    /\ flash = Fresh(opt.kind, opt.width, opt.was)
    /\ cpu = "running" /\ is_running = FALSE
    /\ delay = FALSE /\ micron = FALSE
    /\ area = 0 /\ first = 0 /\ word = 0
    /\ block = <<>>
    /\ try = 0
    /\ signals = 0 /\ cut = FALSE
    /\ told = [clean |-> "unknown", file |-> <<>>]
    /\ outcome = "none"

-----------------------------------------------------------------------------
FileNamed == opt.args = 2 \/ (opt.args = 1 /\ Head(Commands) \in {"program", "write", "info"})

(* memory_base, memory_len and memory_data, from the file or the numbers. *)
Loaded ==
    LET base == IF opt.args = 0 THEN DEFAULT_ADDR ELSE opt.addr
    IN  IF FileNamed
          THEN IF opt.args = 1 THEN read_file(opt.file, K) ELSE read_bin(opt.file, base)
          ELSE [Ends(Start(base, Blank)) EXCEPT !.len = IF opt.args = 3 THEN opt.len ELSE 0]

(* Bad usage, a file that cannot be opened, and one that cannot be read. *)
Rejected ==
    /\ pc = "main"
    /\ pc' = "ended" /\ outcome' = "failed"
    /\ UNCHANGED <<input, chip, host, place, left, told>>

main ==
    /\ pc = "main"
    /\ Commands # <<>>
    /\ Loaded.status # "exit"
    /\ left' = Commands
    /\ memory' = Loaded
    /\ pc' = "open"
    /\ UNCHANGED <<opt, chip, host, place, told, outcome>>

(***************************************************************************)
(* target_open: a new target_t, with is_running set, replaces that of an   *)
(* earlier command, which is not closed and may have left the CPU stopped. *)
(* Some adapters reset the processor, which then runs.  A failure exits,   *)
(* with target as it was.                                                  *)
(***************************************************************************)
Open ==
    /\ pc = "open"
    /\ cpu' \in {cpu, "running"}
    /\ \/ /\ target' = "open" /\ is_running' = TRUE
          /\ delay' = FALSE /\ micron' = FALSE
          /\ Goto("stop")
       \/ Exit("failed") /\ UNCHANGED <<target, is_running, delay, micron>>
    /\ UNCHANGED <<input, flash, signals, cut, place, told>>

(* target_stop: stop_cpu sends its debug request, which nothing takes back: *)
(* from here on the CPU counts as stopped.                                  *)
StopCpu ==
    /\ pc = "stop"
    /\ cpu' = "stopped"
    /\ Goto("stopping")
    /\ UNCHANGED <<input, chip, is_running, target, signals, cut, place, told>>

(* A poll has seen the CPU stopped: only now is_running is reset. *)
Stopped ==
    /\ pc = "stopping"
    /\ is_running' = FALSE
    /\ Goto("configure")
    /\ UNCHANGED <<input, chip, cpu, target, signals, cut, place, told>>

(* The polls are given up; the CPU may stop all the same. *)
StopFails ==
    /\ pc = "stopping"
    /\ cpu' \in {cpu, "running"}
    /\ cut' = TRUE
    /\ Exit("failed")
    /\ UNCHANGED <<input, chip, is_running, target, signals, place, told>>

(* configure() may exit; do_info only reads, and do_write detects no flash. *)
Configure ==
    /\ pc = "configure"
    /\ CASE Cmd = "info" -> Return("done")
         [] Cmd = "write" -> Goto("block")
         [] OTHER -> Goto("detect")
    /\ UNCHANGED <<input, chip, host, place, told>>

ConfigureFails ==
    /\ pc = "configure"
    /\ Exit("failed")
    /\ UNCHANGED <<input, chip, host, place, told>>

check_clean ==
    /\ pc = "check"
    /\ told' = [told EXCEPT !.clean = IF Clean THEN "yes" ELSE "no"]
    /\ Return("done")
    /\ UNCHANGED <<input, chip, host, place>>

(* A block of do_read: whole words are read, memory_len units written. *)
CopiedUnits == first * K .. (IF (first + BLOCKSZ) * K < memory.len
                               THEN (first + BLOCKSZ) * K ELSE memory.len) - 1

CopyBlock ==
    /\ pc = "copy" /\ first < Words
    /\ told' = [told EXCEPT !.file =
                   @ \o [i \in 1 .. Cardinality(CopiedUnits) |->
                            ReadUnit(flash, Base + first * K + i - 1)]]
    /\ first' = first + BLOCKSZ
    /\ UNCHANGED <<pc, input, chip, host, area, word, block, try, left, outcome>>

CopyFails ==
    /\ pc = "copy" /\ first < Words
    /\ Exit("failed")
    /\ UNCHANGED <<input, chip, host, place, told>>

CopyDone ==
    /\ pc = "copy" /\ first >= Words
    /\ Return("done")
    /\ UNCHANGED <<input, chip, host, place, told>>

(***************************************************************************)
(* quit(), called by main, as an exit handler or in a signal handler:      *)
(* target_run, then target_close and target = 0.  target_run refuses a     *)
(* target that is taken to be running, and sets is_running before the CPU  *)
(* is let go; target_close then has nothing to resume.                     *)
(***************************************************************************)
QuitRun ==
    /\ pc = "quit"
    /\ is_running' = TRUE
    /\ pc' = IF is_running THEN "close" ELSE "run"
    /\ UNCHANGED <<input, chip, cpu, target, signals, cut, place, result>>

RunCpu ==
    /\ pc = "run"
    /\ cpu' = "running"
    /\ pc' = "close"
    /\ UNCHANGED <<input, chip, is_running, target, signals, cut, place, result>>

QuitClose ==
    /\ pc = "close"
    /\ target' = "none"
    /\ pc' = "ended"
    /\ UNCHANGED <<input, chip, cpu, is_running, signals, cut, place, result>>

(* is_running is set while the CPU stands: in target_stop before a poll has *)
(* seen it stopped, in target_run before the CPU is let go, and when a      *)
(* second command has opened the target that the first had stopped.         *)
CutsShort == pc \in {"stopping", "run"} \/ (pc = "stop" /\ cpu = "stopped")

Interrupted_exit ==   \* mutant: _exit without quit
    /\ pc # "ended"
    /\ signals < Signals
    /\ signals' = signals + 1
    /\ cut' = (cut \/ CutsShort)
    /\ pc' = "ended"
    /\ outcome' = "interrupted"
    /\ UNCHANGED <<input, chip, cpu, is_running, target, place, left, told>>

(* SIGINT, SIGTERM or SIGHUP, each blocked while its own handler runs.     *)
(* While target is 0, quit() does nothing.                                 *)
Interrupted ==
    /\ pc # "ended"
    /\ signals < Signals
    /\ signals' = signals + 1
    /\ cut' = (cut \/ CutsShort)
    /\ pc' = IF target = "none" THEN "ended" ELSE "quit"
    /\ outcome' = "interrupted"
    /\ UNCHANGED <<input, chip, cpu, is_running, target, place, left, told>>

mcprog ==
    \/ Rejected \/ main \/ Open \/ StopCpu \/ Stopped \/ StopFails
    \/ Configure \/ ConfigureFails
    \/ NoFlash \/ Detect \/ Erase \/ Blocks
    \/ check_clean \/ CopyBlock \/ CopyFails \/ CopyDone
    \/ QuitRun \/ RunCpu \/ QuitClose

Next == mcprog \/ Interrupted \/ \E h \in {0, 1} : OperationDone(h)

(* The program runs on, and an operation of a chip ends by itself. *)
Spec == Init /\ [][Next]_vars
             /\ WF_vars(mcprog) /\ \A h \in {0, 1} : WF_vars(OperationDone(h))

-----------------------------------------------------------------------------
TypeOK ==
    /\ pc \in PCs
    /\ left \in Suffixes(Commands)
    /\ memory.base \in Nat /\ memory.len \in Nat
    /\ Commands # <<"read">> => memory.len <= MaxImage
    /\ memory.data \in [0 .. MaxImage - 1 -> SUBSET Bits]
    /\ target \in {"none", "open"}
    /\ flash \in FlashType
    /\ cpu \in {"running", "stopped"}
    /\ is_running \in BOOLEAN /\ cut \in BOOLEAN
    /\ delay \in BOOLEAN /\ micron \in BOOLEAN
    /\ area \in 0 .. N + memory.len
    /\ first \in 0 .. Words + BLOCKSZ
    /\ word \in 0 .. Words + BLOCKSZ
    /\ try \in 0..4
    /\ signals \in 0..Signals
    /\ told.clean \in {"unknown", "yes", "no"}
    /\ outcome \in {"none", "done", "failed", "error", "interrupted"}

Programs_file == Commands \in {<<"program">>, <<"write">>}

(***************************************************************************)
(* When mcprog has programmed a file and returns normally, the memory reads*)
(* as the file says, each record at its own address and the later over the *)
(* earlier, and no record of a HEX file was spoiled: whatever the format,  *)
(* the options, weak cells, slow chips, the state of the high half's erase *)
(* and the state the bypass was left in.  A file that is given an address  *)
(* is binary.  Excepted are files that begin at address 0, and binary ones *)
(* that are longer than memory_data, of which only the beginning is read.  *)
(***************************************************************************)
Meant == IF opt.args = 2 THEN BinaryMeaning(opt.file, opt.addr) ELSE Meaning(opt.file, DEFAULT_ADDR)
Binary_file == opt.args = 2 \/ DataLines(opt.file) = {}

Excepted ==
    IF Binary_file THEN Len(opt.file.bytes) > MaxImage ELSE BeginsAtZero(opt.file)

DoneMeansProgrammed ==
    outcome = "done" /\ Programs_file /\ ~Excepted =>
        /\ \A a \in DOMAIN Meant : ReadUnit(flash, a - opt.region) = Meant[a]
        /\ opt.args = 2 \/ ~Spoiled(opt.file)

(* The image in whole words, or in whole pages where that is how it is programmed. *)
ImageUnits ==
    LET n == IF PageMode THEN Page * ((Words + Page - 1) \div Page) ELSE Words * K
    IN  {Base + i : i \in 0 .. n - 1}

(* What the command line allows to be erased. *)
EraseAllowed ==
    CASE Commands[1] = "erase" -> Units
      [] Commands = <<"program">> /\ ~opt.verify ->
            CASE erase_mode = 0 -> {}
              [] erase_mode = 1 -> Units
              [] OTHER -> UNION {SectorOf(u) : u \in ImageUnits}
      [] OTHER -> {}

(***************************************************************************)
(* No step of a run changes a unit outside the image, except that an erase *)
(* the command allows erases it; reading, checking, probing, verifying and *)
(* reading the software information change nothing at all.                 *)
(***************************************************************************)
OnlyImageChanges ==
    [][\A u \in Units : flash'.mem[u] # flash.mem[u] =>
          \/ u \in EraseAllowed /\ flash'.mem[u] = Erased
          \/ u \in ImageUnits /\ Programs_file /\ ~opt.verify]_vars

(* What do_program really erases: sectors from memory_base on, in steps. *)
ErasedUnits ==
    CASE erase_mode = 0 -> {}
      [] erase_mode = 1 -> Units
      [] OTHER -> UNION {SectorOf(Base + a) : a \in {b \in 0 .. memory.len - 1 : b % Sector = 0}}

(***************************************************************************)
(* Rewriting makes up for weak cells: a run does not end in a verification *)
(* error unless it only verifies or writes static memory, more than three  *)
(* operations have failed, a 64-bit flash is erased or was found late (its *)
(* high half is not waited for, and not rewritten), a flash with words was *)
(* found late and taken for one with pages, which are not rewritten, a slow*)
(* Micron chip was given up while it was busy, or while it erased, or a    *)
(* unit was dirty and never erased.                                        *)
(***************************************************************************)
RewritesSuffice ==
    outcome = "error" =>
        \/ opt.verify \/ Commands = <<"write">>
        \/ flash.weak > 3
        \/ opt.width = 64 /\ (erase_mode # 0 \/ delay)
        \/ PageMode /\ (flash.kind = "page" => flash.weak > 0)
        \/ flash.kind = "micron" /\ (flash.mode[0] # "read" \/ opt.was # Erased)
        \/ \E i \in 0 .. Words * K - 1 :
              ~(DataAt(i) \subseteq opt.was) /\ Base + i \notin ErasedUnits

(***************************************************************************)
(* What a run reports is true: the file do_read writes is what the flash   *)
(* holds, a flash said to be clean is, and only a flash of which the half  *)
(* that is not waited for still erases is said not to be although it is.   *)
(***************************************************************************)
ReportsAreTrue ==
    /\ outcome = "done" /\ Commands = <<"read">> =>
          told.file = [i \in 1 .. memory.len |-> flash.mem[Base + i - 1]]
    /\ told.clean = "yes" => \A u \in Units : flash.mem[u] = Erased
    /\ told.clean = "no" /\ opt.width # 64 => \E u \in Units : flash.mem[u] # Erased

(***************************************************************************)
(* However a run ends, wherever it is interrupted and however often, the   *)
(* CPU is left running.  Excepted are an error of do_info, which has no    *)
(* exit handler, and a run in which target_stop or target_run was cut      *)
(* short: quit() then believes is_running, which is set too early.         *)
(***************************************************************************)
ReleasedAtEnd ==
    pc = "ended" =>
        \/ cpu = "running"
        \/ cut
        \/ Commands = <<"info">> /\ outcome \in {"failed", "error"}

(***************************************************************************)
(* A run ends: the polls for the end of an erase, which have no timeout,   *)
(* see it, and verification gives up.                                      *)
(***************************************************************************)
Terminates == <>(pc = "ended")
=============================================================================

# A TLA+ development of mcprog and mcremote

`src/` holds two programs for the Elvees "Multicore" MIPS32 processors, which
both work through a JTAG adapter:

* **mcprog** (`mcprog.c`) programs an image into flash or static memory, reads
  memory back, and erases or probes flash chips;
* **mcremote** (`gdbproxy.c`, `rpmisc.c`, `remote-elvees.c`) listens on a TCP
  port and serves GDB's remote serial protocol.

Both stand on `target.c` (how to look into a CPU, its breakpoints and its flash)
and on the adapters (`adapter-*.c`).

This directory models them in TLA+, checks the models with TLC on small
instances, and proves with TLAPS, for every value of the constants, that the main
loop of mcremote is safe, that its replies answer the requests they seem to
answer, that a debugger sees the program's own registers and memory, that memory
requests go to the bytes they name, that the breakpoint registers hold what was
inserted, and that mcprog lets the CPU go (unless it is cut short between the flag it
keeps and the CPU), changes nothing outside the image but
what it was allowed to erase, and reports what is true.

## 1. Inventory

| Component | State it keeps | Operations | What is hard |
|---|---|---|---|
| proxy main loop and handlers (`gdbproxy.c` 71-1568) | `input_error`, `do_reinitialize`, `do_connect`, `rp_target_running`, `extended_protocol`, `status_string` | open and reopen a session; one handler per request; Control-C; poll | sessions that end anywhere; a flag that outlives the session; order of the stub's methods |
| packet layer (`gdbproxy.c` 1576-2632) | none but the two buffers of the caller | `rp_putpkt`, `rp_getpkt`, hex codecs | lost, spoiled, repeated packets; the flush before a packet; Control-C where an ACK is awaited |
| connection (`rpmisc.c` 93-507) | two sockets, a static receive buffer | open, accept, close, read a character, write | failing system calls; the buffer survives the connection |
| stub (`remote-elvees.c`) | the target, the status of the last stop | about 30 methods of `rp_target` | `is_running` believed against a chip that halts by itself; memory requests split into words |
| run control (`target.c` 260-392, 1797-1893) | `is_running`, saved pipeline, exception | stop, poll, step, resume, run, restart | the pipeline is drained and rebuilt, in delay slots and with an exception in flight |
| registers and memory (`target.c` 152-255, 397-776) | register cache and its validity, `mem0`, the copy of OSCR | read and write of registers and words | on an MC12 GP, FP and a memory word are borrowed |
| breakpoints (`target.c` 1895-1965) | none on the host: OBCR, OMLR0, OMLR1 | add, remove | two halves of one register moved by shifts |
| flash (`target.c` 865-1792) | width, chip width, command addresses, `flash_delay`, `micron_com_set` | detect, erase, erase a sector or an area, program a block, rewrite | command sequences of several writes; chips with a state of their own; 64-bit buses with two chips; polls without timeout |
| mcprog (`mcprog.c`) | image, options, `target` | program, write, verify, read, erase, check, probe, information, quit | signals at any point; retries; errors that leave through `exit` |
| image readers (`mcprog.c` 105-324) | image, its base and length | SREC, Intel HEX, binary | overlapping and unordered records; readers tried in turn over the same buffer |
| adapters (`adapter-*.c`) | OSCR copy, the pins or the buffer of commands, TAP state in the chip | reset, IR/DR shifts, block transfers, entry into debug mode | TAP sequences cut into bits, bytes and packets; commands that wait in a buffer; the copy of OSCR behind the block functions |
| configuration (`conf.c`) | none | parse a file | none |

How they interact: a debugger talks to the connection; the packet layer turns
tokens into requests; handlers call the stub's methods; the stub calls
`target.c`; `target.c` drives the chip through the adapter.  mcprog calls
`target.c` directly.  There is one host thread; the debugger, the CPU and the
flash chips are the other actors, and signals interrupt mcprog.

What makes each part correct is written with its properties (section 3); the
hazards, each at its line, are listed in `PROJECT.json`.

## 2. Modules and plan

```
RunControl     run control as the stub sees it: the abstract specification
DbgSock        rpmisc.c: sockets and receive buffer, in protocol tokens
Debugger       (external) a GDB-like and a rogue debugger     EXTENDS DbgSock
GdbProxy       gdbproxy.c + remote-elvees.c         EXTENDS Debugger, RunControl
GdbProxyProofs the loop, the sockets, what is on the wire, which reply answers
               which request                            EXTENDS GdbProxy, TLAPS
DebuggedCpu    a CPU that can be stopped and looked at: abstract specification
TargetRegs     target.c: pipeline, registers, OSCR, memory words
               INSTANCE DebuggedCpu, INSTANCE RunControl
MCTargetRegs   the accesses of the debugger per chip     EXTENDS TargetRegs
TargetRegsProofs what the host saves and leaves, both refinements
               EXTENDS TargetRegs, TLAPS
Breakpoints    target.c + remote-elvees.c: hardware breakpoints
BreakpointsProofs theorems about Breakpoints        EXTENDS Breakpoints, TLAPS
Packets        gdbproxy.c: the bytes of packets, hex codecs
ByteMemory     what a debugger expects of memory and registers: abstract spec.
MemRequests    gdbproxy.c handlers + remote-elvees.c: memory and registers
               EXTENDS Packets, INSTANCE ByteMemory
MCMemRequests  requests of every alignment             EXTENDS MemRequests
MemRequestsProofs packets and codecs of any length, then MemRequests
               EXTENDS MemRequests, TLAPS
TapChip        (external) the processor's TAP and OnCD
AdapterState   adapter.h: the adapter, the chip, what both programs share
               EXTENDS TapChip
AdapterBitbang adapter-bitbang.c                       EXTENDS AdapterState
AdapterMpsse   adapter-mpsse.c                         EXTENDS AdapterState
AdapterLpt     adapter-lpt.c                           EXTENDS AdapterState
AdapterUsb     adapter-usb.c                             EXTENDS AdapterLpt
Adapters       the table of functions target.c calls through
               EXTENDS AdapterBitbang, AdapterMpsse, AdapterUsb
WordPort       what target.c promises over any adapter: abstract specification
JtagTarget     target.c over the adapters   EXTENDS Adapters, INSTANCE WordPort
MCJtagTarget   words, addresses and codes                EXTENDS JtagTarget
ForeachProofs  what the steps of a loop preserve         EXTENDS TapChip, TLAPS
BuffersProofs  no adapter's buffer overflows
               EXTENDS JtagTarget, TLAPS, INSTANCE ForeachProofs
FlashChip      (external) flash chips as command state machines
ImageFiles     mcprog.c: the readers of SREC, HEX and binary files
Programmer     mcprog.c's state; do_program and do_write over target.c's flash
               EXTENDS FlashChip, ImageFiles
Mcprog         main, the other commands, quit and signals EXTENDS Programmer
MCMcprog       command lines, files and boards              EXTENDS Mcprog
FlashProofs    what the command sequences do to a flash  EXTENDS Programmer, TLAPS
ProgrammerProofs theorems about Mcprog             EXTENDS Mcprog, FlashProofs
```

RunControl is used twice: GdbProxy is built on it, and TargetRegs, which models
the same calls down to the instructions fed to the CPU, is shown to implement
it.  So what GdbProxy assumes of `target.c` is checked against `target.c`.
WordPort plays this part for the adapters: TargetRegs and Programmer take for
granted that words are read and written as asked, and JtagTarget shows it.

What is left, in order:

1. breakpoint, query and monitor requests on the bytes of Packets;
2. the loop over Atmel pages without the adapter's routine, the label with
   software information, the register writes of `configure()`;
3. proofs: RewritesSuffice of Mcprog; MemRequests on a line that spoils characters
   without cheating the sum; `CopyAgrees` and the refinement of JtagTarget.

## 3. The models

### GdbProxy, with DbgSock, Debugger and RunControl

`pc` says where the only thread is: `open`, `sockopen`, `accept`, `connect` are
the loops of `main` that make a session; `getpkt` is the read of a request;
`flush`, `write`, `ack` are the three phases of `rp_putpkt` for the packets in
`outq`, after which `after` says where the handler goes on; `resumed` is the
first poll after a resume.  A step is the code between two points at which
another actor can matter: a read, a write, a look at the chip.  The loop's flags
that only say where the next iteration begins are values of `pc`;
`rp_target_running`, which is more than that, is a variable.

Data are abstracted to tokens: a request or a reply `[k, n]` carries its kind and
the number of the request, and beside them there are ACK, NAK, Control-C and
"bad" for a packet whose checksum fails.  Handlers that put one packet and change
nothing are one action (`HandleQuery`).  `elvees_connect` cannot fail and always
offers a restart, so branches for other stubs are left out; the module says so.

The debugger sends, repeats, interrupts, acknowledges, and vanishes where
`CloseIn` lets it; the rogue one sends any token at any time.

| Run | Shows |
|---|---|
| `gdb_polite` | on a clean line, and on one that spoils packets in either direction: replies match requests, the flush loses no request, methods are called in the documented order; requests, Control-C and the end of a session are all answered |
| `gdb_rogue` | a debugger that sends any tokens in any order, or a polite one that vanishes in any phase, with `socket`, `bind` and `accept` failing once each: requests are served only on a stopped CPU, `?` tells the current stop, the CPU is let go after every session, the assertions of the sockets hold until `bind` has failed, the static buffer leaves nothing dangerous to the next session, and a polite debugger gets no reply meant for an earlier one, but for the stop of a run that was left going (`inherited`) |
| `gdb_hang` (violation) | a debugger that closes while a reply is due: the flush of `rp_putpkt` repeats a read that returns an error for ever |

Which debugger there is, is chosen once (`MayBeRogue`, `polite`): what a debugger
may send and what follows from its good behaviour are separate properties.

Bounds: two sessions, because what leaks from one session shows in the next;
three or four requests, because a shift between requests and replies needs two
and a repetition a third; one or two faults; each call fails once at most
(`MaxFails`), and `bind` need fail only once for the assertion.  Deadlock is not
checked: a debugger need not connect again.

Fairness: the proxy's thread runs on whenever it can (`WF` of all its steps: it
waits for nothing but its socket, with a timeout), and a debugger reads what it
is sent and repeats an unacknowledged request.  Nobody has to connect, to send
a request, or to halt the CPU.

Known limits, found while modelling.  A Control-C read where an ACK is awaited
makes `rp_putpkt` send the reply again.  With spoiled replies, an early ACK
together with a NAK loses a stop reply; so `gdb_polite` has faults only in
behaviours without resumes (`FaultsOnRun`).  A good
request that is repeated (its ACK was lost) is executed twice, because the
protocol has no sequence numbers; the debugger repeats only spoiled requests.
The lost stop reply is a matter of liveness: that replies match their requests is
proved in section 4 with faults anywhere.

### TargetRegs and DebuggedCpu

The chip is a record: registers, memory words, the two instructions it fetches
next, a pending exception, OSCR and the host's copy of OSCR.  `target_exec` and
the two ways to read a register are functions on it; a request of the stub is
one action, from call to return (the chip is stopped and nobody else can act).
While the CPU runs, the program may change anything.

`DebuggedCpu` is what a user expects: stop, look, change, go on, and only what
was asked for has changed.  The refinement mapping tells where the truth is:
in the chip, in the register cache (GP and FP on an MC12), in `mem0`, and in the
saved pipeline.  `Transparent` says that TargetRegs implements it;
`ImplementsRunControl` that it implements RunControl.

| Run | Shows |
|---|---|
| `regs_safe` | both refinements, GP being the base of the host's own stores whenever they may happen, and DBM never left on in a running program; for an MC12 and for a chip with a RegF port |
| `regs_gp` (violation) | a GP written by the debugger becomes the base of those stores |

On the MC12 `regs_safe` leaves out writes of GP, because of `regs_gp`, and word
0 of the internal memory, which reads as the last register fetched.  `Fprs` is
empty there: an FPU register takes the paths of the others, one after another;
`regs_gp` has one.  Two general registers, one other, two words and one
program address suffice: the code treats all others alike, and a value is only
ever copied.  The end of a memory access is taken for granted (its timeout ends
the process); several exceptions in flight are one; the shift of register
groups of the RegF port is left out.

### Breakpoints

OBCR as two halves with their fields, OMLR, and what the debugger has inserted
and been told is set.  `brk_two`: with up to two addresses, the halves hold
exactly what was inserted, and a lone breakpoint triggers.  `brk_any`
(violation): moving the first breakpoint aside clears ANY, and the CPU then
stops only when both match at once.  The debugger keeps one breakpoint per
address (removal ignores the type), and the breakpoints survive sessions.

### FlashChip, ImageFiles, Programmer and Mcprog

FlashChip is the memory on units (bytes on an 8-bit bus, words otherwise): an AMD
command state machine, one per half of the bus, with Atmel's page mode or without
it; a Micron chip, which is read only in one of its modes; or static memory.
Programming only clears bits, and may fail (`weak`); a busy chip ignores writes
and reads as `Status`.  A command that reaches a chip expecting data is
programmed.  A Micron chip has no weak cells (it would report them, and mcprog
would see a timeout), and takes the data word of a rewrite for no command.

What is assumed of a command line (`McprogAssumption`) is what the usage text
offers: `-w` is for static memory.  A file (`IsFile`) is a sequence of records of
the kinds `Types`, with data or the high half of an address where its kind has
one, or a sequence of bytes; it may be broken in any place.

ImageFiles has the readers, by records: a turn of the loop of `read_srec` or
`read_hex` is one operator on what the reader has so far (`memory_base`,
`memory_len`, `memory_data`, the high half of HEX addresses), an exit being one of
its states.  The digits of a record are not modelled; that its sum is wrong, that
it is broken, and of which format it is, are.  `Meaning` says what a file means,
without reading it in order, and is not part of the code.

Programmer is the state of mcprog and the way from the detection of the flash to
the end of verification, for `do_program`, `do_write` and the other commands that
detect or erase.  An action is one call of `target.c` or one turn of a loop;
command sequences are computed from width, options, kind of chip and detection
round as `target.c` computes them and fed to the chips.  Mcprog is the rest:
`main` chooses the commands (`Commands`) and reads the file, each command opens
and stops the CPU and may fail to, `configure()` may exit, `check_clean` and
`do_read` look at the flash, and `quit()` is reached by return, by exit and by the
handler of a signal.  `opt` holds a command line, a file, a board and what the
memory held before; Init takes any of `CommandLines`.  A signal may come before
any step, and another one while its handler's `quit()` runs; each is blocked during
its own handler.

What `quit()` does depends on `is_running`, which is what the host believes of the
CPU, beside `cpu`, which is how the CPU is.  `target_open` sets the flag (`Open`);
the debug request (`StopCpu`) stops the CPU, and a poll that sees it resets the flag
(`Stopped`), or the polls are given up (`StopFails`).  `quit()` skips `target_run`
if the flag is set (`QuitRun`), and `target_run` sets it before it lets the CPU go
(`RunCpu`).  `Open` may let a stopped CPU run, because some adapters reset it.  The
history variable `cut` says that the run was cut short where flag and CPU disagree
(`CutsShort`), which is what `ReleasedAtEnd` excepts.  Saving and restoring the
pipeline are one step with the flag (in the code a signal right after
`target.c:1825` makes `quit()` restore what was not yet saved); errors of the
adapter within a command, which exit as well, are left out.

| Run | Shows |
|---|---|
| `prog_ok` | `DoneMeansProgrammed`: success means that the memory reads as the file says; `OnlyImageChanges`: nothing else changes unless an allowed erase erases it, and the commands that only look change nothing; `ReportsAreTrue`: what is copied into a file and what is said to be clean is; `RewritesSuffice`: weak cells alone do not make it fail; `ReleasedAtEnd`: the CPU runs in the end, unless `do_info` failed or the run was `cut`; `Terminates`, under fairness of the program and of the chips' operations |
| `prog_half` (violation) | without the adapter's `program_block64`, commands for one half of a 64-bit bus go to the other, and a command is programmed at `flash_addr_odd` |

Bounds: eight units in two sectors, so that the image crosses a sector, is
aligned to one or not, and meets the command addresses; images of three words, or
five bytes, in blocks of two words, so that the last block and the last word are
partial; pages of a block, buffers of a word; units of one bit; two signals, because
a second one can find `quit()` half done and a third one finds nothing new; four failures, so
that the limit of rewrites is reached; detection in rounds 0, 1, 3, 4 and, in the
second sweep, 6 and 7, where `flash_delay` is stale.  A word has two bytes instead
of four on an 8-bit bus.  Files of two records with every overlap, gap and order,
and one of each kind of line that ends, breaks or spoils a file; six units of
memory (`MaxImage`), which one file exceeds, and segments of four, so that a HEX
file needs its high addresses.  A region is at the default address or at 0, and
an image lies in one region, at an even address.  Chips with pages are behind the
adapter that has a routine for them, with images that begin at a page.

The exemptions are weaknesses of the code, each of them reached by the run when it
is taken away: in `RewritesSuffice`, the high half of a 64-bit flash is neither
waited for nor, with a stale `flash_delay`, erased or rewritten; so is a 32-bit
flash found late, which is programmed by pages; a Micron chip that was given up
while busy is verified all the same; an unaligned image in erase mode 2 may miss
its last sector; static memory is never rewritten (outside every region
`target_flash_rewrite` exits at the first mismatch, `target.c:1446` and 940; inside
one the word is read three more times).  In `DoneMeansProgrammed` (`Excepted`),
files whose first record of several is at address 0, and binary files longer than
the memory, which `fread` cuts; none of the latter is among the files of the run,
an empty one is, of which nothing is erased or programmed.  In `ReportsAreTrue`, a
flash whose high half is still erasing is said not to be clean; in
`ReleasedAtEnd`, errors of `do_info` and runs cut short in `target_stop` or
`target_run`.

### JtagTarget, the adapters and WordPort

TapChip is the processor from outside: the sixteen states of the TAP, its
instruction register, and the OnCD registers behind it.  A word is the set of its
ones, so that a shift by one bit is a shift of a set.  A module for each adapter
has its functions as operators on a record `s` of the adapter and the chip: pins
set one by one (`AdapterBitbang`), commands for an MPSSE that collect in a buffer
until they are flushed and come back in pieces (`AdapterMpsse`), scans written to
the parallel port's registers (`AdapterLpt`), packets of commands with a header
(`AdapterUsb`).  What the firmware makes of the last two is external.  JtagTarget
is `target.c` over them, one action per call, except that `stop_cpu` is a step per
poll, because the processor stops in its own time.

`WordPort` is what the callers of `target.c` expect: a processor that runs or
stands, the writes the memory has seen, in order, a program counter.  The mapping
takes the log and the counter from the chip as it will be when what the host has
collected is sent (`Performed`), and the counter of a stopped processor from the
host.  `ImplementsWordPort` is the refinement for each of the adapters.

| Run | Shows |
|---|---|
| `jtag` | `ImplementsWordPort`; `BuffersHold`: ten words of an answer and one packet of output fit; `CopyAgrees`: the copy of OSCR is what the register holds or will hold; `ClosedLetsGo`: the commands to run have left the host when the adapter is closed |
| `jtag_resume` (violation) | with an FT2232 the command to run stays in the buffer when a debugger leaves |

Bounds: four calls after each of the adapters is chosen, which is open, stop, one
write and one read or any other four; words with the bits where an adapter cuts a
word into bytes and with the top bit, which the MPSSE returns on its own; blocks
of one and eleven words, as ten fit; the limits of the USB block functions cut to
4, 1 and 2 words, so that blocks are split; two polls, two resets.  The pipeline
is one program counter (TargetRegs has it), a transfer succeeds and comes back in
one piece, `sysrst` is any line the firmware may reset the processor by, and the
firmware puts back the OSCR it changes; an OSCR left with its memory bits would
not be noticed otherwise.

### Packets, MemRequests and ByteMemory

Packets has the characters (as codes) that GdbProxy abstracts to tokens.
`rp_getpkt_char` is one turn of the loop of `rp_getpkt`, by the states 0 to 9 of
the code; `rp_getpkt` runs it over the characters there are.  MemRequests is one
debugger, which sends a request until it is answered, a line that cuts a packet
or spoils a character of it, and the proxy: `Wait` in mid-packet, `Ignore` what
is no packet, `Serve` a packet with its handler, the methods of the stub and
`rp_putpkt`.  `ByteMemory` is what the debugger expects; the mapping takes the
bytes out of the words and reads the answer back from the characters written.

| Run | Shows |
|---|---|
| `mem_requests` | `ImplementsByteMemory`: each request has its effect once, when it is acknowledged, and its answer is right; `TwoRepeatsSuffice`: whatever a fault leaves in the reader, the request comes through at the second attempt |

Bounds: three words of memory, so that a request can have a part of a word
before and after a whole one; addresses of each remainder that matters, the last
and the one after it; lengths from none to all; data that need escapes or would
mean something outside a packet; a limit of reads (`Limit`) below the longest.
Two requests, because what a write leaves shows in a read; one fault at every
character of the first or the second.  Characters are spoiled into an end mark, a
digit or an escape.  A start mark is left out: eight bits of sum cannot tell
every such packet from a good one (`X1,5:` with its colon spoiled into `$` is
accepted, as an unknown request).

A read of no bytes is left out: `elvees_read_mem` asserts that it does not happen
(`remote-elvees.c:477`).  `g` counts all registers and fills those before FP0, so
the rest of the reply may be anything.  Packets end before the limit of the buffer.

## 4. What is proved

`GdbProxyProofs`, for all values of the constants, with a debugger that is polite
or free to do anything (`MayBeRogue`):

* `ServesStopped`: requests are served only while the CPU is stopped and known
  to be, or taken to be running;
* `StatusCurrent`: `?` answers with the current stop;
* `CpuLetGo`: no CPU the host has stopped stays stopped between sessions;
* `SocketsStayClean`: the assertions of the socket layer hold until `bind` has
  failed (after that they need not, as section 5 says), whichever other call
  fails.

The first three follow from one inductive invariant, `LoopInv` (theorem
`LoopInvariant`).  The properties speak of the read of a
request only; `LoopInv` must also hold on the way there, through `rp_putpkt` and
the reopening of a session, so it says of each place of the loop whether it leads
back to serving (then the CPU is stopped or the flag set) or out of the session
(then the CPU has been let go).  It mentions no variable of the debugger, so that
every step of a debugger is `EnvStep`, which trivially keeps it.  The lemmas go
by group: sessions, packet layer, calls of `target.c`, handlers.  `SockInv` is a
separate invariant, about sockets alone.

The second half of `GdbProxyProofs` follows what is on its way between the two programs.

* `TypesHold`: all variables keep their types, with any debugger;
* `LeftoversHarmless`: what a polite debugger leaves in the receive buffer, which
  outlives the connection, are acknowledgements only, wherever it vanishes;
* `RepliesStayInSession`: in whatever phase an earlier debugger vanished, a polite one
  is sent answers to its own requests only, or the stop reply of a run the earlier one
  left going.

The invariant `Wire` says of the wire, while the debugger is polite, that one
request at most is on its way to the proxy, it is the debugger's current one, and
only acknowledgements follow it; that one `+` at most is on its way back; and that
a session ends with neither a request nor a Control-C in the buffer (`QuietEnd`).

`RepliesStayInSession` needs numbers: `SessionInv` says that a request in the buffer
(`RequestOwn`), the run whose stop is owed (`RunOwn`), the packets still to be put
(`QueueOwn`) and those on the wire (`SentOwn`) are of this session, once it is
connected, or, for a run and its stop, are the one in `inherited`.  That variable is
history: `Accept` sets it to the run that is still going when the next debugger comes.

Its third part adds numbers, for debuggers that are polite and leave only
between requests (`~MayBeRogue`, `CloseIn` at most `{"idle"}`), any number of
sessions and requests, and any faults and failing calls:

* `RepliesAnswer`: what the debugger takes for the answer has the number of its
  request;
* `RequestsSurvive`: `rp_putpkt`, which throws away what it reads, never reads a
  request;
* `CallsAsListed`: restart is followed by connect, stop by wait, kill by close.

All three rest on `Dialogue`.  The difficulty is a packet sent twice: `rp_putpkt`
repeats a packet that meets anything but `+`, so a debugger that has its answer
and has asked for more may get the old answer again.  `AckComing` says why no harm
is done: as long as that can happen a `+` is on its way in front of the new
request, so `rp_putpkt` ends before the request can be read or thrown away;
`LastRepeated` says that only the last packet of an answer is ever repeated so.
The rest says for whom the target runs (`RunsForDebugger`), how a session may end
(`EndsByRequest`), and where both sides know of the extended protocol
(`ModesAgree`), in which `R` is not answered.

The assumption on `CloseIn` cannot be dropped here: a debugger that vanishes while the
target runs leaves `rp_target_running` set, and a request on its way when it
vanishes is still carried out; both give the next session a stop reply it never
asked for, which it may take for an answer, and TLC shows it with `CloseIn` `{"ack"}`
or `{"reply"}` (section 5).

`ProgrammerProofs`, for every command line, flash, file and board, and weak cells
and signals at any point:

* `CpuRunsInTheEnd`: `ReleasedAtEnd`, the CPU runs when mcprog has ended, but after
  an error of `do_info` or in a run cut short in `target_stop` or `target_run`;
* `StaysTyped`: wherever a run is, the places it has in the image are in the image,
  the image is in the buffer, and the flash is one, whatever is sent to it;
* `ImageOnly`: `OnlyImageChanges`, nothing outside the image changes but what the
  command may erase, which changes to erased only; commands that only look change
  nothing;
* `ReportsTrue`: `ReportsAreTrue`, what `do_read` copies is what the flash holds, for
  any address and length, and a flash is said to be clean, or not, rightly;
* `ProgrammedWhenDone`: `DoneMeansProgrammed`, success means that the memory is as the file says.

That the CPU runs at the end is not inductive: `quit()` does nothing while `target`
is 0, believes `is_running`, and runs twice when a signal interrupts it.  `CpuInv`
adds why this does no harm unless the run was `cut`: while `target` is 0 the CPU
runs; a CPU that stands with `is_running` set is met at three places only
(`Unsettled`: in `target_stop` before the flag is reset, in `target_run` after it is
set), and a signal or an error there sets `cut`; the CPU runs between `target_run` and
the release; and the process ends with `target` 0 unless an error of `do_info` ended
it.  A step inside a command keeps this by `InsideKeeps`, the ways out of a command
by `ExitKeeps` and `ReturnKeeps`.

Types are not inductive either.  `PlaceInv` says of each place of the program
which commands lead there (`CommandInv`), how `first`, `word` and `area` stand to
the image (`NumberInv`), what the detection has found (`DetectedInv`) and what has
been read (`ReadInv`).

`ImageOnly` assumes `WellPlaced`: where a 64-bit flash is programmed, the adapter
has a routine for it and the image begins on the low half.  Every board and file of
`prog_ok` is so, and `prog_half` shows what happens without it.  A command
sequence does its work only if no chip mistakes it for data, so its invariant
`ChipInv` says in which mode the chips are wherever the program is (`ModesInv`:
able to be read, or in bypass inside a block of an 8-bit flash, or at work), and
that a unit that is being erased may be (`Licence`).  An erase that is still under
way when mcprog has gone on is therefore allowed as well.

`ReportsTrue` needs no assumption, since it is about commands that program
nothing.  `CheckInv` says that nothing changes a flash said not to be clean, and
`CopyInv` that the file is the beginning of the memory read, of `Copied` units.

`ProgrammedWhenDone` is the promise of the program: whatever the file, its format,
the flash, the bus, the block size, the erase and the number of weak cells, a run
that programs a file and returns normally leaves the memory as the file says, and
no record of a HEX file was spoiled.  It assumes `WellPlaced`, and `InsideRegion`:
the image ends within the flash, of which mcprog looks at the first address only.
The proof has two halves.

* `FileInv`: from `main` on, `memory_data` is what the file means.  `Meaning` says
  of each address which record is the last to name it; the reader goes line by
  line, with a base that the first record sets.  Lemma by lemma, what a reader
  holds after n lines is what the first n lines mean, and the reader that is left
  with something is the one whose format the first line has.
* `KeptInv`: the units up to the place reached hold the image *for good* (`Sure`),
  and nothing of them is being erased.  What has been verified must stay while
  later blocks are programmed, words are rewritten and a high half may still erase.
  It does because a half that reads as memory has nothing left to erase
  (`SettledType`), a unit that reads as the image is not in a half that is busy
  (`ReadSure`), and a rewrite sends commands that only touch the word at hand.

The invariant is `DoneParts`: both halves on top of `IInv`, `ChipInv` and
`SettledType`.

All three rest on `FlashProofs`: what a sequence of writes does to a chip, and what a
sequence of records does to an image, are folds.  What holds of a fold is proved
by induction over its length: the library's theorem takes an operator, so lemma
`Induction` says of a set of numbers that it has all of them if it has 0 and each
successor, from the well-founded order of the naturals.  `AfterKeeps` and
`AfterBoth` take a fold through one write and through a concatenation, `Leads`
says that a sequence takes chips in certain modes to chips in certain others, with
only certain units programmed or being erased.
There is a lemma for each command sequence (`ProgramLeads`, `EraseLeads`,
`DetectLeads`, `PageLeads`, `BufferLeads` and others), for any bus width and
detection round; they say that the command addresses of one half never meet the
other, and that no data word is taken for a command.

`BreakpointsProofs` proves, for any addresses and types, and for a debugger that
keeps no more than two breakpoints inserted (`MaxBreaks <= 2`; a third pushes one
out, as section 5 says), `HalvesAlwaysMatch` and `LoneBreakStops`.  `HalvesMatch`
does not say in which half a breakpoint is, so it is not inductive: the code
moves one from half 0 to half 1 when another comes, and down again when that one
goes.  `Arranged` lists the three arrangements there are: none, one in half 0, or
the later of two in half 0 and ANY clear.  An insertion and a removal lead from
one of them to another (`InsertionArranges`, `RemovalArranges`).

`TargetRegsProofs`, for any registers, memory, words and instruction addresses:

* `SavedIsTyped`: what the host has saved and cached are words of the chip, never
  what an undriven bus returns, so memory reads are enabled whenever a word is
  taken;
* `DebugBitGone`: no program runs with the debug bit set;
* `GpStaysBase`: on an MC12 GP points at word 0 of the internal memory as long as
  the CPU is stopped, assuming that the debugger writes no GP (`GpLeftAlone`; the
  run regs_gp shows what happens otherwise).

None of the three is inductive.  OSCR is written only when the host's copy of it
says it must change, and after a reset the copy is stale.  `Looking` adds that the
copy is true while the CPU is stopped and that GP and FP are then saved.  The chip
is followed through the operators of target.c one by one (`ReadWordEnables`,
`FetchedTyped`, `StoredTyped`, `SaveTyped`, `RestoreTyped`); the actions are then
entries, exits or requests (`EntryLooks`, `ExitLooks`, `RequestLooks`).

It also has both refinements of TargetRegs:

* `RunControlImplemented`: it implements RunControl, so what GdbProxy takes for
  granted is what `target.c` does;
* `DebuggerSeesProgram`: it implements DebuggedCpu, assuming `KeepsOff`: on an
  MC12 the debugger writes no GP and does not touch word 0 of the internal memory
  (a chip that is no MC12 needs no assumption).

The second needs `Faithful` beside `Looking` and `GpStaysBase`: while the CPU is
stopped, no exception is left in the chip, and a cached register is what the chip
holds unless it is one of the two that were saved.  Of each operator of `target.c`
it is shown what it leaves alone (`StoreAndReadFinds` and its neighbours), then
that stopping maps registers, memory and continuation to what the program had,
that each request does its own and no more, and that the ways out put back what
was taken.

`MemRequestsProofs` has the part of `ImplementsByteMemory` in which an off-by-one
would hide, for every memory size, address and length, where the run has three
words:

* `WriteIsBytewise`: `elvees_write_mem` refuses a write that does not fit as a
  whole, and otherwise changes the bytes named and no other;
* `ReadIsBytewise`: `elvees_read_mem` refuses a read that starts beyond the memory,
  and otherwise returns, in order, the bytes named that exist.

Both are statements about the operators the handlers are built from, for any
memory of words of four bytes, and rest on the arithmetic of words and offsets
(`DivMod`, `Quotient`) and on `HeadEndsWord`: what is written or read up to the
first whole word ends at a word unless the request ends before.  A write is
followed byte by byte (`WrittenByte`, one case for each part of the split); a
read is shown to consist of three runs of bytes (`PartOfWord`, `WholeWords`) that
meet (`JoinBytes`).

The first half of `MemRequestsProofs` runs `rp_getpkt` over characters of any number: a packet without
marks in its body that the reader meets in state 0 comes back as it was sent, with
its characters unescaped (`PlainPacket`) or, after the head of `X`, written out in
hex (`BinaryPacket`); one that it meets in mid-packet, or
after a stray start mark, returns "packet" or leaves it in state 0 (`NestedPacket`,
`FrameReads`).  The sums are followed modulo 256 (`Plus`), the escapes character by
character, and the codecs of hex are shown to be inverses.  There is no induction
over an operator: the set of sequences for which a statement holds is shown to be
all of them (`SeqInduction`).

The second half uses it for `SecondIsAccepted`, that is `TwoRepeatsSuffice` for
every memory, line, set of spoiling characters and request of `RequestsAssumption`,
which says what a debugger asks: addresses, lengths and data counts below 256 and
data of bytes, a read of at least one byte, registers of one word.  The invariant
under it is `LineTypes`: the reader is in one of the states of the code, and a line
holds characters.

For a line that cuts packets, anywhere and any number of times, but spoils no
character (`Spoiling = {}`), the same module has the rest of the path of a request:

* `WordsStayWords`: `TypeOK`, so words of memory and registers keep four bytes,
  whatever is asked;
* `BytesImplemented`: `ImplementsByteMemory`, for every memory, limit, number of
  registers and set of requests of `RequestsAssumption`.

The invariant is `MemInv`: `TypeOK`, and `Arrived`, which says that what is on the
line begins the packet asked for.  It is needed because a reader left in mid-packet
drops a whole request, and may accept only what was sent: `PrefixRead` runs
`rp_getpkt` over every part of a packet.  Then the request is taken apart
(`NumberDecoded` for `rp_decode_uint` and where it stops, `FirstColon` for the end
of the head of a write, `DataDecoded` for the data), so that each handler does what
`Outcome` says (`HandledIs`); `ReplyIs` and `AnswerIs` read the reply back from its
characters, and the `...Answered` lemmas, one for each request, compare the handler
with the action of `ByteMemory`.  `MemStep` puts them together: `Ask` is a question
of the debugger, `Serve` the answer, and every other step changes nothing that is
expected.

`BuffersProofs` shows `BuffersNeverOverflow`, that is `BuffersHold`, for adapters
of every kind, any chip, any number of calls, blocks of any length, and every
`OutSize` of `OutAssumption`.  Three arrays are meant: the packet of
`adapter-usb.c`, the output of `adapter-mpsse.c`, and the 64 bytes a reply to the
latter is read into.

* What fills them does not depend on the chip, so nothing is said of it.  A list of
  commands for the MPSSE is weighed (`Weigh`) by its bytes and by the bytes of the
  replies to it.  `ScanFits` weighs one scan: 23 bytes at most, of which
  `mpsse_send` makes sure there is room, and as many bytes of reply as
  `RepliesTo` says.
* `Loaded(ad, waiting)` is the state of that adapter inside a function: no overflow
  so far, an output no longer than its array, and at most `waiting` bytes of reply
  to come.  `SendLoads` adds the scans of one `mpsse_send`, `Flushed` takes
  everything away, and `MpsseReadsBlock` shows that ten words at a time, six bytes
  of reply each, are 60 of the 62 there is room for.
* For USB the lengths of the lists are counted, from the words of a block to the
  commands of `usb_program_block64` and of a page (`UsbBlocks`, `UsbProgramsPage`),
  and are what the function has reserved.
* The inductive invariant is `HostReady`: between calls the adapter is `Ready`,
  which for an MPSSE is `Loaded` with no reply to come; were a call to leave
  replies behind, the next one could read them.  It adds that only an adapter for
  USB is asked again by `stop_cpu`, whose `usb_ir` would not do for the others.

Loops of the code are `Foreach` in the model, a fold written as a recursive
function; `ForeachProofs` shows, for a step given as a constant operator, that what
a step preserves holds after the loop.  Each loop instantiates it with its own
step.  Assumed is `TargetAssumption`: writes of at least one word, as
`target_write_block` takes the first before it looks at their number, and limits
other than zero, with which the loops of `target.c` would not end.

Only model-checked:

* liveness (`RequestAnswered`, `InterruptStops`, `WaitsForNext`, `Terminates`),
  which the prover cannot state;
* `CopyAgrees`, `ClosedLetsGo`, `TypeOK` and the refinement of JtagTarget, which
  follow words bit by bit through the TAP of the chip;
* `RewritesSuffice`, which counts the weak cells behind each rewrite;
* `ImplementsByteMemory` and `TypeOK` of MemRequests where characters are spoiled:
  eight bits of sum do not tell every spoiled packet from a good one, so neither
  holds for every line.

## 5. Where code and documentation disagree

Five disagreements have a run (the violation runs above).  Others were met and
are recorded here:

* `rp_target_running` is not reset when a session ends while the target runs: the
  next one, for which connect has stopped the CPU, is polled and gets a stop reply
  it never asked for (`gdbproxy.c:1372`, against the comment before it).
* A start mark in mid-packet resets the reader and is then stored as the first
  character (`gdbproxy.c:1696` to 1763), so the packet after a truncated one always
  fails its checksum, and only the next repetition is accepted.
* `elvees_read_registers` says that FPU registers are left out
  (`remote-elvees.c:379`) and counts them (`remote-elvees.c:387`).
* `dbg_sock_open` leaves the listening socket open when `bind` fails; the retry
  meets its own assertion (`rpmisc.c:135`, against `gdbproxy.c:1308`).
* A step from an address runs (`remote-elvees.c:671`, against `gdbproxy.c:518`).
* After kill the proxy waits for a new connection (`gdbproxy.c:666`, against
  `gdbproxy.h:162`).
* Close leaves a CPU that has halted and was not polled stopped
  (`remote-elvees.c:252`, against `gdbproxy.h:138`).
* A third breakpoint pushes out the first and is answered OK (`target.c:1901`).
* Watchpoint types 2 and 3 are swapped (`remote-elvees.c:1019`, against
  `gdbproxy.h:375`).
* `mcprog -e1 file`, which the usage text offers for programming
  (`mcprog.c:1140`), takes the file's name for an address (`mcprog.c:1201`): it
  erases the flash at address 0 if the board has one there (as at
  `mcprog.conf:111`), even with `-v`, and otherwise exits without a flash region.
  `-c file` only checks, at the same address.
* `memory_base` 0 means "not known" (`mcprog.c:183`): after a record at address 0
  the next one is stored over it.
* A binary file longer than `memory_data` is programmed as far as it was read, and
  the run ends like any other (`mcprog.c:116`); in SREC and HEX files the same is
  an error.
* The sum of SREC records is ignored, a HEX record may be longer than its buffer
  of 16 bytes, and a file in one of the two formats without data records is
  programmed as binary text.
* "No flash memory detected" ends with status 0; a verification that reads the
  right word after the fourth rewrite is reported as an error with two equal
  values (`mcprog.c:424`).
* `target_flash_rewrite`, called by `do_write` for static memory, writes nothing
  and reports success (`target.c:1453`), so three more reads decide if the address is
  in a region; if it is not, the first mismatch exits (`target.c:1446`, 940).  It knows
  nothing of Micron chips either, and sends them AMD commands.
* `quit()` leaves the CPU stopped where `is_running` is set although the CPU stands
  (`target.c:1862`, 857): after a signal in `target_stop` before `target.c:1825`, a
  second signal in `target_run` between `target.c:1872` and 1879, a signal before line
  1825 in the second command of `-e1 -c`, and when `stop_cpu` gives up and the
  processor stops all the same.  `do_info` has no exit handler, so that an error in it
  leaves the CPU stopped too (`mcprog.c:968`).
* The timeout of a Micron erase is ignored by its callers (`target.c:1280`).
* A flash with words found in a second sweep of the detection is programmed by
  pages, because `flash_delay` is never reset (`target.c:1040`).
* Page operations always take 128 words, beyond the end of the image, and without
  the adapter's routine their count wraps around (`target.c:1724`).
* `do_info` has no exit handler, so an error leaves the CPU stopped.
* `stop_cpu` that gives up leaves its debug request outstanding
  (`adapter-mpsse.c:520`).
* `target_close` lets a CPU go only if the host knows that it stopped: one that
  halted by itself stays stopped.
* Packets for the USB adapter may have more than the forty commands its comment
  allows (`adapter-usb.c:66`), and `usb_open` and `usb_stop_cpu` set the reset line
  of the processor in headers the comments say leave it alone; `usb_run_cpu` lacks
  the flush of the pipeline the other adapters ask for.
* In `adapter-bitbang.c` a reply of the FT2232 that arrives in two parts is waited
  for for ever (`adapter-bitbang.c:208`).

## 6. Not modelled

The plan of section 2 names what is still to come.  Out of scope: the log and the
command line of mcremote, `conf.c`, `swinfo.c` and the stubs for other targets,
which no build rule compiles; USB and parallel port I/O itself, and the test
programs at the ends of the adapters' files.

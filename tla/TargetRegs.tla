----------------------------- MODULE TargetRegs -----------------------------
(***************************************************************************)
(* How target.c looks into a stopped Elvees CPU.  It saves the pipeline,   *)
(* feeds the CPU instructions of its own to move registers, caches what it *)
(* has read, and puts everything back before the program runs on.          *)
(*                                                                         *)
(* On the MC12 a register is only readable by storing it through GP into   *)
(* word 0 of the internal memory, and everything but a general register    *)
(* goes through FP: GP, FP and that word are saved on entry and restored   *)
(* on exit.  The later chips have an access port (RegF) and need none of   *)
(* this.  That neither the program nor the debugger can tell is the        *)
(* refinement of DebuggedCpu.                                              *)
(*                                                                         *)
(* The chip is a record.  A register value is a word, and a word may be    *)
(* the address of a memory word.  A store of the host's own outside the    *)
(* memory modelled has no effect here.                                     *)
(***************************************************************************)
EXTENDS Naturals, FiniteSets

CONSTANTS
    Idcodes,    \* chips: "MC12", or one with a RegF port
    Gprs,       \* general registers, GP and FP among them
    Fprs,       \* FPU registers
    Others,     \* CP0, HI/LO and FPU control registers
    Addrs,      \* addresses of memory words
    Words,      \* values of registers and memory words
    Pcs,        \* instruction addresses
    DbgWrites,  \* registers the debugger writes, by chip
    DbgAddrs    \* memory words it accesses, by chip

GP == "gp"
FP == "fp"
CRAM_ADDR == "cram"
NO_EXCEPTION == "no exception"

Regs == Gprs \cup Fprs \cup Others

MC12(c) == c.idcode = "MC12"

ASSUME RegsAssumption ==
    /\ {GP, FP} \subseteq Gprs
    /\ Gprs \cap Fprs = {} /\ Gprs \cap Others = {} /\ Fprs \cap Others = {}
    /\ CRAM_ADDR \in Addrs \cap Words
    /\ "floating" \notin Words
    /\ Pcs # {} /\ NO_EXCEPTION \notin Pcs \cup {"boot"}
    /\ DbgWrites \in [Idcodes -> SUBSET Regs]
    /\ DbgAddrs \in [Idcodes -> SUBSET Addrs]

VARIABLES
    m,           \* the chip
    cpu,         \* "running" or "stopped" (debug mode)
    is_running,  \* what the host believes
    cached,      \* t->reg[r] of the registers that are valid
    mem0,        \* t->mem0
    pipe,        \* t->pc_dec and t->pc_fetch
    exception,   \* t->exception
    answer       \* what the last read request returned

vars == <<m, cpu, is_running, cached, mem0, pipe, exception, answer>>

NoAnswer == <<"none", "none">>
Boot == "boot"
Jump(pc) == <<pc, "seq">>
Pipes == (Pcs \cup {Boot}) \X (Pcs \cup {"seq"})
OscrBits == {"SlctMEM", "RO", "DBM", "NDS"}

(***************************************************************************)
(* The chip: its model, registers, memory, the two instructions it fetches *)
(* next, an exception raised by an instruction still in the pipeline, the  *)
(* control register OSCR, and beside it adapter->oscr, the host's copy.    *)
(***************************************************************************)
Chips == [idcode : Idcodes, reg : [Regs -> Words], ram : [Addrs -> Words],
          pipe : Pipes, trap : Pcs \cup {NO_EXCEPTION},
          oscr : SUBSET OscrBits, copy : SUBSET OscrBits]

(* What one instruction of the program can do. *)
Executed(c) ==
    IF c.trap # NO_EXCEPTION
      THEN {[c EXCEPT !.pipe = Jump(c.trap), !.trap = NO_EXCEPTION]}
      ELSE {[c EXCEPT !.reg[r] = w] : r \in Regs, w \in Words}
           \cup {[c EXCEPT !.ram[a] = w] : a \in Addrs, w \in Words}
           \cup {[c EXCEPT !.pipe = p] : p \in Pcs \X (Pcs \cup {"seq"})}
           \cup {[c EXCEPT !.trap = p] : p \in Pcs}

(* Where a program left alone continues. *)
Continuation(c) == IF c.trap = NO_EXCEPTION THEN c.pipe ELSE Jump(c.trap)

-----------------------------------------------------------------------------
(* Access to a stopped chip. *)

(* target_exec feeds the CPU one instruction, from the boot address. *)
target_exec(c) == [c EXCEPT !.pipe = Jump(Boot)]

WriteOscr(c, bits) == [c EXCEPT !.oscr = bits, !.copy = bits]

(* Memory access, in the direction the chip's OSCR selects; OSCR is written
   only when the copy says it has to change. *)
target_read_start_noslct(c) ==   \* mutant: SlctMEM is not set
    WriteOscr(c, c.copy \cup {"RO"})

target_read_start(c) ==
    LET oscr_new == c.copy \cup {"SlctMEM", "RO"}
    IN  IF oscr_new # c.copy THEN WriteOscr(c, oscr_new) ELSE c

target_read_next(c) == [c EXCEPT !.copy = c.oscr]

target_read_word(c) == target_read_next(target_read_start(c))

(* What a read returns when memory access is not enabled for reading. *)
Floating == "floating"

MemValue(c, a) == IF {"SlctMEM", "RO"} \subseteq c.oscr THEN c.ram[a] ELSE Floating

target_write_word(c, a, w) ==
    LET oscr_new == (c.copy \ {"RO"}) \cup {"SlctMEM"}
        d == IF oscr_new # c.copy THEN WriteOscr(c, oscr_new) ELSE c
    IN  IF "SlctMEM" \in d.oscr /\ "RO" \notin d.oscr
          THEN [d EXCEPT !.ram[a] = w]
          ELSE d

(* SW r, 0(GP), then a read of CRAM_ADDR. *)
StoreAndRead(c, r) ==
    target_read_word(IF c.reg[GP] \in Addrs
                       THEN [target_exec(c) EXCEPT !.ram[c.reg[GP]] = c.reg[r]]
                       ELSE target_exec(c))

(***************************************************************************)
(* The chip after target_read_reg, _cp0, _fpu, _fpuctl or the HI/LO code   *)
(* has fetched register r, and the value fetched.                          *)
(***************************************************************************)
Fetched(c, r) ==
    IF ~MC12(c) THEN c
    ELSE IF r \in Others THEN StoreAndRead([c EXCEPT !.reg[FP] = c.reg[r]], FP)
    ELSE StoreAndRead(c, r)

FetchedValue(c, r) ==
    IF ~MC12(c) THEN c.reg[r] ELSE MemValue(Fetched(c, r), CRAM_ADDR)

Stored_via_gp(c, r, w) ==   \* mutant: GP is the intermediate register
    IF MC12(c) /\ r \notin Gprs
      THEN [target_exec(c) EXCEPT !.reg[GP] = w, !.reg[r] = w]
      ELSE [target_exec(c) EXCEPT !.reg[r] = w]

(* target_write_reg, and its relatives that go through FP. *)
Stored(c, r, w) ==
    IF MC12(c) /\ r \notin Gprs
      THEN [target_exec(c) EXCEPT !.reg[FP] = w, !.reg[r] = w]
      ELSE [target_exec(c) EXCEPT !.reg[r] = w]

-----------------------------------------------------------------------------
(* Entry and exit. *)

(***************************************************************************)
(* The pipeline is drained by NOPs, and an exception on the way replaces   *)
(* the continuation.  GP is read through PCfetch by a jump.  The CSCON3    *)
(* register is read after a stop, but not after a breakpoint or a step.    *)
(***************************************************************************)
Halted(c) ==
    WriteOscr([target_exec(c) EXCEPT !.trap = NO_EXCEPTION], (c.oscr \ {"NDS"}) \cup {"DBM"})

target_save_state(c, cscon3) ==
    LET a == target_read_word(Halted(c))
        b == [target_exec(a) EXCEPT !.reg[GP] = CRAM_ADDR]
        d == IF MC12(c) THEN Fetched(b, FP) ELSE Halted(c)
    IN  /\ pipe' = c.pipe
        /\ exception' = c.trap
        /\ IF MC12(c)
             THEN /\ mem0' = MemValue(a, CRAM_ADDR)
                  /\ cached' = [r \in {GP, FP} |->
                                   IF r = GP THEN a.reg[GP] ELSE FetchedValue(b, FP)]
             ELSE /\ cached' = [r \in {} |-> mem0]
                  /\ UNCHANGED mem0
        /\ m' = IF cscon3 THEN target_read_word(d) ELSE d

RestoreRegs_keepmem(c) ==   \* mutant: word 0 of the memory is not restored
    IF MC12(c)
      THEN [c EXCEPT !.reg[FP] = cached[FP], !.reg[GP] = cached[GP]]
      ELSE c

RestoreRegs(c) ==
    IF MC12(c)
      THEN target_write_word([c EXCEPT !.reg[FP] = cached[FP], !.reg[GP] = cached[GP]],
                             CRAM_ADDR, mem0)
      ELSE c

RestorePipe_nofetch(c) ==   \* mutant: stage 'fetch' is not restored
    [c EXCEPT !.pipe = Jump(IF exception = NO_EXCEPTION THEN pipe[1] ELSE exception)]

RestorePipe(c) ==
    [c EXCEPT !.pipe = IF exception = NO_EXCEPTION THEN pipe ELSE Jump(exception)]

RestoreOscr_keepdbm(c) ==   \* mutant: the debug bit stays
    WriteOscr(c, c.copy \cup {"NDS"})

RestoreOscr(c) == WriteOscr(c, (c.copy \cup {"NDS"}) \ {"DBM"})

target_restore_state == RestoreOscr(RestorePipe(RestoreRegs(m)))

-----------------------------------------------------------------------------
(* The calls of the layers above, and the CPU. *)

Init ==
    /\ m \in [idcode : Idcodes, reg : [Regs -> Words], ram : [Addrs -> Words],
              pipe : {Jump(Boot)}, trap : {NO_EXCEPTION}, oscr : {{}}, copy : {{}}]
    /\ cpu = "running"
    /\ is_running = TRUE
    /\ cached = [r \in {} |-> mem0]
    /\ mem0 = CRAM_ADDR
    /\ pipe = Jump(Boot)
    /\ exception = NO_EXCEPTION
    /\ answer = NoAnswer

CpuRuns ==
    /\ cpu = "running"
    /\ m' \in Executed(m)
    /\ UNCHANGED <<cpu, is_running, cached, mem0, pipe, exception, answer>>

CpuHalts ==
    /\ cpu = "running"
    /\ cpu' = "stopped"
    /\ UNCHANGED <<m, is_running, cached, mem0, pipe, exception, answer>>

target_stop ==
    /\ is_running
    /\ cpu' = "stopped"
    /\ is_running' = FALSE
    /\ target_save_state(m, TRUE)
    /\ UNCHANGED answer

(* The poll finds the CPU stopped, for the first time. *)
target_is_stopped ==
    /\ is_running
    /\ cpu = "stopped"
    /\ is_running' = FALSE
    /\ target_save_state(m, FALSE)
    /\ UNCHANGED <<cpu, answer>>

target_step ==
    /\ ~is_running
    /\ \E c \in Executed(target_restore_state) : target_save_state(c, FALSE)
    /\ answer' = NoAnswer
    /\ UNCHANGED <<cpu, is_running>>

Leave_stopped ==   \* mutant: the CPU is not told to run
    /\ is_running' = TRUE
    /\ answer' = NoAnswer
    /\ UNCHANGED <<cpu, cached, mem0, pipe>>

Leave ==
    /\ is_running' = TRUE
    /\ cpu' = "running"
    /\ answer' = NoAnswer
    /\ UNCHANGED <<cached, mem0, pipe>>

target_resume ==
    /\ ~is_running
    /\ m' = target_restore_state
    /\ Leave
    /\ UNCHANGED exception

(* t->exception is set to the address first. *)
target_run(pc) ==
    /\ ~is_running
    /\ exception' = pc
    /\ m' = [target_restore_state EXCEPT !.pipe = Jump(pc)]
    /\ Leave

(* Reset starts from the boot address and clears OSCR; the host's copy of it
   is not updated. *)
target_restart ==
    /\ LET c == IF is_running THEN m ELSE target_restore_state
       IN  m' = [c EXCEPT !.pipe = Jump(Boot), !.trap = NO_EXCEPTION, !.oscr = {}]
    /\ Leave
    /\ UNCHANGED exception

(* Requests reach the target layer while the host knows the CPU stopped. *)
target_read_register(r) ==
    /\ ~is_running
    /\ IF r \in DOMAIN cached
         THEN /\ answer' = <<r, cached[r]>>
              /\ UNCHANGED <<m, cached>>
         ELSE /\ answer' = <<r, FetchedValue(m, r)>>
              /\ m' = Fetched(m, r)
              /\ cached' = [x \in DOMAIN cached \cup {r} |->
                              IF x = r THEN FetchedValue(m, r) ELSE cached[x]]
    /\ UNCHANGED <<cpu, is_running, mem0, pipe, exception>>

target_write_register(r, w) ==
    /\ ~is_running
    /\ m' = Stored(m, r, w)
    /\ cached' = [x \in DOMAIN cached \cup {r} |-> IF x = r THEN w ELSE cached[x]]
    /\ answer' = NoAnswer
    /\ UNCHANGED <<cpu, is_running, mem0, pipe, exception>>

ReadPc ==
    /\ ~is_running
    /\ answer' = <<"pc", IF exception # NO_EXCEPTION THEN exception ELSE pipe[1]>>
    /\ UNCHANGED <<m, cpu, is_running, cached, mem0, pipe, exception>>

WritePc(pc) ==
    /\ ~is_running
    /\ exception' = pc
    /\ answer' = NoAnswer
    /\ UNCHANGED <<m, cpu, is_running, cached, mem0, pipe>>

ReadMem(a) ==
    /\ ~is_running
    /\ m' = target_read_word(m)
    /\ answer' = <<a, MemValue(m', a)>>
    /\ UNCHANGED <<cpu, is_running, cached, mem0, pipe, exception>>

WriteMem(a, w) ==
    /\ ~is_running
    /\ m' = target_write_word(m, a, w)
    /\ answer' = NoAnswer
    /\ UNCHANGED <<cpu, is_running, cached, mem0, pipe, exception>>

Next ==
    \/ CpuRuns \/ CpuHalts
    \/ target_stop \/ target_is_stopped \/ target_step \/ target_resume \/ target_restart
    \/ \E pc \in Pcs : target_run(pc) \/ WritePc(pc)
    \/ ReadPc
    \/ \E r \in Regs : target_read_register(r)
    \/ \E r \in DbgWrites[m.idcode], w \in Words : target_write_register(r, w)
    \/ \E a \in DbgAddrs[m.idcode] : ReadMem(a) \/ \E w \in Words : WriteMem(a, w)

Spec == Init /\ [][Next]_vars

-----------------------------------------------------------------------------
(* Properties. *)

(* Types of the chip and of everything the host saves. *)
TypeOK ==
    /\ m \in Chips
    /\ cpu \in {"running", "stopped"}
    /\ is_running \in BOOLEAN
    /\ DOMAIN cached \subseteq Regs /\ \A r \in DOMAIN cached : cached[r] \in Words
    /\ mem0 \in Words
    /\ pipe \in Pipes
    /\ exception \in Pcs \cup {NO_EXCEPTION}

(* Where the program's registers, memory and continuation are to be found. *)
Saved(r) == ~is_running /\ MC12(m) /\ r \in {GP, FP}

regs == [r \in Regs |-> IF Saved(r) THEN cached[r] ELSE m.reg[r]]

mem == [a \in Addrs |->
          IF ~is_running /\ MC12(m) /\ a = CRAM_ADDR THEN mem0 ELSE m.ram[a]]

continuation ==
    IF is_running THEN Continuation(m)
    ELSE IF exception = NO_EXCEPTION THEN pipe ELSE Jump(exception)

Cpu == INSTANCE DebuggedCpu WITH mode <- cpu, next <- continuation

(* The debugger sees, and leaves, the program's own registers, memory and
   continuation, whatever the host used in between to get at them. *)
Transparent == Cpu!Spec

(* Run control as GdbProxy relies on it: to the stub this module looks like
   RunControl, however much goes on between stop and resume. *)
RC == INSTANCE RunControl

ImplementsRunControl == RC!RCSpec

(* "Uses GP as the base": stores by which registers are read go to word 0 of the
   internal memory and not into the program's data. *)
GpIsBase == MC12(m) /\ ~is_running => m.reg[GP] = CRAM_ADDR

(* The debug bit, which stops counters and blocks interrupts, is never left on
   in a running program. *)
RunsWithoutDebugBit == cpu = "running" => "DBM" \notin m.oscr
=============================================================================

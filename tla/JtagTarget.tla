----------------------------- MODULE JtagTarget ------------------------------
(***************************************************************************)
(* target.c over the adapters, down to the pins: what it does to OnCD to   *)
(* stop a processor, to move words and to let it go.  Each function of     *)
(* target.c is one step, except that stop_cpu asks and asks again while    *)
(* the processor makes up its mind.                                        *)
(*                                                                         *)
(* The pipeline, which TargetRegs models, is reduced to one program        *)
(* counter; memory is accessed while the processor stands, as the callers  *)
(* do.                                                                     *)
(***************************************************************************)
EXTENDS Adapters

CONSTANTS
    UsedKinds,      \* adapters, a subset of Kinds
    Ids,            \* identification codes of known processors
    ChipIds,        \* what the chip on the board may answer
    ResetRetry,     \* RESET_RETRY, 100
    Pcs,            \* program counters a debugger sets
    ReadSpans,      \* arguments of reads: an address and a number of words
    WriteSpans,     \* arguments of writes: an address and a sequence of words
    BlockWords,     \* block_words of adapter-usb.c, 64
    ProgramWords,   \* program_block_words of adapter-usb.c, 16
    PageWords,      \* the 128 words of a page in target_program_block32_atmel
    MaxCalls,       \* bound on calls
    MaxPolls        \* bounds of the loops of stop_cpu: 50, 1000, 100

(* target_write_block takes its first word before it looks at their number. *)
ASSUME TargetAssumption ==
    /\ UsedKinds \subseteq Kinds
    /\ ResetRetry \in Nat
    /\ {BlockWords, ProgramWords} \subseteq Nat \ {0}
    /\ ReadSpans \subseteq Nat \X Nat
    /\ WriteSpans \subseteq Nat \X (Seq(SUBSET (0 .. 31)) \ {<<>>})

MC_CSCON3 == 124

\* more bits of OSCR
DBM == 10
NDS == 11
NFEXP == 13

VARIABLES
    s,              \* the adapter and the chip, see AdapterState
    is_running,     \* t->is_running
    pc,             \* where a stopped program will go on: t->exception, t->pc_dec
    st,             \* "new", "idle", in stop_cpu "asking" or "enabling",
                    \* "detached", "closed", "exit"
    caller,         \* of stop_cpu
    polls, calls,
    call, answer    \* the last call completed and what it returned

vars == <<s, is_running, pc, st, caller, polls, calls, call, answer>>

-----------------------------------------------------------------------------
target_read_start == PutOscr({SlctMEM, RO}, {}, TRUE)

target_read_next(addr) ==
    <<Write(Bits(addr), OnCD_OMAR, {}, 32), Write({}, OnCD_MEM, {}, 0), GetOscr(TRUE),
      Read(OnCD_OMDR)>>

target_write_next(addr, data) ==
    <<Write(Bits(addr), OnCD_OMAR, {}, 32), Write(data, OnCD_OMDR, {}, 32),
      Write({}, OnCD_MEM, {}, 0)>>

(* Of target_write_word: memory is made accessible. *)
WriteStart == PutOscr({SlctMEM}, {RO}, TRUE)

target_read_word(t, addr) == Oncd(t, <<target_read_start>> \o target_read_next(addr))

target_write_word(t, addr, data) == Oncd(t, <<WriteStart>> \o target_write_next(addr, data))

ReadEach(t, addr, n) ==
    Oncd(t, <<target_read_start>>
              \o Concat([k \in 1 .. n |-> target_read_next(Addresses(addr, n)[k])]))

WriteEach(t, pairs) ==
    Oncd(t, <<WriteStart>>
              \o Concat([k \in DOMAIN pairs |-> target_write_next(pairs[k][1], pairs[k][2])]))

target_write_nwords(t, pairs) ==
    IF HasBlocks(t) THEN write_nwords(t, pairs) ELSE WriteEach(t, pairs)

(* What is moved at once: only an adapter for USB has a limit. *)
Limited(t, seq, size) ==
    IF IsUsb(t) THEN Pieces(seq, size) ELSE IF seq = <<>> THEN <<>> ELSE <<seq>>

ReadPiece(t, addrs) == [read_block(t, addrs[1], Len(addrs)) EXCEPT !.value = t.value \o @]

target_read_block(t, addr, n) ==
    IF HasBlocks(t)
      THEN Foreach(ReadPiece, [t EXCEPT !.value = <<>>],
                   Limited(t, Addresses(addr, n), BlockWords))
      ELSE ReadEach(t, addr, n)

target_write_block(t, addr, data) ==
    IF HasBlocks(t) THEN Foreach(write_block, t, Limited(t, Block(addr, data), BlockWords))
    ELSE WriteEach(t, Block(addr, data))

-----------------------------------------------------------------------------
(* Programming, as far as it is writes in a certain order. *)

target_program_block32(t, base, addr, data) ==
    LET Piece(u, pairs) == program_block32(u, base, pairs)
        Word(u, pair) == target_write_nwords(u, Append(Unlocked(base, cmd_a0), pair))
    IN  IF HasBlocks(t) THEN Foreach(Piece, t, Limited(t, Block(addr, data), ProgramWords))
        ELSE Foreach(Word, t, Block(addr, data))

target_program_block64(t, base, addr, data) ==
    LET half == base + 4 * ((addr \div 4) % 2)
        Piece(u, pairs) == usb_program_block64(u, base, pairs)
        Word(u, pair) == target_write_nwords(u, Append(Unlocked(half, cmd_a0), pair))
    IN  IF IsUsb(t) THEN Foreach(Piece, t, Limited(t, Block(addr, data), ProgramWords))
        ELSE Foreach(Word, t, Block(addr, data))

target_program_block32_atmel(t, base, addr, data) ==
    LET Part(u, cmds) == target_write_block(target_write_nwords(u, cmds), addr, data)
        page == Block(addr, data)
    IN  IF IsUsb(t)
          THEN usb_program_block32_protect(usb_program_block32_unprotect(t, base, page), base, page)
          ELSE Foreach(Part, t, <<Unprotect(base), Protect(base)>>)

-----------------------------------------------------------------------------
(* Stopping and letting go. *)

(* NFEXP is set while the pipeline is emptied.  The value is PCfetch. *)
target_save_state ==
    <<Read(OnCD_PCfetch), GetOscr(FALSE), PutOscr({NFEXP}, {NDS}, FALSE),
      PutOscr({DBM}, {NFEXP}, FALSE)>>

target_restore_state ==
    <<Write(pc, OnCD_PCfetch, {}, 32), PutOscr({NDS}, {DBM}, FALSE)>>

Restored == Oncd(s, target_restore_state)

Init ==
    /\ \E kind \in UsedKinds, sysrst \in BOOLEAN, id \in ChipIds, running \in BOOLEAN :
          /\ sysrst => kind \in {"usb", "usb_single"}
          /\ s = NewAdapter(kind, sysrst, [PowerOn(id) EXCEPT !.running = running])
    /\ is_running = FALSE
    /\ pc = {}
    /\ st = "new"
    /\ caller = "none"
    /\ polls = 0 /\ calls = 0
    /\ call = "none" /\ answer = <<>>

Called(phases) ==
    /\ st \in phases
    /\ calls < MaxCalls
    /\ calls' = calls + 1

Returned(name, value) == call' = name /\ answer' = value

(* After a function that may have given up. *)
Ends(t) ==
    /\ s' = t
    /\ st' = IF s'.failed THEN "exit" ELSE "idle"

(* The code of the processor, which is reset as long as it does not answer. *)
NoAnswer == {{}, 0 .. 31}

Identified(t) ==
    LET Try(u, k) ==
            IF u.value \notin NoAnswer THEN u
            ELSE TheOne({IF v.value \in NoAnswer THEN [reset_cpu(v) EXCEPT !.value = v.value]
                         ELSE v : v \in {get_idcode(u)}})
    IN  Foreach(Try, [t EXCEPT !.value = {}], [k \in 1 .. ResetRetry |-> k])

(* target_open, which mcprog and the first session of the proxy call. *)
Open ==
    /\ Called({"new"})
    /\ \E t \in {Identified(open(s))} :
          IF t.value \in Ids
            THEN s' = t /\ st' = "idle" /\ is_running' = TRUE /\ Returned("open", <<t.value>>)
            ELSE s' = close(t) /\ st' = "exit" /\ UNCHANGED <<is_running, call, answer>>
    /\ UNCHANGED <<pc, caller, polls>>

(* stop_cpu begins; an adapter for USB waits to be heard first. *)
Requested(t) ==
    /\ s' = DebugRequest(t)
    /\ st' = IF IsUsb(s') /\ ~Acknowledged(s'.value) THEN "asking" ELSE "enabling"
    /\ polls' = 0
    /\ UNCHANGED <<is_running, pc, call, answer>>

(* Also elvees_connect, after the debugger before has left. *)
Stop ==
    /\ Called({"idle", "detached"})
    /\ IF is_running
         THEN Requested(s) /\ caller' = "stop"
         ELSE /\ st' = "idle"
              /\ Returned("stop", <<>>)
              /\ UNCHANGED <<s, is_running, pc, caller, polls>>

IsStopped ==
    /\ Called({"idle"})
    /\ \E t \in {Instruction(s, TAP_DEBUG_ENABLE)} :
          IF 2 \in t.value /\ is_running
            THEN Requested(t) /\ caller' = "is_stopped"
            ELSE /\ s' = t
                 /\ Returned("is_stopped", <<2 \in t.value>>)
                 /\ UNCHANGED <<is_running, pc, st, caller, polls>>

(* However often it has asked, it goes on. *)
AskAgain ==
    /\ st = "asking"
    /\ s' = usb_ir(s, H_DEBUG, TAP_DEBUG_REQUEST)
    /\ IF Acknowledged(s'.value) \/ polls + 1 = MaxPolls
         THEN st' = "enabling" /\ polls' = 0
         ELSE st' = st /\ polls' = polls + 1
    /\ UNCHANGED <<is_running, pc, caller, calls, call, answer>>

\* mutant: the processor is never given up.
StopCpuPollsForever ==
    /\ st = "enabling"
    /\ s' = Instruction(s, TAP_DEBUG_ENABLE)
    /\ ~InDebug(s, s'.value)
    /\ polls' = polls + 1
    /\ UNCHANGED <<is_running, pc, st, caller, calls, call, answer>>

StopCpuPolls ==
    /\ st = "enabling"
    /\ \E t \in {Instruction(s, TAP_DEBUG_ENABLE)} :
       IF InDebug(t, t.value)
         THEN /\ Ends(Oncd(t, target_save_state
                               \o IF caller = "stop"
                                    THEN <<target_read_start>> \o target_read_next(MC_CSCON3)
                                    ELSE <<>>))
              /\ is_running' = FALSE
              /\ pc' = s'.value[1]
              /\ polls' = 0
              /\ Returned(caller, IF caller = "stop" THEN <<>> ELSE <<TRUE>>)
              /\ caller' = "none"
         ELSE /\ s' = t
              /\ polls' = polls + 1
              /\ st' = IF polls' = MaxPolls THEN "exit" ELSE st
              /\ UNCHANGED <<is_running, pc, caller, call, answer>>
    /\ UNCHANGED calls

OnStopped == Called({"idle"}) /\ ~is_running

Step ==
    /\ OnStopped
    /\ \E t \in {Restored} : Ends(Oncd(StepCpu(t), target_save_state))
    /\ pc' = s'.value[1]
    /\ Returned("step", <<>>)
    /\ UNCHANGED <<is_running, caller, polls>>

(* target_resume, and elvees_close, which calls it when the debugger leaves. *)
ResumeTo(phase) ==
    /\ \E t \in {Restored} : s' = RunCpu(t)
    /\ st' = phase
    /\ is_running' = TRUE
    /\ Returned("resume", <<>>)
    /\ UNCHANGED <<pc, caller, polls>>

Resume == OnStopped /\ ResumeTo("idle")

Detach ==
    /\ Called({"idle"})
    /\ IF is_running
         THEN st' = "detached" /\ UNCHANGED <<s, is_running, pc, caller, polls, call, answer>>
         ELSE ResumeTo("detached")

Restart ==
    /\ Called({"idle"})
    /\ \E t \in {IF is_running THEN s ELSE Restored} : s' = reset_cpu(t)
    /\ is_running' = TRUE
    /\ Returned("restart", <<>>)
    /\ UNCHANGED <<pc, st, caller, polls>>

Close ==
    /\ Called({"idle"})
    /\ IF is_running THEN s' = close(s)
       ELSE \E t \in {RunCpu(u) : u \in {Restored}} : s' = close(t)
    /\ is_running' = TRUE
    /\ st' = "closed"
    /\ Returned("close", <<>>)
    /\ UNCHANGED <<pc, caller, polls>>

-----------------------------------------------------------------------------
(* Words. *)

Answers(t) ==
    /\ Ends(t)
    /\ Returned("read", s'.value)
    /\ UNCHANGED <<is_running, pc, caller, polls>>

ReadWord(span) == OnStopped /\ span[2] = 1 /\ Answers(target_read_word(s, span[1]))
ReadBlock(span) == OnStopped /\ Answers(target_read_block(s, span[1], span[2]))

Written(t) ==
    /\ Ends(t)
    /\ Returned("write", <<>>)
    /\ UNCHANGED <<is_running, pc, caller, polls>>

WriteWord(span) ==
    OnStopped /\ Len(span[2]) = 1 /\ Written(target_write_word(s, span[1], span[2][1]))
WriteNwords(span) == OnStopped /\ Written(target_write_nwords(s, Block(span[1], span[2])))
WriteBlock(span) == OnStopped /\ Written(target_write_block(s, span[1], span[2]))
Program32(span) == OnStopped /\ Written(target_program_block32(s, 0, span[1], span[2]))

(* The words of one half of the bus; for more see Programmer. *)
Program64(span) ==
    /\ OnStopped
    /\ Len(span[2]) = 1
    /\ Written(target_program_block64(s, 0, span[1], span[2]))

ProgramPage(span) ==
    /\ OnStopped
    /\ Len(span[2]) = PageWords
    /\ Written(target_program_block32_atmel(s, 0, span[1], span[2]))

GetPc ==
    /\ OnStopped
    /\ Returned("get_pc", <<pc>>)
    /\ UNCHANGED <<s, is_running, pc, st, caller, polls>>

SetPc ==
    /\ OnStopped
    /\ pc' \in Pcs
    /\ Returned("set_pc", <<>>)
    /\ UNCHANGED <<s, is_running, st, caller, polls>>

(* The processor: asked to, or at a breakpoint. *)
Halts ==
    /\ st \notin {"new", "exit"}
    /\ s.chip.running
    /\ s' = [s EXCEPT !.chip = EntersDebug(@)]
    /\ UNCHANGED <<is_running, pc, st, caller, polls, calls, call, answer>>

Next ==
    \/ Open \/ Stop \/ IsStopped \/ AskAgain \/ StopCpuPolls
    \/ Step \/ Resume \/ Detach \/ Restart \/ Close
    \/ \E span \in ReadSpans : ReadWord(span) \/ ReadBlock(span)
    \/ \E span \in WriteSpans :
          \/ WriteWord(span) \/ WriteNwords(span) \/ WriteBlock(span)
          \/ Program32(span) \/ Program64(span) \/ ProgramPage(span)
    \/ GetPc \/ SetPc \/ Halts

Spec == Init /\ [][Next]_vars

-----------------------------------------------------------------------------
(* Properties. *)

Sent == Performed(s).chip

TypeOK ==
    /\ s.kind \in UsedKinds
    /\ s.chip.tap \in DOMAIN TapNext
    /\ {is_running, s.over, s.failed} \subseteq BOOLEAN
    /\ st \in {"new", "idle", "asking", "enabling", "detached", "closed", "exit"}
    /\ caller \in {"none", "stop", "is_stopped"}
    /\ polls \in 0 .. MaxPolls
    /\ calls \in 0 .. MaxCalls
    /\ pc \in {{}} \cup {p : p \in Pcs} \cup {Stepped(p) : p \in Pcs \cup {{}}}

(* No adapter's packet outgrows the array it is put together in, nor a reply
   the one it is read into: mpsse_read_block counts on ten words fitting, and
   mpsse_send on being flushed in time. *)
BuffersHold == ~s.over

(* The host writes OSCR only when its copy changes, and from the copy: while
   the processor stands the copy is what the register holds, or will hold when
   what is collected for the MPSSE has been sent, except for RDYm. *)
CopyAgrees ==
    st = "idle" /\ ~is_running => s.oscr \ {RDYm} = Sent.oscr \ {RDYm}

(* target_close lets a processor that was stopped for the debugger run on, and
   that command has left the host when the adapter is closed. *)
ClosedLetsGo ==
    [][st' = "closed" /\ st = "idle" /\ ~is_running => s'.chip.running]_vars

(* elvees_close says of itself that the processor must be let run. *)
DetachLetsGo ==
    [][st' = "detached" /\ st = "idle" /\ ~is_running => s'.chip.running]_vars

(* The lists of pairs that the writes amount to. *)
PairLists ==
    UNION {{Block(w[1], w[2]), Programmed32(0, Block(w[1], w[2])),
            Programmed64(0, Block(w[1], w[2])), ProgrammedPage(0, Block(w[1], w[2]))} :
           w \in WriteSpans}

(* Whatever the adapter: the words read are those written last, writes arrive
   once and in the order of the calls, and the program goes on where the
   debugger left it. *)
Port == INSTANCE WordPort WITH
    running <- Sent.running, log <- Sent.log,
    pc <- IF st # "new" /\ ~is_running THEN pc ELSE Sent.pc,
    resets <- s.sysrst,
    Reads <- ReadSpans,
    Writes <- PairLists

ImplementsWordPort == Port!Spec
=============================================================================

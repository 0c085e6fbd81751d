------------------------------ MODULE GdbProxy ------------------------------
(***************************************************************************)
(* mcremote: the proxy between a debugger and the Elvees CPU.  The main    *)
(* loop of gdbproxy.c with its request handlers, the packet layer          *)
(* rp_getpkt / rp_putpkt, and the stub remote-elvees.c, over the socket    *)
(* layer (DbgSock), run control (RunControl) and a debugger (Debugger).    *)
(*                                                                         *)
(* The proxy is one thread.  A step is the code between two points where   *)
(* another actor can matter: a read of the socket, a write to it, a look   *)
(* at the chip.  The loop's flags input_error, do_reinitialize and         *)
(* do_connect only say where the next iteration starts; pc says it.        *)
(*                                                                         *)
(* elvees_connect always succeeds and always sets can_restart, and no      *)
(* packet is read before it, so the branches for a target that cannot      *)
(* restart, or fails to, are dead code with this stub.                     *)
(***************************************************************************)
EXTENDS Debugger, RunControl

CONSTANT MaxConsole   \* console packets of one remote command

ASSUME ConsoleAssumption == MaxConsole \in Nat

VARIABLES
    pc,
    rp_target_running,
    extended_protocol,
    status,     \* TRUE when status_string describes the current stop
    outq,       \* the packets the current handler still has to put
    after,      \* where the handler continues when they are out
    \* history
    owed,       \* the resuming request whose stop reply is due, 0 for none
    lost,       \* requests acknowledged with '+' and thrown away
    called,     \* the last session or run-control method of the stub called
    inherited   \* the run an earlier debugger left going, 0 for none

proxyvars == <<pc, rp_target_running, extended_protocol, status, outq, after>>
history == <<owed, lost, called, inherited>>
vars == <<proxyvars, history, rcvars, sockvars, gdbvars>>

Locations == {"open", "sockopen", "accept", "connect", "getpkt", "resumed",
              "flush", "write", "ack", "closing", "detached", "aborted"}

ReplyKinds == {"resp", "stop", "status", "cons"}

Init ==
    /\ SockInit
    /\ GdbInit
    /\ RCInit
    /\ pc = "open"
    /\ rp_target_running = FALSE
    /\ extended_protocol = FALSE
    /\ status = FALSE
    /\ outq = <<>>
    /\ after = "getpkt"
    /\ owed = 0
    /\ lost = {}
    /\ called = "none"
    /\ inherited = 0

-----------------------------------------------------------------------------
(* Sessions: the loops that reopen the target and the socket. *)

(* elvees_open finds the device open except for the first time. *)
Open ==
    /\ pc = "open"
    /\ pc' = "sockopen"
    /\ extended_protocol' = FALSE
    /\ called' = "open"
    /\ UNCHANGED <<rp_target_running, status, outq, after, owed, lost, inherited>>
    /\ UNCHANGED <<rcvars, sockvars, gdbvars>>

(* A failure is logged and the socket opened again. *)
SockOpen ==
    /\ pc = "sockopen"
    /\ OpenAsserts
    /\ \E ok \in BOOLEAN :
          /\ dbg_sock_open(ok)
          /\ pc' = IF ok THEN "accept" ELSE "sockopen"
    /\ UNCHANGED <<rp_target_running, extended_protocol, status, outq, after>>
    /\ UNCHANGED <<history, rcvars, gdbvars>>

(* The assertion at the head of dbg_sock_open fails. *)
Abort ==
    /\ pc = "sockopen"
    /\ ~OpenAsserts
    /\ pc' = "aborted"
    /\ UNCHANGED <<rp_target_running, extended_protocol, status, outq, after>>
    /\ UNCHANGED <<history, rcvars, sockvars, gdbvars>>

(* rp_target_running is not reset between two sessions. *)
Accept ==
    /\ pc = "accept"
    /\ dbg_sock_accept
    /\ GdbConnects
    /\ pc' = "connect"
    /\ inherited' = IF rp_target_running THEN owed ELSE 0
    /\ UNCHANGED <<rp_target_running, extended_protocol, status, outq, after>>
    /\ UNCHANGED <<owed, lost, called, rcvars>>

AcceptFails_noclose ==   \* mutant: the sockets are not closed
    /\ pc = "accept"
    /\ Fails("accept")
    /\ pc' = "sockopen"
    /\ UNCHANGED <<rp_target_running, extended_protocol, status, outq, after, history, rcvars>>
    /\ UNCHANGED <<dbg_sock, dbg_listen_sock, rdbuf, toProxy, toGdb, hungUp, gdbvars>>

(* listen, accept or getprotobyname fails. *)
AcceptFails ==
    /\ pc = "accept"
    /\ Fails("accept")
    /\ dbg_sock_close
    /\ pc' = "sockopen"
    /\ UNCHANGED <<rp_target_running, extended_protocol, status, outq, after>>
    /\ UNCHANGED <<history, rcvars, gdbvars>>

Connect_nostatus ==   \* mutant: the status string is not filled in
    /\ pc = "connect"
    /\ target_stop
    /\ pc' = "getpkt"
    /\ called' = "connect"
    /\ UNCHANGED <<rp_target_running, extended_protocol, status, outq, after, owed, lost, inherited>>
    /\ UNCHANGED <<sockvars, gdbvars>>

(* elvees_connect stops the CPU and fills in the status string. *)
Connect ==
    /\ pc = "connect"
    /\ target_stop
    /\ status' = TRUE
    /\ pc' = "getpkt"
    /\ called' = "connect"
    /\ UNCHANGED <<rp_target_running, extended_protocol, outq, after, owed, lost, inherited>>
    /\ UNCHANGED <<sockvars, gdbvars>>

CloseSession_stopped ==   \* mutant: the target is not closed
    /\ pc = "closing"
    /\ dbg_sock_close
    /\ pc' = "open"
    /\ UNCHANGED <<rp_target_running, extended_protocol, status, outq, after, history>>
    /\ UNCHANGED <<rcvars, fails, gdbvars>>

(* The input_error block: elvees_close lets the CPU run. *)
CloseSession ==
    /\ pc = "closing"
    /\ target_resume
    /\ dbg_sock_close
    /\ status' = FALSE
    /\ pc' = "open"
    /\ called' = "close"
    /\ UNCHANGED <<rp_target_running, extended_protocol, outq, after, owed, lost, inherited>>
    /\ UNCHANGED <<fails, gdbvars>>

-----------------------------------------------------------------------------
(* The packet layer. *)

rp_getpkt_noack ==   \* mutant: a good packet is not acknowledged
    /\ dbg_sock_readchar
    /\ NextToken.k # "bad"
    /\ UNCHANGED <<dbg_sock, dbg_listen_sock, toGdb, hungUp, fails>>

(***************************************************************************)
(* One return of rp_getpkt with something read.  A good packet has been    *)
(* acknowledged by then; a bad one is dropped without a word and the read  *)
(* goes on (SkipBad).                                                      *)
(***************************************************************************)
rp_getpkt ==
    /\ dbg_sock_readchar
    /\ NextToken.k # "bad"
    /\ toGdb' = IF NextToken.k \in AllCommands THEN Sent(Ack) ELSE toGdb
    /\ UNCHANGED <<dbg_sock, dbg_listen_sock, hungUp, fails>>

SkipBad ==
    /\ pc \in {"getpkt", "flush", "ack"}
    /\ dbg_sock_readchar
    /\ NextToken.k = "bad"
    /\ UNCHANGED <<dbg_sock, dbg_listen_sock, toGdb, hungUp, fails>>
    /\ UNCHANGED <<proxyvars, history, rcvars, gdbvars>>

(* A handler is done but for its packets: rp_putpkt, then on to k. *)
Put(packets, k) ==
    /\ outq' = packets
    /\ after' = k
    /\ pc' = "flush"

(* What rp_getpkt returns outside the main loop is thrown away. *)
Discard ==
    lost' = lost \cup (IF NextToken.k \in AllCommands THEN {NextToken.n} ELSE {})

(* rp_putpkt first reads with a zero timeout until that times out ... *)
FlushToken ==
    /\ pc = "flush"
    /\ rp_getpkt
    /\ Discard
    /\ UNCHANGED <<proxyvars, owed, called, inherited, rcvars, gdbvars>>

FlushDone ==
    /\ pc = "flush"
    /\ TimesOut
    /\ pc' = "write"
    /\ UNCHANGED <<rp_target_running, extended_protocol, status, outq, after>>
    /\ UNCHANGED <<history, rcvars, sockvars, gdbvars>>

(* ... and nothing else ends that loop: a read error only repeats it. *)
FlushFails ==
    /\ pc = "flush"
    /\ ReadFails
    /\ UNCHANGED vars

PutDone ==
    /\ outq' = Tail(outq)
    /\ pc' = IF Len(outq) > 1 THEN "flush" ELSE after
    /\ UNCHANGED <<rp_target_running, extended_protocol, status, after>>

WritePacket ==
    /\ pc = "write"
    /\ pc' = "ack"
    /\ toGdb' = Sent(Head(outq))
    /\ UNCHANGED <<rp_target_running, extended_protocol, status, outq, after>>
    /\ UNCHANGED <<dbg_sock, dbg_listen_sock, rdbuf, toProxy, hungUp, fails>>
    /\ UNCHANGED <<history, rcvars, gdbvars>>

(* Once the peer has closed, send() may report it. *)
WriteFails ==
    /\ pc = "write"
    /\ hungUp
    /\ PutDone
    /\ UNCHANGED <<history, rcvars, sockvars, gdbvars>>

AckToken_any ==   \* mutant: whatever arrives is taken for the ACK
    /\ pc = "ack"
    /\ rp_getpkt
    /\ Discard
    /\ PutDone
    /\ UNCHANGED <<owed, called, inherited, rcvars, gdbvars>>

(* Anything but an ACK makes the packet go out again. *)
AckToken ==
    /\ pc = "ack"
    /\ rp_getpkt
    /\ Discard
    /\ \/ NextToken = Ack /\ PutDone
       \/ /\ NextToken # Ack
          /\ pc' = "write"
          /\ UNCHANGED <<rp_target_running, extended_protocol, status, outq, after>>
    /\ UNCHANGED <<owed, called, inherited, rcvars, gdbvars>>

AckFails ==
    /\ pc = "ack"
    /\ ReadFails
    /\ PutDone
    /\ UNCHANGED <<history, rcvars, sockvars, gdbvars>>

-----------------------------------------------------------------------------
(* The main loop and the request handlers. *)

(* One request c, or other token, read by the loop. *)
Got(kinds) ==
    /\ pc = "getpkt"
    /\ rp_getpkt
    /\ NextToken.k \in kinds
    /\ UNCHANGED gdbvars

Reply(k) == Tok(k, NextToken.n)

(***************************************************************************)
(* Requests answered with one packet, whatever their outcome: registers,   *)
(* memory, threads, breakpoints, queries, and all the unsupported ones.    *)
(* 'R' is one of them until extended mode is on.                           *)
(***************************************************************************)
HandleQuery ==
    /\ \/ Got({"query"})
       \/ Got({"restart"}) /\ ~extended_protocol
    /\ Put(<<Reply("resp")>>, "getpkt")
    /\ UNCHANGED <<rp_target_running, extended_protocol, status, history, rcvars>>

HandleStatus ==
    /\ Got({"status"})
    /\ Put(<<Reply("status")>>, "getpkt")
    /\ UNCHANGED <<rp_target_running, extended_protocol, status, history, rcvars>>

HandleExtended ==
    /\ Got({"ext"})
    /\ extended_protocol' = TRUE
    /\ Put(<<Reply("resp")>>, "getpkt")
    /\ UNCHANGED <<rp_target_running, status, history, rcvars>>

HandleRemoteCommand_first ==   \* mutant: the reply overtakes the console packets
    /\ Got({"rcmd"})
    /\ \E n \in 0..MaxConsole :
          Put(<<Reply("resp")>> \o [i \in 1..n |-> Reply("cons")], "getpkt")
    /\ UNCHANGED <<rp_target_running, extended_protocol, status, history, rcvars>>

(* qRcmd: the console packets of rp_console_output, then the reply. *)
HandleRemoteCommand ==
    /\ Got({"rcmd"})
    /\ \E n \in 0..MaxConsole :
          Put([i \in 1..n |-> Reply("cons")] \o <<Reply("resp")>>, "getpkt")
    /\ UNCHANGED <<rp_target_running, extended_protocol, status, history, rcvars>>

(* A run command that fails ('w' is not supported, a signal or an address does
   not decode) is answered only while the target is not taken to be running. *)
HandleRunError ==
    /\ Got({"go", "badrun"})
    /\ IF rp_target_running
         THEN UNCHANGED proxyvars
         ELSE /\ Put(<<Reply("resp")>>, "getpkt")
              /\ UNCHANGED <<rp_target_running, extended_protocol, status>>
    /\ UNCHANGED <<history, rcvars>>

HandleRun_replies ==   \* mutant: the resume itself is answered
    /\ Got(RunCommands)
    /\ \/ NextToken.k = "step" /\ target_step
       \/ NextToken.k # "step" /\ target_resume
    /\ rp_target_running' = TRUE
    /\ status' = FALSE
    /\ Put(<<Reply("resp")>>, "getpkt")
    /\ owed' = NextToken.n
    /\ called' = "resume"
    /\ UNCHANGED <<extended_protocol, lost, inherited>>

(* Only resume_from_current looks at the step flag; resume_from_addr runs. *)
HandleRun ==
    /\ Got(RunCommands)
    /\ \/ NextToken.k = "step" /\ target_step
       \/ NextToken.k = "cont" /\ target_resume
       \/ NextToken.k \in {"contfrom", "stepfrom"} /\ target_run
    /\ rp_target_running' = TRUE
    /\ status' = FALSE
    /\ pc' = "resumed"
    /\ owed' = NextToken.n
    /\ called' = "resume"
    /\ UNCHANGED <<extended_protocol, outq, after, lost, inherited>>

(* elvees_wait_partial: the stop reply, or nothing while the CPU runs. *)
WaitPartial ==
    /\ called' = "wait"
    /\ \/ /\ target_is_stopped(FALSE)
          /\ pc' = "getpkt"
          /\ UNCHANGED <<rp_target_running, status, outq, after, owed>>
       \/ /\ target_is_stopped(TRUE)
          /\ rp_target_running' = FALSE
          /\ status' = TRUE
          /\ Put(<<Tok("stop", owed)>>, "getpkt")
          /\ owed' = 0
    /\ UNCHANGED <<extended_protocol, lost, inherited, sockvars, gdbvars>>

Resumed == pc = "resumed" /\ WaitPartial

(* The read timed out after 100 ms; without a running target it never does. *)
Poll ==
    /\ pc = "getpkt"
    /\ rp_target_running
    /\ TimesOut
    /\ WaitPartial

HandleInterrupt_ignored ==   \* mutant: the target is not stopped
    /\ Got({"intr"})
    /\ UNCHANGED <<rcvars, proxyvars, history>>

HandleInterrupt ==
    /\ Got({"intr"})
    /\ IF rp_target_running
         THEN target_stop /\ called' = "stop"
         ELSE UNCHANGED <<rcvars, called>>
    /\ UNCHANGED <<proxyvars, owed, lost, inherited>>

IgnoreToken ==
    /\ Got({"ack", "nak"})
    /\ UNCHANGED <<proxyvars, history, rcvars>>

(* In extended mode the target starts again and the session goes on with it;
   otherwise stub and connection are closed as after an input error. *)
HandleKill ==
    /\ Got({"kill"})
    /\ \/ /\ ~extended_protocol
          /\ pc' = "closing"
          /\ called' = "kill"
          /\ UNCHANGED rcvars
       \/ /\ extended_protocol
          /\ target_restart
          /\ pc' = "connect"
          /\ called' = "restart"
    /\ UNCHANGED <<rp_target_running, extended_protocol, status, outq, after, owed, lost, inherited>>

HandleRestart_noconnect ==   \* mutant: connect is not called
    /\ Got({"restart"})
    /\ extended_protocol
    /\ target_restart
    /\ pc' = "getpkt"
    /\ called' = "restart"
    /\ UNCHANGED <<rp_target_running, extended_protocol, status, outq, after, owed, lost, inherited>>

HandleRestart ==
    /\ Got({"restart"})
    /\ extended_protocol
    /\ target_restart
    /\ pc' = "connect"
    /\ called' = "restart"
    /\ UNCHANGED <<rp_target_running, extended_protocol, status, outq, after, owed, lost, inherited>>

HandleDetach_noclose ==   \* mutant: the connection is left open
    /\ Got({"detach"})
    /\ target_resume
    /\ status' = FALSE
    /\ called' = "close"
    /\ Put(<<Reply("resp")>>, "open")
    /\ UNCHANGED <<rp_target_running, extended_protocol, owed, lost, inherited>>

(* elvees_disconnect does nothing; the close lets the CPU run, and only then
   the reply goes out and the connection is closed. *)
HandleDetach ==
    /\ Got({"detach"})
    /\ target_resume
    /\ status' = FALSE
    /\ called' = "close"
    /\ Put(<<Reply("resp")>>, "detached")
    /\ UNCHANGED <<rp_target_running, extended_protocol, owed, lost, inherited>>

Detached ==
    /\ pc = "detached"
    /\ dbg_sock_close
    /\ pc' = "open"
    /\ UNCHANGED <<rp_target_running, extended_protocol, status, outq, after>>
    /\ UNCHANGED <<history, rcvars, fails, gdbvars>>

DebuggerGone_retry ==   \* mutant: the read error is ignored
    /\ pc = "getpkt"
    /\ ReadFails
    /\ UNCHANGED vars

(* The read fails: input_error. *)
DebuggerGone ==
    /\ pc = "getpkt"
    /\ ReadFails
    /\ pc' = "closing"
    /\ UNCHANGED <<rp_target_running, extended_protocol, status, outq, after>>
    /\ UNCHANGED <<history, rcvars, sockvars, gdbvars>>

-----------------------------------------------------------------------------
Handle ==
    \/ HandleQuery \/ HandleStatus \/ HandleExtended \/ HandleRemoteCommand
    \/ HandleRunError \/ HandleRun \/ HandleInterrupt \/ IgnoreToken
    \/ HandleKill \/ HandleRestart \/ HandleDetach

(* Every step the proxy takes on its own; it cannot make a debugger connect. *)
Proxy ==
    \/ Open \/ SockOpen \/ Abort \/ AcceptFails \/ Connect \/ CloseSession
    \/ SkipBad \/ FlushToken \/ FlushDone \/ FlushFails
    \/ WritePacket \/ WriteFails \/ AckToken \/ AckFails
    \/ Handle \/ Resumed \/ Poll \/ Detached \/ DebuggerGone

Chip == CpuHalts /\ UNCHANGED <<proxyvars, history, sockvars, gdbvars>>

Gdb == GdbStep /\ UNCHANGED <<proxyvars, history, rcvars>>

Next == Proxy \/ Accept \/ Chip \/ Gdb

Spec == Init /\ [][Next]_vars

(***************************************************************************)
(* The proxy is a loop that never waits for anything but its socket, and a *)
(* debugger reads what it is sent and repeats a request that got no '+'.   *)
(* Nobody is obliged to connect, to send a request or to halt the CPU.     *)
(***************************************************************************)
GdbAnswers ==
    /\ polite
    /\ GdbRepeat \/ GdbAcked \/ GdbGobbles \/ GdbReads \/ GdbDetaches \/ GdbSeesEof
    /\ UNCHANGED <<proxyvars, history, rcvars>>

Fairness == WF_vars(Proxy) /\ WF_vars(GdbAnswers)

FairSpec == Spec /\ Fairness

-----------------------------------------------------------------------------
(* Properties. *)

Tokens == [k : AllCommands \cup ReplyKinds \cup {"bad", "ack", "nak", "intr"}, n : Nat]

(* Types of all the variables of the proxy and its surroundings. *)
TypeOK ==
    /\ pc \in Locations
    /\ {rp_target_running, extended_protocol, status} \subseteq BOOLEAN
    /\ outq \in Seq(Tokens)
    /\ after \in {"getpkt", "detached"}
    /\ {owed, inherited} \subseteq Nat
    /\ lost \subseteq Nat
    /\ called \in {"none", "open", "connect", "close", "kill", "restart", "stop",
                   "resume", "wait"}
    /\ RCTypeOK
    /\ {dbg_sock, dbg_listen_sock, hungUp} \subseteq BOOLEAN
    /\ {rdbuf, toProxy, toGdb} \subseteq Seq(Tokens)
    /\ fails \in [Fallible -> 0 .. MaxFails]
    /\ {sent, first, sessions, faults} \subseteq Nat
    /\ gdb \in Phases
    /\ req \in Tokens
    /\ {polite, gext, bad, broke} \subseteq BOOLEAN

(* While the loop takes requests and does not take the target to be running,
   the CPU is stopped and the host knows it: registers and memory are never
   read from a running CPU behind the debugger's back, whatever ended the last
   run (a breakpoint, Control-C, a reset, another session). *)
ServesStoppedCpu ==
    pc = "getpkt" /\ ~rp_target_running => ~is_running /\ cpu = "stopped"

(* In the same situation '?' answers with the stop that is current, not with
   that of an earlier run: each way to stop the CPU renews status_string. *)
StatusIsCurrent ==
    pc = "getpkt" /\ ~rp_target_running => status

(* elvees_close must let the CPU run each time a debugger leaves: whichever way
   a session ended, no CPU the host has stopped stays stopped while nobody
   debugs.  (One that halts on its own and is not polled
   before the session ends does: target_resume does nothing then.) *)
CpuReleased ==
    pc \in {"open", "sockopen", "accept"} => is_running

(* The assertions of dbg_sock_open and dbg_sock_accept hold until bind() has
   failed: every way out of a session, and every other failed attempt to open
   one, closes what it opened. *)
SocketsClean == pc = "aborted" => fails["bind"] > 0

(* A reply the debugger takes for the answer to its request is the answer to
   that request: neither a repeated packet nor a late stop reply shifts the
   correspondence. *)
RepliesMatch ==
    gdb = "reply" /\ toGdb # <<>> /\ Head(toGdb) # Ack => Head(toGdb).n = req.n

(* A debugger that has come after another is sent answers to its own requests
   only, in whatever phase the other one vanished and whatever it left on the way;
   but for the stop of a run that the other one left going, which the next poll
   reports to whoever is there. *)
RepliesOfThisSession ==
    polite => \A i \in DOMAIN toGdb :
        \/ toGdb[i] = Ack
        \/ toGdb[i].n > first
        \/ inherited > 0 /\ toGdb[i] = Tok("stop", inherited)

(* rp_putpkt acknowledges and throws away what it reads: it must never meet a
   request there. *)
NoRequestLost == lost = {}

(* The receive buffer outlives a connection.  What an earlier debugger left in
   it, unless it was a rogue, may be the acknowledgement of a packet sent twice,
   which the next session ignores, but never a request or a Control-C, which it would obey. *)
OnlyAcksLeftOver ==
    polite /\ pc = "accept" => \A i \in DOMAIN rdbuf : rdbuf[i] \in {Ack, Nak}

(* gdbproxy.h lists the sequences the stub's methods are called in: restart is
   followed by connect, stop by a wait, kill by close (restart of a killed
   target is part of the step that kills it). *)
CallOrder ==
    [][/\ called = "restart" => called' \in {"restart", "connect"}
       /\ called = "stop" => called' \in {"stop", "wait"}
       /\ called = "kill" => called' \in {"kill", "close"}]_vars

(* A request other than a resume is answered, or its session ends. *)
RequestAnswered ==
    gdb \in {"ack", "reply"} /\ req.k \notin RunCommands ~> gdb \in {"idle", "gone"}

(* Control-C ends a run that nothing else would end. *)
InterruptStops == gdb = "reply" /\ broke ~> gdb \in {"idle", "gone"}

(* When the debugger has left, the proxy waits for the next one. *)
WaitsForNext == gdb = "gone" ~> pc = "accept"
=============================================================================

--------------------------- MODULE GdbProxyProofs ---------------------------
(***************************************************************************)
(* Safety of the main loop of mcremote against any debugger, for any number*)
(* of sessions, requests and failing calls.                                *)
(*                                                                         *)
(* The three properties of the CPU and the socket property follow from one *)
(* inductive invariant, LoopInv.  It has to say more than they do because  *)
(* between reading a request and coming back to the next read the loop     *)
(* passes through rp_putpkt and the reopening of a session, where nothing  *)
(* is read but the CPU's state and the flag must already agree.  It speaks *)
(* of no debugger variable: a debugger moves only its own state, the bytes *)
(* in flight and its end of the connection (EnvStep), be it polite or not. *)
(***************************************************************************)
EXTENDS GdbProxy, SequenceTheorems, TLAPS

(* Types of the variables the argument needs. *)
LoopTypes ==
    /\ pc \in Locations
    /\ after \in {"getpkt", "detached"}
    /\ rp_target_running \in BOOLEAN
    /\ status \in BOOLEAN
    /\ is_running \in BOOLEAN
    /\ cpu \in {"running", "stopped"}
    /\ dbg_sock \in BOOLEAN
    /\ dbg_listen_sock \in BOOLEAN

(* Only the host can make a stopped CPU run again. *)
HostBelief == ~is_running => cpu = "stopped"

Putting == pc \in {"flush", "write", "ack"}

(* Where a session is served: at the read, or on the way back to it. *)
Serving == pc = "getpkt" \/ (Putting /\ after = "getpkt")

(* Where it is over and the CPU has been let go. *)
Released ==
    pc \in {"open", "sockopen", "accept", "detached"} \/ (Putting /\ after = "detached")

LoopInv ==
    /\ LoopTypes
    /\ HostBelief
    /\ Serving /\ ~rp_target_running => ~is_running /\ status
    /\ pc = "resumed" => rp_target_running
    /\ Released => is_running

(* A step of a debugger, of either kind, as the loop sees it. *)
EnvStep == UNCHANGED <<proxyvars, history, rcvars, dbg_sock, dbg_listen_sock, fails>>

LEMMA GdbIsEnv == Gdb => EnvStep
<1> DEFINE Same == UNCHANGED <<dbg_sock, dbg_listen_sock, fails>>
<1>1. PoliteStep => Same
  <2>1. ASSUME NEW c \in Commands, GdbRequest(c) PROVE Same
    BY <2>1 DEF GdbRequest, Write
  <2>2. GdbRepeat \/ GdbInterrupts => Same
    BY DEF GdbRepeat, GdbInterrupts, Write
  <2>3. GdbAcked \/ GdbSeesEof \/ GdbCloses => Same
    BY Zenon DEF GdbAcked, GdbSeesEof, GdbCloses, Vanish, Consume
  <2>4. GdbGobbles \/ GdbReads => Same
    BY DEF GdbGobbles, GdbReads, Consume
  <2>5. GdbDetaches => Same
    BY DEF GdbDetaches
  <2> QED
    BY <2>1, <2>2, <2>3, <2>4, <2>5 DEF PoliteStep
<1>2. RogueStep => Same
  BY DEF RogueStep, RogueSends, RogueReads, RogueVanishes, Vanish, Write, Consume
<1> QED
  BY <1>1, <1>2 DEF Gdb, GdbStep, EnvStep

LEMMA LoopInit == Init => LoopInv
  BY DEF Init, SockInit, RCInit, LoopInv, LoopTypes, HostBelief, Serving, Released,
     Putting, Locations

-----------------------------------------------------------------------------
(* Each step keeps the invariant: the session loops, the packet layer, the
   handlers, and the other actors. *)

LEMMA SessionSteps ==
    LoopInv /\ (Open \/ SockOpen \/ Abort \/ Accept \/ AcceptFails \/ Connect
                \/ CloseSession \/ DebuggerGone \/ Detached)
    => LoopInv'
<1> USE DEF LoopInv, LoopTypes, HostBelief, Serving, Released, Putting, Locations
<1> SUFFICES ASSUME LoopInv,
                    Open \/ SockOpen \/ Abort \/ Accept \/ AcceptFails \/ Connect
                    \/ CloseSession \/ DebuggerGone \/ Detached
             PROVE  LoopInv'
  OBVIOUS
<1>1. CASE Open
  BY <1>1 DEF Open, rcvars, sockvars
<1>2. CASE SockOpen
  BY <1>2 DEF SockOpen, dbg_sock_open, rcvars
<1>3. CASE Abort
  BY <1>3 DEF Abort, rcvars, sockvars
<1>4. CASE Accept
  BY <1>4 DEF Accept, dbg_sock_accept, rcvars
<1>5. CASE AcceptFails
  BY <1>5 DEF AcceptFails, dbg_sock_close, rcvars
<1>6. CASE Connect
  BY <1>6 DEF Connect, target_stop, sockvars
<1>7. CASE CloseSession
  BY <1>7 DEF CloseSession, target_resume, dbg_sock_close
<1>8. CASE DebuggerGone
  BY <1>8 DEF DebuggerGone, rcvars, sockvars
<1>9. CASE Detached
  BY <1>9 DEF Detached, dbg_sock_close, rcvars
<1> QED
  BY <1>1, <1>2, <1>3, <1>4, <1>5, <1>6, <1>7, <1>8, <1>9

LEMMA PacketSteps ==
    LoopInv /\ (SkipBad \/ FlushToken \/ FlushDone \/ FlushFails \/ WritePacket
                \/ WriteFails \/ AckToken \/ AckFails)
    => LoopInv'
<1> USE DEF LoopInv, LoopTypes, HostBelief, Serving, Released, Putting, Locations
<1> SUFFICES ASSUME LoopInv,
                    SkipBad \/ FlushToken \/ FlushDone \/ FlushFails \/ WritePacket
                    \/ WriteFails \/ AckToken \/ AckFails
             PROVE  LoopInv'
  OBVIOUS
<1>1. CASE SkipBad
  BY <1>1 DEF SkipBad, proxyvars, rcvars
<1>2. CASE FlushToken
  BY <1>2 DEF FlushToken, rp_getpkt, proxyvars, rcvars
<1>3. CASE FlushDone
  BY <1>3 DEF FlushDone, rcvars, sockvars
<1>4. CASE FlushFails
  BY <1>4 DEF FlushFails, vars, proxyvars, rcvars, sockvars
<1>5. CASE WritePacket
  BY <1>5 DEF WritePacket, rcvars
<1>6. CASE WriteFails
  BY <1>6 DEF WriteFails, PutDone, rcvars, sockvars
<1>7. CASE AckToken
  BY <1>7 DEF AckToken, PutDone, rp_getpkt, rcvars
<1>8. CASE AckFails
  BY <1>8 DEF AckFails, PutDone, rcvars, sockvars
<1> QED
  BY <1>1, <1>2, <1>3, <1>4, <1>5, <1>6, <1>7, <1>8

(* What the host believes of the CPU survives every call of run control. *)
RCInv == is_running \in BOOLEAN /\ cpu \in {"running", "stopped"} /\ HostBelief

LEMMA TargetCalls ==
    ASSUME RCInv, target_step \/ target_resume \/ target_run
    PROVE  RCInv'
<1>1. CASE target_step
  BY <1>1, Zenon DEF target_step, rcvars, RCInv, HostBelief
<1>2. CASE target_resume
  BY <1>2 DEF target_resume, RCInv, HostBelief
<1>3. CASE target_run
  BY <1>3 DEF target_run, RCInv, HostBelief
<1> QED
  BY <1>1, <1>2, <1>3

LEMMA HandlerSteps == LoopInv /\ (Handle \/ Resumed \/ Poll) => LoopInv'
<1> USE DEF LoopInv, LoopTypes, HostBelief, Serving, Released, Putting, Locations,
            Got, Put, rp_getpkt
<1> SUFFICES ASSUME LoopInv, Handle \/ Resumed \/ Poll
             PROVE  LoopInv'
  OBVIOUS
<1>1. CASE HandleQuery
  BY <1>1 DEF HandleQuery, rcvars
<1>2. CASE HandleStatus
  BY <1>2 DEF HandleStatus, rcvars
<1>3. CASE HandleExtended
  BY <1>3 DEF HandleExtended, rcvars
<1>4. CASE HandleRemoteCommand
  BY <1>4 DEF HandleRemoteCommand, rcvars
<1>5. CASE HandleRunError
  BY <1>5 DEF HandleRunError, proxyvars, rcvars
<1>6. CASE HandleRun
  <2>1. RCInv'
    <3>1. target_step \/ target_resume \/ target_run
      BY <1>6 DEF HandleRun
    <3> QED
      BY <3>1, TargetCalls DEF RCInv
  <2>2. /\ pc' = "resumed"
        /\ rp_target_running' = TRUE
        /\ status' = FALSE
        /\ UNCHANGED <<after, dbg_sock, dbg_listen_sock>>
    BY <1>6 DEF HandleRun
  <2> QED
    BY <2>1, <2>2 DEF RCInv
<1>7. CASE HandleInterrupt
  BY <1>7 DEF HandleInterrupt, target_stop, proxyvars, rcvars
<1>8. CASE IgnoreToken
  BY <1>8 DEF IgnoreToken, proxyvars, rcvars
<1>9. CASE HandleKill
  <2>1. CASE extended_protocol
    BY <1>9, <2>1 DEF HandleKill, target_restart
  <2>2. CASE ~extended_protocol
    <3>1. UNCHANGED <<is_running, cpu>>
      BY <1>9, <2>2, Zenon DEF HandleKill, rcvars
    <3>2. /\ pc' = "closing"
          /\ UNCHANGED <<rp_target_running, status, after, dbg_sock, dbg_listen_sock>>
      BY <1>9, <2>2, Zenon DEF HandleKill
    <3> QED
      BY <3>1, <3>2
  <2> QED
    BY <2>1, <2>2
<1>10. CASE HandleRestart
  BY <1>10 DEF HandleRestart, target_restart, rcvars
<1>11. CASE HandleDetach
  BY <1>11 DEF HandleDetach, target_resume, rcvars
<1>12. CASE Resumed \/ Poll
  BY <1>12 DEF Resumed, Poll, WaitPartial, target_is_stopped, sockvars
<1> QED
  BY <1>1, <1>2, <1>3, <1>4, <1>5, <1>6, <1>7, <1>8, <1>9, <1>10, <1>11, <1>12
     DEF Handle

LEMMA OtherSteps == LoopInv /\ (Chip \/ EnvStep \/ UNCHANGED vars) => LoopInv'
  BY DEF Chip, CpuHalts, EnvStep, vars, proxyvars, rcvars, sockvars, LoopInv, LoopTypes,
         HostBelief, Serving, Released, Putting

LEMMA LoopStep == LoopInv /\ (Proxy \/ Accept \/ Chip \/ EnvStep \/ UNCHANGED vars) => LoopInv'
  BY SessionSteps, PacketSteps, HandlerSteps, OtherSteps DEF Proxy

-----------------------------------------------------------------------------
LEMMA LoopImplies ==
    LoopInv => ServesStoppedCpu /\ StatusIsCurrent /\ CpuReleased
  BY DEF LoopInv, HostBelief, Serving, Released, ServesStoppedCpu, StatusIsCurrent,
         CpuReleased

(* With a polite debugger, and with a rogue one, the invariant of the main loop
   always holds. *)
THEOREM LoopInvariant == Spec => []LoopInv
<1>1. LoopInv /\ [Next]_vars => LoopInv'
  BY LoopStep, GdbIsEnv DEF Next
<1> QED
  BY LoopInit, <1>1, PTL DEF Spec

(* The loop serves requests of a debugger, however it behaves, with the CPU
   stopped or the target known to be running. *)
THEOREM ServesStopped == Spec => []ServesStoppedCpu
  BY LoopInvariant, LoopImplies, PTL

(* '?' is answered with the current stop, whatever the debugger sent before. *)
THEOREM StatusCurrent == Spec => []StatusIsCurrent
  BY LoopInvariant, LoopImplies, PTL

(* Every way out of a session lets the CPU run, also when the debugger
   vanishes in any phase and system calls fail. *)
THEOREM CpuLetGo == Spec => []CpuReleased
  BY LoopInvariant, LoopImplies, PTL

-----------------------------------------------------------------------------
(* The sockets.  Where a socket is opened nothing may be open, and a session
   that ends in rp_putpkt (detach) comes back through Detached, which closes. *)
SockInv ==
    /\ pc \in Locations
    /\ after \in {"getpkt", "detached"}
    /\ fails \in [Fallible -> Nat]
    /\ pc \in {"open", "sockopen"} => OpenAsserts \/ fails["bind"] > 0
    /\ pc = "aborted" => fails["bind"] > 0

LEMMA SockStep ==
    ASSUME SockInv,
           Proxy \/ Accept \/ Chip \/ EnvStep \/ UNCHANGED vars
    PROVE  SockInv'
<1> USE DEF SockInv, OpenAsserts, Locations, Got, Put, PutDone, rp_getpkt
<1>1. CASE Open \/ SockOpen \/ Abort
  BY <1>1 DEF Open, SockOpen, Abort, dbg_sock_open, Fails, Fallible, sockvars
<1>2. CASE Accept \/ AcceptFails \/ Connect \/ CloseSession \/ Detached \/ DebuggerGone
  <2>1. CASE Accept \/ Connect \/ DebuggerGone
    BY <2>1 DEF Accept, Connect, DebuggerGone, dbg_sock_accept, sockvars
  <2>2. CASE AcceptFails
    BY <2>2 DEF AcceptFails, Fails, Fallible, dbg_sock_close
  <2>3. CASE CloseSession \/ Detached
    BY <2>3 DEF CloseSession, Detached, dbg_sock_close
  <2> QED
    BY <1>2, <2>1, <2>2, <2>3
<1>3. CASE SkipBad \/ FlushToken \/ FlushDone \/ FlushFails
  BY <1>3 DEF SkipBad, FlushToken, FlushDone, FlushFails, proxyvars, vars, sockvars
<1>4. CASE WritePacket \/ WriteFails \/ AckToken \/ AckFails
  BY <1>4 DEF WritePacket, WriteFails, AckToken, AckFails, sockvars
<1>5. CASE Handle
  <2>1. CASE HandleQuery \/ HandleStatus \/ HandleExtended \/ HandleRemoteCommand
    BY <2>1 DEF HandleQuery, HandleStatus, HandleExtended, HandleRemoteCommand
  <2>2. CASE HandleRunError \/ HandleRun \/ HandleDetach
    BY <2>2 DEF HandleRunError, HandleRun, HandleDetach, proxyvars
  <2>3. CASE HandleInterrupt \/ IgnoreToken
    BY <2>3 DEF HandleInterrupt, IgnoreToken, proxyvars
  <2>4. CASE HandleKill \/ HandleRestart
    BY <2>4 DEF HandleKill, HandleRestart
  <2> QED
    BY <1>5, <2>1, <2>2, <2>3, <2>4 DEF Handle
<1>6. CASE Resumed \/ Poll
  BY <1>6 DEF Resumed, Poll, WaitPartial, sockvars
<1>7. CASE Chip \/ EnvStep \/ UNCHANGED vars
  BY <1>7 DEF Chip, EnvStep, vars, proxyvars, sockvars
<1> QED
  BY <1>1, <1>2, <1>3, <1>4, <1>5, <1>6, <1>7 DEF Proxy

(* Until bind() fails, the assertions of dbg_sock_open and dbg_sock_accept
   hold, however the debugger behaves and whichever other calls fail. *)
THEOREM SocketsStayClean == Spec => []SocketsClean
<1>1. Init => SockInv
  BY DEF Init, SockInit, SockInv, OpenAsserts, Locations, Fallible
<1>2. SockInv /\ [Next]_vars => SockInv'
  BY SockStep, GdbIsEnv DEF Next
<1>3. SockInv => SocketsClean
  BY DEF SockInv, SocketsClean
<1> QED
  BY <1>1, <1>2, <1>3, PTL DEF Spec

-----------------------------------------------------------------------------
(* Types of all variables, and for a polite debugger the order in which      *)
(* requests, acknowledgements and replies can be on their way, however often *)
(* it vanishes and whatever is spoiled.                                      *)

(* What the proxy has still to read: its buffer, then the connection. *)
chan == rdbuf \o toProxy

SockTypes ==
    /\ dbg_sock \in BOOLEAN /\ dbg_listen_sock \in BOOLEAN /\ hungUp \in BOOLEAN
    /\ rdbuf \in Seq(Tokens) /\ toProxy \in Seq(Tokens) /\ toGdb \in Seq(Tokens)
    /\ fails \in [Fallible -> 0 .. MaxFails]

GdbTypes ==
    /\ sent \in Nat /\ first \in Nat /\ sessions \in Nat /\ faults \in Nat
    /\ gdb \in Phases
    /\ req \in Tokens
    /\ polite \in BOOLEAN /\ gext \in BOOLEAN /\ bad \in BOOLEAN /\ broke \in BOOLEAN

ProxyTypes ==
    /\ pc \in Locations
    /\ rp_target_running \in BOOLEAN /\ extended_protocol \in BOOLEAN /\ status \in BOOLEAN
    /\ outq \in Seq(Tokens)
    /\ after \in {"getpkt", "detached"}
    /\ owed \in Nat /\ inherited \in Nat
    /\ lost \subseteq Nat
    /\ called \in {"none", "open", "connect", "close", "kill", "restart", "stop",
                   "resume", "wait"}
    /\ is_running \in BOOLEAN /\ cpu \in {"running", "stopped"}

LEMMA TypeParts == TypeOK <=> SockTypes /\ GdbTypes /\ ProxyTypes
  BY DEF TypeOK, SockTypes, GdbTypes, ProxyTypes, RCTypeOK

-----------------------------------------------------------------------------
(* Sequences, entry by entry. *)

LEMMA TailEntries ==
    ASSUME NEW S, NEW s \in Seq(S), s # <<>>
    PROVE  /\ Tail(s) \in Seq(S) /\ Len(Tail(s)) = Len(s) - 1
           /\ Len(s) \in Nat \ {0} /\ 1 \in DOMAIN s /\ Head(s) = s[1] /\ s[1] \in S
           /\ \A i \in DOMAIN Tail(s) : i + 1 \in DOMAIN s /\ Tail(s)[i] = s[i + 1]
           /\ \A i \in DOMAIN s :
                 i = 1 \/ (i - 1 \in DOMAIN Tail(s) /\ s[i] = Tail(s)[i - 1])
           /\ DOMAIN s \subseteq Nat \ {0} /\ DOMAIN Tail(s) \subseteq Nat \ {0}
<1>1. /\ Head(s) = s[1] /\ Head(s) \in S /\ Tail(s) \in Seq(S) /\ Len(Tail(s)) = Len(s) - 1
      /\ \A i \in 1 .. Len(Tail(s)) : Tail(s)[i] = s[i + 1]
  BY HeadTailProperties
<1>2. Len(s) \in Nat /\ DOMAIN s = 1 .. Len(s) /\ Len(s) # 0
  BY LenProperties, EmptySeq
<1>3. DOMAIN Tail(s) = 1 .. Len(Tail(s))
  BY <1>1, LenProperties
<1> QED
  BY <1>1, <1>2, <1>3

LEMMA AppendEntries ==
    ASSUME NEW S, NEW s \in Seq(S), NEW e \in S
    PROVE  /\ Append(s, e) \in Seq(S) /\ Len(Append(s, e)) = Len(s) + 1
           /\ Len(s) \in Nat /\ DOMAIN s = 1 .. Len(s)
           /\ DOMAIN Append(s, e) = DOMAIN s \cup {Len(s) + 1}
           /\ \A i \in DOMAIN s : Append(s, e)[i] = s[i]
           /\ Append(s, e)[Len(s) + 1] = e
           /\ \A i \in DOMAIN s : i \in Nat \ {0} /\ i < Len(s) + 1
<1>1. Append(s, e) \in Seq(S) /\ Len(Append(s, e)) = Len(s) + 1
      /\ \A i \in 1 .. Len(s) : Append(s, e)[i] = s[i]
      /\ Append(s, e)[Len(s) + 1] = e
  BY AppendProperties
<1>2. Len(s) \in Nat /\ DOMAIN s = 1 .. Len(s)
      /\ DOMAIN Append(s, e) = 1 .. Len(Append(s, e))
  BY <1>1, LenProperties
<1> QED
  BY <1>1, <1>2

LEMMA ConcatEntries ==
    ASSUME NEW S, NEW s \in Seq(S), NEW t \in Seq(S)
    PROVE  /\ s \o t \in Seq(S) /\ Len(s \o t) = Len(s) + Len(t)
           /\ Len(s) \in Nat /\ Len(t) \in Nat
           /\ DOMAIN s = 1 .. Len(s) /\ DOMAIN (s \o t) = 1 .. Len(s) + Len(t)
           /\ \A i \in DOMAIN s : (s \o t)[i] = s[i]
<1>1. /\ s \o t \in Seq(S) /\ Len(s \o t) = Len(s) + Len(t)
      /\ \A i \in 1 .. Len(s) + Len(t) :
            (s \o t)[i] = IF i <= Len(s) THEN s[i] ELSE t[i - Len(s)]
  BY ConcatProperties
<1>2. /\ Len(s) \in Nat /\ Len(t) \in Nat /\ DOMAIN s = 1 .. Len(s)
      /\ DOMAIN (s \o t) = 1 .. Len(s \o t)
  BY <1>1, LenProperties
<1> QED
  BY <1>1, <1>2

LEMMA TokensOfAll ==
    /\ Ack \in Tokens /\ Nak \in Tokens /\ Intr \in Tokens
    /\ Ack # Nak /\ Ack # Intr /\ Nak # Intr
    /\ \A k \in AllCommands \cup ReplyKinds \cup {"bad", "ack", "nak", "intr"}, n \in Nat :
          Tok(k, n) \in Tokens /\ Tok(k, n).k = k /\ Tok(k, n).n = n
    /\ \A t \in Tokens : t.k = "ack" /\ t.n = 0 => t = Ack
  BY DEF Tokens, Tok, Ack, Nak, Intr

-----------------------------------------------------------------------------
(* The proxy's end of the connection. *)

(* A read takes the first token there is. *)
LEMMA ChanRead ==
    ASSUME SockTypes, dbg_sock_readchar
    PROVE  /\ chan \in Seq(Tokens) /\ chan # <<>> /\ NextToken = Head(chan)
           /\ NextToken \in Tokens
           /\ chan' = Tail(chan)
           /\ rdbuf' \in Seq(Tokens) /\ toProxy' \in Seq(Tokens)
<1> USE DEF SockTypes
<1>1. chan \in Seq(Tokens)
  BY ConcatProperties DEF chan
<1>2. CASE rdbuf # <<>>
  <2>1. rdbuf' = Tail(rdbuf) /\ toProxy' = toProxy /\ NextToken = Head(rdbuf)
    BY <1>2 DEF dbg_sock_readchar, NextToken
  <2>2. PICK h \in Tokens, t \in Seq(Tokens) : rdbuf = <<h>> \o t
    <3>1. rdbuf = <<Head(rdbuf)>> \o Tail(rdbuf)
      BY <1>2
    <3> QED
      BY <1>2, <3>1, HeadTailProperties
  <2>3. Head(rdbuf) = h /\ Tail(rdbuf) = t
    BY <2>2
  <2>4. chan = <<h>> \o (t \o toProxy)
    BY <2>2, ConcatAssociative DEF chan
  <2>5. chan # <<>> /\ Head(chan) = h /\ Tail(chan) = t \o toProxy
    BY <2>2, <2>4
  <2> QED
    BY <1>1, <2>1, <2>2, <2>3, <2>5, SMTT(60) DEF chan
<1>3. CASE rdbuf = <<>>
  <2>1. toProxy # <<>> /\ rdbuf' = Tail(toProxy) /\ toProxy' = <<>>
        /\ NextToken = Head(toProxy)
    BY <1>3 DEF dbg_sock_readchar, NextToken, Readable
  <2>2. chan = toProxy
    BY <1>3, ConcatEmptySeq DEF chan
  <2>3. Tail(toProxy) \in Seq(Tokens) /\ Head(toProxy) \in Tokens
    BY <2>1, HeadTailProperties
  <2>4. chan' = Tail(toProxy)
    BY <2>1, <2>3, ConcatEmptySeq DEF chan
  <2> QED
    BY <1>1, <2>1, <2>2, <2>3, <2>4, EmptySeq
<1> QED
  BY <1>2, <1>3

(* The debugger writes at the other end. *)
LEMMA ChanWrite ==
    ASSUME SockTypes, NEW t \in Tokens, toProxy' = Append(toProxy, t), rdbuf' = rdbuf
    PROVE  chan \in Seq(Tokens) /\ chan' = Append(chan, t) /\ toProxy' \in Seq(Tokens)
<1> USE DEF SockTypes
<1>1. chan \in Seq(Tokens)
  BY ConcatProperties DEF chan
<1>2. toProxy' = toProxy \o <<t>> /\ toProxy' \in Seq(Tokens) /\ <<t>> \in Seq(Tokens)
  BY AppendIsConcat, AppendProperties
<1>3. chan' = chan \o <<t>>
  BY <1>2, ConcatAssociative DEF chan
<1> QED
  BY <1>1, <1>2, <1>3, AppendIsConcat

(* When both ends are closed only the proxy's buffer is left. *)
LEMMA ChanCut ==
    ASSUME SockTypes, toProxy' = <<>>, rdbuf' = rdbuf
    PROVE  /\ chan' = rdbuf /\ DOMAIN rdbuf \subseteq DOMAIN chan
           /\ \A i \in DOMAIN rdbuf : rdbuf[i] = chan[i]
<1>1. chan' = rdbuf
  BY ConcatEmptySeq DEF chan, SockTypes
<1>2. /\ DOMAIN rdbuf = 1 .. Len(rdbuf) /\ DOMAIN chan = 1 .. Len(rdbuf) + Len(toProxy)
      /\ Len(rdbuf) \in Nat /\ Len(toProxy) \in Nat
      /\ \A i \in DOMAIN rdbuf : chan[i] = rdbuf[i]
  BY ConcatEntries DEF chan, SockTypes
<1> QED
  BY <1>1, <1>2

LEMMA SentTyped ==
    ASSUME SockTypes, NEW t \in Tokens
    PROVE  Sent(t) \in Seq(Tokens)
  BY AppendProperties DEF Sent, SockTypes

-----------------------------------------------------------------------------
(* Types. *)

LEMMA TypesInit == Init => SockTypes /\ GdbTypes /\ ProxyTypes
<1>1. Tok("query", 0) \in Tokens
  BY TokensOfAll DEF AllCommands
<1>2. <<>> \in Seq(Tokens) /\ 0 \in Nat
  OBVIOUS
<1>3. Init => SockTypes
  <2>1. [call \in Fallible |-> 0] \in [Fallible -> 0 .. MaxFails]
    BY SockAssumption
  <2> QED
    BY <1>2, <2>1, Zenon DEF Init, SockInit, SockTypes
<1>4. Init => GdbTypes
  <2>1. Init => polite \in BOOLEAN
    BY DebuggerAssumption DEF Init, GdbInit
  <2>2. Clean \in Nat
    BY DebuggerAssumption DEF Clean
  <2>3. Init => faults \in Nat
    BY <2>2 DEF Init, GdbInit
  <2> QED
    BY <1>1, <1>2, <2>1, <2>3, Zenon DEF Init, GdbInit, GdbTypes, Phases
<1>5. Init => ProxyTypes
  BY <1>2, Zenon DEF Init, RCInit, ProxyTypes, Locations
<1> QED
  BY <1>3, <1>4, <1>5

(* What a debugger reads and writes. *)
LEMMA ConsumeTyped ==
    ASSUME SockTypes, NEW a \in Seq(Tokens), toGdb # <<>>, Consume(a)
    PROVE  SockTypes'
  BY TailEntries, ConcatProperties DEF SockTypes, Consume

LEMMA WriteTyped ==
    ASSUME SockTypes, NEW t \in Tokens, Write(t)
    PROVE  SockTypes'
  BY AppendProperties DEF SockTypes, Write

LEMMA VanishTyped ==
    ASSUME SockTypes, GdbTypes, Vanish
    PROVE  SockTypes' /\ GdbTypes'
  BY EmptySeq DEF SockTypes, GdbTypes, Vanish, Phases

LEMMA GdbKeepsTypes ==
    ASSUME SockTypes, GdbTypes, Gdb
    PROVE  SockTypes' /\ GdbTypes'
<1> DEFINE Types == SockTypes /\ GdbTypes
<1>0. /\ <<>> \in Seq(Tokens) /\ <<Ack>> \in Seq(Tokens) /\ <<Nak>> \in Seq(Tokens)
      /\ Ack \in Tokens /\ Intr \in Tokens
  BY TokensOfAll
<1>1. ASSUME NEW c \in Commands, GdbRequest(c) PROVE Types'
  <2>1. c \in AllCommands /\ sent' = sent + 1 /\ sent' \in Nat
    BY <1>1, DebuggerAssumption DEF GdbRequest, GdbTypes
  <2>2. Tok(c, sent') \in Tokens /\ Tok("bad", sent') \in Tokens /\ req' = Tok(c, sent')
    BY <1>1, <2>1, TokensOfAll DEF GdbRequest
  <2>3. Write(req') \/ Write(Tok("bad", sent'))
    BY <1>1 DEF GdbRequest
  <2>4. SockTypes'
    <3>1. CASE Write(req')
      BY <3>1, <2>2, WriteTyped
    <3>2. CASE Write(Tok("bad", sent'))
      BY <3>2, <2>2, WriteTyped
    <3> QED
      BY <2>3, <3>1, <3>2
  <2>5. GdbTypes'
    <3>1. faults' \in Nat
      BY <1>1 DEF GdbRequest, GdbTypes
    <3>2. bad' = TRUE \/ bad' = FALSE
      BY <1>1, Zenon DEF GdbRequest
    <3> QED
      BY <1>1, <2>1, <2>2, <3>1, <3>2 DEF GdbRequest, GdbTypes, Phases
  <2> QED
    BY <2>4, <2>5
<1>2. CASE GdbRepeat
  BY <1>2, WriteTyped DEF GdbRepeat, GdbTypes
<1>3. CASE GdbAcked
  <2>1. CASE Vanish
    BY <2>1, VanishTyped
  <2>2. CASE ~Vanish
    BY <1>0, <1>3, <2>2, ConsumeTyped DEF GdbAcked, GdbTypes, Phases
  <2> QED
    BY <2>1, <2>2
<1>4. CASE GdbGobbles
  BY <1>0, <1>4, ConsumeTyped DEF GdbGobbles, GdbTypes, gdbvars
<1>5. CASE GdbReads
  <2>1. toGdb # <<>> /\ (Consume(<<>>) \/ Consume(<<Ack>>) \/ Consume(<<Nak>>))
    BY <1>5 DEF GdbReads
  <2>2. SockTypes'
    BY <1>0, <2>1, ConsumeTyped
  <2>3. GdbTypes'
    <3>1. faults' \in Nat
      BY <1>5 DEF GdbReads, GdbTypes, gdbvars
    <3>2. gext' \in BOOLEAN
      <4>1. gext' = gext \/ gext' = (gext \/ req.k = "ext")
        BY <1>5, Zenon DEF GdbReads, gdbvars
      <4> QED
        BY <4>1 DEF GdbTypes
    <3>3. gdb' \in Phases
      BY <1>5 DEF GdbReads, GdbTypes, gdbvars, Phases
    <3>4. UNCHANGED <<polite, req, bad, broke, sent, first, sessions>>
      BY <1>5, Zenon DEF GdbReads, gdbvars
    <3> QED
      BY <3>1, <3>2, <3>3, <3>4 DEF GdbTypes
  <2> QED
    BY <2>2, <2>3
<1>6. CASE GdbDetaches
  BY <1>0, <1>6, AppendProperties, EmptySeq DEF GdbDetaches, GdbTypes, SockTypes, Phases
<1>7. CASE GdbInterrupts
  BY <1>0, <1>7, WriteTyped DEF GdbInterrupts, GdbTypes
<1>8. CASE GdbSeesEof \/ GdbCloses \/ RogueVanishes
  BY <1>8, VanishTyped DEF GdbSeesEof, GdbCloses, RogueVanishes
<1>9. CASE RogueReads
  <2>1. SockTypes'
    BY <1>0, <1>9, ConsumeTyped DEF RogueReads
  <2>2. GdbTypes'
    BY <1>9 DEF RogueReads, GdbTypes, gdbvars
  <2> QED
    BY <2>1, <2>2
<1>10. ASSUME NEW k \in Commands \cup {"bad", "ack", "nak", "intr"}, RogueSends(k)
       PROVE  Types'
  <2>1. sent' \in Nat /\ Write(Tok(k, IF k \in AllCommands THEN sent' ELSE 0))
    BY <1>10 DEF RogueSends, GdbTypes
  <2>2. Tok(k, IF k \in AllCommands THEN sent' ELSE 0) \in Tokens
    BY <1>10, <2>1, TokensOfAll, DebuggerAssumption
  <2> QED
    BY <1>10, <2>1, <2>2, WriteTyped DEF RogueSends, GdbTypes
<1> QED
  BY <1>1, <1>2, <1>3, <1>4, <1>5, <1>6, <1>7, <1>8, <1>9, <1>10
     DEF Gdb, GdbStep, PoliteStep, RogueStep

(* The packets of one handler: console packets, then one that is none. *)
Burst(q) ==
    /\ q \in Seq(Tokens) /\ q # <<>>
    /\ \A i \in DOMAIN q : q[i].k \in ReplyKinds /\ (q[i].k = "cons" <=> i < Len(q))

Queued == Putting => Burst(outq)

LEMMA OneBurst ==
    ASSUME NEW k \in {"resp", "stop", "status"}, NEW n \in Nat
    PROVE  Burst(<<Tok(k, n)>>)
<1>1. Tok(k, n) \in Tokens /\ Tok(k, n).k = k
  BY TokensOfAll DEF ReplyKinds
<1>2. <<Tok(k, n)>> \in Seq(Tokens) /\ <<Tok(k, n)>> # <<>> /\ Len(<<Tok(k, n)>>) = 1
      /\ DOMAIN <<Tok(k, n)>> = {1} /\ <<Tok(k, n)>>[1] = Tok(k, n)
  BY <1>1
<1> QED
  BY <1>1, <1>2 DEF Burst, ReplyKinds

LEMMA ConsoleBurst ==
    ASSUME NEW n \in Nat, NEW m \in Nat
    PROVE  /\ Burst([i \in 1 .. m |-> Tok("cons", n)] \o <<Tok("resp", n)>>)
           /\ \A j \in DOMAIN ([i \in 1 .. m |-> Tok("cons", n)] \o <<Tok("resp", n)>>) :
                 ([i \in 1 .. m |-> Tok("cons", n)] \o <<Tok("resp", n)>>)[j].n = n
<1> DEFINE c == [i \in 1 .. m |-> Tok("cons", n)]
           r == <<Tok("resp", n)>>
<1>1. /\ Tok("cons", n) \in Tokens /\ Tok("cons", n).k = "cons" /\ Tok("cons", n).n = n
      /\ Tok("resp", n) \in Tokens /\ Tok("resp", n).k = "resp" /\ Tok("resp", n).n = n
  BY TokensOfAll DEF ReplyKinds
<1>2. c \in Seq(Tokens) /\ Len(c) = m /\ \A i \in 1 .. m : c[i] = Tok("cons", n)
  BY <1>1
<1>3. r \in Seq(Tokens) /\ Len(r) = 1 /\ r[1] = Tok("resp", n)
  BY <1>1
<1> HIDE DEF c, r
<1>4. /\ c \o r \in Seq(Tokens) /\ Len(c \o r) = m + 1
      /\ \A i \in 1 .. m + 1 : (c \o r)[i] = IF i <= m THEN c[i] ELSE r[i - m]
      /\ DOMAIN (c \o r) = 1 .. m + 1
  <2>1. /\ c \o r \in Seq(Tokens) /\ Len(c \o r) = Len(c) + Len(r)
        /\ \A i \in 1 .. Len(c) + Len(r) :
              (c \o r)[i] = IF i <= Len(c) THEN c[i] ELSE r[i - Len(c)]
    BY <1>2, <1>3, ConcatProperties
  <2> QED
    BY <1>2, <1>3, <2>1, LenProperties
<1>5. ASSUME NEW i \in 1 .. m + 1
      PROVE  (c \o r)[i] = IF i < m + 1 THEN Tok("cons", n) ELSE Tok("resp", n)
  <2>1. CASE i < m + 1
    BY <1>2, <1>4, <2>1
  <2>2. CASE i = m + 1
    BY <1>3, <1>4, <2>2
  <2>3. i \in Nat /\ (i < m + 1 \/ i = m + 1)
    OBVIOUS
  <2> QED
    BY <2>1, <2>2, <2>3
<1>6. c \o r # <<>>
  BY <1>4
<1>7. Burst(c \o r)
  BY <1>1, <1>4, <1>5, <1>6 DEF Burst, ReplyKinds
<1>8. \A i \in DOMAIN (c \o r) : (c \o r)[i].n = n
  BY <1>1, <1>4, <1>5
<1> QED
  BY <1>7, <1>8 DEF c, r

LEMMA TailBurst ==
    ASSUME NEW q, Burst(q), Len(q) # 1
    PROVE  Burst(Tail(q))
<1>1. /\ Tail(q) \in Seq(Tokens) /\ Len(Tail(q)) = Len(q) - 1 /\ Len(q) \in Nat
      /\ \A i \in DOMAIN Tail(q) : i + 1 \in DOMAIN q /\ Tail(q)[i] = q[i + 1]
  BY TailEntries DEF Burst
<1>2. Tail(q) # <<>> /\ DOMAIN Tail(q) = 1 .. Len(Tail(q))
  <2>1. Len(Tail(q)) # 0
    BY <1>1
  <2> QED
    BY <1>1, <2>1, LenProperties, EmptySeq
<1>3. ASSUME NEW i \in DOMAIN Tail(q)
      PROVE  Tail(q)[i].k \in ReplyKinds /\ (Tail(q)[i].k = "cons" <=> i < Len(Tail(q)))
  <2>1. i \in Nat /\ i + 1 \in DOMAIN q /\ Tail(q)[i] = q[i + 1]
    BY <1>1, <1>2, <1>3
  <2>2. q[i + 1].k \in ReplyKinds /\ (q[i + 1].k = "cons" <=> i + 1 < Len(q))
    BY <2>1 DEF Burst
  <2> QED
    BY <1>1, <2>1, <2>2
<1> QED
  BY <1>1, <1>2, <1>3 DEF Burst

(* A read by the proxy. *)
LEMMA ReadTyped ==
    ASSUME SockTypes, rp_getpkt
    PROVE  SockTypes' /\ NextToken \in Tokens /\ NextToken.n \in Nat
<1>1. rdbuf' \in Seq(Tokens) /\ toProxy' \in Seq(Tokens) /\ NextToken \in Tokens
  BY ChanRead DEF rp_getpkt
<1>2. toGdb' \in Seq(Tokens)
  BY SentTyped, TokensOfAll DEF rp_getpkt, SockTypes
<1>3. UNCHANGED <<dbg_sock, dbg_listen_sock, hungUp, fails>>
  BY DEF rp_getpkt
<1>4. NextToken.n \in Nat
  BY <1>1 DEF Tokens
<1> QED
  BY <1>1, <1>2, <1>3, <1>4 DEF SockTypes

LEMMA CloseTyped ==
    ASSUME SockTypes, dbg_sock_close, fails' \in [Fallible -> 0 .. MaxFails]
    PROVE  SockTypes'
  BY EmptySeq DEF SockTypes, dbg_sock_close

LEMMA FailsTyped ==
    ASSUME SockTypes, NEW call, Fails(call)
    PROVE  fails' \in [Fallible -> 0 .. MaxFails]
<1>1. fails[call] \in 0 .. MaxFails /\ fails[call] < MaxFails
  BY SockAssumption DEF SockTypes, Fails
<1>2. fails[call] + 1 \in 0 .. MaxFails
  BY <1>1, SockAssumption
<1> QED
  BY <1>2 DEF SockTypes, Fails

(* Session loops. *)
LEMMA SessionTypes ==
    ASSUME SockTypes, ProxyTypes, Queued,
           Open \/ SockOpen \/ Abort \/ AcceptFails \/ Connect \/ CloseSession \/ Detached
           \/ DebuggerGone
    PROVE  SockTypes' /\ ProxyTypes' /\ Queued'
<1>1. ProxyTypes'
  <2>1. CASE Open \/ SockOpen \/ Abort
    BY <2>1 DEF Open, SockOpen, Abort, ProxyTypes, Locations, history, rcvars
  <2>2. CASE AcceptFails \/ Detached \/ DebuggerGone
    BY <2>2 DEF AcceptFails, Detached, DebuggerGone, ProxyTypes, Locations, history, rcvars
  <2>3. CASE Connect \/ CloseSession
    BY <2>3 DEF Connect, CloseSession, ProxyTypes, Locations, target_stop, target_resume
  <2> QED
    BY <2>1, <2>2, <2>3
<1>2. SockTypes'
  <2>1. CASE Open \/ Abort \/ Connect \/ DebuggerGone
    BY <2>1 DEF Open, Abort, Connect, DebuggerGone, SockTypes, sockvars
  <2>2. CASE SockOpen
    <3>1. fails' \in [Fallible -> 0 .. MaxFails]
      BY <2>2, FailsTyped DEF SockOpen, dbg_sock_open, SockTypes
    <3> QED
      BY <2>2, <3>1 DEF SockOpen, dbg_sock_open, SockTypes
  <2>3. CASE AcceptFails
    BY <2>3, FailsTyped, CloseTyped DEF AcceptFails
  <2>4. CASE CloseSession \/ Detached
    BY <2>4, CloseTyped DEF CloseSession, Detached, SockTypes
  <2> QED
    BY <2>1, <2>2, <2>3, <2>4
<1>3. Queued'
  BY DEF Open, SockOpen, Abort, AcceptFails, Connect, CloseSession, Detached, DebuggerGone,
         Queued, Putting
<1> QED
  BY <1>1, <1>2, <1>3

(* The packet layer. *)
LEMMA PacketTypes ==
    ASSUME SockTypes, ProxyTypes, Queued,
           SkipBad \/ FlushToken \/ FlushDone \/ FlushFails \/ WritePacket
           \/ WriteFails \/ AckToken \/ AckFails
    PROVE  SockTypes' /\ ProxyTypes' /\ Queued'
<1>1. CASE SkipBad
  <2>1. rdbuf' \in Seq(Tokens) /\ toProxy' \in Seq(Tokens)
    BY <1>1, ChanRead DEF SkipBad
  <2> QED
    BY <1>1, <2>1 DEF SkipBad, SockTypes, ProxyTypes, Queued, Putting, proxyvars, history,
                      rcvars
<1>2. CASE FlushToken
  <2>1. SockTypes' /\ NextToken.n \in Nat
    BY <1>2, ReadTyped DEF FlushToken
  <2>2. lost' \subseteq Nat
    BY <1>2, <2>1 DEF FlushToken, Discard, ProxyTypes
  <2> QED
    BY <1>2, <2>1, <2>2 DEF FlushToken, ProxyTypes, Queued, Putting, proxyvars, rcvars
<1>3. CASE FlushDone \/ FlushFails
  <2>1. CASE FlushDone
    BY <1>3, <2>1 DEF FlushDone, SockTypes, ProxyTypes, Locations, Queued, Putting,
                      history, rcvars, sockvars
  <2>2. CASE FlushFails
    <3>1. UNCHANGED <<proxyvars, history, rcvars, sockvars>>
      BY <2>2 DEF FlushFails, vars
    <3>2. SockTypes'
      BY <3>1 DEF SockTypes, sockvars
    <3>3. ProxyTypes'
      BY <3>1 DEF ProxyTypes, proxyvars, history, rcvars
    <3>4. Queued'
      BY <3>1 DEF Queued, Putting, proxyvars
    <3> QED
      BY <3>2, <3>3, <3>4
  <2> QED
    BY <1>3, <2>1, <2>2
<1>4. CASE WritePacket
  <2>1. Head(outq) \in Tokens
    BY <1>4, TailEntries DEF WritePacket, Queued, Putting, Burst
  <2>2. SockTypes'
    BY <1>4, <2>1, SentTyped DEF WritePacket, SockTypes
  <2> QED
    BY <1>4, <2>2 DEF WritePacket, ProxyTypes, Locations, Queued, Putting, history, rcvars
<1>5. ASSUME PutDone, Putting
      PROVE  /\ Queued' /\ pc' \in Locations /\ outq' \in Seq(Tokens)
             /\ UNCHANGED <<rp_target_running, extended_protocol, status, after>>
  <2>1. outq' = Tail(outq) /\ Burst(outq)
    BY <1>5 DEF PutDone, Queued
  <2>2. outq' \in Seq(Tokens)
    BY <2>1, TailEntries DEF Burst
  <2>3. CASE Len(outq) > 1
    <3>1. ~(1 > 1)
      OBVIOUS
    <3>2. Len(outq) # 1
      BY <2>3, <3>1, Zenon
    <3> QED
      BY <1>5, <2>1, <2>2, <2>3, <3>2, TailBurst DEF PutDone, Queued, Locations
  <2>4. CASE ~(Len(outq) > 1)
    BY <1>5, <2>2, <2>4 DEF PutDone, Queued, Putting, ProxyTypes, Locations
  <2> QED
    BY <2>3, <2>4
<1>6. CASE WriteFails \/ AckFails
  <2>1. PutDone /\ Putting /\ UNCHANGED <<history, rcvars, sockvars>>
    BY <1>6 DEF WriteFails, AckFails, Putting
  <2> QED
    BY <1>5, <2>1 DEF SockTypes, ProxyTypes, history, rcvars, sockvars
<1>7. CASE AckToken
  <2>1. SockTypes' /\ NextToken.n \in Nat
    BY <1>7, ReadTyped DEF AckToken
  <2>2. lost' \subseteq Nat
    BY <1>7, <2>1 DEF AckToken, Discard, ProxyTypes
  <2>3. UNCHANGED <<owed, inherited, called, is_running, cpu>>
    BY <1>7 DEF AckToken, rcvars
  <2>4. CASE PutDone
    BY <1>5, <1>7, <2>1, <2>2, <2>3, <2>4 DEF AckToken, Putting, ProxyTypes
  <2>5. CASE ~PutDone
    BY <1>7, <2>1, <2>2, <2>3, <2>5 DEF AckToken, Putting, ProxyTypes, Queued, Locations
  <2> QED
    BY <2>4, <2>5
<1> QED
  BY <1>1, <1>2, <1>3, <1>4, <1>6, <1>7

(* The handlers. *)
LEMMA HandlerTypes ==
    ASSUME SockTypes, ProxyTypes, Queued, Handle \/ Resumed \/ Poll
    PROVE  SockTypes' /\ ProxyTypes' /\ Queued'
<1> DEFINE n == NextToken.n
           Goal == SockTypes' /\ ProxyTypes' /\ Queued'
           Rest == UNCHANGED <<rp_target_running, extended_protocol, status, history, rcvars>>
<1>1. ASSUME NEW kinds, Got(kinds)
      PROVE  SockTypes' /\ n \in Nat /\ NextToken.k \in kinds
  BY <1>1, ReadTyped DEF Got
<1>2. ASSUME NEW q, NEW k \in {"getpkt", "detached"}, Burst(q), Put(q, k)
      PROVE  Queued' /\ outq' \in Seq(Tokens) /\ pc' \in Locations /\ after' = k
  BY <1>2 DEF Put, Burst, Queued, Locations
<1>3. ASSUME NEW k \in {"resp", "stop", "status"}, NEW m \in Nat,
             NEW j \in {"getpkt", "detached"}, Put(<<Tok(k, m)>>, j)
      PROVE  Queued' /\ outq' \in Seq(Tokens) /\ pc' \in Locations /\ after' = j
  <2>1. Burst(<<Tok(k, m)>>)
    BY OneBurst
  <2> QED
    BY <1>2, <1>3, <2>1
<1>4. CASE HandleQuery
  <2>1. SockTypes' /\ n \in Nat
    BY <1>1, <1>4 DEF HandleQuery
  <2>2. Queued' /\ outq' \in Seq(Tokens) /\ pc' \in Locations /\ after' = "getpkt"
    BY <1>3, <1>4, <2>1 DEF HandleQuery, Reply
  <2> QED
    BY <1>4, <2>1, <2>2 DEF HandleQuery, ProxyTypes, history, rcvars
<1>5. CASE HandleStatus
  <2>1. SockTypes' /\ n \in Nat
    BY <1>1, <1>5 DEF HandleStatus
  <2>2. Queued' /\ outq' \in Seq(Tokens) /\ pc' \in Locations /\ after' = "getpkt"
    BY <1>3, <1>5, <2>1 DEF HandleStatus, Reply
  <2> QED
    BY <1>5, <2>1, <2>2 DEF HandleStatus, ProxyTypes, history, rcvars
<1>6. CASE HandleExtended
  <2>1. SockTypes' /\ n \in Nat
    BY <1>1, <1>6 DEF HandleExtended
  <2>2. Queued' /\ outq' \in Seq(Tokens) /\ pc' \in Locations /\ after' = "getpkt"
    BY <1>3, <1>6, <2>1 DEF HandleExtended, Reply
  <2> QED
    BY <1>6, <2>1, <2>2 DEF HandleExtended, ProxyTypes, history, rcvars
<1>7. CASE HandleRemoteCommand
  <2>1. SockTypes' /\ n \in Nat
    BY <1>1, <1>7 DEF HandleRemoteCommand
  <2>2. PICK m \in 0 .. MaxConsole :
           Put([i \in 1 .. m |-> Reply("cons")] \o <<Reply("resp")>>, "getpkt")
    BY <1>7 DEF HandleRemoteCommand
  <2>3. Burst([i \in 1 .. m |-> Reply("cons")] \o <<Reply("resp")>>)
    BY <2>1, ConsoleBurst DEF Reply
  <2>4. Queued' /\ outq' \in Seq(Tokens) /\ pc' \in Locations /\ after' = "getpkt"
    BY <1>2, <2>2, <2>3
  <2> QED
    BY <1>7, <2>1, <2>4 DEF HandleRemoteCommand, ProxyTypes, history, rcvars
<1>8. CASE HandleRunError
  <2>1. SockTypes' /\ n \in Nat /\ pc = "getpkt"
    BY <1>1, <1>8 DEF HandleRunError, Got
  <2>2. CASE rp_target_running
    BY <1>8, <2>1, <2>2 DEF HandleRunError, ProxyTypes, Queued, Putting, proxyvars, history,
                            rcvars
  <2>3. CASE ~rp_target_running
    <3>1. Queued' /\ outq' \in Seq(Tokens) /\ pc' \in Locations /\ after' = "getpkt"
      BY <1>3, <1>8, <2>1, <2>3 DEF HandleRunError, Reply
    <3> QED
      BY <1>8, <2>1, <2>3, <3>1 DEF HandleRunError, ProxyTypes, history, rcvars
  <2> QED
    BY <2>2, <2>3
<1>9. CASE HandleRun
  <2>1. SockTypes' /\ n \in Nat /\ pc = "getpkt"
    BY <1>1, <1>9 DEF HandleRun, Got
  <2>2. is_running' \in BOOLEAN /\ cpu' \in {"running", "stopped"}
    <3>1. target_step \/ target_resume \/ target_run
      BY <1>9 DEF HandleRun
    <3>2. CASE target_step
      BY <3>2, Zenon DEF target_step, rcvars, ProxyTypes
    <3>3. CASE target_resume \/ target_run
      BY <3>3 DEF target_resume, target_run, ProxyTypes
    <3> QED
      BY <3>1, <3>2, <3>3
  <2> QED
    BY <1>9, <2>1, <2>2 DEF HandleRun, ProxyTypes, Queued, Putting, Locations
<1>10. CASE HandleInterrupt
  <2>1. SockTypes' /\ pc = "getpkt"
    BY <1>1, <1>10 DEF HandleInterrupt, Got
  <2> QED
    BY <1>10, <2>1 DEF HandleInterrupt, target_stop, ProxyTypes, Queued, Putting, proxyvars,
                       rcvars
<1>11. CASE IgnoreToken
  <2>1. SockTypes' /\ pc = "getpkt"
    BY <1>1, <1>11 DEF IgnoreToken, Got
  <2> QED
    BY <1>11, <2>1 DEF IgnoreToken, ProxyTypes, Queued, Putting, proxyvars, history, rcvars
<1>12. CASE HandleKill
  <2>1. SockTypes' /\ pc = "getpkt"
    BY <1>1, <1>12 DEF HandleKill, Got
  <2>2. is_running' \in BOOLEAN /\ cpu' \in {"running", "stopped"}
    BY <1>12, Zenon DEF HandleKill, target_restart, rcvars, ProxyTypes
  <2>3. /\ pc' \in {"closing", "connect"} /\ called' \in {"kill", "restart"}
        /\ UNCHANGED <<rp_target_running, extended_protocol, status, outq, after>>
        /\ UNCHANGED <<owed, lost, inherited>>
    BY <1>12, Zenon DEF HandleKill
  <2> QED
    BY <2>1, <2>2, <2>3 DEF ProxyTypes, Queued, Putting, Locations
<1>13. CASE HandleRestart
  <2>1. SockTypes' /\ pc = "getpkt"
    BY <1>1, <1>13 DEF HandleRestart, Got
  <2> QED
    BY <1>13, <2>1 DEF HandleRestart, target_restart, ProxyTypes, Queued, Putting, Locations
<1>14. CASE HandleDetach
  <2>1. SockTypes' /\ n \in Nat
    BY <1>1, <1>14 DEF HandleDetach
  <2>2. Queued' /\ outq' \in Seq(Tokens) /\ pc' \in Locations /\ after' = "detached"
    BY <1>3, <1>14, <2>1 DEF HandleDetach, Reply
  <2> QED
    BY <1>14, <2>1, <2>2 DEF HandleDetach, target_resume, ProxyTypes
<1>15. CASE Resumed \/ Poll
  <2>1. WaitPartial /\ pc \in {"getpkt", "resumed"} /\ UNCHANGED sockvars
    BY <1>15 DEF Resumed, Poll, WaitPartial
  <2>2. is_running' \in BOOLEAN /\ cpu' \in {"running", "stopped"}
    BY <2>1 DEF WaitPartial, target_is_stopped, ProxyTypes
  <2>3. SockTypes'
    BY <2>1 DEF SockTypes, sockvars
  <2>4. CASE pc' = "getpkt" /\ UNCHANGED <<rp_target_running, status, outq, after, owed>>
    BY <2>1, <2>2, <2>3, <2>4 DEF WaitPartial, ProxyTypes, Queued, Putting, Locations
  <2>5. CASE /\ rp_target_running' = FALSE /\ status' = TRUE
             /\ Put(<<Tok("stop", owed)>>, "getpkt") /\ owed' = 0
    <3>1. Queued' /\ outq' \in Seq(Tokens) /\ pc' \in Locations /\ after' = "getpkt"
      BY <1>3, <2>5 DEF ProxyTypes
    <3> QED
      BY <2>1, <2>2, <2>3, <2>5, <3>1 DEF WaitPartial, ProxyTypes
  <2> QED
    BY <2>1, <2>4, <2>5 DEF WaitPartial
<1> QED
  BY <1>4, <1>5, <1>6, <1>7, <1>8, <1>9, <1>10, <1>11, <1>12, <1>13, <1>14, <1>15 DEF Handle

(* The proxy never touches the debugger. *)
LEMMA ProxyLeavesGdb == Proxy => UNCHANGED gdbvars
<1>1. Open \/ SockOpen \/ Abort \/ AcceptFails \/ Connect \/ CloseSession => UNCHANGED gdbvars
  BY Zenon DEF Open, SockOpen, Abort, AcceptFails, Connect, CloseSession
<1>2. SkipBad \/ FlushToken \/ FlushDone \/ FlushFails => UNCHANGED gdbvars
  BY Zenon DEF SkipBad, FlushToken, FlushDone, FlushFails, vars
<1>3. WritePacket \/ WriteFails \/ AckToken \/ AckFails => UNCHANGED gdbvars
  BY Zenon DEF WritePacket, WriteFails, AckToken, AckFails
<1>4. Handle => UNCHANGED gdbvars
  BY Zenon DEF Handle, HandleQuery, HandleStatus, HandleExtended, HandleRemoteCommand,
     HandleRunError, HandleRun, HandleInterrupt, IgnoreToken, HandleKill, HandleRestart,
     HandleDetach, Got
<1>5. Resumed \/ Poll \/ Detached \/ DebuggerGone => UNCHANGED gdbvars
  BY Zenon DEF Resumed, Poll, WaitPartial, Detached, DebuggerGone
<1> QED
  BY <1>1, <1>2, <1>3, <1>4, <1>5 DEF Proxy

TypesInv == SockTypes /\ GdbTypes /\ ProxyTypes /\ Queued

LEMMA TypesStep == TypesInv /\ [Next]_vars => TypesInv'
<1> SUFFICES ASSUME TypesInv, [Next]_vars PROVE TypesInv'
  OBVIOUS
<1>1. CASE Proxy
  <2>1. GdbTypes'
    BY <1>1, ProxyLeavesGdb DEF TypesInv, GdbTypes, gdbvars
  <2> QED
    BY <1>1, <2>1, SessionTypes, PacketTypes, HandlerTypes DEF TypesInv, Proxy
<1>2. CASE Accept
  <2>1. SockTypes'
    BY <1>2, EmptySeq DEF Accept, dbg_sock_accept, TypesInv, SockTypes
  <2>2. GdbTypes'
    <3>1. sessions' \in Nat /\ first' \in Nat
      BY <1>2 DEF Accept, GdbConnects, TypesInv, GdbTypes
    <3> QED
      BY <1>2, <3>1, Zenon DEF Accept, GdbConnects, TypesInv, GdbTypes, Phases
  <2>3. ProxyTypes' /\ Queued'
    BY <1>2 DEF Accept, TypesInv, ProxyTypes, Locations, Queued, Putting, history, rcvars
  <2> QED
    BY <2>1, <2>2, <2>3 DEF TypesInv
<1>3. CASE Chip
  BY <1>3 DEF Chip, CpuHalts, TypesInv, SockTypes, GdbTypes, ProxyTypes, Queued, Putting,
              proxyvars, history, sockvars, gdbvars
<1>4. CASE Gdb
  <2>1. SockTypes' /\ GdbTypes'
    BY <1>4, GdbKeepsTypes DEF TypesInv
  <2>2. ProxyTypes' /\ Queued'
    BY <1>4 DEF Gdb, TypesInv, ProxyTypes, Queued, Putting, proxyvars, history, rcvars
  <2> QED
    BY <2>1, <2>2 DEF TypesInv
<1>5. CASE UNCHANGED vars
  BY <1>5 DEF TypesInv, SockTypes, GdbTypes, ProxyTypes, Queued, Putting, vars,
              proxyvars, history, rcvars, sockvars, gdbvars
<1> QED
  BY <1>1, <1>2, <1>3, <1>4, <1>5 DEF Next

LEMMA TypesInvariant == Spec => []TypesInv
<1>1. Init => TypesInv
  BY TypesInit DEF TypesInv, Init, Queued, Putting
<1> QED
  BY <1>1, TypesStep, PTL DEF Spec

(* Whatever the debugger sends, all variables of the proxy, the connection and the
   debugger stay in their types. *)
THEOREM TypesHold == Spec => []TypeOK
<1>1. TypesInv => TypeOK
  BY TypeParts DEF TypesInv
<1> QED
  BY <1>1, TypesInvariant, PTL

-----------------------------------------------------------------------------
(***************************************************************************)
(* The wire between the proxy and a polite debugger, whatever is spoiled   *)
(* and whenever it vanishes.  A request is on its way at most once, only   *)
(* while the debugger waits for its '+' (or has vanished since), and only  *)
(* acknowledgements follow it; and a '+' is on its way back at most once.  *)
(* Nothing else bounds what is left over when a session ends: the last     *)
(* conjunct is OnlyAcksLeftOver at every step that leads to the accept.    *)
(***************************************************************************)
IsRequest(t) == t.k \in AllCommands

(* A '+' is on its way to the debugger. *)
Plus == \E i \in DOMAIN toGdb : toGdb[i] = Ack

(* The proxy has read the request the debugger is busy with. *)
Working == gdb = "reply" \/ (gdb = "ack" /\ Plus)

(* Where nothing of the session remains to be read, and on the way there
   through the reply to a detach. *)
Shut == {"open", "sockopen", "accept", "aborted", "closing"}
Leaving == pc = "detached" \/ (Putting /\ after = "detached")

HangUpSeen == (hungUp <=> gdb = "gone") /\ (gdb = "gone" => toGdb = <<>>)

OnlyReplies == \A i \in DOMAIN toGdb : toGdb[i] = Ack \/ toGdb[i].k \in ReplyKinds

OnePlus ==
    /\ Plus => gdb = "ack" /\ ~bad
    /\ \A i, j \in DOMAIN toGdb : toGdb[i] = Ack /\ toGdb[j] = Ack => i = j

OneRequest ==
    \A i \in DOMAIN chan : IsRequest(chan[i]) =>
        /\ gdb \in {"ack", "gone"} /\ chan[i] = req
        /\ gdb = "ack" => ~Plus /\ ~bad
        /\ \A j \in DOMAIN chan : j > i => chan[j] = Ack

QuietEnd ==
    /\ pc \in Shut => \A i \in DOMAIN rdbuf : rdbuf[i] \in {Ack, Nak}
    /\ Leaving => /\ \A i \in DOMAIN chan : chan[i] \in {Ack, Nak}
                  /\ gdb = "gone" \/ (req.k = "detach" /\ Working)

OnWire == HangUpSeen /\ OnlyReplies /\ OnePlus /\ OneRequest
Wire == polite => OnWire /\ QuietEnd

LEMMA TokenKinds ==
    /\ ~IsRequest(Ack) /\ ~IsRequest(Nak) /\ ~IsRequest(Intr)
    /\ \A n \in Nat : ~IsRequest(Tok("bad", n))
    /\ \A t \in Tokens : IsRequest(t) => t # Ack /\ t # Nak
    /\ Ack.k \notin ReplyKinds
    /\ Ack \in Tokens /\ Nak \in Tokens /\ Intr \in Tokens /\ Ack # Nak
<1>1. /\ Ack.k = "ack" /\ Nak.k = "nak" /\ Intr.k = "intr"
      /\ \A n \in Nat : Tok("bad", n).k = "bad"
  BY DEF Ack, Nak, Intr, Tok
<1>2. \A k \in {"ack", "nak", "intr", "bad"} : k \notin AllCommands /\ k \notin ReplyKinds
  BY Zenon DEF AllCommands, RunCommands, ReplyKinds
<1> QED
  BY <1>1, <1>2, TokensOfAll DEF IsRequest

-----------------------------------------------------------------------------
(* What the proxy does to the wire. *)

(* It takes the first token off ... *)
LEMMA FirstToken ==
    ASSUME SockTypes, dbg_sock_readchar
    PROVE  /\ 1 \in DOMAIN chan /\ chan[1] = NextToken /\ NextToken \in Tokens
           /\ DOMAIN chan \subseteq Nat \ {0} /\ DOMAIN chan' \subseteq Nat \ {0}
           /\ \A i \in DOMAIN chan' : i + 1 \in DOMAIN chan /\ chan'[i] = chan[i + 1]
           /\ \A i \in DOMAIN chan :
                 i = 1 \/ (i - 1 \in DOMAIN chan' /\ chan[i] = chan'[i - 1])
  BY ChanRead, TailEntries

(* ... leaves what it has not asked for in order at the end of its buffer ... *)
LEMMA BufferFirst ==
    ASSUME SockTypes
    PROVE  /\ DOMAIN rdbuf \subseteq DOMAIN chan /\ DOMAIN chan \subseteq Nat \ {0}
           /\ \A i \in DOMAIN rdbuf : rdbuf[i] = chan[i]
<1>1. /\ DOMAIN rdbuf = 1 .. Len(rdbuf) /\ DOMAIN chan = 1 .. Len(rdbuf) + Len(toProxy)
      /\ Len(rdbuf) \in Nat /\ Len(toProxy) \in Nat
      /\ \A i \in DOMAIN rdbuf : chan[i] = rdbuf[i]
  BY ConcatEntries DEF chan, SockTypes
<1> QED
  BY <1>1

LEMMA BufferFirstNext ==
    ASSUME SockTypes'
    PROVE  /\ DOMAIN rdbuf' \subseteq DOMAIN chan' /\ DOMAIN chan' \subseteq Nat \ {0}
           /\ \A i \in DOMAIN rdbuf' : rdbuf'[i] = chan'[i]
<1>1. /\ DOMAIN rdbuf' = 1 .. Len(rdbuf') /\ DOMAIN chan' = 1 .. Len(rdbuf') + Len(toProxy')
      /\ Len(rdbuf') \in Nat /\ Len(toProxy') \in Nat
      /\ \A i \in DOMAIN rdbuf' : chan'[i] = rdbuf'[i]
  BY ConcatEntries DEF chan, SockTypes
<1> QED
  BY <1>1

(* ... and what it sends goes to the end of the other queue. *)
LEMMA LastSent ==
    ASSUME SockTypes, NEW t \in Tokens, toGdb' = Sent(t), ~hungUp
    PROVE  /\ Len(toGdb) + 1 \in DOMAIN toGdb' /\ toGdb'[Len(toGdb) + 1] = t
           /\ DOMAIN toGdb' = DOMAIN toGdb \cup {Len(toGdb) + 1}
           /\ \A i \in DOMAIN toGdb : toGdb'[i] = toGdb[i] /\ i < Len(toGdb) + 1
           /\ Len(toGdb) + 1 \in Nat /\ DOMAIN toGdb \subseteq Nat \ {0}
<1>1. toGdb' = Append(toGdb, t) /\ toGdb \in Seq(Tokens)
  BY DEF Sent, SockTypes
<1> QED
  BY <1>1, AppendEntries

(* A request that is read has reached its addressee: it is the one the debugger
   waits for, and only acknowledgements are behind it. *)
LEMMA RequestRead ==
    ASSUME TypesInv, OnWire, dbg_sock_readchar, IsRequest(NextToken)
    PROVE  /\ NextToken = req /\ gdb \in {"ack", "gone"} /\ (gdb = "ack" => ~Plus /\ ~bad)
           /\ \A i \in DOMAIN chan' : chan'[i] = Ack
<1>1. 1 \in DOMAIN chan /\ chan[1] = NextToken
  BY FirstToken DEF TypesInv
<1>2. /\ NextToken = req /\ gdb \in {"ack", "gone"} /\ (gdb = "ack" => ~Plus /\ ~bad)
      /\ \A j \in DOMAIN chan : j > 1 => chan[j] = Ack
  BY <1>1 DEF OnWire, OneRequest
<1>3. \A i \in DOMAIN chan' : i \in Nat \ {0} /\ i + 1 \in DOMAIN chan /\ chan'[i] = chan[i + 1]
  BY FirstToken DEF TypesInv
<1>4. \A i \in DOMAIN chan' : i + 1 > 1
  BY <1>3
<1> QED
  BY <1>2, <1>3, <1>4

(* Taking a token off leaves at most one request. *)
LEMMA ReadKeepsOrder ==
    ASSUME TypesInv, OnWire, dbg_sock_readchar, UNCHANGED gdbvars,
           IsRequest(NextToken) \/ UNCHANGED toGdb
    PROVE  OneRequest'
<1>1. UNCHANGED <<gdb, req, bad>>
  BY DEF gdbvars
<1>2. CASE IsRequest(NextToken)
  BY <1>2, RequestRead, TokenKinds DEF OneRequest, IsRequest
<1>3. CASE UNCHANGED toGdb
  <2> SUFFICES ASSUME NEW i \in DOMAIN chan', IsRequest(chan'[i])
               PROVE  /\ gdb \in {"ack", "gone"} /\ chan'[i] = req
                      /\ gdb = "ack" => ~Plus /\ ~bad
                      /\ \A j \in DOMAIN chan' : j > i => chan'[j] = Ack
    BY <1>1, <1>3 DEF OneRequest, Plus, IsRequest
  <2>1. i + 1 \in DOMAIN chan /\ chan'[i] = chan[i + 1] /\ i \in Nat
    BY FirstToken DEF TypesInv
  <2>2. /\ gdb \in {"ack", "gone"} /\ chan[i + 1] = req
        /\ gdb = "ack" => ~Plus /\ ~bad
        /\ \A j \in DOMAIN chan : j > i + 1 => chan[j] = Ack
    BY <2>1 DEF OnWire, OneRequest
  <2>3. ASSUME NEW j \in DOMAIN chan', j > i PROVE chan'[j] = Ack
    <3>1. j + 1 \in DOMAIN chan /\ chan'[j] = chan[j + 1] /\ j \in Nat
      BY FirstToken DEF TypesInv
    <3>2. j + 1 > i + 1
      BY <2>1, <2>3, <3>1
    <3> QED
      BY <2>2, <3>1, <3>2
  <2> QED
    BY <2>1, <2>2, <2>3
<1> QED
  BY <1>2, <1>3

(* rp_getpkt answers a request with the only '+' there is. *)
LEMMA GetpktOnWire ==
    ASSUME TypesInv, OnWire, rp_getpkt, UNCHANGED gdbvars
    PROVE  /\ OnWire'
           /\ IsRequest(NextToken) /\ gdb # "gone" => Plus'
           /\ \A i \in DOMAIN toGdb : i \in DOMAIN toGdb' /\ toGdb'[i] = toGdb[i]
<1>1. UNCHANGED <<gdb, req, bad, hungUp>> /\ dbg_sock_readchar /\ SockTypes
  BY DEF gdbvars, rp_getpkt, TypesInv
<1>2. CASE IsRequest(NextToken) /\ gdb # "gone"
  <2>1. gdb = "ack" /\ ~Plus /\ ~bad /\ ~hungUp /\ toGdb' = Sent(Ack)
    BY <1>1, <1>2, RequestRead DEF OnWire, HangUpSeen, rp_getpkt, IsRequest
  <2>2. /\ Len(toGdb) + 1 \in DOMAIN toGdb' /\ toGdb'[Len(toGdb) + 1] = Ack
        /\ DOMAIN toGdb' = DOMAIN toGdb \cup {Len(toGdb) + 1}
        /\ \A i \in DOMAIN toGdb : toGdb'[i] = toGdb[i]
    BY <1>1, <2>1, LastSent, TokenKinds
  <2>3. Plus' /\ \A i \in DOMAIN toGdb' : toGdb'[i] = Ack => i = Len(toGdb) + 1
    BY <2>1, <2>2 DEF Plus
  <2>4. HangUpSeen' /\ OnlyReplies' /\ OnePlus'
    BY <1>1, <2>1, <2>2, <2>3 DEF OnWire, HangUpSeen, OnlyReplies, OnePlus
  <2>5. OneRequest'
    BY <1>1, <1>2, ReadKeepsOrder
  <2> QED
    BY <2>2, <2>3, <2>4, <2>5 DEF OnWire
<1>3. CASE ~(IsRequest(NextToken) /\ gdb # "gone")
  <2>1. toGdb' = toGdb
    BY <1>1, <1>3 DEF OnWire, HangUpSeen, rp_getpkt, IsRequest, Sent
  <2>2. OneRequest'
    BY <1>1, <2>1, ReadKeepsOrder
  <2> QED
    BY <1>1, <1>3, <2>1, <2>2 DEF OnWire, HangUpSeen, OnlyReplies, OnePlus, Plus
<1> QED
  BY <1>2, <1>3

LEMMA SkipOnWire ==
    ASSUME TypesInv, OnWire, dbg_sock_readchar, UNCHANGED <<toGdb, hungUp>>, UNCHANGED gdbvars
    PROVE  OnWire'
<1>1. UNCHANGED <<gdb, req, bad>>
  BY DEF gdbvars
<1>2. OneRequest'
  BY ReadKeepsOrder
<1> QED
  BY <1>1, <1>2 DEF OnWire, HangUpSeen, OnlyReplies, OnePlus, Plus

LEMMA PutOnWire ==
    ASSUME TypesInv, OnWire, WritePacket
    PROVE  /\ OnWire' /\ (Plus' <=> Plus)
           /\ \A i \in DOMAIN toGdb : i \in DOMAIN toGdb' /\ toGdb'[i] = toGdb[i]
<1>1. UNCHANGED <<gdb, req, bad, hungUp, rdbuf, toProxy>> /\ toGdb' = Sent(Head(outq))
  BY DEF WritePacket, gdbvars
<1>2. Head(outq) \in Tokens /\ Head(outq).k \in ReplyKinds /\ Head(outq) # Ack
  <2>1. Burst(outq)
    BY DEF WritePacket, TypesInv, Queued, Putting
  <2>2. 1 \in DOMAIN outq /\ Head(outq) = outq[1] /\ outq[1] \in Tokens
    BY <2>1, TailEntries DEF Burst
  <2> QED
    BY <2>1, <2>2, TokenKinds DEF Burst
<1>3. CASE hungUp
  <2>1. toGdb' = toGdb
    BY <1>1, <1>3 DEF Sent
  <2> QED
    BY <1>1, <2>1 DEF OnWire, HangUpSeen, OnlyReplies, OnePlus, OneRequest, Plus, chan
<1>4. CASE ~hungUp
  <2>1. /\ Len(toGdb) + 1 \in DOMAIN toGdb' /\ toGdb'[Len(toGdb) + 1] = Head(outq)
        /\ DOMAIN toGdb' = DOMAIN toGdb \cup {Len(toGdb) + 1}
        /\ \A i \in DOMAIN toGdb : toGdb'[i] = toGdb[i]
    BY <1>1, <1>2, <1>4, LastSent DEF TypesInv
  <2>2. Plus' <=> Plus
    BY <1>2, <2>1 DEF Plus
  <2>3. HangUpSeen'
    BY <1>1, <1>4 DEF OnWire, HangUpSeen
  <2>4. OnlyReplies' /\ OnePlus'
    BY <1>1, <1>2, <2>1, <2>2 DEF OnWire, OnlyReplies, OnePlus
  <2>5. OneRequest'
    BY <1>1, <2>2 DEF OnWire, OneRequest, chan
  <2> QED
    BY <2>1, <2>2, <2>3, <2>4, <2>5 DEF OnWire
<1> QED
  BY <1>3, <1>4

(* What the proxy has not read is lost with the connection. *)
LEMMA CloseOnWire ==
    ASSUME TypesInv, OnWire, dbg_sock_close, UNCHANGED gdbvars
    PROVE  OnWire' /\ UNCHANGED rdbuf
<1>1. UNCHANGED <<gdb, req, bad, hungUp, rdbuf, toGdb>> /\ toProxy' = <<>>
  BY DEF dbg_sock_close, gdbvars
<1>2. /\ chan' = rdbuf /\ DOMAIN rdbuf \subseteq DOMAIN chan
      /\ \A i \in DOMAIN rdbuf : rdbuf[i] = chan[i]
  BY <1>1, ChanCut DEF TypesInv
<1>3. OneRequest'
  BY <1>1, <1>2 DEF OnWire, OneRequest, Plus
<1> QED
  BY <1>1, <1>3 DEF OnWire, HangUpSeen, OnlyReplies, OnePlus, Plus

LEMMA SameOnWire ==
    ASSUME OnWire, UNCHANGED <<rdbuf, toProxy, toGdb, hungUp>>, UNCHANGED gdbvars
    PROVE  OnWire'
  BY DEF OnWire, HangUpSeen, OnlyReplies, OnePlus, OneRequest, Plus, chan, gdbvars

(* The next connection starts with an empty wire, but for what is in the buffer. *)
LEMMA AcceptOnWire ==
    ASSUME TypesInv, QuietEnd, Accept
    PROVE  OnWire' /\ QuietEnd'
<1>1. /\ toProxy' = <<>> /\ toGdb' = <<>> /\ hungUp' = FALSE /\ rdbuf' = rdbuf
      /\ gdb' = "idle" /\ pc = "accept" /\ pc' = "connect"
  BY DEF Accept, dbg_sock_accept, GdbConnects
<1>2. chan' = rdbuf /\ \A i \in DOMAIN rdbuf : rdbuf[i] \in {Ack, Nak}
  BY <1>1, ChanCut DEF TypesInv, QuietEnd, Shut
<1>3. ~Plus' /\ DOMAIN toGdb' = {}
  BY <1>1 DEF Plus
<1> QED
  BY <1>1, <1>2, <1>3, TokenKinds DEF OnWire, HangUpSeen, OnlyReplies, OnePlus, OneRequest,
     IsRequest, QuietEnd, Shut, Leaving, Putting

(* The end of a session, step by step. *)
LEMMA ProxySessionWire ==
    ASSUME TypesInv, OnWire, QuietEnd,
           Open \/ SockOpen \/ Abort \/ AcceptFails \/ Connect \/ CloseSession \/ Detached
           \/ DebuggerGone
    PROVE  OnWire' /\ QuietEnd'
<1>1. UNCHANGED gdbvars
  BY ProxyLeavesGdb DEF Proxy
<1>2. CASE Open \/ SockOpen \/ Abort \/ Connect
  <2>1. UNCHANGED <<rdbuf, toProxy, toGdb, hungUp>>
    BY <1>2, Zenon DEF Open, SockOpen, Abort, Connect, dbg_sock_open, sockvars
  <2>2. (pc' \in Shut => pc \in Shut) /\ ~Leaving'
    BY <1>2 DEF Open, SockOpen, Abort, Connect, Shut, Leaving, Putting
  <2> QED
    BY <1>1, <2>1, <2>2, SameOnWire DEF QuietEnd
<1>3. CASE AcceptFails \/ CloseSession
  <2>1. dbg_sock_close /\ pc \in Shut /\ ~Leaving'
    BY <1>3 DEF AcceptFails, CloseSession, Shut, Leaving, Putting
  <2>2. OnWire' /\ UNCHANGED rdbuf
    BY <1>1, <2>1, CloseOnWire
  <2> QED
    BY <2>1, <2>2 DEF QuietEnd
<1>4. CASE Detached
  <2>1. dbg_sock_close /\ Leaving /\ ~Leaving'
    BY <1>4 DEF Detached, Leaving, Putting
  <2>2. OnWire' /\ UNCHANGED rdbuf
    BY <1>1, <2>1, CloseOnWire
  <2>3. \A i \in DOMAIN rdbuf : rdbuf[i] \in {Ack, Nak}
    BY <2>1, BufferFirst DEF QuietEnd, TypesInv
  <2> QED
    BY <2>1, <2>2, <2>3 DEF QuietEnd
<1>5. CASE DebuggerGone
  <2>1. UNCHANGED <<rdbuf, toProxy, toGdb, hungUp>> /\ rdbuf = <<>> /\ ~Leaving'
    BY <1>5 DEF DebuggerGone, ReadFails, Readable, sockvars, Leaving, Putting
  <2> QED
    BY <1>1, <2>1, SameOnWire DEF QuietEnd
<1> QED
  BY <1>2, <1>3, <1>4, <1>5

(* Reading takes nothing from what is known of the rest, and no '+' back. *)
LEMMA GetpktKeepsQuiet ==
    ASSUME TypesInv, OnWire, QuietEnd, rp_getpkt, UNCHANGED gdbvars, UNCHANGED after,
           Leaving' => Leaving, pc' \notin Shut
    PROVE  OnWire' /\ QuietEnd'
<1>1. OnWire' /\ \A i \in DOMAIN toGdb : i \in DOMAIN toGdb' /\ toGdb'[i] = toGdb[i]
  BY GetpktOnWire
<1>2. UNCHANGED <<gdb, req>> /\ (Working => Working')
  BY <1>1 DEF Working, Plus, gdbvars
<1>3. \A i \in DOMAIN chan' : i + 1 \in DOMAIN chan /\ chan'[i] = chan[i + 1]
  BY FirstToken DEF rp_getpkt, TypesInv
<1>4. Leaving' => \A i \in DOMAIN chan' : chan'[i] \in {Ack, Nak}
  BY <1>3 DEF QuietEnd
<1>5. Leaving' => gdb' = "gone" \/ (req'.k = "detach" /\ Working')
  BY <1>2 DEF QuietEnd
<1> QED
  BY <1>1, <1>4, <1>5 DEF QuietEnd

LEMMA ProxyPacketWire ==
    ASSUME TypesInv, OnWire, QuietEnd,
           SkipBad \/ FlushToken \/ FlushDone \/ FlushFails \/ WritePacket
           \/ WriteFails \/ AckToken \/ AckFails
    PROVE  OnWire' /\ QuietEnd'
<1>1. UNCHANGED gdbvars
  BY ProxyLeavesGdb DEF Proxy
<1>2. UNCHANGED after /\ (Leaving' => Leaving) /\ pc \notin Shut /\ pc' \notin Shut
  BY DEF SkipBad, FlushToken, FlushDone, FlushFails, WritePacket, WriteFails, AckToken,
         AckFails, PutDone, proxyvars, vars, Leaving, Putting, Shut, TypesInv, ProxyTypes
<1>3. CASE SkipBad
  <2>1. dbg_sock_readchar /\ UNCHANGED <<toGdb, hungUp, pc>>
    BY <1>3 DEF SkipBad, proxyvars
  <2>2. \A i \in DOMAIN chan' : i + 1 \in DOMAIN chan /\ chan'[i] = chan[i + 1]
    BY <2>1, FirstToken DEF TypesInv
  <2>3. OnWire'
    BY <1>1, <2>1, SkipOnWire
  <2>4. Leaving' => \A i \in DOMAIN chan' : chan'[i] \in {Ack, Nak}
    BY <1>2, <2>2 DEF QuietEnd
  <2>5. Leaving' => gdb' = "gone" \/ (req'.k = "detach" /\ Working')
    BY <1>1, <1>2, <2>1 DEF QuietEnd, Working, Plus, gdbvars
  <2> QED
    BY <1>2, <2>3, <2>4, <2>5 DEF QuietEnd
<1>4. CASE FlushToken \/ AckToken
  BY <1>1, <1>2, <1>4, GetpktKeepsQuiet DEF FlushToken, AckToken
<1>5. CASE FlushDone \/ FlushFails \/ WriteFails \/ AckFails
  <2>1. UNCHANGED <<rdbuf, toProxy, toGdb, hungUp>>
    BY <1>5, Zenon DEF FlushDone, FlushFails, WriteFails, AckFails, sockvars, vars
  <2>2. OnWire'
    BY <1>1, <2>1, SameOnWire
  <2> QED
    BY <1>1, <1>2, <2>1, <2>2 DEF QuietEnd, Working, Plus, gdbvars, chan
<1>6. CASE WritePacket
  <2>1. OnWire' /\ (Plus' <=> Plus)
    BY <1>6, PutOnWire
  <2>2. UNCHANGED chan
    BY <1>6 DEF WritePacket, chan
  <2> QED
    BY <1>1, <1>2, <2>1, <2>2 DEF QuietEnd, Working, gdbvars
<1> QED
  BY <1>3, <1>4, <1>5, <1>6

LEMMA ProxyHandlerWire ==
    ASSUME TypesInv, OnWire, QuietEnd, Handle \/ Resumed \/ Poll
    PROVE  OnWire' /\ QuietEnd'
<1>1. UNCHANGED gdbvars
  BY ProxyLeavesGdb DEF Proxy
<1>2. CASE HandleKill \/ HandleDetach
  <2>1. rp_getpkt /\ NextToken.k \in {"kill", "detach"} /\ dbg_sock_readchar
    BY <1>2 DEF HandleKill, HandleDetach, Got, rp_getpkt
  <2>2. IsRequest(NextToken)
    BY <2>1 DEF IsRequest, AllCommands
  <2>3. OnWire' /\ (gdb # "gone" => Plus')
    BY <1>1, <2>1, <2>2, GetpktOnWire
  <2>4. /\ NextToken = req /\ gdb \in {"ack", "gone"}
        /\ \A i \in DOMAIN chan' : chan'[i] = Ack
    BY <2>1, <2>2, RequestRead
  <2>5. SockTypes'
    BY <2>1, ReadTyped DEF TypesInv
  <2>6. \A i \in DOMAIN rdbuf' : rdbuf'[i] = Ack
    BY <2>4, <2>5, BufferFirstNext
  <2>7. CASE HandleKill
    BY <2>3, <2>6, <2>7, Zenon DEF HandleKill, QuietEnd, Leaving, Putting
  <2>8. CASE HandleDetach
    <3>1. pc' = "flush" /\ NextToken.k = "detach"
      BY <2>8 DEF HandleDetach, Put, Got
    <3>2. gdb' = "gone" \/ (req'.k = "detach" /\ Working')
      BY <1>1, <2>3, <2>4, <3>1 DEF gdbvars, Working
    <3> QED
      BY <2>3, <2>4, <3>1, <3>2 DEF QuietEnd, Shut
  <2> QED
    BY <1>2, <2>7, <2>8
<1>3. CASE HandleQuery \/ HandleStatus \/ HandleExtended \/ HandleRemoteCommand
           \/ HandleRunError \/ HandleRun \/ HandleInterrupt \/ IgnoreToken \/ HandleRestart
  <2>1. rp_getpkt /\ pc' \notin Shut /\ ~Leaving'
    BY <1>3 DEF HandleQuery, HandleStatus, HandleExtended, HandleRemoteCommand,
       HandleRunError, HandleRun, HandleInterrupt, IgnoreToken, HandleRestart, Got, Put,
       Shut, Leaving, Putting, proxyvars
  <2>2. OnWire'
    BY <1>1, <2>1, GetpktOnWire
  <2> QED
    BY <2>1, <2>2 DEF QuietEnd
<1>4. CASE Resumed \/ Poll
  <2>1. UNCHANGED <<rdbuf, toProxy, toGdb, hungUp>> /\ pc' \notin Shut /\ ~Leaving'
    BY <1>4 DEF Resumed, Poll, WaitPartial, Put, sockvars, Shut, Leaving, Putting
  <2> QED
    BY <1>1, <2>1, SameOnWire DEF QuietEnd
<1> QED
  BY <1>2, <1>3, <1>4 DEF Handle

-----------------------------------------------------------------------------
(* What a polite debugger does to the wire. *)

LEMMA LastWritten ==
    ASSUME SockTypes, NEW t \in Tokens, rdbuf' = rdbuf,
           toProxy' = Append(toProxy, t) \/ toProxy' = toProxy \o <<t>>
    PROVE  /\ Len(chan) + 1 \in Nat /\ Len(chan) + 1 \in DOMAIN chan'
           /\ chan'[Len(chan) + 1] = t
           /\ DOMAIN chan' = DOMAIN chan \cup {Len(chan) + 1}
           /\ \A i \in DOMAIN chan : chan'[i] = chan[i] /\ i < Len(chan) + 1 /\ i \in Nat
<1>1. toProxy' = Append(toProxy, t)
  BY AppendIsConcat DEF SockTypes
<1>2. chan \in Seq(Tokens) /\ chan' = Append(chan, t)
  BY <1>1, ChanWrite
<1> QED
  BY <1>2, AppendEntries

LEMMA NothingWritten ==
    ASSUME SockTypes, rdbuf' = rdbuf, toProxy' = toProxy \o <<>>
    PROVE  UNCHANGED <<chan, toProxy>>
<1>1. toProxy' = toProxy
  BY ConcatEmptySeq DEF SockTypes
<1> QED
  BY <1>1 DEF chan

LEMMA FirstTaken ==
    ASSUME SockTypes, toGdb # <<>>, toGdb' = Tail(toGdb)
    PROVE  /\ 1 \in DOMAIN toGdb /\ toGdb[1] = Head(toGdb) /\ Head(toGdb) \in Tokens
           /\ DOMAIN toGdb \subseteq Nat \ {0} /\ DOMAIN toGdb' \subseteq Nat \ {0}
           /\ \A i \in DOMAIN toGdb' : i + 1 \in DOMAIN toGdb /\ toGdb'[i] = toGdb[i + 1]
           /\ \A i \in DOMAIN toGdb :
                 i = 1 \/ (i - 1 \in DOMAIN toGdb' /\ toGdb[i] = toGdb'[i - 1])
  BY TailEntries DEF SockTypes

NoRequest == \A i \in DOMAIN chan : ~IsRequest(chan[i])

(* Nothing is on its way while the debugger is not waiting for a '+', or when
   the '+' is on its way already, or the request was spoiled. *)
LEMMA WhenNoRequest ==
    ASSUME OnWire, gdb \in {"idle", "reply"} \/ (gdb = "ack" /\ (Plus \/ bad))
    PROVE  NoRequest
<1>1. gdb # "gone" /\ (gdb = "ack" => Plus \/ bad)
  OBVIOUS
<1>2. ASSUME NEW i \in DOMAIN chan, IsRequest(chan[i]) PROVE FALSE
  <2>1. gdb \in {"ack", "gone"} /\ (gdb = "ack" => ~Plus /\ ~bad)
    BY <1>2 DEF OnWire, OneRequest
  <2> QED
    BY <1>1, <2>1
<1> QED
  BY <1>2 DEF NoRequest

LEMMA NoRequestAdded ==
    ASSUME SockTypes, NoRequest, NEW t \in Tokens, ~IsRequest(t), rdbuf' = rdbuf,
           toProxy' = Append(toProxy, t) \/ toProxy' = toProxy \o <<t>>
    PROVE  NoRequest' /\ OneRequest'
<1>1. NoRequest'
  BY LastWritten DEF NoRequest, IsRequest
<1> QED
  BY <1>1 DEF NoRequest, OneRequest, IsRequest

(* Taking the first token off the replies keeps their order, and the '+' unless
   it is the first. *)
LEMMA TakeReply ==
    ASSUME SockTypes, OnWire, toGdb # <<>>, toGdb' = Tail(toGdb)
    PROVE  /\ OnlyReplies'
           /\ \A i, j \in DOMAIN toGdb' : toGdb'[i] = Ack /\ toGdb'[j] = Ack => i = j
           /\ Plus' <=> Plus /\ Head(toGdb) # Ack
<1>1. /\ 1 \in DOMAIN toGdb /\ toGdb[1] = Head(toGdb)
      /\ DOMAIN toGdb \subseteq Nat \ {0} /\ DOMAIN toGdb' \subseteq Nat \ {0}
      /\ \A i \in DOMAIN toGdb' : i + 1 \in DOMAIN toGdb /\ toGdb'[i] = toGdb[i + 1]
      /\ \A i \in DOMAIN toGdb :
            i = 1 \/ (i - 1 \in DOMAIN toGdb' /\ toGdb[i] = toGdb'[i - 1])
  BY FirstTaken
<1>2. OnlyReplies'
  BY <1>1 DEF OnWire, OnlyReplies
<1>3. ASSUME NEW i \in DOMAIN toGdb', NEW j \in DOMAIN toGdb', toGdb'[i] = Ack, toGdb'[j] = Ack
      PROVE  i = j
  <2>1. /\ i + 1 \in DOMAIN toGdb /\ toGdb[i + 1] = Ack
        /\ j + 1 \in DOMAIN toGdb /\ toGdb[j + 1] = Ack
    BY <1>1, <1>3
  <2>2. i + 1 = j + 1
    BY <2>1 DEF OnWire, OnePlus
  <2> QED
    BY <1>1, <2>2
<1>4. Plus' => Plus /\ Head(toGdb) # Ack
  <2> SUFFICES ASSUME NEW i \in DOMAIN toGdb', toGdb'[i] = Ack
               PROVE  Plus /\ Head(toGdb) # Ack
    BY DEF Plus
  <2>1. i + 1 \in DOMAIN toGdb /\ toGdb[i + 1] = Ack /\ i + 1 # 1
    BY <1>1
  <2>2. toGdb[1] # Ack
    BY <1>1, <2>1 DEF OnWire, OnePlus
  <2> QED
    BY <1>1, <2>1, <2>2 DEF Plus
<1>5. Plus /\ Head(toGdb) # Ack => Plus'
  BY <1>1 DEF Plus
<1> QED
  BY <1>2, <1>3, <1>4, <1>5

LEMMA VanishOnWire ==
    ASSUME TypesInv, OnWire, QuietEnd, Vanish, UNCHANGED <<pc, after>>
    PROVE  OnWire' /\ QuietEnd'
<1>1. /\ gdb' = "gone" /\ hungUp' = TRUE /\ toGdb' = <<>>
      /\ UNCHANGED <<rdbuf, toProxy, chan, req, bad, pc, after>>
  BY DEF Vanish, chan
<1>2. ~Plus' /\ DOMAIN toGdb' = {}
  BY <1>1 DEF Plus
<1>3. OneRequest'
  BY <1>1 DEF OnWire, OneRequest
<1>4. QuietEnd'
  BY <1>1 DEF QuietEnd, Leaving, Putting, Shut
<1> QED
  BY <1>1, <1>2, <1>3, <1>4 DEF OnWire, HangUpSeen, OnlyReplies, OnePlus

LEMMA GdbSendsWire ==
    ASSUME TypesInv, OnWire, QuietEnd, UNCHANGED <<pc, after>>,
           (\E c \in Commands : GdbRequest(c)) \/ GdbRepeat \/ GdbInterrupts
    PROVE  OnWire' /\ QuietEnd'
<1>1. ASSUME NEW t \in Tokens, Write(t), gdb' = "ack" /\ gdb # "gone" /\ ~Plus,
             NoRequest, IsRequest(t) => t = req' /\ ~bad', ~Leaving
      PROVE  OnWire' /\ QuietEnd'
  <2>1. /\ UNCHANGED <<rdbuf, toGdb, hungUp>> /\ toProxy' = Append(toProxy, t)
    BY <1>1 DEF Write
  <2>2. /\ chan'[Len(chan) + 1] = t /\ Len(chan) + 1 \in Nat
        /\ DOMAIN chan' = DOMAIN chan \cup {Len(chan) + 1}
        /\ \A i \in DOMAIN chan : chan'[i] = chan[i] /\ i < Len(chan) + 1 /\ i \in Nat
    BY <2>1, LastWritten DEF TypesInv
  <2>3. ASSUME NEW i \in DOMAIN chan', IsRequest(chan'[i])
        PROVE  /\ chan'[i] = req' /\ ~bad'
               /\ \A j \in DOMAIN chan' : j > i => chan'[j] = Ack
    <3>1. i = Len(chan) + 1
      BY <1>1, <2>2, <2>3 DEF NoRequest
    <3>2. \A j \in DOMAIN chan' : ~(j > i)
      BY <2>2, <3>1
    <3> QED
      BY <1>1, <2>2, <2>3, <3>1, <3>2
  <2>4. ~Plus'
    BY <1>1, <2>1 DEF Plus
  <2>5. OneRequest'
    BY <1>1, <2>3, <2>4 DEF OneRequest, IsRequest
  <2>6. HangUpSeen' /\ OnlyReplies' /\ OnePlus'
    BY <1>1, <2>1, <2>4 DEF OnWire, HangUpSeen, OnlyReplies, OnePlus, Plus
  <2>7. ~Leaving' /\ (pc' \in Shut <=> pc \in Shut)
    BY <1>1 DEF Leaving, Putting
  <2> QED
    BY <2>1, <2>5, <2>6, <2>7 DEF OnWire, QuietEnd
<1>2. ASSUME NEW c \in Commands, GdbRequest(c) PROVE OnWire' /\ QuietEnd'
  <2>1. c \in AllCommands /\ sent' \in Nat /\ req' = Tok(c, sent') /\ gdb = "idle" /\ gdb' = "ack"
    BY <1>2, DebuggerAssumption DEF GdbRequest, TypesInv, GdbTypes
  <2>2. req' \in Tokens /\ Tok("bad", sent') \in Tokens /\ ~IsRequest(Tok("bad", sent'))
    BY <2>1, TokensOfAll, TokenKinds
  <2>3. NoRequest /\ ~Plus
    BY <2>1, WhenNoRequest DEF OnWire, OnePlus
  <2>4. ~Leaving
    BY <2>1, <2>3 DEF QuietEnd, Working
  <2>5. CASE Write(req') /\ bad' = FALSE
    BY <1>1, <2>1, <2>2, <2>3, <2>4, <2>5
  <2>6. CASE Write(Tok("bad", sent'))
    BY <1>1, <2>1, <2>2, <2>3, <2>4, <2>6
  <2> QED
    BY <1>2, <2>5, <2>6 DEF GdbRequest
<1>3. CASE GdbRepeat
  <2>1. gdb = "ack" /\ bad /\ bad' = FALSE /\ Write(req) /\ UNCHANGED <<gdb, req>> /\ req \in Tokens
    BY <1>3 DEF GdbRepeat, TypesInv, GdbTypes
  <2>2. NoRequest /\ ~Plus
    BY <2>1, WhenNoRequest DEF OnWire, OnePlus
  <2>3. ~Leaving
    BY <2>1, <2>2 DEF QuietEnd, Working
  <2> QED
    BY <1>1, <2>1, <2>2, <2>3
<1>4. CASE GdbInterrupts
  <2>1. /\ gdb = "reply" /\ req.k \in RunCommands /\ UNCHANGED <<gdb, req, bad>>
        /\ UNCHANGED <<rdbuf, toGdb, hungUp>> /\ toProxy' = Append(toProxy, Intr)
    BY <1>4 DEF GdbInterrupts, Write
  <2>2. NoRequest'  /\ OneRequest'
    BY <2>1, WhenNoRequest, NoRequestAdded, TokenKinds DEF TypesInv
  <2>3. ~Leaving /\ ~Leaving'
    <3>1. req.k # "detach"
      BY <2>1 DEF RunCommands
    <3> QED
      BY <2>1, <3>1 DEF QuietEnd, Leaving, Putting
  <2> QED
    BY <2>1, <2>2, <2>3 DEF OnWire, HangUpSeen, OnlyReplies, OnePlus, Plus, QuietEnd
<1> QED
  BY <1>2, <1>3, <1>4

LEMMA GdbTakesWire ==
    ASSUME TypesInv, OnWire, QuietEnd, UNCHANGED <<pc, after>>,
           GdbAcked \/ GdbGobbles \/ GdbReads \/ GdbDetaches
    PROVE  OnWire' /\ QuietEnd'
<1>1. CASE Vanish
  BY <1>1, VanishOnWire
<1>2. CASE GdbAcked /\ ~Vanish
  <2>1. /\ gdb = "ack" /\ toGdb # <<>> /\ Head(toGdb) = Ack /\ Consume(<<>>)
        /\ UNCHANGED <<req, bad>> /\ gdb' \in {"idle", "reply"}
        /\ req.k = "detach" => gdb' = "reply"
    BY <1>2 DEF GdbAcked
  <2>2. UNCHANGED <<rdbuf, hungUp, chan>> /\ toGdb' = Tail(toGdb)
    BY <2>1, NothingWritten DEF Consume, TypesInv
  <2>3. OnlyReplies' /\ ~Plus'
    BY <2>1, <2>2, TakeReply DEF TypesInv
  <2>4. Plus
    BY <2>1, <2>2, FirstTaken DEF Plus, TypesInv
  <2>5. OneRequest'
    BY <2>1, <2>2, <2>4, WhenNoRequest DEF NoRequest, OneRequest, IsRequest
  <2>6. HangUpSeen' /\ OnePlus'
    BY <2>1, <2>2, <2>3 DEF OnWire, HangUpSeen, OnePlus, Plus
  <2>7. QuietEnd'
    BY <2>1, <2>2 DEF QuietEnd, Leaving, Putting, Working
  <2> QED
    BY <2>3, <2>5, <2>6, <2>7 DEF OnWire
<1>3. CASE GdbGobbles
  <2>1. /\ gdb = "ack" /\ toGdb # <<>> /\ Head(toGdb) # Ack /\ Consume(<<Ack>>)
        /\ UNCHANGED <<gdb, req, bad>>
    BY <1>3 DEF GdbGobbles, gdbvars
  <2>2. UNCHANGED <<rdbuf, hungUp>> /\ toGdb' = Tail(toGdb) /\ toProxy' = toProxy \o <<Ack>>
    BY <2>1 DEF Consume
  <2>3. /\ chan'[Len(chan) + 1] = Ack /\ Len(chan) + 1 \in Nat
        /\ DOMAIN chan' = DOMAIN chan \cup {Len(chan) + 1}
        /\ \A i \in DOMAIN chan : chan'[i] = chan[i] /\ i < Len(chan) + 1 /\ i \in Nat
    BY <2>2, LastWritten, TokenKinds DEF TypesInv
  <2>4. /\ OnlyReplies' /\ (Plus' <=> Plus)
        /\ \A i, j \in DOMAIN toGdb' : toGdb'[i] = Ack /\ toGdb'[j] = Ack => i = j
    BY <2>1, <2>2, TakeReply DEF TypesInv
  <2>5. OneRequest'
    BY <2>1, <2>3, <2>4, TokenKinds DEF OnWire, OneRequest, IsRequest
  <2>6. HangUpSeen' /\ OnePlus'
    BY <2>1, <2>2, <2>4 DEF OnWire, HangUpSeen, OnePlus
  <2>7. QuietEnd'
    <3>1. Leaving' => /\ \A i \in DOMAIN chan' : chan'[i] \in {Ack, Nak}
                      /\ req'.k = "detach" /\ Working'
      BY <2>1, <2>3, <2>4 DEF QuietEnd, Leaving, Putting, Working
    <3> QED
      BY <2>2, <3>1 DEF QuietEnd
  <2> QED
    BY <2>4, <2>5, <2>6, <2>7 DEF OnWire
<1>4. CASE GdbReads
  <2>1. /\ gdb = "reply" /\ toGdb # <<>> /\ toGdb' = Tail(toGdb)
        /\ UNCHANGED <<rdbuf, hungUp, req, bad>>
        /\ gdb' \in {"reply", "idle"} /\ (req.k = "detach" => gdb' = "reply")
    BY <1>4 DEF GdbReads, Consume, gdbvars
  <2>2. ~Plus /\ OnlyReplies' /\ ~Plus' /\ NoRequest
    BY <2>1, TakeReply, WhenNoRequest DEF TypesInv, OnWire, OnePlus
  <2>3. /\ OneRequest'
        /\ ~Leaving \/ \A i \in DOMAIN chan' : chan'[i] \in {Ack, Nak}
    <3>1. CASE Consume(<<>>)
      <4>1. UNCHANGED chan
        BY <3>1, NothingWritten DEF Consume, TypesInv
      <4> QED
        BY <2>2, <4>1 DEF OneRequest, NoRequest, IsRequest, QuietEnd
    <3>2. ASSUME NEW t \in {Ack, Nak}, Consume(<<t>>)
          PROVE  /\ OneRequest'
                 /\ ~Leaving \/ \A i \in DOMAIN chan' : chan'[i] \in {Ack, Nak}
      <4>1. rdbuf' = rdbuf /\ toProxy' = toProxy \o <<t>> /\ t \in Tokens /\ ~IsRequest(t)
        BY <3>2, TokenKinds DEF Consume
      <4>2. OneRequest'
        BY <2>2, <4>1, NoRequestAdded DEF TypesInv
      <4>3. /\ chan'[Len(chan) + 1] = t
            /\ DOMAIN chan' = DOMAIN chan \cup {Len(chan) + 1}
            /\ \A i \in DOMAIN chan : chan'[i] = chan[i]
        BY <4>1, LastWritten DEF TypesInv
      <4> QED
        BY <4>2, <4>3 DEF QuietEnd
    <3> QED
      BY <1>4, <3>1, <3>2 DEF GdbReads
  <2>4. HangUpSeen' /\ OnePlus'
    BY <2>1, <2>2 DEF OnWire, HangUpSeen, OnePlus, Plus
  <2>5. QuietEnd'
    BY <2>1, <2>3 DEF QuietEnd, Leaving, Putting, Working
  <2> QED
    BY <2>2, <2>3, <2>4, <2>5 DEF OnWire
<1>5. CASE GdbDetaches
  <2>1. /\ gdb = "reply" /\ gdb' = "gone" /\ hungUp' = TRUE /\ toGdb' = <<>>
        /\ UNCHANGED <<rdbuf, req, bad>> /\ toProxy' = Append(toProxy, Ack)
    BY <1>5 DEF GdbDetaches
  <2>2. NoRequest
    BY <2>1, WhenNoRequest
  <2>3. OneRequest'
    BY <2>1, <2>2, NoRequestAdded, TokenKinds DEF TypesInv
  <2>4. ~Plus' /\ DOMAIN toGdb' = {}
    BY <2>1 DEF Plus
  <2>5. /\ chan'[Len(chan) + 1] = Ack
        /\ DOMAIN chan' = DOMAIN chan \cup {Len(chan) + 1}
        /\ \A i \in DOMAIN chan : chan'[i] = chan[i]
    BY <2>1, LastWritten, TokenKinds DEF TypesInv
  <2>6. QuietEnd'
    BY <2>1, <2>5 DEF QuietEnd, Leaving, Putting
  <2> QED
    BY <2>1, <2>3, <2>4, <2>6 DEF OnWire, HangUpSeen, OnlyReplies, OnePlus
<1> QED
  BY <1>1, <1>2, <1>3, <1>4, <1>5

LEMMA PoliteWire ==
    ASSUME TypesInv, OnWire, QuietEnd, PoliteStep, UNCHANGED <<pc, after>>
    PROVE  OnWire' /\ QuietEnd'
<1>1. CASE GdbSeesEof \/ GdbCloses
  BY <1>1, VanishOnWire DEF GdbSeesEof, GdbCloses
<1> QED
  BY <1>1, GdbSendsWire, GdbTakesWire DEF PoliteStep

-----------------------------------------------------------------------------
LEMMA PoliteForever == [Next]_vars => polite' = polite
<1>1. Proxy \/ Chip \/ UNCHANGED vars => polite' = polite
  BY ProxyLeavesGdb DEF gdbvars, Chip, vars
<1>2. Accept => polite' = polite
  BY DEF Accept, GdbConnects
<1>3. PoliteStep => polite' = polite
  BY Zenon DEF PoliteStep, GdbRequest, GdbRepeat, GdbAcked, GdbGobbles, GdbReads, GdbDetaches,
     GdbInterrupts, GdbSeesEof, GdbCloses, Vanish, gdbvars
<1>4. RogueStep => polite' = polite
  BY Zenon DEF RogueStep, RogueSends, RogueReads, RogueVanishes, Vanish, gdbvars
<1> QED
  BY <1>1, <1>2, <1>3, <1>4 DEF Next, Gdb, GdbStep

LEMMA WireInit == Init => Wire
<1> SUFFICES ASSUME Init PROVE OnWire /\ QuietEnd
  BY DEF Wire
<1>1. toGdb = <<>> /\ chan = <<>> /\ rdbuf = <<>> /\ hungUp = TRUE /\ gdb = "gone" /\ pc = "open"
  BY ConcatEmptySeq DEF Init, SockInit, GdbInit, chan
<1> QED
  BY <1>1 DEF OnWire, HangUpSeen, OnlyReplies, OnePlus, OneRequest, Plus, QuietEnd, Leaving,
     Putting

LEMMA WireStep == TypesInv /\ Wire /\ [Next]_vars => Wire'
<1> SUFFICES ASSUME TypesInv, OnWire, QuietEnd, polite, [Next]_vars
             PROVE  OnWire' /\ QuietEnd'
  BY PoliteForever DEF Wire
<1>1. CASE Proxy
  BY <1>1, ProxySessionWire, ProxyPacketWire, ProxyHandlerWire DEF Proxy
<1>2. CASE Accept
  BY <1>2, AcceptOnWire
<1>3. CASE Gdb
  <2>1. PoliteStep /\ UNCHANGED <<pc, after>>
    BY <1>3 DEF Gdb, GdbStep, RogueStep, proxyvars
  <2> QED
    BY <2>1, PoliteWire
<1>4. CASE Chip \/ UNCHANGED vars
  <2>1. UNCHANGED <<rdbuf, toProxy, toGdb, hungUp, pc, after>> /\ UNCHANGED gdbvars
    BY <1>4 DEF Chip, vars, proxyvars, sockvars
  <2>2. UNCHANGED <<chan, gdb, req>>
    BY <2>1 DEF chan, gdbvars
  <2> QED
    BY <2>1, <2>2, SameOnWire DEF QuietEnd, Leaving, Putting, Working, Plus
<1> QED
  BY <1>1, <1>2, <1>3, <1>4 DEF Next

LEMMA WireInvariant == Spec => [](TypesInv /\ Wire)
<1>1. Init => TypesInv
  BY TypesInit DEF TypesInv, Init, Queued, Putting
<1>2. TypesInv /\ Wire /\ [Next]_vars => (TypesInv /\ Wire)'
  BY TypesStep, WireStep
<1> QED
  BY <1>1, WireInit, <1>2, PTL DEF Spec

(* What a polite debugger leaves in the receive buffer for the next session can
   only be acknowledgements, in whatever phase it vanished, whatever was spoiled
   and whichever calls failed. *)
THEOREM LeftoversHarmless == Spec => []OnlyAcksLeftOver
<1>1. Wire => OnlyAcksLeftOver
  BY DEF Wire, QuietEnd, Shut, OnlyAcksLeftOver
<1> QED
  BY <1>1, WireInvariant, PTL

-----------------------------------------------------------------------------
(***************************************************************************)
(* What of a session reaches the next one, in whatever phase its debugger  *)
(* vanished.  The packets being put and the replies on their way die with  *)
(* it, and no request survives (OneRequest, QuietEnd); what survives is    *)
(* rp_target_running and with it the stop reply that is owed.              *)
(***************************************************************************)
(* A packet that answers this session, or ends the run it has inherited. *)
Own(t) == t.n > first \/ (inherited > 0 /\ t = Tok("stop", inherited))

(* A request that is still to be read belongs to this session. *)
RequestOwn == first <= sent /\ (gdb = "ack" \/ ~NoRequest => req.n > first)

RunOwn ==
    rp_target_running \/ pc = "resumed" => owed > first \/ (inherited > 0 /\ owed = inherited)

QueueOwn == Putting => \A i \in DOMAIN outq : Own(outq[i])

SentOwn == \A i \in DOMAIN toGdb : toGdb[i] = Ack \/ Own(toGdb[i])

SessionInv == polite => RequestOwn /\ RunOwn /\ QueueOwn /\ SentOwn

(* The proxy only takes away from what it has still to read. *)
LEMMA ProxyReadsOnly ==
    ASSUME TypesInv, Proxy, NoRequest
    PROVE  NoRequest'
<1>1. CASE dbg_sock_readchar
  BY <1>1, FirstToken DEF TypesInv, NoRequest, IsRequest
<1>2. CASE UNCHANGED <<rdbuf, toProxy>>
  BY <1>2 DEF NoRequest, chan, IsRequest
<1>3. CASE dbg_sock_close
  <2>1. toProxy' = <<>> /\ rdbuf' = rdbuf
    BY <1>3 DEF dbg_sock_close
  <2> QED
    BY <2>1, ChanCut DEF TypesInv, NoRequest, IsRequest
<1>4. Handle => dbg_sock_readchar
  BY Zenon DEF Handle, HandleQuery, HandleStatus, HandleExtended, HandleRemoteCommand,
     HandleRunError, HandleRun, HandleInterrupt, IgnoreToken, HandleKill, HandleRestart,
     HandleDetach, Got, rp_getpkt
<1>5. SkipBad \/ FlushToken \/ AckToken => dbg_sock_readchar
  BY Zenon DEF SkipBad, FlushToken, AckToken, rp_getpkt
<1>6. FlushDone \/ FlushFails \/ WritePacket \/ WriteFails \/ AckFails \/ Resumed \/ Poll
      => UNCHANGED <<rdbuf, toProxy>>
  BY Zenon DEF FlushDone, FlushFails, WritePacket, WriteFails, AckFails, Resumed, Poll,
     WaitPartial, vars, sockvars
<1>7. Open \/ SockOpen \/ Abort \/ Connect \/ DebuggerGone => UNCHANGED <<rdbuf, toProxy>>
  BY Zenon DEF Open, SockOpen, Abort, Connect, DebuggerGone, dbg_sock_open, sockvars
<1>8. AcceptFails \/ CloseSession \/ Detached => dbg_sock_close
  BY Zenon DEF AcceptFails, CloseSession, Detached
<1> QED
  BY <1>1, <1>2, <1>3, <1>4, <1>5, <1>6, <1>7, <1>8 DEF Proxy

(* With the session unchanged, what is its own stays so. *)
LEMMA ProxyRequestOwn ==
    ASSUME TypesInv, RequestOwn, Proxy
    PROVE  RequestOwn' /\ UNCHANGED <<first, gdb, req>>
<1>1. UNCHANGED <<first, sent, gdb, req>>
  BY ProxyLeavesGdb DEF gdbvars
<1>2. NoRequest => NoRequest'
  BY ProxyReadsOnly
<1> QED
  BY <1>1, <1>2 DEF RequestOwn

(* A request the proxy reads is one of this session. *)
LEMMA OwnRequestRead ==
    ASSUME TypesInv, OnWire, RequestOwn, dbg_sock_readchar, IsRequest(NextToken)
    PROVE  NextToken.n > first /\ NextToken.n \in Nat
<1>1. 1 \in DOMAIN chan /\ chan[1] = NextToken /\ NextToken \in Tokens
  BY FirstToken DEF TypesInv
<1>2. ~NoRequest
  BY <1>1 DEF NoRequest
<1>3. NextToken = req
  BY RequestRead
<1> QED
  BY <1>1, <1>2, <1>3 DEF RequestOwn, Tokens

(* rp_getpkt adds nothing but a '+'. *)
LEMMA GetpktSentOwn ==
    ASSUME TypesInv, SentOwn, UNCHANGED <<first, inherited>>,
           UNCHANGED toGdb \/ rp_getpkt
    PROVE  SentOwn'
<1>1. \A t : Own(t) => (t.n > first' \/ (inherited' > 0 /\ t = Tok("stop", inherited')))
  BY DEF Own
<1>2. CASE UNCHANGED toGdb
  BY <1>1, <1>2 DEF SentOwn, Own
<1>3. CASE ~hungUp /\ toGdb' = Sent(Ack)
  <2>1. /\ toGdb'[Len(toGdb) + 1] = Ack
        /\ DOMAIN toGdb' = DOMAIN toGdb \cup {Len(toGdb) + 1}
        /\ \A i \in DOMAIN toGdb : toGdb'[i] = toGdb[i]
    BY <1>3, LastSent, TokenKinds DEF TypesInv
  <2> QED
    BY <1>1, <2>1 DEF SentOwn, Own
<1> QED
  BY <1>2, <1>3 DEF rp_getpkt, Sent

LEMMA SessionOwn ==
    ASSUME TypesInv, RunOwn, SentOwn, UNCHANGED first,
           Open \/ SockOpen \/ Abort \/ AcceptFails \/ Connect \/ CloseSession \/ Detached
           \/ DebuggerGone
    PROVE  RunOwn' /\ QueueOwn' /\ SentOwn'
<1>1. UNCHANGED <<rp_target_running, owed, inherited, toGdb>>
  BY Zenon DEF Open, SockOpen, Abort, AcceptFails, Connect, CloseSession, Detached, DebuggerGone,
     dbg_sock_open, dbg_sock_close, sockvars, history
<1>2. ~Putting' /\ pc' # "resumed"
  BY DEF Open, SockOpen, Abort, AcceptFails, Connect, CloseSession, Detached, DebuggerGone,
     Putting
<1> QED
  BY <1>1, <1>2, GetpktSentOwn DEF RunOwn, QueueOwn

LEMMA PacketOwn ==
    ASSUME TypesInv, RunOwn, QueueOwn, SentOwn, UNCHANGED first,
           SkipBad \/ FlushToken \/ FlushDone \/ FlushFails \/ WritePacket \/ WriteFails
           \/ AckToken \/ AckFails
    PROVE  RunOwn' /\ QueueOwn' /\ SentOwn'
<1>1. UNCHANGED <<rp_target_running, owed, inherited>> /\ (pc' = "resumed" => pc = "resumed")
  <2>1. CASE SkipBad \/ FlushToken \/ FlushDone \/ FlushFails
    BY <2>1, Zenon DEF SkipBad, FlushToken, FlushDone, FlushFails, proxyvars, history, vars
  <2>2. CASE WritePacket \/ WriteFails \/ AckToken \/ AckFails
    BY <2>2 DEF WritePacket, WriteFails, AckToken, AckFails, PutDone, history, TypesInv,
                ProxyTypes
  <2> QED
    BY <2>1, <2>2
<1>2. RunOwn'
  BY <1>1 DEF RunOwn
<1>3. QueueOwn'
  <2>1. CASE PutDone /\ Putting
    <3>1. outq' = Tail(outq) /\ Burst(outq)
      BY <2>1 DEF PutDone, TypesInv, Queued
    <3>2. \A i \in DOMAIN outq' : i + 1 \in DOMAIN outq /\ outq'[i] = outq[i + 1]
      BY <3>1, TailEntries DEF Burst
    <3> QED
      BY <1>1, <2>1, <3>2 DEF QueueOwn, Own
  <2>2. CASE UNCHANGED outq /\ (Putting' => Putting)
    BY <1>1, <2>2 DEF QueueOwn, Own
  <2>3. CASE SkipBad \/ FlushToken \/ FlushFails
    <3>1. UNCHANGED <<outq, pc>>
      BY <2>3, Zenon DEF SkipBad, FlushToken, FlushFails, proxyvars, vars
    <3> QED
      BY <2>2, <3>1 DEF Putting
  <2>4. CASE FlushDone \/ WritePacket
    BY <2>2, <2>4 DEF FlushDone, WritePacket, Putting
  <2>5. CASE WriteFails \/ AckToken \/ AckFails
    BY <2>1, <2>2, <2>5 DEF WriteFails, AckToken, AckFails, Putting
  <2> QED
    BY <2>3, <2>4, <2>5
<1>4. SentOwn'
  <2>1. CASE SkipBad \/ FlushToken \/ AckToken
    <3>1. UNCHANGED toGdb \/ rp_getpkt
      BY <2>1, Zenon DEF SkipBad, FlushToken, AckToken
    <3> QED
      BY <1>1, <3>1, GetpktSentOwn
  <2>2. CASE FlushDone \/ FlushFails \/ WriteFails \/ AckFails
    <3>1. UNCHANGED toGdb
      BY <2>2, Zenon DEF FlushDone, FlushFails, WriteFails, AckFails, vars, sockvars
    <3> QED
      BY <1>1, <3>1, GetpktSentOwn
  <2>3. CASE WritePacket
    <3>1. Burst(outq) /\ Putting /\ toGdb' = Sent(Head(outq))
      BY <2>3 DEF WritePacket, Putting, TypesInv, Queued
    <3>2. 1 \in DOMAIN outq /\ Head(outq) = outq[1] /\ Head(outq) \in Tokens
      BY <3>1, TailEntries DEF Burst
    <3>3. Own(Head(outq))
      BY <3>1, <3>2 DEF QueueOwn
    <3>4. CASE hungUp
      BY <1>1, <3>1, <3>4, GetpktSentOwn DEF Sent
    <3>5. CASE ~hungUp
      <4>1. /\ toGdb'[Len(toGdb) + 1] = Head(outq)
            /\ DOMAIN toGdb' = DOMAIN toGdb \cup {Len(toGdb) + 1}
            /\ \A i \in DOMAIN toGdb : toGdb'[i] = toGdb[i]
        BY <3>1, <3>2, <3>5, LastSent DEF TypesInv
      <4> QED
        BY <1>1, <3>3, <4>1 DEF SentOwn, Own
    <3> QED
      BY <3>4, <3>5
  <2> QED
    BY <2>1, <2>2, <2>3
<1> QED
  BY <1>2, <1>3, <1>4

LEMMA HandlerOwn ==
    ASSUME TypesInv, OnWire, RequestOwn, RunOwn, SentOwn, UNCHANGED first, Handle
    PROVE  RunOwn' /\ QueueOwn' /\ SentOwn'
<1> DEFINE n == NextToken.n
<1>1. /\ pc = "getpkt" /\ rp_getpkt /\ dbg_sock_readchar /\ UNCHANGED inherited
  BY Zenon DEF Handle, HandleQuery, HandleStatus, HandleExtended, HandleRemoteCommand,
     HandleRunError, HandleRun, HandleInterrupt, IgnoreToken, HandleKill, HandleRestart,
     HandleDetach, Got, rp_getpkt, history
<1>2. SentOwn'
  BY <1>1, GetpktSentOwn
<1>3. ASSUME NEW k, NEW a, Put(<<Reply(k)>>, a)
      PROVE  pc' = "flush" /\ \A i \in DOMAIN outq' : outq'[i].n = n
  BY <1>3 DEF Put, Reply, Tok
<1>4. CASE HandleQuery \/ HandleStatus \/ HandleExtended \/ HandleRemoteCommand \/ HandleDetach
           \/ (HandleRunError /\ ~rp_target_running)
  <2>1. NextToken.k \in AllCommands /\ UNCHANGED <<rp_target_running, owed>>
    BY <1>4 DEF HandleQuery, HandleStatus, HandleExtended, HandleRemoteCommand, HandleDetach,
       HandleRunError, Got, AllCommands, history
  <2>2. n > first /\ n \in Nat
    BY <1>1, <2>1, OwnRequestRead DEF IsRequest
  <2>3. pc' = "flush" /\ \A i \in DOMAIN outq' : outq'[i].n = n
    <3>1. CASE HandleRemoteCommand
      <4>1. PICK m \in 0 .. MaxConsole :
               Put([i \in 1 .. m |-> Reply("cons")] \o <<Reply("resp")>>, "getpkt")
        BY <3>1 DEF HandleRemoteCommand
      <4>2. /\ pc' = "flush" /\ m \in Nat
            /\ outq' = [i \in 1 .. m |-> Tok("cons", n)] \o <<Tok("resp", n)>>
        BY <4>1 DEF Put, Reply
      <4> QED
        BY <2>2, <4>2, ConsoleBurst
    <3>2. CASE HandleQuery
      BY <1>3, <3>2 DEF HandleQuery
    <3>3. CASE HandleStatus
      BY <1>3, <3>3 DEF HandleStatus
    <3>4. CASE HandleExtended
      BY <1>3, <3>4 DEF HandleExtended
    <3>5. CASE HandleDetach
      BY <1>3, <3>5 DEF HandleDetach
    <3>6. CASE HandleRunError /\ ~rp_target_running
      BY <1>3, <3>6 DEF HandleRunError
    <3> QED
      BY <1>4, <3>1, <3>2, <3>3, <3>4, <3>5, <3>6
  <2>4. QueueOwn'
    BY <2>2, <2>3 DEF QueueOwn, Own
  <2>5. RunOwn'
    BY <1>1, <2>1, <2>3 DEF RunOwn
  <2> QED
    BY <1>2, <2>4, <2>5
<1>5. CASE HandleRun
  <2>1. /\ NextToken.k \in RunCommands /\ pc' = "resumed" /\ owed' = n
    BY <1>5 DEF HandleRun, Got
  <2>2. owed' > first /\ ~Putting'
    BY <1>1, <2>1, OwnRequestRead DEF IsRequest, AllCommands, Putting
  <2> QED
    BY <1>2, <2>2 DEF RunOwn, QueueOwn
<1>6. CASE HandleInterrupt \/ IgnoreToken \/ HandleKill \/ HandleRestart
           \/ (HandleRunError /\ rp_target_running)
  <2>1. UNCHANGED <<rp_target_running, owed>>
    BY <1>6, Zenon DEF HandleInterrupt, IgnoreToken, HandleKill, HandleRestart, HandleRunError,
       proxyvars, history
  <2>2. pc' \in {"getpkt", "closing", "connect"}
    <3>1. CASE HandleInterrupt \/ IgnoreToken \/ (HandleRunError /\ rp_target_running)
      BY <1>1, <3>1, Zenon DEF HandleInterrupt, IgnoreToken, HandleRunError, proxyvars
    <3>2. CASE HandleKill \/ HandleRestart
      BY <3>2, Zenon DEF HandleKill, HandleRestart
    <3> QED
      BY <1>6, <3>1, <3>2
  <2>3. ~Putting' /\ pc' # "resumed"
    BY <2>2 DEF Putting
  <2> QED
    BY <1>1, <1>2, <2>1, <2>3 DEF RunOwn, QueueOwn
<1> QED
  BY <1>4, <1>5, <1>6 DEF Handle

(* The stop reply belongs to the run that is owed one. *)
LEMMA WaitOwn ==
    ASSUME TypesInv, RunOwn, SentOwn, UNCHANGED first, Resumed \/ Poll
    PROVE  RunOwn' /\ QueueOwn' /\ SentOwn'
<1>1. /\ WaitPartial /\ (rp_target_running \/ pc = "resumed")
      /\ UNCHANGED <<inherited, toGdb>>
  BY DEF Resumed, Poll, WaitPartial, sockvars
<1>2. owed > first \/ (inherited > 0 /\ owed = inherited)
  BY <1>1 DEF RunOwn
<1>3. SentOwn'
  BY <1>1, GetpktSentOwn
<1>4. CASE pc' = "getpkt" /\ UNCHANGED <<rp_target_running, owed>>
  BY <1>1, <1>2, <1>3, <1>4 DEF RunOwn, QueueOwn, Putting
<1>5. CASE rp_target_running' = FALSE /\ Put(<<Tok("stop", owed)>>, "getpkt")
  <2>1. Tok("stop", owed).n = owed
    BY DEF Tok
  <2>2. \A i \in DOMAIN outq' : outq'[i] = Tok("stop", owed)
    BY <1>5 DEF Put
  <2>3. QueueOwn'
    BY <1>1, <1>2, <2>1, <2>2 DEF QueueOwn, Own
  <2>4. pc' # "resumed"
    BY <1>5 DEF Put
  <2> QED
    BY <1>3, <1>5, <2>3, <2>4 DEF RunOwn
<1> QED
  BY <1>1, <1>4, <1>5 DEF WaitPartial

(* A session starts with nothing of the last one on the wire, but it may inherit
   its run. *)
LEMMA AcceptOwn ==
    ASSUME TypesInv, QuietEnd, RequestOwn, RunOwn, Accept
    PROVE  RequestOwn' /\ RunOwn' /\ QueueOwn' /\ SentOwn'
<1>1. /\ toProxy' = <<>> /\ toGdb' = <<>> /\ rdbuf' = rdbuf /\ pc = "accept"
      /\ pc' = "connect" /\ gdb' = "idle" /\ first' = sent /\ sent' = sent
      /\ UNCHANGED <<rp_target_running, owed>>
      /\ inherited' = IF rp_target_running THEN owed ELSE 0
  BY DEF Accept, dbg_sock_accept, GdbConnects
<1>2. NoRequest'
  <2>1. chan' = rdbuf /\ \A i \in DOMAIN rdbuf : rdbuf[i] \in {Ack, Nak}
    BY <1>1, ChanCut DEF TypesInv, QuietEnd, Shut
  <2> QED
    BY <2>1, TokenKinds DEF NoRequest, IsRequest
<1>3. RequestOwn'
  BY <1>1, <1>2 DEF RequestOwn, TypesInv, GdbTypes
<1>4. RunOwn'
  <2>1. rp_target_running => owed > 0
    BY DEF RunOwn, TypesInv, GdbTypes, ProxyTypes
  <2> QED
    BY <1>1, <2>1 DEF RunOwn
<1>5. QueueOwn' /\ SentOwn'
  BY <1>1 DEF QueueOwn, SentOwn, Putting
<1> QED
  BY <1>3, <1>4, <1>5

(* The debugger numbers its requests upwards and only takes replies away. *)
LEMMA PoliteRequestOwn ==
    ASSUME TypesInv, OnWire, RequestOwn, PoliteStep
    PROVE  RequestOwn' /\ UNCHANGED first
<1>1. ASSUME NEW c \in Commands, GdbRequest(c) PROVE RequestOwn' /\ UNCHANGED first
  <2>1. sent' = sent + 1 /\ req' = Tok(c, sent') /\ UNCHANGED first
    BY <1>1 DEF GdbRequest
  <2>2. req'.n = sent + 1
    BY <2>1 DEF Tok
  <2>3. req'.n > first' /\ first' <= sent'
    BY <2>1, <2>2 DEF RequestOwn, TypesInv, GdbTypes
  <2> QED
    BY <2>1, <2>3 DEF RequestOwn
<1>2. CASE GdbRepeat
  <2>1. gdb = "ack" /\ UNCHANGED <<first, sent, req>>
    BY <1>2 DEF GdbRepeat
  <2> QED
    BY <2>1 DEF RequestOwn
<1>3. CASE GdbInterrupts
  <2>1. /\ gdb = "reply" /\ UNCHANGED <<first, sent, req, gdb, rdbuf>>
        /\ toProxy' = Append(toProxy, Intr)
    BY <1>3 DEF GdbInterrupts, Write
  <2>2. NoRequest'
    BY <2>1, WhenNoRequest, NoRequestAdded, TokenKinds DEF TypesInv
  <2> QED
    BY <2>1, <2>2 DEF RequestOwn
<1>4. CASE GdbAcked \/ GdbSeesEof \/ GdbCloses
  <2>1. /\ UNCHANGED <<first, sent, req, rdbuf>> /\ gdb' # "ack"
        /\ toProxy' = toProxy \/ toProxy' = toProxy \o <<>>
    BY <1>4 DEF GdbAcked, GdbSeesEof, GdbCloses, Vanish, Consume
  <2>2. UNCHANGED chan
    BY <2>1, NothingWritten DEF TypesInv, chan
  <2> QED
    BY <2>1, <2>2 DEF RequestOwn, NoRequest, IsRequest
<1>5. CASE GdbGobbles
  <2>1. gdb = "ack" /\ UNCHANGED <<first, sent, req>>
    BY <1>5 DEF GdbGobbles, gdbvars
  <2> QED
    BY <2>1 DEF RequestOwn
<1>6. CASE GdbReads \/ GdbDetaches
  <2>1. /\ gdb = "reply" /\ UNCHANGED <<first, sent, req, rdbuf>> /\ gdb' # "ack"
    BY <1>6 DEF GdbReads, GdbDetaches, Consume, gdbvars
  <2>2. \/ toProxy' = toProxy \o <<>>
        \/ \E t \in {Ack, Nak} : toProxy' = toProxy \o <<t>> \/ toProxy' = Append(toProxy, t)
    BY <1>6 DEF GdbReads, GdbDetaches, Consume
  <2>3. NoRequest
    BY <2>1, WhenNoRequest
  <2>4. NoRequest'
    <3>1. CASE toProxy' = toProxy \o <<>>
      <4>1. UNCHANGED chan
        BY <2>1, <3>1, NothingWritten DEF TypesInv
      <4> QED
        BY <2>3, <4>1 DEF NoRequest, IsRequest
    <3>2. ASSUME NEW t \in {Ack, Nak},
                 toProxy' = toProxy \o <<t>> \/ toProxy' = Append(toProxy, t)
          PROVE  NoRequest'
      BY <2>1, <2>3, <3>2, NoRequestAdded, TokenKinds DEF TypesInv
    <3> QED
      BY <2>2, <3>1, <3>2
  <2> QED
    BY <2>1, <2>4 DEF RequestOwn
<1> QED
  BY <1>1, <1>2, <1>3, <1>4, <1>5, <1>6 DEF PoliteStep

LEMMA PoliteSentOwn ==
    ASSUME TypesInv, SentOwn, PoliteStep, UNCHANGED <<first, inherited>>
    PROVE  SentOwn'
<1>1. CASE UNCHANGED toGdb
  BY <1>1, GetpktSentOwn
<1>2. CASE toGdb' = <<>>
  BY <1>2 DEF SentOwn
<1>3. CASE toGdb # <<>> /\ toGdb' = Tail(toGdb)
  <2>1. \A i \in DOMAIN toGdb' : i + 1 \in DOMAIN toGdb /\ toGdb'[i] = toGdb[i + 1]
    BY <1>3, FirstTaken DEF TypesInv
  <2> QED
    BY <2>1 DEF SentOwn, Own
<1>4. (\E c \in Commands : GdbRequest(c)) \/ GdbRepeat \/ GdbInterrupts => UNCHANGED toGdb
  BY Zenon DEF GdbRequest, GdbRepeat, GdbInterrupts, Write
<1>5. GdbSeesEof \/ GdbCloses \/ GdbDetaches => toGdb' = <<>>
  BY DEF GdbSeesEof, GdbCloses, GdbDetaches, Vanish
<1>6. GdbAcked \/ GdbGobbles \/ GdbReads =>
         toGdb' = <<>> \/ (toGdb # <<>> /\ toGdb' = Tail(toGdb))
  BY DEF GdbAcked, GdbGobbles, GdbReads, Vanish, Consume
<1> QED
  BY <1>1, <1>2, <1>3, <1>4, <1>5, <1>6 DEF PoliteStep

LEMMA SessionInvStep == TypesInv /\ Wire /\ SessionInv /\ [Next]_vars => SessionInv'
<1> SUFFICES ASSUME TypesInv, polite, OnWire, QuietEnd, [Next]_vars,
                    RequestOwn, RunOwn, QueueOwn, SentOwn
             PROVE  RequestOwn' /\ RunOwn' /\ QueueOwn' /\ SentOwn'
  BY PoliteForever DEF Wire, SessionInv
<1>1. CASE Proxy
  <2>1. RequestOwn' /\ UNCHANGED first
    BY <1>1, ProxyRequestOwn
  <2> QED
    BY <1>1, <2>1, SessionOwn, PacketOwn, HandlerOwn, WaitOwn DEF Proxy
<1>2. CASE Accept
  BY <1>2, AcceptOwn
<1>3. CASE Gdb
  <2>1. /\ PoliteStep
        /\ UNCHANGED <<pc, outq, rp_target_running, owed, inherited>>
    BY <1>3 DEF Gdb, GdbStep, RogueStep, proxyvars, history
  <2>2. RequestOwn' /\ UNCHANGED first
    BY <2>1, PoliteRequestOwn
  <2>3. SentOwn'
    BY <2>1, <2>2, PoliteSentOwn
  <2> QED
    BY <2>1, <2>2, <2>3 DEF RunOwn, QueueOwn, Putting, Own
<1>4. CASE Chip \/ UNCHANGED vars
  <2>1. /\ UNCHANGED <<pc, outq, rp_target_running, owed, inherited, rdbuf, toProxy, toGdb>>
        /\ UNCHANGED <<gdb, req, sent, first>>
    BY <1>4 DEF Chip, vars, proxyvars, history, sockvars, gdbvars
  <2> QED
    BY <2>1 DEF RequestOwn, NoRequest, IsRequest, chan, RunOwn, QueueOwn, SentOwn, Putting, Own
<1> QED
  BY <1>1, <1>2, <1>3, <1>4 DEF Next

(* With no assumption on when a debugger leaves: what is sent in a session answers
   a request of that session, or it is the stop reply of the run that the session
   has inherited through rp_target_running. *)
THEOREM RepliesStayInSession == Spec => []RepliesOfThisSession
<1>1. Init => SessionInv
  <2> SUFFICES ASSUME Init PROVE RequestOwn /\ RunOwn /\ QueueOwn /\ SentOwn
    BY DEF SessionInv
  <2>1. /\ toGdb = <<>> /\ chan = <<>> /\ gdb = "gone" /\ pc = "open"
        /\ rp_target_running = FALSE /\ sent = 0 /\ first = 0
    BY ConcatEmptySeq DEF Init, SockInit, GdbInit, chan
  <2> QED
    BY <2>1 DEF RequestOwn, NoRequest, RunOwn, QueueOwn, SentOwn, Putting
<1>2. TypesInv /\ Wire /\ SessionInv => RepliesOfThisSession
  BY DEF SessionInv, SentOwn, Own, RepliesOfThisSession
<1>3. (TypesInv /\ Wire) /\ SessionInv /\ [Next]_vars => SessionInv'
  BY SessionInvStep
<1> QED
  BY <1>1, <1>2, <1>3, WireInvariant, PTL DEF Spec

-----------------------------------------------------------------------------
(***************************************************************************)
(* Which reply answers which request: with polite debuggers that leave     *)
(* only between requests, every reply the debugger takes for an answer is  *)
(* the answer to its request, no request is acknowledged and dropped, and  *)
(* the stub's methods are called in the order gdbproxy.h asks for.         *)
(*                                                                         *)
(* The assumption on CloseIn is needed: rp_target_running survives a       *)
(* session that ends while the target runs, and a request that is on its   *)
(* way when its debugger vanishes is still carried out; either makes a     *)
(* later session start with a stop reply nobody asked for.                 *)
(*                                                                         *)
(* The argument is about one packet sent twice.  rp_putpkt repeats a       *)
(* packet that meets anything but a '+', so a debugger that is already     *)
(* waiting for the '+' of its next request may get the last reply again.   *)
(* While that can happen an acknowledgement is on its way in front of the  *)
(* request (AckComing), which ends rp_putpkt before the request is read.   *)
(***************************************************************************)
(* A debugger waits for the '+' of a request that has not been read. *)
Pending == gdb = "ack" /\ ~Plus

(* A packet at position j of toGdb will be taken for the answer. *)
Answers(j) == gdb = "reply" \/ (gdb = "ack" /\ \E i \in DOMAIN toGdb : i < j /\ toGdb[i] = Ack)

(* The last packet of the answer is on its way; nothing of it is. *)
AnswerSent == \E j \in DOMAIN toGdb : toGdb[j] # Ack /\ Answers(j) /\ toGdb[j].k # "cons"
Unanswered == \A j \in DOMAIN toGdb : toGdb[j] # Ack => ~Answers(j)

(* An acknowledgement is on its way, with no request before it. *)
AckFirst ==
    \E i \in DOMAIN chan :
        chan[i] = Ack /\ \A j \in DOMAIN chan : j < i => ~IsRequest(chan[j])

Gone == {"open", "sockopen", "accept", "aborted"}
Away == Gone \cup {"closing", "detached"}

-----------------------------------------------------------------------------
(* The inductive invariant, by what it speaks of. *)

(* The numbers of the debugger's requests and of what is put for them. *)
Counted ==
    /\ req.n = sent /\ first <= sent
    /\ gdb \in {"ack", "reply"} => first < sent

RepliesNumbered ==
    \A j \in DOMAIN toGdb : toGdb[j] # Ack =>
        first < toGdb[j].n /\ (Answers(j) => toGdb[j].n = sent)

QueueNumbered ==
    Putting => \A i \in DOMAIN outq : /\ gdb # "gone" => outq[i].n > first
                                      /\ Working => outq[i].n = sent

Numbered == Counted /\ RepliesNumbered /\ QueueNumbered

(* A debugger leaves no request behind. *)
NoneLeft == gdb = "gone" => NoRequest

(* A packet that may go out again: a '+' for it is coming ... *)
AckComing ==
    Putting /\ (gdb = "idle" \/ Pending) => pc # "flush" /\ Len(outq) = 1 /\ AckFirst

(* ... and it is the last one when the answer is out already. *)
LastRepeated ==
    Putting /\ Working /\ AnswerSent => pc # "flush" /\ Len(outq) = 1

(* The target runs for a debugger that waits for the stop. *)
RunsForDebugger ==
    /\ rp_target_running =>
          /\ Working /\ req.k \in RunCommands /\ owed = sent
          /\ pc \in {"getpkt", "resumed"} /\ Unanswered
    /\ pc = "resumed" => rp_target_running

(* A session ends because its debugger is gone, has detached or has killed. *)
EndsByRequest ==
    /\ pc \in Away /\ gdb # "gone" =>
          Working /\ (req.k = "detach" \/ (req.k = "kill" /\ gdb = "ack" /\ ~gext))
    /\ pc \notin Gone => dbg_sock

(* Both sides agree on the extended protocol, where 'R' and 'k' are not answered. *)
ModesAgree ==
    /\ pc \notin Away /\ gdb # "gone" /\ (gext \/ (Working /\ req.k = "ext")) =>
          extended_protocol
    /\ gdb = "ack" /\ req.k = "restart" => gext
    /\ Working /\ req.k \in {"kill", "restart"} => ~Putting

(* Where the call that must come next is the only one possible. *)
CallsInOrder ==
    /\ called = "stop" => rp_target_running
    /\ called = "restart" => pc = "connect"
    /\ called = "kill" => pc = "closing"

Order ==
    /\ Numbered /\ NoneLeft /\ AckComing /\ LastRepeated
    /\ RunsForDebugger /\ EndsByRequest /\ ModesAgree /\ CallsInOrder
    /\ lost = {}

Dialogue == polite /\ TypesInv /\ OnWire /\ QuietEnd /\ Order

-----------------------------------------------------------------------------
(* What each kind of step does to the numbers on the wire. *)

LEMMA UnansweredMeans == Unanswered => ~AnswerSent
  BY DEF Unanswered, AnswerSent

LEMMA PendingIsNotWorking == Pending => ~Working
  BY DEF Pending, Working

(* A request is only ever read by the main loop, with the target stopped, and
   becomes the request the debugger is busy with. *)
LEMMA RequestRead2 ==
    ASSUME Dialogue, rp_getpkt, UNCHANGED gdbvars, IsRequest(NextToken),
           pc \in {"getpkt", "flush", "ack"}
    PROVE  /\ pc = "getpkt" /\ ~rp_target_running
           /\ NextToken = req /\ gdb = "ack" /\ Plus' /\ Working' /\ NoRequest'
           /\ RepliesNumbered' /\ Unanswered'
<1> USE DEF Dialogue, Order
<1>1. /\ NextToken = req /\ gdb \in {"ack", "gone"} /\ (gdb = "ack" => ~Plus)
      /\ \A i \in DOMAIN chan' : chan'[i] = Ack
  BY RequestRead DEF rp_getpkt
<1>2. 1 \in DOMAIN chan /\ chan[1] = NextToken /\ DOMAIN chan \subseteq Nat \ {0}
  BY FirstToken DEF rp_getpkt, TypesInv
<1>3. gdb = "ack" /\ Pending
  BY <1>1, <1>2 DEF NoneLeft, NoRequest, Pending
<1>4. ~AckFirst
  <2> SUFFICES ASSUME NEW i \in DOMAIN chan, chan[i] = Ack,
                      \A j \in DOMAIN chan : j < i => ~IsRequest(chan[j])
               PROVE  FALSE
    BY DEF AckFirst
  <2>1. i # 1
    BY <1>2, TokenKinds
  <2>2. 1 < i
    BY <1>2, <2>1
  <2> QED
    BY <1>2, <2>2
<1>5. pc = "getpkt"
  BY <1>3, <1>4 DEF AckComing, Putting
<1>6. ~rp_target_running
  BY <1>3, PendingIsNotWorking DEF RunsForDebugger
<1>7. UNCHANGED <<gdb, req, sent, first>> /\ Plus' /\ Working'
  BY <1>3, GetpktOnWire DEF gdbvars, Working
<1>8. ~hungUp /\ toGdb' = Sent(Ack)
  BY <1>3 DEF OnWire, HangUpSeen, rp_getpkt, IsRequest
<1>9. /\ Len(toGdb) + 1 \in DOMAIN toGdb' /\ toGdb'[Len(toGdb) + 1] = Ack
      /\ DOMAIN toGdb' = DOMAIN toGdb \cup {Len(toGdb) + 1}
      /\ \A i \in DOMAIN toGdb : toGdb'[i] = toGdb[i] /\ i < Len(toGdb) + 1
      /\ Len(toGdb) + 1 \in Nat /\ DOMAIN toGdb \subseteq Nat \ {0}
  BY <1>8, LastSent, TokenKinds DEF TypesInv
<1>10. ASSUME NEW j \in DOMAIN toGdb', toGdb'[j] # Ack
       PROVE  j \in DOMAIN toGdb /\ toGdb'[j] = toGdb[j] /\ ~Answers(j)'
  <2>1. j \in DOMAIN toGdb /\ toGdb'[j] = toGdb[j] /\ j < Len(toGdb) + 1 /\ j \in Nat
    BY <1>9, <1>10
  <2>2. ASSUME NEW i \in DOMAIN toGdb', i < j, toGdb'[i] = Ack PROVE FALSE
    <3>1. i # Len(toGdb) + 1
      BY <1>9, <2>1, <2>2
    <3>2. i \in DOMAIN toGdb /\ toGdb[i] = Ack
      BY <1>9, <2>2, <3>1
    <3> QED
      BY <1>3, <3>2 DEF Pending, Plus
  <2> QED
    BY <1>3, <1>7, <2>1, <2>2 DEF Answers
<1>11. RepliesNumbered' /\ Unanswered'
  BY <1>7, <1>10 DEF RepliesNumbered, Unanswered, Numbered
<1>12. NoRequest'
  BY <1>1, TokenKinds DEF NoRequest, IsRequest
<1> QED
  BY <1>1, <1>3, <1>5, <1>6, <1>7, <1>11, <1>12

(* Anything else that is read changes nothing else. *)
LEMMA OtherRead ==
    ASSUME Dialogue, dbg_sock_readchar, ~IsRequest(NextToken), UNCHANGED toGdb,
           UNCHANGED gdbvars
    PROVE  /\ NoRequest => NoRequest'
           /\ AckFirst /\ NextToken # Ack => AckFirst'
<1>1. /\ 1 \in DOMAIN chan /\ chan[1] = NextToken
      /\ DOMAIN chan \subseteq Nat \ {0} /\ DOMAIN chan' \subseteq Nat \ {0}
      /\ \A i \in DOMAIN chan' : i + 1 \in DOMAIN chan /\ chan'[i] = chan[i + 1]
      /\ \A i \in DOMAIN chan : i = 1 \/ (i - 1 \in DOMAIN chan' /\ chan[i] = chan'[i - 1])
  BY FirstToken DEF Dialogue, TypesInv
<1>2. NoRequest => NoRequest'
  BY <1>1 DEF NoRequest, IsRequest
<1>3. ASSUME NextToken # Ack, NEW i \in DOMAIN chan, chan[i] = Ack,
             \A j \in DOMAIN chan : j < i => ~IsRequest(chan[j])
      PROVE  AckFirst'
  <2>1. i - 1 \in DOMAIN chan' /\ chan'[i - 1] = Ack
    BY <1>1, <1>3
  <2>2. ASSUME NEW j \in DOMAIN chan', j < i - 1 PROVE ~IsRequest(chan'[j])
    <3>1. j + 1 \in DOMAIN chan /\ chan'[j] = chan[j + 1] /\ j + 1 < i
      BY <1>1, <2>2
    <3> QED
      BY <1>3, <3>1
  <2> QED
    BY <2>1, <2>2 DEF AckFirst, IsRequest
<1> QED
  BY <1>2, <1>3 DEF AckFirst

(* Nothing read, nothing written. *)
LEMMA SameReplies ==
    ASSUME UNCHANGED <<toGdb, gdb, sent, first, req>>
    PROVE  /\ Plus' <=> Plus
           /\ Working' <=> Working
           /\ Pending' <=> Pending
           /\ Unanswered' <=> Unanswered
           /\ AnswerSent' <=> AnswerSent
           /\ RepliesNumbered' <=> RepliesNumbered
<1>1. /\ Plus' <=> Plus
      /\ Working' <=> Working
      /\ Pending' <=> Pending
  BY DEF Plus, Working, Pending
<1>2. \A j : Answers(j)' <=> Answers(j)
  BY DEF Answers
<1>3. AnswerSent' <=> AnswerSent
  BY <1>2 DEF AnswerSent
<1>4. Unanswered' <=> Unanswered
  BY <1>2 DEF Unanswered
<1>5. RepliesNumbered' <=> RepliesNumbered
  BY <1>2 DEF RepliesNumbered
<1> QED
  BY <1>1, <1>3, <1>4, <1>5

(* A packet goes out: the answer to the current request, or a repeated one. *)
LEMMA PutReplies ==
    ASSUME Dialogue, WritePacket
    PROVE  /\ RepliesNumbered'
           /\ Working' <=> Working
           /\ Pending' <=> Pending
           /\ Working /\ AnswerSent' => Len(outq) = 1
<1> USE DEF Dialogue, Order
<1>1. /\ UNCHANGED <<gdb, req, sent, first, hungUp, outq>> /\ toGdb' = Sent(Head(outq))
      /\ pc = "write" /\ Putting /\ Burst(outq)
  BY DEF WritePacket, gdbvars, Putting, TypesInv, Queued
<1>2. /\ 1 \in DOMAIN outq /\ Head(outq) = outq[1] /\ outq[1] \in Tokens
      /\ Len(outq) \in Nat \ {0}
  BY <1>1, TailEntries DEF Burst
<1>3. Plus' <=> Plus
  BY PutOnWire
<1>4. Head(outq) # Ack /\ (Head(outq).k # "cons" => Len(outq) = 1)
  <2>1. Head(outq).k \in ReplyKinds /\ (Head(outq).k = "cons" <=> 1 < Len(outq))
    BY <1>1, <1>2 DEF Burst
  <2>2. \A n \in Nat \ {0} : ~(1 < n) => n = 1
    OBVIOUS
  <2> QED
    BY <1>2, <2>1, <2>2, TokenKinds, Zenon
<1>5. (gdb # "gone" => Head(outq).n > first) /\ (Working => Head(outq).n = sent)
  BY <1>1, <1>2 DEF Numbered, QueueNumbered
<1>6. CASE hungUp
  <2>1. UNCHANGED toGdb
    BY <1>1, <1>6 DEF Sent
  <2>2. gdb = "gone"
    BY <1>6 DEF OnWire, HangUpSeen
  <2> QED
    BY <1>1, <2>1, <2>2, SameReplies DEF Numbered, Working
<1>7. CASE ~hungUp
  <2>1. /\ Len(toGdb) + 1 \in DOMAIN toGdb' /\ toGdb'[Len(toGdb) + 1] = Head(outq)
        /\ DOMAIN toGdb' = DOMAIN toGdb \cup {Len(toGdb) + 1}
        /\ \A i \in DOMAIN toGdb : toGdb'[i] = toGdb[i] /\ i < Len(toGdb) + 1
        /\ Len(toGdb) + 1 \in Nat /\ DOMAIN toGdb \subseteq Nat \ {0}
    BY <1>1, <1>2, <1>7, LastSent DEF TypesInv
  <2>2. gdb # "gone"
    BY <1>7 DEF OnWire, HangUpSeen
  <2>3. ASSUME NEW j \in DOMAIN toGdb, Answers(j)' PROVE Answers(j)
    <3>1. CASE gdb = "reply"
      BY <3>1 DEF Answers
    <3>2. CASE gdb # "reply"
      <4>1. gdb = "ack" /\ \E i \in DOMAIN toGdb' : i < j /\ toGdb'[i] = Ack
        BY <1>1, <2>3, <3>2 DEF Answers
      <4>2. PICK i \in DOMAIN toGdb' : i < j /\ toGdb'[i] = Ack
        BY <4>1
      <4>3. i \in DOMAIN toGdb /\ toGdb[i] = Ack
        BY <1>4, <2>1, <4>2
      <4> QED
        BY <4>1, <4>2, <4>3 DEF Answers
    <3> QED
      BY <3>1, <3>2
  <2>4. ASSUME NEW j, Answers(j)' PROVE Working
    BY <1>1, <1>3, <2>4 DEF Answers, Working, Plus
  <2>5. RepliesNumbered'
    <3> SUFFICES ASSUME NEW j \in DOMAIN toGdb', toGdb'[j] # Ack
                 PROVE  first < toGdb'[j].n /\ (Answers(j)' => toGdb'[j].n = sent)
      BY <1>1 DEF RepliesNumbered
    <3>1. CASE j \in DOMAIN toGdb
      BY <2>1, <2>3, <3>1 DEF Numbered, RepliesNumbered
    <3>2. CASE j = Len(toGdb) + 1
      <4>1. Head(outq).n \in Nat /\ first \in Nat
        BY <1>2 DEF Tokens, TypesInv, GdbTypes
      <4> QED
        BY <1>5, <2>1, <2>2, <2>4, <3>2, <4>1
    <3> QED
      BY <2>1, <3>1, <3>2
  <2>6. ASSUME Working, AnswerSent' PROVE Len(outq) = 1
    <3>1. PICK j \in DOMAIN toGdb' : toGdb'[j] # Ack /\ Answers(j)' /\ toGdb'[j].k # "cons"
      BY <2>6 DEF AnswerSent
    <3>2. CASE j \in DOMAIN toGdb
      <4>1. AnswerSent
        BY <2>1, <2>3, <3>1, <3>2 DEF AnswerSent
      <4> QED
        BY <1>1, <2>6, <4>1 DEF LastRepeated
    <3>3. CASE j = Len(toGdb) + 1
      BY <1>4, <2>1, <3>1, <3>3
    <3> QED
      BY <2>1, <3>2, <3>3
  <2> QED
    BY <1>1, <1>3, <2>5, <2>6 DEF Working, Pending
<1> QED
  BY <1>6, <1>7

(* The connection is cut. *)
LEMMA CloseReplies ==
    ASSUME SockTypes, dbg_sock_close
    PROVE  NoRequest => NoRequest'
<1>1. /\ chan' = rdbuf /\ DOMAIN rdbuf \subseteq DOMAIN chan
      /\ \A i \in DOMAIN rdbuf : rdbuf[i] = chan[i]
  BY ChanCut DEF dbg_sock_close
<1> QED
  BY <1>1 DEF NoRequest, IsRequest

(* The debugger writes something: what was in front stays in front. *)
LEMMA AddedBehind ==
    ASSUME SockTypes, NEW t \in Tokens, rdbuf' = rdbuf,
           toProxy' = Append(toProxy, t) \/ toProxy' = toProxy \o <<t>>
    PROVE  /\ AckFirst => AckFirst'
           /\ NoRequest /\ t = Ack => AckFirst'
<1>1. /\ Len(chan) + 1 \in Nat /\ Len(chan) + 1 \in DOMAIN chan' /\ chan'[Len(chan) + 1] = t
      /\ DOMAIN chan' = DOMAIN chan \cup {Len(chan) + 1}
      /\ \A i \in DOMAIN chan : chan'[i] = chan[i] /\ i < Len(chan) + 1 /\ i \in Nat
  BY LastWritten
<1>2. ASSUME NEW i \in DOMAIN chan, chan[i] = Ack,
             \A j \in DOMAIN chan : j < i => ~IsRequest(chan[j])
      PROVE  AckFirst'
  <2>1. i \in DOMAIN chan' /\ chan'[i] = Ack
    BY <1>1, <1>2
  <2>2. ASSUME NEW j \in DOMAIN chan', j < i PROVE ~IsRequest(chan'[j])
    <3>1. j # Len(chan) + 1
      BY <1>1, <2>2
    <3> QED
      BY <1>1, <1>2, <2>2, <3>1
  <2> QED
    BY <2>1, <2>2 DEF AckFirst, IsRequest
<1>3. NoRequest /\ t = Ack => AckFirst'
  BY <1>1, TokenKinds DEF NoRequest, AckFirst, IsRequest
<1> QED
  BY <1>2, <1>3 DEF AckFirst

(* The debugger takes the first packet off: what it will take for an answer
   afterwards it would have taken for one before. *)
LEMMA ShiftReplies ==
    ASSUME SockTypes, toGdb # <<>>, toGdb' = Tail(toGdb), UNCHANGED <<sent, first>>,
           gdb' = gdb \/ gdb' = "idle" \/ (gdb = "ack" /\ Head(toGdb) = Ack)
    PROVE  /\ RepliesNumbered => RepliesNumbered'
           /\ Unanswered => Unanswered'
           /\ AnswerSent' => AnswerSent
<1>1. /\ 1 \in DOMAIN toGdb /\ toGdb[1] = Head(toGdb)
      /\ DOMAIN toGdb \subseteq Nat \ {0} /\ DOMAIN toGdb' \subseteq Nat \ {0}
      /\ \A i \in DOMAIN toGdb' : i + 1 \in DOMAIN toGdb /\ toGdb'[i] = toGdb[i + 1]
  BY FirstTaken
<1>2. ASSUME NEW j \in DOMAIN toGdb', Answers(j)' PROVE Answers(j + 1)
  <2>1. CASE gdb = "ack" /\ Head(toGdb) = Ack
    <3>1. 1 < j + 1
      BY <1>1
    <3> QED
      BY <1>1, <2>1, <3>1 DEF Answers
  <2>2. CASE gdb' = gdb /\ gdb = "reply"
    BY <2>2 DEF Answers
  <2>3. CASE gdb' = gdb /\ gdb # "reply"
    <3>1. gdb = "ack" /\ \E i \in DOMAIN toGdb' : i < j /\ toGdb'[i] = Ack
      BY <1>2, <2>3 DEF Answers
    <3>2. PICK i \in DOMAIN toGdb' : i < j /\ toGdb'[i] = Ack
      BY <3>1
    <3>3. i + 1 \in DOMAIN toGdb /\ toGdb[i + 1] = Ack /\ i + 1 < j + 1
      BY <1>1, <3>2
    <3> QED
      BY <3>1, <3>3 DEF Answers
  <2> QED
    BY <1>2, <2>1, <2>2, <2>3 DEF Answers
<1>3. RepliesNumbered => RepliesNumbered'
  BY <1>1, <1>2 DEF RepliesNumbered
<1>4. Unanswered => Unanswered'
  BY <1>1, <1>2 DEF Unanswered
<1>5. AnswerSent' => AnswerSent
  BY <1>1, <1>2 DEF AnswerSent
<1> QED
  BY <1>3, <1>4, <1>5

-----------------------------------------------------------------------------
(* The steps of the proxy. *)

(* The steps at which no packet is being put, before or after. *)
LEMMA NotPutting ==
    ASSUME Dialogue, UNCHANGED gdbvars, UNCHANGED <<toGdb, owed, lost>>,
           NoRequest => NoRequest', ~Putting',
           pc \in Away => pc' \in Away,
           UNCHANGED extended_protocol \/ pc' \in Away,
           RunsForDebugger', EndsByRequest', CallsInOrder'
    PROVE  Order'
<1> USE DEF Dialogue, Order
<1>1. UNCHANGED <<gdb, req, sent, first, gext>>
  BY DEF gdbvars
<1>2. /\ Working' <=> Working
      /\ RepliesNumbered' <=> RepliesNumbered
  BY <1>1, SameReplies
<1>3. Numbered'
  BY <1>1, <1>2 DEF Numbered, Counted, QueueNumbered
<1>4. NoneLeft' /\ AckComing' /\ LastRepeated'
  BY <1>1 DEF NoneLeft, AckComing, LastRepeated
<1>5. ModesAgree'
  BY <1>1, <1>2 DEF ModesAgree, Working
<1> QED
  BY <1>3, <1>4, <1>5

LEMMA SessionOrder ==
    ASSUME Dialogue,
           Open \/ SockOpen \/ Abort \/ AcceptFails \/ Connect \/ CloseSession \/ Detached
           \/ DebuggerGone
    PROVE  Order'
<1> USE DEF Dialogue, Order
<1>1. UNCHANGED gdbvars
  BY ProxyLeavesGdb DEF Proxy
<1>2. UNCHANGED <<toGdb, hungUp, owed, lost, rp_target_running, gdb, req, sent, gext>>
  BY <1>1, Zenon DEF Open, SockOpen, Abort, AcceptFails, Connect, CloseSession, Detached,
     DebuggerGone, dbg_sock_open, dbg_sock_close, sockvars, history, gdbvars
<1>3. NoRequest => NoRequest'
  <2>1. CASE AcceptFails \/ CloseSession \/ Detached
    BY <2>1, CloseReplies DEF AcceptFails, CloseSession, Detached, TypesInv
  <2>2. CASE Open \/ SockOpen \/ Abort \/ Connect \/ DebuggerGone
    <3>1. UNCHANGED <<rdbuf, toProxy>>
      BY <2>2, Zenon DEF Open, SockOpen, Abort, Connect, DebuggerGone, dbg_sock_open, sockvars
    <3> QED
      BY <3>1 DEF NoRequest, chan, IsRequest
  <2> QED
    BY <2>1, <2>2
<1>4. DebuggerGone => gdb = "gone"
  BY DEF DebuggerGone, ReadFails, OnWire, HangUpSeen
<1>5. ~rp_target_running
  BY <1>4 DEF Open, SockOpen, Abort, AcceptFails, Connect, CloseSession, Detached,
     DebuggerGone, RunsForDebugger, Working
<1>6. ~Putting' /\ (pc \in Away => pc' \in Away) /\ pc' # "resumed"
  BY DEF Open, SockOpen, Abort, AcceptFails, Connect, CloseSession, Detached, DebuggerGone,
     Putting, Away, Gone
<1>7. UNCHANGED extended_protocol \/ pc' \in Away
  BY Zenon DEF Open, SockOpen, Abort, AcceptFails, Connect, CloseSession, Detached, DebuggerGone,
     Away, Gone
<1>8. RunsForDebugger'
  BY <1>2, <1>5, <1>6 DEF RunsForDebugger
<1>9. EndsByRequest'
  <2>1. Working' <=> Working
    BY <1>1, <1>2, SameReplies DEF gdbvars
  <2>2. pc' \in Away => pc \in Away \/ gdb = "gone"
    BY <1>4 DEF Open, SockOpen, Abort, AcceptFails, Connect, CloseSession, Detached, DebuggerGone,
       Away, Gone
  <2>3. pc' \in Gone \/ (pc \notin Gone /\ UNCHANGED dbg_sock)
    BY DEF Open, SockOpen, Abort, AcceptFails, Connect, CloseSession, Detached, DebuggerGone,
       Gone, dbg_sock_open, dbg_sock_close, sockvars
  <2> QED
    BY <1>2, <2>1, <2>2, <2>3 DEF EndsByRequest
<1>10. CallsInOrder'
  <2>1. called # "stop"
    BY <1>5 DEF CallsInOrder
  <2>2. called = "restart" => Connect
    BY DEF Open, SockOpen, Abort, AcceptFails, Connect, CloseSession, Detached, DebuggerGone,
       CallsInOrder
  <2>3. called = "kill" => CloseSession
    BY DEF Open, SockOpen, Abort, AcceptFails, Connect, CloseSession, Detached, DebuggerGone,
       CallsInOrder
  <2>4. called' = called \/ called' \in {"open", "connect", "close"}
    BY Zenon DEF Open, SockOpen, Abort, AcceptFails, Connect, CloseSession, Detached,
       DebuggerGone, history
  <2>5. (Connect => called' = "connect") /\ (CloseSession => called' = "close")
    BY DEF Connect, CloseSession
  <2> QED
    BY <2>1, <2>2, <2>3, <2>4, <2>5 DEF CallsInOrder
<1> QED
  BY <1>1, <1>2, <1>3, <1>6, <1>7, <1>8, <1>9, <1>10, NotPutting

LEMMA AcceptOrder ==
    ASSUME Dialogue, Accept
    PROVE  Order'
<1> USE DEF Dialogue, Order
<1>1. /\ gdb = "gone" /\ gdb' = "idle" /\ first' = sent /\ gext' = FALSE
      /\ UNCHANGED <<req, sent, owed, lost, called, rp_target_running>>
      /\ toGdb' = <<>> /\ dbg_sock' = TRUE /\ pc = "accept" /\ pc' = "connect"
  BY DEF Accept, GdbConnects, dbg_sock_accept, history
<1>2. ~Plus' /\ ~Working' /\ DOMAIN toGdb' = {}
  BY <1>1 DEF Plus, Working
<1>3. Numbered'
  BY <1>1, <1>2 DEF Numbered, Counted, RepliesNumbered, QueueNumbered, Putting, TypesInv, GdbTypes
<1>4. NoneLeft' /\ AckComing' /\ LastRepeated'
  BY <1>1 DEF NoneLeft, AckComing, LastRepeated, Putting
<1>5. RunsForDebugger' /\ ~rp_target_running
  BY <1>1 DEF RunsForDebugger
<1>6. EndsByRequest' /\ ModesAgree'
  BY <1>1, <1>2 DEF EndsByRequest, ModesAgree, Away, Gone
<1>7. CallsInOrder'
  BY <1>1, <1>5 DEF CallsInOrder
<1> QED
  BY <1>1, <1>3, <1>4, <1>5, <1>6, <1>7

LEMMA NothingRuns ==
    ASSUME Dialogue, Putting
    PROVE  ~rp_target_running /\ called \notin {"stop", "restart", "kill"}
  BY DEF Dialogue, Order, RunsForDebugger, CallsInOrder, Putting

(* Without a request, nothing that is put has anything to do with what is read. *)
LEMMA StillPutting ==
    ASSUME Dialogue, Putting, Putting', UNCHANGED gdbvars,
           UNCHANGED <<toGdb, owed, lost, called, rp_target_running, outq, dbg_sock,
                       extended_protocol>>,
           NoRequest => NoRequest',
           gdb = "idle" \/ Pending => pc' # "flush" /\ AckFirst',
           Working /\ AnswerSent => pc' # "flush"
    PROVE  Order'
<1> USE DEF Dialogue, Order
<1>1. UNCHANGED <<gdb, req, sent, first, gext>>
  BY DEF gdbvars
<1>2. /\ Working' <=> Working
      /\ Pending' <=> Pending
      /\ AnswerSent' <=> AnswerSent
      /\ RepliesNumbered' <=> RepliesNumbered
  BY <1>1, SameReplies
<1>3. Numbered'
  BY <1>1, <1>2 DEF Numbered, Counted, QueueNumbered
<1>4. NoneLeft' /\ AckComing' /\ LastRepeated'
  BY <1>1, <1>2 DEF NoneLeft, AckComing, LastRepeated
<1>5. RunsForDebugger' /\ CallsInOrder'
  BY NothingRuns DEF RunsForDebugger, CallsInOrder, Putting
<1>6. EndsByRequest' /\ ModesAgree'
  BY <1>1, <1>2 DEF EndsByRequest, ModesAgree, Away, Gone, Putting
<1> QED
  BY <1>3, <1>4, <1>5, <1>6

(* A packet is done with: acknowledged, or the connection is gone. *)
LEMMA PutDoneOrder ==
    ASSUME Dialogue, Putting, PutDone, UNCHANGED gdbvars,
           UNCHANGED <<toGdb, owed, lost, called, dbg_sock>>,
           NoRequest => NoRequest'
    PROVE  Order'
<1> USE DEF Dialogue, Order
<1>1. UNCHANGED <<gdb, req, sent, first, gext, rp_target_running, extended_protocol, after>>
      /\ outq' = Tail(outq)
  BY DEF gdbvars, PutDone
<1>2. /\ Working' <=> Working
      /\ Pending' <=> Pending
      /\ AnswerSent' <=> AnswerSent
      /\ RepliesNumbered' <=> RepliesNumbered
  BY <1>1, SameReplies
<1>3. (pc' = "flush" /\ Len(outq) # 1) \/ (pc' = after /\ after \in {"getpkt", "detached"})
  <2>1. ~(1 > 1)
    OBVIOUS
  <2>2. Len(outq) > 1 => Len(outq) # 1
    BY <2>1, Zenon
  <2> QED
    BY <2>2 DEF PutDone, TypesInv, ProxyTypes
<1>4. QueueNumbered'
  <2>1. Burst(outq)
    BY DEF TypesInv, Queued
  <2>2. \A i \in DOMAIN outq' : i + 1 \in DOMAIN outq /\ outq'[i] = outq[i + 1]
    BY <1>1, <2>1, TailEntries DEF Burst
  <2> QED
    BY <1>1, <1>2, <2>2 DEF Numbered, QueueNumbered
<1>5. Numbered'
  BY <1>1, <1>2, <1>4 DEF Numbered, Counted
<1>6. Putting' => Len(outq) # 1
  BY <1>3 DEF Putting
<1>7. NoneLeft' /\ AckComing' /\ LastRepeated'
  BY <1>1, <1>2, <1>6 DEF NoneLeft, AckComing, LastRepeated
<1>8. RunsForDebugger' /\ CallsInOrder'
  BY <1>1, <1>3, NothingRuns DEF RunsForDebugger, CallsInOrder
<1>9. EndsByRequest'
  <2>1. pc' \in Away => pc' = "detached" /\ Leaving
    BY <1>3 DEF Away, Gone, Leaving
  <2> QED
    BY <1>1, <1>2, <2>1 DEF EndsByRequest, QuietEnd, Gone, Putting
<1>10. ModesAgree'
  BY <1>1, <1>2, <1>3 DEF ModesAgree, Away, Gone, Putting
<1> QED
  BY <1>5, <1>7, <1>8, <1>9, <1>10

LEMMA PacketOrder ==
    ASSUME Dialogue,
           FlushToken \/ FlushDone \/ FlushFails \/ WritePacket \/ WriteFails \/ AckToken
           \/ AckFails
    PROVE  Order'
<1> USE DEF Dialogue, Order
<1>1. UNCHANGED gdbvars
  BY ProxyLeavesGdb DEF Proxy
<1>2. Putting
  BY DEF FlushToken, FlushDone, FlushFails, WritePacket, WriteFails, AckToken, AckFails, Putting
<1>3. CASE FlushToken \/ AckToken
  <2>1. rp_getpkt /\ dbg_sock_readchar /\ pc \in {"flush", "ack"}
    BY <1>3 DEF FlushToken, AckToken, rp_getpkt
  <2>2. ~IsRequest(NextToken)
    BY <1>1, <2>1, RequestRead2
  <2>3. UNCHANGED <<toGdb, lost, owed, called, dbg_sock>>
    <3>1. lost' = lost \cup {}
      BY <1>3, <2>2 DEF FlushToken, AckToken, Discard, IsRequest
    <3> QED
      BY <1>3, <2>1, <2>2, <3>1 DEF FlushToken, AckToken, rp_getpkt, IsRequest
  <2>4. (NoRequest => NoRequest') /\ (AckFirst /\ NextToken # Ack => AckFirst')
    BY <1>1, <2>1, <2>2, <2>3, OtherRead
  <2>5. CASE PutDone
    BY <1>1, <1>2, <2>3, <2>4, <2>5, PutDoneOrder
  <2>6. CASE ~PutDone
    <3>1. UNCHANGED <<rp_target_running, outq, extended_protocol>> /\ Putting'
      BY <1>3, <2>6 DEF FlushToken, AckToken, proxyvars, Putting
    <3>2. pc' = "flush" => pc = "flush"
      BY <1>3, <2>6 DEF FlushToken, AckToken, proxyvars
    <3>3. pc = "ack" => NextToken # Ack
      BY <1>3, <2>6 DEF FlushToken, AckToken
    <3>4. gdb = "idle" \/ Pending => pc' # "flush" /\ AckFirst'
      BY <1>2, <2>1, <2>4, <3>2, <3>3 DEF AckComing
    <3>5. Working /\ AnswerSent => pc' # "flush"
      BY <1>2, <3>2 DEF LastRepeated
    <3> QED
      BY <1>1, <1>2, <2>3, <2>4, <3>1, <3>4, <3>5, StillPutting
  <2> QED
    BY <2>5, <2>6
<1>4. CASE FlushDone \/ FlushFails
  <2>1. /\ UNCHANGED <<toGdb, owed, lost, called, rp_target_running, outq, dbg_sock>>
        /\ UNCHANGED <<rdbuf, toProxy, extended_protocol>>
    BY <1>4, Zenon DEF FlushDone, FlushFails, vars, proxyvars, history, sockvars
  <2>2. Putting' /\ pc = "flush"
    BY <1>4 DEF FlushDone, FlushFails, vars, proxyvars, Putting
  <2>3. NoRequest => NoRequest'
    BY <2>1 DEF NoRequest, chan, IsRequest
  <2>4. ~(gdb = "idle" \/ Pending) /\ ~(Working /\ AnswerSent)
    BY <1>2, <2>2 DEF AckComing, LastRepeated
  <2> QED
    BY <1>1, <1>2, <2>1, <2>2, <2>3, <2>4, StillPutting
<1>5. CASE WriteFails \/ AckFails
  <2>1. PutDone /\ UNCHANGED <<toGdb, owed, lost, called, dbg_sock, rdbuf, toProxy>>
    BY <1>5, Zenon DEF WriteFails, AckFails, history, sockvars
  <2>2. NoRequest => NoRequest'
    BY <2>1 DEF NoRequest, chan, IsRequest
  <2> QED
    BY <1>1, <1>2, <2>1, <2>2, PutDoneOrder
<1>6. CASE WritePacket
  <2>1. /\ UNCHANGED <<gdb, req, sent, first, gext, rp_target_running, extended_protocol, outq>>
        /\ UNCHANGED <<rdbuf, toProxy, dbg_sock, owed, lost, called>>
        /\ pc = "write" /\ pc' = "ack"
    BY <1>6 DEF WritePacket, gdbvars, history
  <2>2. /\ RepliesNumbered'
        /\ Working' <=> Working
        /\ Pending' <=> Pending
        /\ Working /\ AnswerSent' => Len(outq) = 1
    BY <1>6, PutReplies
  <2>3. /\ NoRequest' <=> NoRequest
        /\ AckFirst' <=> AckFirst
    BY <2>1 DEF NoRequest, AckFirst, chan, IsRequest
  <2>4. Numbered'
    BY <2>1, <2>2 DEF Numbered, Counted, QueueNumbered, Putting
  <2>5. NoneLeft' /\ AckComing' /\ LastRepeated'
    BY <2>1, <2>2, <2>3 DEF NoneLeft, AckComing, LastRepeated, Putting
  <2>6. RunsForDebugger' /\ CallsInOrder'
    BY <1>2, <2>1, NothingRuns DEF RunsForDebugger, CallsInOrder
  <2>7. EndsByRequest' /\ ModesAgree'
    BY <2>1, <2>2 DEF EndsByRequest, ModesAgree, Away, Gone, Putting
  <2> QED
    BY <2>1, <2>4, <2>5, <2>6, <2>7
<1> QED
  BY <1>3, <1>4, <1>5, <1>6

LEMMA SkipOrder ==
    ASSUME Dialogue, SkipBad
    PROVE  Order'
<1> USE DEF Dialogue, Order
<1>1. /\ UNCHANGED gdbvars /\ dbg_sock_readchar /\ NextToken.k = "bad"
      /\ UNCHANGED <<toGdb, owed, lost, called, rp_target_running, outq, dbg_sock, pc>>
      /\ UNCHANGED extended_protocol
  BY Zenon DEF SkipBad, proxyvars, history
<1>2. ~IsRequest(NextToken) /\ NextToken # Ack
  <2>1. IsRequest(NextToken) => NextToken.k # "bad"
    BY DEF IsRequest, AllCommands, RunCommands
  <2> QED
    BY <1>1, <2>1 DEF Ack, Tok
<1>3. (NoRequest => NoRequest') /\ (AckFirst => AckFirst')
  BY <1>1, <1>2, OtherRead
<1>4. CASE Putting
  BY <1>1, <1>3, <1>4, StillPutting DEF AckComing, LastRepeated, Putting
<1>5. CASE ~Putting
  <2>1. UNCHANGED <<gdb, req, sent, first, gext>>
    BY <1>1 DEF gdbvars
  <2>2. /\ Working' <=> Working
        /\ Unanswered' <=> Unanswered
    BY <1>1, <2>1, SameReplies
  <2>3. RunsForDebugger' /\ EndsByRequest' /\ CallsInOrder'
    BY <1>1, <2>1, <2>2 DEF RunsForDebugger, EndsByRequest, CallsInOrder
  <2> QED
    BY <1>1, <1>3, <1>5, <2>3, NotPutting DEF Putting
<1> QED
  BY <1>4, <1>5

(* A handler that answers the request it has read. *)
LEMMA AnswerOrder ==
    ASSUME Dialogue, NEW kinds \in SUBSET AllCommands, Got(kinds), pc' = "flush",
           \A i \in DOMAIN outq' : outq'[i].n = NextToken.n,
           UNCHANGED <<rp_target_running, owed, lost>>,
           called' \in {called, "close"},
           extended_protocol' = TRUE \/ (UNCHANGED extended_protocol /\ NextToken.k # "ext"),
           NextToken.k # "kill",
           NextToken.k = "restart" => ~extended_protocol
    PROVE  Order'
<1> USE DEF Dialogue, Order
<1>1. /\ pc = "getpkt" /\ rp_getpkt /\ IsRequest(NextToken) /\ NextToken.k \in AllCommands
      /\ UNCHANGED gdbvars /\ UNCHANGED <<gdb, req, sent, first, gext, dbg_sock>>
  BY DEF Got, rp_getpkt, IsRequest, gdbvars
<1>2. /\ ~rp_target_running /\ NextToken = req /\ gdb = "ack"
      /\ Plus' /\ Working' /\ NoRequest' /\ RepliesNumbered' /\ Unanswered'
  BY <1>1, RequestRead2
<1>3. req.n = sent /\ first < sent /\ first \in Nat /\ sent \in Nat
  BY <1>2 DEF Numbered, Counted, TypesInv, GdbTypes
<1>4. Numbered'
  BY <1>1, <1>2, <1>3 DEF Numbered, Counted, QueueNumbered
<1>5. NoneLeft' /\ AckComing' /\ LastRepeated'
  BY <1>1, <1>2, UnansweredMeans DEF NoneLeft, AckComing, LastRepeated, Pending, Unanswered,
     AnswerSent
<1>6. RunsForDebugger'
  BY <1>2 DEF RunsForDebugger
<1>7. EndsByRequest'
  BY <1>1 DEF EndsByRequest, Away, Gone
<1>8. ModesAgree'
  <2>1. req.k # "restart"
    BY <1>1, <1>2 DEF ModesAgree, Away, Gone
  <2> QED
    BY <1>1, <1>2, <2>1 DEF ModesAgree, Away, Gone
<1>9. CallsInOrder'
  BY <1>1, <1>2 DEF CallsInOrder
<1> QED
  BY <1>4, <1>5, <1>6, <1>7, <1>8, <1>9

(* A handler that answers with nothing: a resume, a kill, a restart. *)
LEMMA NoAnswerOrder ==
    ASSUME Dialogue, NEW kinds \in SUBSET AllCommands, Got(kinds), UNCHANGED lost,
           UNCHANGED extended_protocol, NextToken.k # "ext",
           \/ /\ pc' = "resumed" /\ rp_target_running' = TRUE /\ NextToken.k \in RunCommands
              /\ owed' = NextToken.n /\ called' = "resume"
           \/ /\ pc' = "closing" /\ UNCHANGED <<rp_target_running, owed>> /\ NextToken.k = "kill"
              /\ called' = "kill" /\ ~extended_protocol
           \/ /\ pc' = "connect" /\ UNCHANGED <<rp_target_running, owed>> /\ called' = "restart"
    PROVE  Order'
<1> USE DEF Dialogue, Order
<1>1. /\ pc = "getpkt" /\ rp_getpkt /\ IsRequest(NextToken) /\ NextToken.k \in AllCommands
      /\ UNCHANGED gdbvars /\ UNCHANGED <<gdb, req, sent, first, gext, dbg_sock>>
  BY DEF Got, rp_getpkt, IsRequest, gdbvars
<1>2. /\ ~rp_target_running /\ NextToken = req /\ gdb = "ack"
      /\ Plus' /\ Working' /\ NoRequest' /\ RepliesNumbered' /\ Unanswered'
  BY <1>1, RequestRead2
<1>3. ~Putting' /\ pc' # "flush" /\ (pc' \in Away => NextToken.k = "kill" /\ ~extended_protocol)
  BY DEF Putting, Away, Gone
<1>4. Numbered'
  BY <1>1, <1>2, <1>3 DEF Numbered, Counted, QueueNumbered
<1>5. NoneLeft' /\ AckComing' /\ LastRepeated'
  BY <1>1, <1>2, <1>3 DEF NoneLeft, AckComing, LastRepeated
<1>6. RunsForDebugger'
  BY <1>1, <1>2 DEF RunsForDebugger, Numbered, Counted
<1>7. pc \notin Away /\ dbg_sock
  BY <1>1 DEF Away, Gone, EndsByRequest
<1>8. EndsByRequest'
  BY <1>1, <1>2, <1>3, <1>7 DEF EndsByRequest, ModesAgree
<1>9. ModesAgree'
  BY <1>1, <1>2, <1>3, <1>7 DEF ModesAgree
<1>10. CallsInOrder'
  BY DEF CallsInOrder
<1> QED
  BY <1>4, <1>5, <1>6, <1>8, <1>9, <1>10

(* A Control-C or a stray acknowledgement. *)
LEMMA TokenOrder ==
    ASSUME Dialogue, HandleInterrupt \/ IgnoreToken
    PROVE  Order'
<1> USE DEF Dialogue, Order
<1>1. /\ pc = "getpkt" /\ rp_getpkt /\ NextToken.k \in {"intr", "ack", "nak"}
      /\ UNCHANGED gdbvars /\ UNCHANGED proxyvars /\ UNCHANGED <<owed, lost>>
      /\ called' = called \/ (called' = "stop" /\ rp_target_running)
  BY Zenon DEF HandleInterrupt, IgnoreToken, Got, history
<1>2. ~IsRequest(NextToken)
  BY <1>1 DEF IsRequest, AllCommands, RunCommands
<1>3. UNCHANGED <<toGdb, dbg_sock>> /\ dbg_sock_readchar
  BY <1>1, <1>2 DEF rp_getpkt, IsRequest
<1>4. NoRequest => NoRequest'
  BY <1>1, <1>2, <1>3, OtherRead
<1>5. UNCHANGED <<gdb, req, sent, first, gext, pc, rp_target_running, extended_protocol>>
  BY <1>1 DEF gdbvars, proxyvars
<1>6. /\ Working' <=> Working
      /\ Unanswered' <=> Unanswered
  BY <1>3, <1>5, SameReplies
<1>7. RunsForDebugger' /\ EndsByRequest' /\ CallsInOrder'
  BY <1>1, <1>3, <1>5, <1>6 DEF RunsForDebugger, EndsByRequest, CallsInOrder
<1> QED
  BY <1>1, <1>3, <1>4, <1>5, <1>7, NotPutting DEF Putting

(* The poll of a running target: the stop it reports is the one that is owed. *)
LEMMA WaitOrder ==
    ASSUME Dialogue, Resumed \/ Poll
    PROVE  Order'
<1> USE DEF Dialogue, Order
<1>1. /\ WaitPartial /\ rp_target_running /\ pc \in {"getpkt", "resumed"}
      /\ UNCHANGED <<extended_protocol, lost>> /\ called' = "wait"
      /\ UNCHANGED <<rdbuf, toProxy, toGdb, dbg_sock>> /\ UNCHANGED gdbvars
  BY DEF Resumed, Poll, WaitPartial, RunsForDebugger, sockvars
<1>2. /\ Working /\ req.k \in RunCommands /\ owed = sent /\ Unanswered
      /\ first < sent /\ first \in Nat /\ sent \in Nat
  BY <1>1 DEF RunsForDebugger, Numbered, Counted, Working, TypesInv, GdbTypes
<1>3. UNCHANGED <<gdb, req, sent, first, gext>>
  BY <1>1 DEF gdbvars
<1>4. /\ Working' <=> Working
      /\ Unanswered' <=> Unanswered
      /\ Pending' <=> Pending
      /\ AnswerSent' <=> AnswerSent
      /\ RepliesNumbered' <=> RepliesNumbered
  BY <1>1, <1>3, SameReplies
<1>5. NoRequest => NoRequest'
  BY <1>1 DEF NoRequest, chan, IsRequest
<1>6. CASE pc' = "getpkt" /\ UNCHANGED <<rp_target_running, owed>>
  <2>1. ~Putting' /\ (pc \in Away => pc' \in Away)
    BY <1>1, <1>6 DEF Putting, Away, Gone
  <2>2. RunsForDebugger' /\ CallsInOrder'
    BY <1>1, <1>3, <1>4, <1>6 DEF RunsForDebugger, CallsInOrder
  <2>3. EndsByRequest'
    BY <1>1, <1>6 DEF EndsByRequest, Away, Gone
  <2> QED
    BY <1>1, <1>5, <1>6, <2>1, <2>2, <2>3, NotPutting
<1>7. CASE /\ rp_target_running' = FALSE /\ pc' = "flush" /\ outq' = <<Tok("stop", owed)>>
  <2>1. \A i \in DOMAIN outq' : outq'[i].n = sent
    <3>1. Tok("stop", owed).n = sent
      BY <1>2 DEF Tok
    <3> QED
      BY <1>7, <3>1
  <2>2. Numbered'
    BY <1>2, <1>3, <1>4, <2>1 DEF Numbered, Counted, QueueNumbered
  <2>3. NoneLeft' /\ AckComing' /\ LastRepeated'
    BY <1>2, <1>3, <1>4, <1>5, UnansweredMeans DEF NoneLeft, AckComing, LastRepeated, Working,
       Pending
  <2>4. RunsForDebugger' /\ CallsInOrder'
    BY <1>1, <1>7 DEF RunsForDebugger, CallsInOrder
  <2>5. EndsByRequest'
    BY <1>1, <1>7 DEF EndsByRequest, Away, Gone
  <2>6. ModesAgree'
    <3>1. req.k \notin {"kill", "restart"}
      BY <1>2 DEF RunCommands
    <3> QED
      BY <1>1, <1>3, <1>4, <1>7, <3>1 DEF ModesAgree, Away, Gone
  <2> QED
    BY <1>1, <2>2, <2>3, <2>4, <2>5, <2>6
<1> QED
  BY <1>1, <1>6, <1>7 DEF WaitPartial, Put

LEMMA HandlerOrder ==
    ASSUME Dialogue, Handle
    PROVE  Order'
<1> DEFINE n == NextToken.n
<1>1. ASSUME NEW k, NEW a, Put(<<Reply(k)>>, a)
      PROVE  pc' = "flush" /\ \A i \in DOMAIN outq' : outq'[i].n = n
  BY <1>1 DEF Put, Reply, Tok
<1>2. CASE HandleQuery
  <2>1. PICK kinds \in {{"query"}, {"restart"}} :
           Got(kinds) /\ (kinds = {"restart"} => ~extended_protocol)
    BY <1>2 DEF HandleQuery
  <2>2. /\ kinds \in SUBSET AllCommands /\ NextToken.k \notin {"ext", "kill"}
        /\ NextToken.k = "restart" => ~extended_protocol
    BY <2>1 DEF Got, AllCommands
  <2>3. /\ Put(<<Reply("resp")>>, "getpkt") /\ UNCHANGED <<rp_target_running, owed, lost>>
        /\ called' \in {called, "close"} /\ UNCHANGED extended_protocol
    BY <1>2 DEF HandleQuery, history
  <2> QED
    BY <1>1, <2>1, <2>2, <2>3, AnswerOrder
<1>3. CASE HandleStatus
  <2>1. /\ Got({"status"}) /\ {"status"} \in SUBSET AllCommands
        /\ NextToken.k \notin {"ext", "kill", "restart"}
    BY <1>3 DEF HandleStatus, Got, AllCommands
  <2>2. /\ Put(<<Reply("status")>>, "getpkt") /\ UNCHANGED <<rp_target_running, owed, lost>>
        /\ called' \in {called, "close"} /\ UNCHANGED extended_protocol
    BY <1>3 DEF HandleStatus, history
  <2> QED
    BY <1>1, <2>1, <2>2, AnswerOrder
<1>4. CASE HandleExtended
  <2>1. /\ Got({"ext"}) /\ {"ext"} \in SUBSET AllCommands
        /\ NextToken.k \notin {"kill", "restart"}
    BY <1>4 DEF HandleExtended, Got, AllCommands
  <2>2. /\ Put(<<Reply("resp")>>, "getpkt") /\ UNCHANGED <<rp_target_running, owed, lost>>
        /\ called' \in {called, "close"} /\ extended_protocol' = TRUE
    BY <1>4 DEF HandleExtended, history
  <2> QED
    BY <1>1, <2>1, <2>2, AnswerOrder
<1>5. CASE HandleRemoteCommand
  <2>1. /\ Got({"rcmd"}) /\ {"rcmd"} \in SUBSET AllCommands
        /\ NextToken.k \notin {"ext", "kill", "restart"} /\ n \in Nat
    <3>1. n \in Nat
      BY <1>5, ReadTyped DEF HandleRemoteCommand, Got, Dialogue, TypesInv
    <3> QED
      BY <1>5, <3>1 DEF HandleRemoteCommand, Got, AllCommands
  <2>2. /\ UNCHANGED <<rp_target_running, owed, lost>>
        /\ called' \in {called, "close"} /\ UNCHANGED extended_protocol
    BY <1>5 DEF HandleRemoteCommand, history
  <2>3. PICK m \in 0 .. MaxConsole :
           Put([i \in 1 .. m |-> Reply("cons")] \o <<Reply("resp")>>, "getpkt")
    BY <1>5 DEF HandleRemoteCommand
  <2>4. /\ pc' = "flush" /\ m \in Nat
        /\ outq' = [i \in 1 .. m |-> Tok("cons", n)] \o <<Tok("resp", n)>>
    BY <2>3 DEF Put, Reply
  <2>5. \A i \in DOMAIN outq' : outq'[i].n = n
    BY <2>1, <2>4, ConsoleBurst
  <2> QED
    BY <2>1, <2>2, <2>4, <2>5, AnswerOrder
<1>6. CASE HandleRunError
  <2>1. /\ Got({"go", "badrun"}) /\ {"go", "badrun"} \in SUBSET AllCommands
        /\ NextToken.k \notin {"ext", "kill", "restart"} /\ IsRequest(NextToken)
    BY <1>6 DEF HandleRunError, Got, AllCommands, IsRequest
  <2>2. ~rp_target_running
    BY <2>1, RequestRead2 DEF Got
  <2>3. /\ Put(<<Reply("resp")>>, "getpkt") /\ UNCHANGED <<rp_target_running, owed, lost>>
        /\ called' \in {called, "close"} /\ UNCHANGED extended_protocol
    BY <1>6, <2>2 DEF HandleRunError, history
  <2> QED
    BY <1>1, <2>1, <2>3, AnswerOrder
<1>7. CASE HandleDetach
  <2>1. /\ Got({"detach"}) /\ {"detach"} \in SUBSET AllCommands
        /\ NextToken.k \notin {"ext", "kill", "restart"}
    BY <1>7 DEF HandleDetach, Got, AllCommands
  <2>2. /\ Put(<<Reply("resp")>>, "detached") /\ UNCHANGED <<rp_target_running, owed, lost>>
        /\ called' \in {called, "close"} /\ UNCHANGED extended_protocol
    BY <1>7 DEF HandleDetach
  <2> QED
    BY <1>1, <2>1, <2>2, AnswerOrder
<1>8. CASE HandleRun
  <2>1. /\ Got(RunCommands) /\ RunCommands \in SUBSET AllCommands
        /\ NextToken.k \in RunCommands /\ NextToken.k # "ext"
    BY <1>8 DEF HandleRun, Got, AllCommands, RunCommands
  <2>2. /\ rp_target_running' = TRUE /\ pc' = "resumed" /\ owed' = NextToken.n
        /\ called' = "resume" /\ UNCHANGED <<extended_protocol, lost>>
    BY <1>8 DEF HandleRun
  <2> QED
    BY <2>1, <2>2, NoAnswerOrder
<1>9. CASE HandleKill
  <2>1. /\ Got({"kill"}) /\ {"kill"} \in SUBSET AllCommands /\ NextToken.k = "kill"
        /\ UNCHANGED <<extended_protocol, lost, rp_target_running, owed>>
    BY <1>9 DEF HandleKill, Got, AllCommands
  <2>2. \/ pc' = "closing" /\ called' = "kill" /\ ~extended_protocol
        \/ pc' = "connect" /\ called' = "restart"
    BY <1>9, Zenon DEF HandleKill
  <2> QED
    BY <2>1, <2>2, NoAnswerOrder
<1>10. CASE HandleRestart
  <2>1. /\ Got({"restart"}) /\ {"restart"} \in SUBSET AllCommands /\ NextToken.k # "ext"
        /\ UNCHANGED <<extended_protocol, lost, rp_target_running, owed>>
        /\ pc' = "connect" /\ called' = "restart"
    BY <1>10 DEF HandleRestart, Got, AllCommands
  <2> QED
    BY <2>1, NoAnswerOrder
<1> QED
  BY <1>2, <1>3, <1>4, <1>5, <1>6, <1>7, <1>8, <1>9, <1>10, TokenOrder DEF Handle

LEMMA ProxyOrder ==
    ASSUME Dialogue, Proxy
    PROVE  Order'
  BY SessionOrder, PacketOrder, SkipOrder, HandlerOrder, WaitOrder DEF Proxy

-----------------------------------------------------------------------------
(* The steps of the debugger. *)

LEMMA LeaveOrder ==
    ASSUME Dialogue, EnvStep, gdb' = "gone", toGdb' = <<>>,
           UNCHANGED <<req, sent, first, gext>>, NoRequest', ~rp_target_running
    PROVE  Order'
<1> USE DEF Dialogue, Order
<1>1. UNCHANGED <<pc, rp_target_running, extended_protocol, outq, owed, lost, called, dbg_sock>>
  BY DEF EnvStep, proxyvars, history
<1>2. ~Working' /\ ~Pending' /\ DOMAIN toGdb' = {}
  BY DEF Working, Pending
<1>3. Numbered'
  BY <1>1, <1>2 DEF Numbered, Counted, RepliesNumbered, QueueNumbered
<1>4. NoneLeft' /\ AckComing' /\ LastRepeated'
  BY <1>2 DEF NoneLeft, AckComing, LastRepeated
<1>5. RunsForDebugger' /\ EndsByRequest' /\ ModesAgree' /\ CallsInOrder'
  BY <1>1, <1>2 DEF RunsForDebugger, EndsByRequest, ModesAgree, CallsInOrder
<1> QED
  BY <1>1, <1>3, <1>4, <1>5

LEMMA LeavingOrder ==
    ASSUME Dialogue, CloseIn \subseteq {"idle"}, EnvStep,
           GdbSeesEof \/ GdbCloses \/ GdbDetaches \/ (GdbAcked /\ Vanish)
    PROVE  Order'
<1> USE DEF Dialogue, Order
<1>1. CASE GdbDetaches
  <2>1. /\ gdb = "reply" /\ req.k = "detach" /\ gdb' = "gone" /\ toGdb' = <<>>
        /\ UNCHANGED <<req, sent, first, gext, rdbuf>> /\ toProxy' = Append(toProxy, Ack)
    BY <1>1 DEF GdbDetaches
  <2>2. NoRequest'
    BY <2>1, WhenNoRequest, NoRequestAdded, TokenKinds DEF TypesInv
  <2>3. ~rp_target_running
    BY <2>1 DEF RunsForDebugger, RunCommands
  <2> QED
    BY <2>1, <2>2, <2>3, LeaveOrder
<1>2. CASE Vanish /\ ~GdbDetaches
  <2>1. /\ gdb' = "gone" /\ toGdb' = <<>> /\ UNCHANGED <<req, sent, first, gext>>
        /\ UNCHANGED <<rdbuf, toProxy>>
    BY <1>2 DEF Vanish
  <2>2. NoRequest /\ ~rp_target_running
    <3>1. CASE GdbSeesEof
      <4>1. pc \in Gone /\ gdb # "gone"
        BY <3>1 DEF GdbSeesEof, EndsByRequest
      <4>2. Working /\ ~rp_target_running
        BY <4>1 DEF EndsByRequest, RunsForDebugger, Away, Gone
      <4> QED
        BY <4>2, WhenNoRequest DEF Working
    <3>2. CASE GdbCloses
      <4>1. gdb = "idle"
        BY <3>2 DEF GdbCloses
      <4> QED
        BY <4>1, WhenNoRequest DEF RunsForDebugger, Working
    <3>3. CASE GdbAcked
      <4>1. gdb = "ack" /\ toGdb # <<>> /\ Head(toGdb) = Ack
        BY <3>3 DEF GdbAcked
      <4>2. Plus
        <5>1. 1 \in DOMAIN toGdb /\ Head(toGdb) = toGdb[1]
          BY <4>1, TailEntries DEF TypesInv, SockTypes
        <5> QED
          BY <4>1, <5>1 DEF Plus
      <4>3. req.k = "kill"
        BY <1>2, <3>3 DEF GdbAcked, Vanish
      <4> QED
        BY <4>1, <4>2, <4>3, WhenNoRequest DEF RunsForDebugger, RunCommands
    <3> QED
      BY <1>2, <3>1, <3>2, <3>3
  <2>3. NoRequest'
    BY <2>1, <2>2 DEF NoRequest, chan, IsRequest
  <2> QED
    BY <2>1, <2>2, <2>3, LeaveOrder
<1> QED
  BY <1>1, <1>2 DEF GdbSeesEof, GdbCloses

LEMMA GdbSendsOrder ==
    ASSUME Dialogue, EnvStep,
           (\E c \in Commands : GdbRequest(c)) \/ GdbRepeat \/ GdbInterrupts
    PROVE  Order'
<1> USE DEF Dialogue, Order
<1>1. UNCHANGED <<pc, rp_target_running, extended_protocol, outq, owed, lost, called, dbg_sock>>
  BY DEF EnvStep, proxyvars, history
<1>2. CASE GdbInterrupts
  <2>1. /\ gdb = "reply" /\ UNCHANGED <<gdb, req, sent, first, gext, toGdb, rdbuf>>
        /\ toProxy' = Append(toProxy, Intr)
    BY <1>2 DEF GdbInterrupts, Write
  <2>2. /\ Working' <=> Working
        /\ Pending' <=> Pending
        /\ Unanswered' <=> Unanswered
        /\ AnswerSent' <=> AnswerSent
        /\ RepliesNumbered' <=> RepliesNumbered
    BY <2>1, SameReplies
  <2>3. Numbered'
    BY <1>1, <2>1, <2>2 DEF Numbered, Counted, QueueNumbered, Putting
  <2>4. NoneLeft' /\ AckComing' /\ LastRepeated'
    BY <1>1, <2>1, <2>2 DEF NoneLeft, AckComing, LastRepeated, Pending, Putting
  <2>5. RunsForDebugger' /\ EndsByRequest' /\ ModesAgree' /\ CallsInOrder'
    BY <1>1, <2>1, <2>2 DEF RunsForDebugger, EndsByRequest, ModesAgree, CallsInOrder, Putting
  <2> QED
    BY <1>1, <2>3, <2>4, <2>5
<1>3. CASE GdbRepeat
  <2>1. /\ gdb = "ack" /\ UNCHANGED <<gdb, req, sent, first, gext, toGdb, rdbuf>>
        /\ toProxy' = Append(toProxy, req) /\ req \in Tokens
    BY <1>3 DEF GdbRepeat, Write, TypesInv, GdbTypes
  <2>2. /\ Working' <=> Working
        /\ Pending' <=> Pending
        /\ Unanswered' <=> Unanswered
        /\ AnswerSent' <=> AnswerSent
        /\ RepliesNumbered' <=> RepliesNumbered
    BY <2>1, SameReplies
  <2>3. AckFirst => AckFirst'
    BY <2>1, AddedBehind DEF TypesInv
  <2>4. Numbered'
    BY <1>1, <2>1, <2>2 DEF Numbered, Counted, QueueNumbered, Putting
  <2>5. NoneLeft' /\ AckComing' /\ LastRepeated'
    BY <1>1, <2>1, <2>2, <2>3 DEF NoneLeft, AckComing, LastRepeated, Putting
  <2>6. RunsForDebugger' /\ EndsByRequest' /\ ModesAgree' /\ CallsInOrder'
    BY <1>1, <2>1, <2>2 DEF RunsForDebugger, EndsByRequest, ModesAgree, CallsInOrder, Putting
  <2> QED
    BY <1>1, <2>4, <2>5, <2>6
<1>4. ASSUME NEW c \in Commands, GdbRequest(c) PROVE Order'
  <2>1. /\ gdb = "idle" /\ gdb' = "ack" /\ sent' = sent + 1 /\ req' = Tok(c, sent')
        /\ UNCHANGED <<first, gext, toGdb, rdbuf>> /\ (c = "restart" => gext)
        /\ c \in AllCommands
    BY <1>4, DebuggerAssumption DEF GdbRequest, Write
  <2>2. PICK t \in Tokens : toProxy' = Append(toProxy, t)
    <3>1. sent' \in Nat
      BY <2>1 DEF TypesInv, GdbTypes
    <3>2. req' \in Tokens /\ Tok("bad", sent') \in Tokens
      BY <2>1, <3>1, TokensOfAll
    <3> QED
      BY <1>4, <3>2 DEF GdbRequest, Write
  <2>3. AckFirst => AckFirst'
    BY <2>1, <2>2, AddedBehind DEF TypesInv
  <2>4. ~Plus /\ ~Plus' /\ ~Working /\ ~Working'
    BY <2>1 DEF OnWire, OnePlus, Plus, Working
  <2>5. req'.k = c /\ req'.n = sent' /\ first < sent' /\ sent \in Nat /\ first \in Nat
    BY <2>1 DEF Tok, Numbered, Counted, TypesInv, GdbTypes
  <2>6. RepliesNumbered'
    <3>1. ASSUME NEW j, Answers(j)' PROVE FALSE
      BY <2>1, <2>4, <3>1 DEF Answers, Plus
    <3> QED
      BY <2>1, <3>1 DEF Numbered, RepliesNumbered
  <2>7. Numbered'
    BY <1>1, <2>1, <2>4, <2>5, <2>6 DEF Numbered, Counted, QueueNumbered, Putting
  <2>8. NoneLeft' /\ AckComing' /\ LastRepeated'
    BY <1>1, <2>1, <2>3, <2>4 DEF NoneLeft, AckComing, LastRepeated, Putting
  <2>9. RunsForDebugger' /\ CallsInOrder'
    BY <1>1, <2>1, <2>4 DEF RunsForDebugger, CallsInOrder
  <2>10. EndsByRequest' /\ ModesAgree'
    BY <1>1, <2>1, <2>4, <2>5 DEF EndsByRequest, ModesAgree
  <2> QED
    BY <1>1, <2>7, <2>8, <2>9, <2>10
<1> QED
  BY <1>2, <1>3, <1>4

(* An acknowledgement is taken for one. *)
LEMMA AckedOrder ==
    ASSUME Dialogue, EnvStep, GdbAcked, ~Vanish
    PROVE  Order'
<1> USE DEF Dialogue, Order
<1>1. UNCHANGED <<pc, rp_target_running, extended_protocol, outq, owed, lost, called, dbg_sock>>
  BY DEF EnvStep, proxyvars, history
<1>2. /\ gdb = "ack" /\ toGdb # <<>> /\ Head(toGdb) = Ack /\ toGdb' = Tail(toGdb)
      /\ UNCHANGED <<req, sent, first, gext, rdbuf>> /\ Consume(<<>>)
      /\ gdb' = IF req.k \in {"kill", "restart"} THEN "idle" ELSE "reply"
      /\ ~(req.k = "kill" /\ ~gext)
  BY DEF GdbAcked, Consume
<1>3. /\ RepliesNumbered => RepliesNumbered'
      /\ Unanswered => Unanswered'
      /\ AnswerSent' => AnswerSent
  BY <1>2, ShiftReplies DEF TypesInv
<1>4. Plus /\ Working
  BY <1>2, FirstTaken DEF TypesInv, Plus, Working
<1>5. Numbered'
  BY <1>1, <1>2, <1>3, <1>4 DEF Numbered, Counted, QueueNumbered, Putting
<1>6. ~Pending'
  BY <1>2 DEF Pending
<1>7. NoneLeft' /\ AckComing' /\ LastRepeated'
  <2>1. Putting => gdb' # "idle"
    BY <1>2, <1>4 DEF ModesAgree
  <2> QED
    BY <1>1, <1>2, <1>3, <1>4, <1>6, <2>1 DEF NoneLeft, AckComing, LastRepeated, Putting
<1>8. Working' <=> req.k \notin {"kill", "restart"}
  BY <1>2 DEF Working
<1>9. RunsForDebugger'
  BY <1>1, <1>2, <1>3, <1>8 DEF RunsForDebugger, RunCommands
<1>10. EndsByRequest' /\ ModesAgree' /\ CallsInOrder'
  BY <1>1, <1>2, <1>4, <1>8 DEF EndsByRequest, ModesAgree, CallsInOrder
<1> QED
  BY <1>1, <1>5, <1>7, <1>9, <1>10

(* An old reply instead of the acknowledgement: it is thrown away. *)
LEMMA GobblesOrder ==
    ASSUME Dialogue, EnvStep, GdbGobbles
    PROVE  Order'
<1> USE DEF Dialogue, Order
<1>1. UNCHANGED <<pc, rp_target_running, extended_protocol, outq, owed, lost, called, dbg_sock>>
  BY DEF EnvStep, proxyvars, history
<1>2. /\ gdb = "ack" /\ toGdb # <<>> /\ Head(toGdb) # Ack /\ toGdb' = Tail(toGdb)
      /\ UNCHANGED <<gdb, req, sent, first, gext, rdbuf>> /\ toProxy' = toProxy \o <<Ack>>
  BY DEF GdbGobbles, Consume, gdbvars
<1>3. /\ RepliesNumbered => RepliesNumbered'
      /\ Unanswered => Unanswered'
      /\ AnswerSent' => AnswerSent
  BY <1>2, ShiftReplies DEF TypesInv
<1>4. Plus' <=> Plus
  BY <1>2, TakeReply DEF TypesInv
<1>5. /\ Working' <=> Working
      /\ Pending' <=> Pending
  BY <1>2, <1>4 DEF Working, Pending
<1>6. AckFirst => AckFirst'
  BY <1>2, AddedBehind, TokenKinds DEF TypesInv
<1>7. Numbered'
  BY <1>1, <1>2, <1>3, <1>5 DEF Numbered, Counted, QueueNumbered, Putting
<1>8. NoneLeft' /\ AckComing' /\ LastRepeated'
  BY <1>1, <1>2, <1>3, <1>5, <1>6 DEF NoneLeft, AckComing, LastRepeated, Putting
<1>9. RunsForDebugger' /\ EndsByRequest' /\ ModesAgree' /\ CallsInOrder'
  BY <1>1, <1>2, <1>3, <1>5 DEF RunsForDebugger, EndsByRequest, ModesAgree, CallsInOrder, Putting
<1> QED
  BY <1>1, <1>7, <1>8, <1>9

(* The packets of an answer: the last one ends the wait, which is where a packet
   sent again may still be under way - with its acknowledgement in front. *)
LEMMA ReadsOrder ==
    ASSUME Dialogue, EnvStep, GdbReads
    PROVE  Order'
<1> USE DEF Dialogue, Order
<1>1. UNCHANGED <<pc, rp_target_running, extended_protocol, outq, owed, lost, called, dbg_sock>>
  BY DEF EnvStep, proxyvars, history
<1>2. /\ gdb = "reply" /\ toGdb # <<>> /\ toGdb' = Tail(toGdb)
      /\ UNCHANGED <<req, sent, first, rdbuf>>
      /\ gdb' \in {"reply", "idle"}
  BY DEF GdbReads, Consume, gdbvars
<1>3. /\ RepliesNumbered => RepliesNumbered'
      /\ Unanswered => Unanswered'
      /\ AnswerSent' => AnswerSent
  BY <1>2, ShiftReplies DEF TypesInv
<1>4. Working /\ ~Plus /\ ~Plus' /\ ~Pending' /\ NoRequest
  BY <1>2, WhenNoRequest DEF Working, OnWire, OnePlus, Plus, Pending, TakeReply
<1>5. Working' <=> gdb' = "reply"
  BY <1>2, <1>4 DEF Working
<1>6. Numbered'
  BY <1>1, <1>2, <1>3, <1>4, <1>5 DEF Numbered, Counted, QueueNumbered, Putting
<1>7. CASE UNCHANGED <<gdb, gext>>
  <2>1. NoneLeft' /\ AckComing' /\ LastRepeated'
    BY <1>1, <1>2, <1>3, <1>4, <1>7 DEF NoneLeft, AckComing, LastRepeated, Putting
  <2>2. RunsForDebugger' /\ EndsByRequest' /\ ModesAgree' /\ CallsInOrder'
    BY <1>1, <1>2, <1>3, <1>4, <1>5, <1>7 DEF RunsForDebugger, EndsByRequest, ModesAgree,
       CallsInOrder, Putting
  <2> QED
    BY <1>1, <1>6, <2>1, <2>2
<1>8. CASE ~UNCHANGED <<gdb, gext>>
  <2>1. /\ Head(toGdb).k \notin {"ack", "cons"} /\ req.k # "detach" /\ gdb' = "idle"
        /\ toProxy' = toProxy \o <<Ack>> /\ gext' = (gext \/ req.k = "ext")
    BY <1>8, Zenon DEF GdbReads, Consume, gdbvars
  <2>2. /\ 1 \in DOMAIN toGdb /\ toGdb[1] = Head(toGdb) /\ Head(toGdb) # Ack
    BY <1>2, <2>1, FirstTaken DEF TypesInv, Ack, Tok
  <2>3. Answers(1) /\ AnswerSent /\ ~Unanswered
    BY <1>2, <2>1, <2>2 DEF Answers, AnswerSent, Unanswered
  <2>4. AckFirst'
    BY <1>2, <1>4, <2>1, AddedBehind, TokenKinds DEF TypesInv
  <2>5. Putting => pc # "flush" /\ Len(outq) = 1
    BY <1>4, <2>3 DEF LastRepeated
  <2>6. NoneLeft' /\ AckComing' /\ LastRepeated'
    BY <1>1, <1>5, <2>1, <2>4, <2>5 DEF NoneLeft, AckComing, LastRepeated, Putting
  <2>7. ~rp_target_running /\ RunsForDebugger'
    BY <1>1, <2>3 DEF RunsForDebugger
  <2>8. pc \notin Away
    BY <1>2, <2>1 DEF EndsByRequest
  <2>9. EndsByRequest' /\ ModesAgree' /\ CallsInOrder'
    BY <1>1, <1>2, <1>4, <1>5, <2>1, <2>7, <2>8 DEF EndsByRequest, ModesAgree, CallsInOrder
  <2> QED
    BY <1>1, <1>6, <2>6, <2>7, <2>9
<1> QED
  BY <1>7, <1>8

-----------------------------------------------------------------------------
LEMMA GdbOrder ==
    ASSUME Dialogue, Gdb, CloseIn \subseteq {"idle"}
    PROVE  Order'
<1>1. EnvStep
  BY GdbIsEnv
<1>2. PoliteStep
  BY DEF Gdb, GdbStep, RogueStep, Dialogue
<1> QED
  BY <1>1, <1>2, LeavingOrder, GdbSendsOrder, AckedOrder, GobblesOrder, ReadsOrder
     DEF PoliteStep

LEMMA OtherOrder ==
    ASSUME Dialogue, Chip \/ UNCHANGED vars
    PROVE  Order'
<1> USE DEF Dialogue, Order
<1>1. /\ UNCHANGED <<pc, rp_target_running, extended_protocol, outq, owed, lost, called, dbg_sock>>
      /\ UNCHANGED <<gdb, req, sent, first, gext, toGdb, rdbuf, toProxy>>
  BY DEF Chip, vars, proxyvars, history, sockvars, gdbvars
<1>2. /\ Working' <=> Working
      /\ Pending' <=> Pending
      /\ Unanswered' <=> Unanswered
      /\ AnswerSent' <=> AnswerSent
      /\ RepliesNumbered' <=> RepliesNumbered
  BY <1>1, SameReplies
<1>3. /\ NoRequest' <=> NoRequest
      /\ AckFirst' <=> AckFirst
  BY <1>1 DEF NoRequest, AckFirst, chan, IsRequest
<1>4. Numbered'
  BY <1>1, <1>2 DEF Numbered, Counted, QueueNumbered, Putting
<1>5. NoneLeft' /\ AckComing' /\ LastRepeated'
  BY <1>1, <1>2, <1>3 DEF NoneLeft, AckComing, LastRepeated, Putting
<1>6. RunsForDebugger' /\ EndsByRequest' /\ ModesAgree' /\ CallsInOrder'
  BY <1>1, <1>2 DEF RunsForDebugger, EndsByRequest, ModesAgree, CallsInOrder, Putting
<1> QED
  BY <1>1, <1>4, <1>5, <1>6

LEMMA DialogueInit ==
    ASSUME ~MayBeRogue, Init
    PROVE  Dialogue
<1>1. polite /\ TypesInv /\ OnWire /\ QuietEnd
  <2>1. polite
    BY DEF Init, GdbInit
  <2>2. TypesInv
    BY TypesInit DEF TypesInv, Init, Queued, Putting
  <2> QED
    BY <2>1, <2>2, WireInit DEF Wire
<1>2. /\ toGdb = <<>> /\ chan = <<>> /\ gdb = "gone" /\ pc = "open" /\ lost = {}
      /\ rp_target_running = FALSE /\ called = "none" /\ req.n = 0 /\ sent = 0 /\ first = 0
  BY ConcatEmptySeq DEF Init, SockInit, GdbInit, chan, Tok
<1>3. ~Plus /\ ~Working /\ DOMAIN toGdb = {} /\ DOMAIN chan = {}
  BY <1>2 DEF Plus, Working
<1>4. Numbered /\ NoneLeft /\ AckComing /\ LastRepeated
  BY <1>2, <1>3 DEF Numbered, Counted, RepliesNumbered, QueueNumbered, NoneLeft, NoRequest,
     AckComing, LastRepeated, Putting
<1>5. RunsForDebugger /\ EndsByRequest /\ ModesAgree /\ CallsInOrder
  BY <1>2, <1>3 DEF RunsForDebugger, EndsByRequest, ModesAgree, CallsInOrder, Gone, Away
<1> QED
  BY <1>1, <1>2, <1>4, <1>5 DEF Dialogue, Order

LEMMA DialogueStep ==
    ASSUME CloseIn \subseteq {"idle"}, Dialogue, [Next]_vars
    PROVE  Dialogue'
<1>1. polite' /\ TypesInv' /\ OnWire' /\ QuietEnd'
  BY PoliteForever, TypesStep, WireStep DEF Dialogue, Wire
<1>2. Order'
  BY ProxyOrder, AcceptOrder, GdbOrder, OtherOrder DEF Next
<1> QED
  BY <1>1, <1>2 DEF Dialogue

(* What the dialogue comes to, in every reachable state of a polite debugger
   that leaves between requests. *)
THEOREM DialogueInvariant ==
    ASSUME ~MayBeRogue, CloseIn \subseteq {"idle"}
    PROVE  Spec => []Dialogue
  BY DialogueInit, DialogueStep, PTL DEF Spec

(* The reply a debugger takes for an answer answers its own request, whichever
   packets are spoiled, repeated or late. *)
THEOREM RepliesAnswer ==
    ASSUME ~MayBeRogue, CloseIn \subseteq {"idle"}
    PROVE  Spec => []RepliesMatch
<1>1. Dialogue => RepliesMatch
  <2> SUFFICES ASSUME Dialogue, gdb = "reply", toGdb # <<>>, Head(toGdb) # Ack
               PROVE  Head(toGdb).n = req.n
    BY DEF RepliesMatch
  <2>1. 1 \in DOMAIN toGdb /\ Head(toGdb) = toGdb[1]
    BY TailEntries DEF Dialogue, TypesInv, SockTypes
  <2>2. Answers(1)
    BY DEF Answers
  <2> QED
    BY <2>1, <2>2 DEF Dialogue, Order, Numbered, Counted, RepliesNumbered
<1> QED
  BY <1>1, DialogueInvariant, PTL

(* rp_putpkt, which acknowledges and drops what it reads while it waits, never
   meets a request there. *)
THEOREM RequestsSurvive ==
    ASSUME ~MayBeRogue, CloseIn \subseteq {"idle"}
    PROVE  Spec => []NoRequestLost
<1>1. Dialogue => NoRequestLost
  BY DEF Dialogue, Order, NoRequestLost
<1> QED
  BY <1>1, DialogueInvariant, PTL

-----------------------------------------------------------------------------
(* The order of the calls.  Each of the three calls leaves the proxy where only
   the call that must follow can be made: a stop while the target is taken to be
   running, when no request can be on its way. *)
LEMMA NextCall ==
    ASSUME Dialogue, Next
    PROVE  /\ called = "restart" => called' \in {"restart", "connect"}
           /\ called = "stop" => called' \in {"stop", "wait"}
           /\ called = "kill" => called' \in {"kill", "close"}
<1> DEFINE Goal == /\ called = "restart" => called' \in {"restart", "connect"}
                   /\ called = "stop" => called' \in {"stop", "wait"}
                   /\ called = "kill" => called' \in {"kill", "close"}
<1>1. /\ called = "stop" => rp_target_running /\ pc \in {"getpkt", "resumed"}
      /\ called = "restart" => pc = "connect"
      /\ called = "kill" => pc = "closing"
  BY DEF Dialogue, Order, CallsInOrder, RunsForDebugger
<1>2. CASE UNCHANGED called
  BY <1>2
<1>3. CASE Open \/ Connect \/ CloseSession
  BY <1>1, <1>3 DEF Open, Connect, CloseSession
<1>4. CASE HandleRun \/ HandleKill \/ HandleRestart \/ HandleDetach
  <2>1. /\ pc = "getpkt" /\ rp_getpkt /\ UNCHANGED gdbvars
        /\ NextToken.k \in RunCommands \cup {"kill", "restart", "detach"}
    BY <1>4, Zenon DEF HandleRun, HandleKill, HandleRestart, HandleDetach, Got
  <2>2. IsRequest(NextToken)
    BY <2>1 DEF IsRequest, AllCommands
  <2>3. ~rp_target_running
    BY <2>1, <2>2, RequestRead2
  <2> QED
    BY <1>1, <2>1, <2>3
<1>5. CASE HandleInterrupt \/ Resumed \/ Poll
  <2>1. called' \in {called, "stop", "wait"} /\ pc \in {"getpkt", "resumed"}
        /\ (HandleInterrupt => called' \in {called, "stop"})
        /\ (Resumed \/ Poll => called' = "wait")
    BY <1>5, Zenon DEF HandleInterrupt, Resumed, Poll, WaitPartial, Got
  <2> QED
    BY <1>1, <2>1
<1>6. SockOpen \/ Abort \/ AcceptFails \/ Detached \/ DebuggerGone \/ Accept \/ Chip
      => UNCHANGED called
  BY Zenon DEF SockOpen, Abort, AcceptFails, Detached, DebuggerGone, Accept, Chip, history
<1>7. SkipBad \/ FlushToken \/ FlushDone \/ FlushFails \/ WritePacket \/ WriteFails \/ AckToken
      \/ AckFails => UNCHANGED called
  BY Zenon DEF SkipBad, FlushToken, FlushDone, FlushFails, WritePacket, WriteFails, AckToken,
     AckFails, history, vars
<1>8. HandleQuery \/ HandleStatus \/ HandleExtended \/ HandleRemoteCommand \/ HandleRunError
      \/ IgnoreToken => UNCHANGED called
  BY Zenon DEF HandleQuery, HandleStatus, HandleExtended, HandleRemoteCommand, HandleRunError,
     IgnoreToken, history
<1>9. Gdb => UNCHANGED called
  BY DEF Gdb, history
<1> QED
  BY <1>2, <1>3, <1>4, <1>5, <1>6, <1>7, <1>8, <1>9 DEF Next, Proxy, Handle

(* The stub sees the sequences gdbproxy.h lists: restart is followed by connect,
   stop by wait, kill by close. *)
THEOREM CallsAsListed ==
    ASSUME ~MayBeRogue, CloseIn \subseteq {"idle"}
    PROVE  Spec => CallOrder
<1>1. Dialogue /\ [Next]_vars =>
         [/\ called = "restart" => called' \in {"restart", "connect"}
          /\ called = "stop" => called' \in {"stop", "wait"}
          /\ called = "kill" => called' \in {"kill", "close"}]_vars
  BY NextCall
<1> QED
  BY <1>1, DialogueInvariant, PTL DEF Spec, CallOrder
=============================================================================

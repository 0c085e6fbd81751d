------------------------------ MODULE Debugger ------------------------------
(***************************************************************************)
(* The other end of the connection, external to the repository: a debugger *)
(* that speaks the remote serial protocol over DbgSock.                    *)
(*                                                                         *)
(* The polite one is modelled on GDB: it sends one request at a time,      *)
(* waits for the '+', then for the reply, and acknowledges the reply; it   *)
(* may interrupt a program it has resumed, its packets and the replies may *)
(* be spoiled on the way (repeated after a silence, respectively answered  *)
(* with '-'), and it may vanish in the phases of CloseIn.  The rogue one   *)
(* sends any token at any time.                                            *)
(***************************************************************************)
EXTENDS DbgSock

CONSTANTS
    Commands,      \* kinds of request the debugger uses
    CloseIn,       \* phases in which a polite debugger may vanish
    MaxRequests,   \* requests (or rogue tokens) over all sessions
    MaxFaults,     \* spoiled packets and replies
    MayBeRogue,    \* whether there are rogue debuggers
    FaultsOnRun,   \* whether a line that spoils packets is used for resumes
    MaxSessions    \* connections

RunCommands == {"cont", "step", "contfrom", "stepfrom"}
AllCommands == RunCommands \cup
    {"query", "status", "ext", "rcmd", "go", "badrun", "kill", "detach", "restart"}
Phases == {"gone", "idle", "ack", "reply"}

ASSUME DebuggerAssumption ==
    /\ Commands \subseteq AllCommands
    /\ CloseIn \subseteq Phases \ {"gone"}
    /\ {MaxRequests, MaxFaults, MaxSessions} \subseteq Nat
    /\ {MayBeRogue, FaultsOnRun} \subseteq BOOLEAN

VARIABLES
    polite,    \* which of the two it is
    gdb,       \* "gone", "idle", or what it waits for: "ack", "reply"
    req,       \* its current or last request
    gext,      \* it has switched to the extended protocol
    bad,       \* its current request has been spoiled and is to be repeated
    broke,     \* it has sent Control-C for its current request
    sent,      \* requests sent so far; the n of the last one
    first,     \* the value of sent when the session began
    sessions, faults

gdbvars == <<polite, gdb, req, gext, bad, broke, sent, first, sessions, faults>>

(* The value of faults on a line that never spoils anything. *)
Clean == MaxFaults + 1

GdbInit ==
    /\ polite \in {TRUE, ~MayBeRogue}
    /\ gdb = "gone"
    /\ req = Tok("query", 0)
    /\ gext = FALSE /\ bad = FALSE /\ broke = FALSE
    /\ sent = 0 /\ first = 0 /\ sessions = 0
    /\ faults \in {0} \cup (IF FaultsOnRun THEN {} ELSE {Clean})

(* Half of the step in which a connection is accepted. *)
GdbConnects ==
    /\ gdb = "gone"
    /\ sessions < MaxSessions
    /\ gdb' = "idle"
    /\ sessions' = sessions + 1
    /\ first' = sent
    /\ gext' = FALSE
    /\ UNCHANGED <<polite, req, bad, broke, sent, faults>>

Write(tok) ==
    /\ toProxy' = Append(toProxy, tok)
    /\ UNCHANGED <<dbg_sock, dbg_listen_sock, rdbuf, toGdb, hungUp, fails>>

(* Consumes a token and sends another one back, or none. *)
Consume(answer) ==
    /\ toGdb' = Tail(toGdb)
    /\ toProxy' = toProxy \o answer
    /\ UNCHANGED <<dbg_sock, dbg_listen_sock, rdbuf, hungUp, fails>>

Vanish ==
    /\ gdb' = "gone"
    /\ hungUp' = TRUE
    /\ toGdb' = <<>>
    /\ UNCHANGED <<dbg_sock, dbg_listen_sock, rdbuf, toProxy, fails>>
    /\ UNCHANGED <<polite, req, gext, bad, broke, sent, first, sessions, faults>>

GdbRequest(c) ==
    /\ gdb = "idle"
    /\ sent < MaxRequests
    /\ c = "restart" => gext
    /\ c \in RunCommands => FaultsOnRun \/ faults = Clean
    /\ gdb' = "ack"
    /\ sent' = sent + 1
    /\ req' = Tok(c, sent')
    /\ broke' = FALSE
    /\ \/ Write(req') /\ bad' = FALSE /\ UNCHANGED faults
       \/ /\ faults < MaxFaults
          /\ faults' = faults + 1
          /\ bad' = TRUE
          /\ Write(Tok("bad", sent'))
    /\ UNCHANGED <<polite, gext, first, sessions>>

(* No '+' for a spoiled packet: the request is repeated. *)
GdbRepeat ==
    /\ gdb = "ack"
    /\ bad
    /\ bad' = FALSE
    /\ Write(req)
    /\ UNCHANGED <<polite, gdb, req, gext, broke, sent, first, sessions, faults>>

(* Some requests have no reply: 'R', and 'k', after which a debugger that is
   not in extended mode closes the connection. *)
GdbAcked ==
    /\ gdb = "ack"
    /\ toGdb # <<>>
    /\ Head(toGdb) = Ack
    /\ IF req.k = "kill" /\ ~gext
         THEN Vanish
         ELSE /\ gdb' = IF req.k \in {"kill", "restart"} THEN "idle" ELSE "reply"
              /\ Consume(<<>>)
              /\ UNCHANGED <<polite, req, gext, bad, broke, sent, first, sessions, faults>>

(* A packet instead of an acknowledgement is an old reply: it is acknowledged
   and thrown away. *)
GdbGobbles ==
    /\ gdb = "ack"
    /\ toGdb # <<>>
    /\ Head(toGdb) # Ack
    /\ Consume(<<Ack>>)
    /\ UNCHANGED gdbvars

GdbReads ==
    /\ gdb = "reply"
    /\ toGdb # <<>>
    /\ LET p == Head(toGdb) IN
       \/ p = Ack /\ Consume(<<>>) /\ UNCHANGED gdbvars
       \/ p.k = "cons" /\ Consume(<<Ack>>) /\ UNCHANGED gdbvars
       \/ /\ p.k \notin {"ack", "cons"}
          /\ req.k # "detach"
          /\ Consume(<<Ack>>)
          /\ gdb' = "idle"
          /\ gext' = (gext \/ req.k = "ext")
          /\ UNCHANGED <<polite, req, bad, broke, sent, first, sessions, faults>>
       \/ /\ p # Ack
          /\ faults < MaxFaults
          /\ faults' = faults + 1
          /\ Consume(<<Nak>>)
          /\ UNCHANGED <<polite, gdb, req, gext, bad, broke, sent, first, sessions>>

(* The reply to 'D' is acknowledged and the connection closed. *)
GdbDetaches ==
    /\ gdb = "reply"
    /\ req.k = "detach"
    /\ toGdb # <<>>
    /\ Head(toGdb).k \notin {"ack", "cons"}
    /\ gdb' = "gone"
    /\ hungUp' = TRUE
    /\ toProxy' = Append(toProxy, Ack)
    /\ toGdb' = <<>>
    /\ UNCHANGED <<dbg_sock, dbg_listen_sock, rdbuf, fails>>
    /\ UNCHANGED <<polite, req, gext, bad, broke, sent, first, sessions, faults>>

GdbInterrupts ==
    /\ gdb = "reply"
    /\ req.k \in RunCommands
    /\ ~broke
    /\ broke' = TRUE
    /\ Write(Intr)
    /\ UNCHANGED <<polite, gdb, req, gext, bad, sent, first, sessions, faults>>

(* The proxy has closed its side and everything it sent has been read. *)
GdbSeesEof ==
    /\ gdb # "gone"
    /\ ~dbg_sock
    /\ toGdb = <<>>
    /\ Vanish

(* The user quits the debugger, or it crashes. *)
GdbCloses ==
    /\ gdb \in CloseIn
    /\ Vanish

PoliteStep ==
    /\ polite
    /\ \/ \E c \in Commands : GdbRequest(c)
       \/ GdbRepeat \/ GdbAcked \/ GdbGobbles \/ GdbReads \/ GdbDetaches
       \/ GdbInterrupts \/ GdbSeesEof \/ GdbCloses

-----------------------------------------------------------------------------
(* The rogue debugger. *)

RogueSends(k) ==
    /\ gdb # "gone"
    /\ sent < MaxRequests
    /\ sent' = sent + 1
    /\ Write(Tok(k, IF k \in AllCommands THEN sent' ELSE 0))
    /\ UNCHANGED <<polite, gdb, req, gext, bad, broke, first, sessions, faults>>

RogueReads ==
    /\ gdb # "gone"
    /\ toGdb # <<>>
    /\ Consume(<<>>)
    /\ UNCHANGED gdbvars

RogueVanishes == gdb # "gone" /\ Vanish

RogueStep ==
    /\ ~polite
    /\ \/ \E k \in Commands \cup {"bad", "ack", "nak", "intr"} : RogueSends(k)
       \/ RogueReads \/ RogueVanishes

GdbStep == PoliteStep \/ RogueStep
=============================================================================

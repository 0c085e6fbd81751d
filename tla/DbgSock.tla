------------------------------ MODULE DbgSock ------------------------------
(***************************************************************************)
(* The socket between the proxy and its debugger (rpmisc.c): one listening *)
(* socket, one connection, and the static receive buffer in front of       *)
(* recv().  TCP is reliable and in order, so each direction of the         *)
(* connection is a sequence.                                               *)
(*                                                                         *)
(* The unit is the token a reader of the remote serial protocol works on,  *)
(* not the byte: an acknowledgement, a Control-C, a packet that arrives    *)
(* whole, or "bad", a packet whose checksum does not match.  n identifies  *)
(* the request a packet is, or answers.                                    *)
(***************************************************************************)
EXTENDS Naturals, Sequences

CONSTANTS
    FailIn,      \* system calls that may fail
    MaxFails     \* how often each of them does in a behaviour

(* "accept" stands for all of dbg_sock_accept. *)
Fallible == {"socket", "bind", "accept"}

ASSUME SockAssumption == FailIn \subseteq Fallible /\ MaxFails \in Nat

VARIABLES
    dbg_sock,         \* TRUE when the connection is open (a valid descriptor)
    dbg_listen_sock,  \* TRUE when the listening socket is open
    rdbuf,            \* the unread part of the static buffer of readchar
    toProxy, toGdb,   \* bytes in flight, by direction
    hungUp,           \* TRUE when the peer has closed its side
    fails             \* how often each call has failed

sockvars == <<dbg_sock, dbg_listen_sock, rdbuf, toProxy, toGdb, hungUp, fails>>

Tok(k, n) == [k |-> k, n |-> n]
Ack  == Tok("ack", 0)
Nak  == Tok("nak", 0)
Intr == Tok("intr", 0)

SockInit ==
    /\ dbg_sock = FALSE
    /\ dbg_listen_sock = FALSE
    /\ rdbuf = <<>>
    /\ toProxy = <<>>
    /\ toGdb = <<>>
    /\ hungUp = TRUE
    /\ fails = [call \in Fallible |-> 0]

(***************************************************************************)
(* dbg_sock_open.  The assertion on entry is its precondition; socket()    *)
(* may fail before, and bind() after, the listening descriptor is stored.  *)
(***************************************************************************)
Fails(call) ==
    /\ call \in FailIn
    /\ fails[call] < MaxFails
    /\ fails' = [fails EXCEPT ![call] = @ + 1]

OpenAsserts == ~dbg_sock /\ ~dbg_listen_sock

dbg_sock_open(ok) ==
    /\ \/ /\ ok
          /\ dbg_listen_sock' = TRUE
          /\ UNCHANGED fails
       \/ /\ ~ok
          /\ \E call \in {"socket", "bind"} :
                Fails(call) /\ dbg_listen_sock' = (call = "bind")
    /\ UNCHANGED <<dbg_sock, rdbuf, toProxy, toGdb, hungUp>>

(* A debugger connects: both directions are new, the receive buffer is not. *)
dbg_sock_accept ==
    /\ dbg_sock' = TRUE
    /\ dbg_listen_sock' = FALSE
    /\ toProxy' = <<>>
    /\ toGdb' = <<>>
    /\ hungUp' = FALSE
    /\ UNCHANGED <<rdbuf, fails>>

(* Both descriptors are closed and unread bytes of the connection are gone;
   what readchar has buffered stays, and so do the bytes already sent. *)
dbg_sock_close ==
    /\ dbg_sock' = FALSE
    /\ dbg_listen_sock' = FALSE
    /\ toProxy' = <<>>
    /\ UNCHANGED <<rdbuf, toGdb, hungUp>>

(***************************************************************************)
(* dbg_sock_readchar: the buffer first, else recv() takes all there is.    *)
(* With nothing to read it fails if the peer has closed, and otherwise     *)
(* waits as long as its timeout allows.                                    *)
(***************************************************************************)
Readable == rdbuf # <<>> \/ toProxy # <<>>
ReadFails_early == hungUp   \* mutant: the error overtakes unread bytes
ReadFails == ~Readable /\ hungUp
TimesOut == ~Readable /\ ~hungUp

NextToken == IF rdbuf # <<>> THEN Head(rdbuf) ELSE Head(toProxy)

dbg_sock_readchar ==
    /\ Readable
    /\ \/ /\ rdbuf # <<>>
          /\ rdbuf' = Tail(rdbuf)
          /\ UNCHANGED toProxy
       \/ /\ rdbuf = <<>>
          /\ rdbuf' = Tail(toProxy)
          /\ toProxy' = <<>>

(* dbg_sock_putchar, dbg_sock_write: bytes for a closed peer are lost. *)
Sent(p) == IF hungUp THEN toGdb ELSE Append(toGdb, p)
=============================================================================

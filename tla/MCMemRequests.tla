---------------------------- MODULE MCMemRequests ----------------------------
(***************************************************************************)
(* Requests for MemRequests: three words of memory, every alignment and    *)
(* length that splits differently, the last address and the one after it,  *)
(* and data that need escapes.                                             *)
(***************************************************************************)
EXTENDS MemRequests

CONSTANTS Addrs, Lens, Shifts

(* What needs an escape ('#', '}', '$'), what means something outside a packet *)
(* ('+', Control-C, '-'), what looks like a digit, and bounds.                 *)
Mix == <<35, 125, 36, 43, 3, 255, 0, 70, 45, 48, 128, 93, 58>>
Data(n, s) == [i \in 1 .. n |-> Mix[((i + s) % Len(Mix)) + 1]]

Request(k, at, len, data) == [k |-> k, at |-> at, len |-> len, data |-> data]

MCRequests ==
    {Request("m", a, n, <<>>) : a \in Addrs, n \in Lens \ {0}}
    \cup {Request(k, a, 0, Data(n, s)) : k \in {"M", "X"}, a \in Addrs, n \in Lens, s \in Shifts}
    \cup {Request("p", r, 0, <<>>) : r \in 0 .. NumRegs}
    \cup {Request("P", r, 0, Data(4, s)) : r \in 0 .. NumRegs, s \in Shifts}
    \cup {Request("g", 0, 0, <<>>)}
    \cup {Request("G", 0, 0, Data(n, s)) : n \in {4, 4 * NumRegs, 4 * NumRegs - 1}, s \in Shifts}
=============================================================================

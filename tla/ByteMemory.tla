----------------------------- MODULE ByteMemory -----------------------------
(***************************************************************************)
(* What a debugger expects of requests for memory and registers: bytes     *)
(* with addresses, registers with numbers, and one answer per request.     *)
(*                                                                         *)
(* MemRequests is shown to implement it over a line that cuts and spoils   *)
(* packets, with a chip that only knows words.                             *)
(***************************************************************************)
EXTENDS Integers, Sequences

CONSTANTS
    Top,          \* the last address
    Limit,        \* the most bytes a read returns
    NumRegs,      \* registers
    CpuRegs,      \* of them, those that "all registers" are sure to include
    Requests      \* records [k, at, len, data]

VARIABLES bytes, words, request, answer

bmvars == <<bytes, words, request, answer>>

NoRequest == [k |-> "none", at |-> 0, len |-> 0, data |-> <<>>]
NoAnswer == [k |-> "none", data |-> <<>>]
Pending == [k |-> "pending", data |-> <<>>]
Done == [k |-> "OK", data |-> <<>>]
Refused == [k |-> "ERR", data |-> <<>>]
Told(data) == [k |-> "data", data |-> data]

BMInit(bytes0, words0) ==
    /\ bytes = bytes0
    /\ words = words0
    /\ request = NoRequest
    /\ answer = NoAnswer

Ask(q) ==
    /\ answer # Pending
    /\ request' = q
    /\ answer' = Pending
    /\ UNCHANGED <<bytes, words>>

Flat(rs) == [i \in 1 .. 4 * Len(rs) |-> rs[(i + 3) \div 4][((i - 1) % 4) + 1]]

(* A read stops at the last address and at the limit. *)
ReadMemory(q) ==
    /\ q.k = "m"
    /\ answer' = IF q.at > Top THEN Refused
                 ELSE Told([i \in {j \in 1 .. q.len : j <= Limit /\ q.at + j - 1 <= Top}
                               |-> bytes[q.at + i - 1]])
    /\ UNCHANGED <<bytes, words>>

(* A write is done as a whole, or refused and nothing is written. *)
WriteMemory(q) ==
    /\ q.k \in {"M", "X"}
    /\ IF q.data # <<>> /\ q.at + Len(q.data) - 1 > Top
         THEN answer' = Refused /\ UNCHANGED bytes
         ELSE /\ answer' = Done
              /\ bytes' = [a \in 0 .. Top |->
                              IF a - q.at + 1 \in DOMAIN q.data
                                THEN q.data[a - q.at + 1] ELSE bytes[a]]
    /\ UNCHANGED words

ReadRegister(q) ==
    /\ q.k = "p"
    /\ answer' = IF q.at >= NumRegs THEN Refused ELSE Told(words[q.at])
    /\ UNCHANGED <<bytes, words>>

WriteRegister(q) ==
    /\ q.k = "P"
    /\ IF q.at >= NumRegs
         THEN answer' = Refused /\ UNCHANGED words
         ELSE answer' = Done /\ words' = [words EXCEPT ![q.at] = q.data]
    /\ UNCHANGED bytes

ReadRegisters(q) ==
    /\ q.k = "g"
    /\ answer' = Told(Flat([r \in 1 .. CpuRegs |-> words[r - 1]]))
    /\ UNCHANGED <<bytes, words>>

(* Whole registers, from the first on, as far as the data go. *)
WriteRegisters(q) ==
    /\ q.k = "G"
    /\ answer' = Done
    /\ words' = [r \in 0 .. NumRegs - 1 |->
                    IF 4 * r + 4 <= Len(q.data)
                      THEN SubSeq(q.data, 4 * r + 1, 4 * r + 4) ELSE words[r]]
    /\ UNCHANGED bytes

Answer ==
    /\ answer = Pending
    /\ UNCHANGED request
    /\ \/ ReadMemory(request) \/ WriteMemory(request)
       \/ ReadRegister(request) \/ WriteRegister(request)
       \/ ReadRegisters(request) \/ WriteRegisters(request)

BMNext == Answer \/ \E q \in Requests : Ask(q)
=============================================================================

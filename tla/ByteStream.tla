----------------------------- MODULE ByteStream -----------------------------
(***************************************************************************)
(* What a TCP connection promises to the two applications at its ends, in  *)
(* one direction: the receiver is handed the bytes the sender wrote, each  *)
(* one once, in order, in pieces of any size.                              *)
(*                                                                         *)
(* A byte is identified with its position in the sender's stream, so a     *)
(* byte delivered twice, skipped or delivered early shows as a wrong       *)
(* position in rcvd.                                                       *)
(***************************************************************************)
EXTENDS Naturals, Sequences

CONSTANT MaxStream      \* bound: the bytes the application writes in all

VARIABLES snt,          \* bytes written by the sending application so far
          rcvd          \* the bytes handed to the receiving application

streamVars == <<snt, rcvd>>

\* The n bytes of the stream that start at position from.
Bytes(from, n) == [i \in 1..n |-> from + i - 1]

StreamInit == snt = 0 /\ rcvd = <<>>

Write == \E n \in 1..MaxStream :
            /\ snt + n =< MaxStream
            /\ snt' = snt + n
            /\ UNCHANGED rcvd

Read == \E n \in 1..MaxStream :
           /\ Len(rcvd) + n =< snt
           /\ rcvd' = rcvd \o Bytes(Len(rcvd), n)
           /\ UNCHANGED snt

StreamNext == Write \/ Read

StreamSpec == StreamInit /\ [][StreamNext]_streamVars
=============================================================================

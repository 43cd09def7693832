------------------------------- MODULE TcpSeq -------------------------------
(***************************************************************************)
(* Sequence numbers of include/neustack/transport/tcp_seq.hpp: unsigned    *)
(* numbers of a fixed width, compared by the sign of their difference.     *)
(* SeqSpace stands for 2^32.                                               *)
(***************************************************************************)
EXTENDS Integers

CONSTANT SeqSpace

ASSUME SeqSpaceAssumption ==
  /\ SeqSpace \in Nat \ {0}
  /\ SeqSpace % 2 = 0

SeqNum == 0..(SeqSpace - 1)
HalfSpace == SeqSpace \div 2

\* uint32_t addition and subtraction.
SeqAdd(a, n) == (a + n) % SeqSpace
SeqSub(a, b) == (a - b) % SeqSpace

\* static_cast<int32_t>(a - b)
SignedDiff(a, b) ==
  IF SeqSub(a, b) < HalfSpace THEN SeqSub(a, b) ELSE SeqSub(a, b) - SeqSpace

seq_lt(a, b) == SignedDiff(a, b) < 0
seq_le(a, b) == SignedDiff(a, b) =< 0
seq_gt(a, b) == SignedDiff(a, b) > 0
seq_ge(a, b) == SignedDiff(a, b) >= 0

\* seq lies in the half-open range from start to end.
seq_in_range(seq, start, end) == seq_ge(seq, start) /\ seq_lt(seq, end)
=============================================================================

---------------------------- MODULE TcpPairProofs ----------------------------
(***************************************************************************)
(* Proofs about TcpPair, for any windows, buffers, applications and        *)
(* initial sequence numbers, and any number of losses, repetitions and     *)
(* overtakings: what each application is handed is what the other wrote,   *)
(* and it learns of the end behind all of it.                              *)
(*                                                                         *)
(* The properties are not inductive.  They rest on what the numbers of     *)
(* every segment ever sent mean (Sendable), and with it those of the       *)
(* entries kept for retransmission (Kept) and behind a gap (Ahead), on     *)
(* where snd_nxt stands in the stream written (Numbered) and rcv_nxt in    *)
(* the stream handed over (ReceiveSound).                                  *)
(***************************************************************************)
EXTENDS TcpPair, SequenceTheorems, FiniteSetTheorems, NaturalsInduction,
        WellFoundedInduction, TLAPS

\* The number of byte n of the stream that end e sends, and of what follows it.
Stream(e, n) == SeqAdd(Isn[e], 1 + n)

\* A connection sends its FIN more than once when a close that waits is repeated
\* (close, send_buffered_data), each time with the next number.
FinNumbers(e, written) == {Isn[e]} \cup {Stream(e, written + j) : j \in 0 .. 3}

Flags == {"SYN", "ACK", "FIN", "RST"}
Segment == [flags: SUBSET Flags, seq: SeqNum, ack: SeqNum, wnd: Nat, from: Nat, len: Nat]

\* What end e, whose application is a, may have under way, kept for retransmission,
\* and kept until a gap is filled.
SegmentSound(seg, e, a) ==
  HasRst(seg) \/
    /\ HasSyn(seg) => seg.seq = Isn[e] /\ seg.len = 0 /\ ~HasFin(seg)
    /\ HasFin(seg) => seg.len = 0 /\ a.closed /\ seg.seq \in FinNumbers(e, a.written)
    /\ seg.len > 0 => seg.seq = Stream(e, seg.from) /\ seg.from + seg.len <= a.written
Sendable(e, a) == {seg \in Segment : SegmentSound(seg, e, a)}

Entry == [seq_start: SeqNum, seq_end: SeqNum, from: Nat, len: Nat, retransmit_count: Nat]
EntrySound(q, e, a) ==
  IF q.len = 0 THEN /\ q.seq_end = SeqAdd(q.seq_start, 1)
                    /\ \/ q.seq_start = Isn[e]
                       \/ a.closed /\ q.seq_start \in FinNumbers(e, a.written)
  ELSE /\ q.seq_end = SeqAdd(q.seq_start, q.len)
       /\ q.seq_start = Stream(e, q.from) /\ q.from + q.len <= a.written
Kept(e, a) == {q \in Entry : EntrySound(q, e, a)}

OooEntry == [seq_start: SeqNum, seq_end: SeqNum, from: Nat, len: Nat]
Ahead(e, written) ==
  {q \in OooEntry : /\ q.len > 0 /\ q.from + q.len <= written
                    /\ q.seq_start = Stream(e, q.from)
                    /\ q.seq_end = SeqAdd(q.seq_start, q.len)}

Handshake == {"SYN_SENT", "SYN_RCVD"}
Receiving == {"ESTABLISHED", "FIN_WAIT_1", "FIN_WAIT_2"}
Closing == {"FIN_WAIT_1", "FIN_WAIT_2", "CLOSING", "LAST_ACK", "TIME_WAIT"}

\* Types and shapes of the TCB, of the application and of the record of a call.
TcbType(c) ==
  /\ DOMAIN c = {"state", "passive_open", "iss", "snd_una", "snd_nxt", "snd_wnd",
                 "rcv_nxt", "rcv_wnd", "send_buffer", "send_read", "retransmit_queue", "ooo_queue",
                 "dup_ack_count", "delayed_ack_pending", "zero_window_probe_needed",
                 "close_pending"}
  /\ c.state \in States \cup {"CLOSED"}
  /\ c.snd_una \in SeqNum /\ c.snd_nxt \in SeqNum /\ c.rcv_nxt \in SeqNum
  /\ c.snd_wnd \in Nat /\ c.rcv_wnd \in 0 .. RecvBufferSize
  /\ c.send_buffer \in 0 .. SendBufferSize /\ c.send_read \in 0 .. SendBufferSize
  /\ c.dup_ack_count \in 0 .. 2

AppType(a) ==
  /\ DOMAIN a = {"written", "received", "connected", "closed", "peer_fin", "aborted"}
  /\ a.written \in 0 .. MaxWritten
  /\ a.received \in Seq(Nat)

CallType(r) ==
  /\ DOMAIN r = {"c", "a", "out", "cb", "cwnd"} /\ r.cwnd \in Nat
  /\ TcbType(r.c) /\ AppType(r.a)

\* The next number to send is that of the first byte not sent, or follows f FINs.
Numbered(c, a, e, f) ==
  /\ c.snd_nxt = Stream(e, a.written - c.send_buffer + f)
  /\ f > 0 => a.closed /\ c.send_buffer = 0

\* The FINs a connection in this state may have sent.
Fins(state) == CASE state \in Handshake \cup {"ESTABLISHED"} -> 0
                 [] state \in {"LAST_ACK", "CLOSED"} -> 4
                 [] OTHER -> 2

\* What is sent, and kept to be sent again, with no more than k FINs.
SendSound(c, a, e, k) ==
  /\ c.send_buffer <= a.written
  /\ \E f \in 0 .. k : Numbered(c, a, e, f)
  /\ c.retransmit_queue \in Seq(Kept(e, a))
  /\ c.close_pending => a.closed

Sends(c, a, e) ==
  /\ SendSound(c, a, e, Fins(c.state))
  /\ c.state \in Closing => a.closed /\ c.send_buffer = 0

ReceiveSound(c, a, e, written) ==
  /\ c.state \in Receiving \cup {"SYN_RCVD"} => c.rcv_nxt = Stream(Peer(e), Len(a.received))
  /\ c.ooo_queue \in Seq(Ahead(Peer(e), written))
  /\ c.state \in Receiving => a.connected /\ ~a.peer_fin
  /\ c.state \in Handshake => a = NewApp /\ c.snd_una = Isn[e] /\ c.iss = Isn[e]

\* What application a was handed is what its peer p wrote.
HandedSound(a, p) ==
  /\ a.received = Bytes(0, Len(a.received)) /\ Len(a.received) <= p.written
  /\ a.peer_fin => p.closed /\ Len(a.received) = p.written

\* End e with TCB c and application a, against a peer whose application is p.
EndSound(c, a, e, p) ==
  /\ TcbType(c) /\ AppType(a)
  /\ c.state # "CLOSED"
  /\ c.state = NONE => c = NoTcb
  /\ c.state # NONE => Sends(c, a, e) /\ ReceiveSound(c, a, e, p.written)
  /\ HandedSound(a, p)

EndInv(e) ==
  /\ e \notin opened => tcb[e] = NoTcb /\ app[e] = NewApp
  /\ EndSound(tcb[e], app[e], e, app[Peer(e)])
  /\ net[e] \in Seq(Sendable(Peer(e), app[Peer(e)]))

PairInv ==
  /\ scenario \in Scenarios
  /\ DOMAIN tcb = Ends /\ DOMAIN app = Ends /\ DOMAIN net = Ends
  /\ \A e \in Ends : EndInv(e)

-----------------------------------------------------------------------------
(***************************************************************************)
(* What the comparisons of tcp_seq.hpp mean, which is also why TcpReceiver *)
(* may count positions: of two numbers less than half the space apart, the *)
(* signed difference tells which is ahead and by how much, wherever the    *)
(* space wraps.                                                            *)
(***************************************************************************)

\* The remainder of a number within one turn of the space, either way.
LEMMA Remainder ==
  ASSUME NEW S \in Nat \ {0}, NEW x \in Int
  PROVE  /\ x \in 0..(S - 1) => x % S = x
         /\ x \in S..(2 * S - 1) => x % S = x - S
         /\ x \in (-S)..(-1) => x % S = x + S
<1>1. ASSUME x \in 0..(S - 1) PROVE x % S = x
  BY <1>1
<1>2. ASSUME x \in S..(2 * S - 1) PROVE x % S = x - S
  BY <1>2
<1>3. ASSUME x \in (-S)..(-1) PROVE x % S = x + S
  BY <1>3
<1>4. QED
  BY <1>1, <1>2, <1>3

\* The space is two halves.
LEMMA HalfSpaceFacts ==
  /\ HalfSpace \in Nat \ {0}
  /\ SeqSpace = 2 * HalfSpace
BY SeqSpaceAssumption DEF HalfSpace

\* SeqAdd and SeqSub stay in the space and undo each other.
LEMMA SeqAddType ==
  ASSUME NEW a \in SeqNum, NEW n \in 0..(SeqSpace - 1)
  PROVE  /\ SeqAdd(a, n) \in SeqNum
         /\ SeqAdd(a, n) = IF a + n < SeqSpace THEN a + n ELSE a + n - SeqSpace
<1> DEFINE x == a + n
<1>1. SeqSpace \in Nat \ {0} /\ x \in 0..(2 * SeqSpace - 1)
  BY SeqSpaceAssumption DEF SeqNum
<1>2. SeqAdd(a, n) = x % SeqSpace
  BY DEF SeqAdd
<1> HIDE DEF x
<1>3. /\ x < SeqSpace => x % SeqSpace = x
      /\ x >= SeqSpace => x % SeqSpace = x - SeqSpace
  <2>1. /\ x \in 0..(SeqSpace - 1) => x % SeqSpace = x
        /\ x \in SeqSpace..(2 * SeqSpace - 1) => x % SeqSpace = x - SeqSpace
    BY <1>1, Remainder
  <2>2. QED
    BY <1>1, <2>1
<1>4. /\ SeqAdd(a, n) \in SeqNum
      /\ SeqAdd(a, n) = IF x < SeqSpace THEN x ELSE x - SeqSpace
  BY <1>1, <1>2, <1>3 DEF SeqNum
<1>5. a \in Int /\ n \in Int /\ SeqSpace \in Int
  BY <1>1 DEF SeqNum
<1>6. QED
  BY <1>4, <1>5 DEF x

\* The unsigned difference of two numbers.
LEMMA SeqSubType ==
  ASSUME NEW a \in SeqNum, NEW b \in SeqNum
  PROVE  /\ SeqSub(a, b) \in SeqNum
         /\ SeqSub(a, b) = IF a >= b THEN a - b ELSE a - b + SeqSpace
<1> DEFINE x == a - b
<1>1. SeqSpace \in Nat \ {0} /\ x \in (1 - SeqSpace)..(SeqSpace - 1)
  BY SeqSpaceAssumption DEF SeqNum
<1>2. SeqSub(a, b) = x % SeqSpace
  BY DEF SeqSub
<1>3. a >= b <=> x >= 0
  BY DEF SeqNum
<1> HIDE DEF x
<1>4. /\ x >= 0 => x % SeqSpace = x
      /\ x < 0 => x % SeqSpace = x + SeqSpace
  BY <1>1, Remainder
<1>5. /\ SeqSub(a, b) \in SeqNum
      /\ SeqSub(a, b) = IF a >= b THEN x ELSE x + SeqSpace
  BY <1>1, <1>2, <1>3, <1>4 DEF SeqNum
<1>6. QED
  BY <1>5 DEF x

\* seq_lt and seq_gt of tcp_seq.hpp see a number sent n bytes later as later,
\* for every distance below half the space, and the difference is n.
THEOREM SeqOrder ==
  ASSUME NEW a \in SeqNum, NEW n \in 0..(HalfSpace - 1)
  PROVE  /\ SignedDiff(SeqAdd(a, n), a) = n
         /\ SignedDiff(a, SeqAdd(a, n)) = -n
         /\ seq_ge(SeqAdd(a, n), a) /\ seq_le(a, SeqAdd(a, n))
         /\ n > 0 <=> seq_gt(SeqAdd(a, n), a)
         /\ n > 0 <=> seq_lt(a, SeqAdd(a, n))
<1> DEFINE b == SeqAdd(a, n)
<1>1. b \in SeqNum /\ b = IF a + n < SeqSpace THEN a + n ELSE a + n - SeqSpace
  BY SeqAddType, HalfSpaceFacts
<1> HIDE DEF b
<1>0. /\ SeqSub(b, a) = IF b >= a THEN b - a ELSE b - a + SeqSpace
      /\ SeqSub(a, b) = IF a >= b THEN a - b ELSE a - b + SeqSpace
  BY <1>1, SeqSubType
<1>2. SeqSub(b, a) = n
  BY <1>0, <1>1, HalfSpaceFacts DEF SeqNum
<1>3. SeqSub(a, b) = IF n = 0 THEN 0 ELSE SeqSpace - n
  BY <1>0, <1>1, HalfSpaceFacts DEF SeqNum
<1>4. SignedDiff(b, a) = n /\ SignedDiff(a, b) = -n
  BY <1>2, <1>3, HalfSpaceFacts DEF SignedDiff
<1>5. QED
  BY <1>4, HalfSpaceFacts DEF b, seq_ge, seq_le, seq_gt, seq_lt

\* Of two numbers exactly one of before, equal and after holds, unless they are
\* half the space apart: then each is before the other.
THEOREM SeqTrichotomy ==
  ASSUME NEW a \in SeqNum, NEW b \in SeqNum, SeqSub(a, b) # HalfSpace
  PROVE  /\ seq_lt(a, b) <=> seq_gt(b, a)
         /\ seq_lt(a, b) \/ a = b \/ seq_gt(a, b)
         /\ ~(seq_lt(a, b) /\ seq_gt(a, b))
         /\ a = b => ~seq_lt(a, b) /\ ~seq_gt(a, b)
<1>1. /\ SeqSub(a, b) = IF a >= b THEN a - b ELSE a - b + SeqSpace
      /\ SeqSub(b, a) = IF b >= a THEN b - a ELSE b - a + SeqSpace
  BY SeqSubType
<1>2. QED
  BY <1>1, HalfSpaceFacts DEF SeqNum, SignedDiff, seq_lt, seq_gt

\* seq_in_range, the test of handle_rst, accepts exactly the n numbers from
\* start on, for every window below half the space.
THEOREM SeqWindow ==
  ASSUME NEW seq \in SeqNum, NEW start \in SeqNum, NEW n \in 0..(HalfSpace - 1)
  PROVE  seq_in_range(seq, start, SeqAdd(start, n)) <=> SeqSub(seq, start) < n
<1> DEFINE end == SeqAdd(start, n)
           d == SeqSub(seq, start)
<1>1. end \in SeqNum /\ end = IF start + n < SeqSpace THEN start + n ELSE start + n - SeqSpace
  BY SeqAddType, HalfSpaceFacts
<1>2. d \in SeqNum /\ d = IF seq >= start THEN seq - start ELSE seq - start + SeqSpace
  BY SeqSubType
<1> HIDE DEF end, d
<1>3. SeqSub(seq, end) = IF d >= n THEN d - n ELSE d - n + SeqSpace
  <2>1. SeqSub(seq, end) = IF seq >= end THEN seq - end ELSE seq - end + SeqSpace
    BY <1>1, SeqSubType
  <2>2. QED
    BY <1>1, <1>2, <2>1, HalfSpaceFacts DEF SeqNum
<1>4. CASE d < HalfSpace
  <2>1. seq_ge(seq, start)
    BY <1>4, <1>2, HalfSpaceFacts DEF d, seq_ge, SignedDiff, SeqNum
  <2>2. seq_lt(seq, end) <=> d < n
    BY <1>4, <1>2, <1>3, HalfSpaceFacts DEF seq_lt, SignedDiff, SeqNum
  <2>3. QED
    BY <2>1, <2>2 DEF seq_in_range, end, d
<1>5. CASE d >= HalfSpace
  <2>1. ~seq_ge(seq, start)
    BY <1>5, <1>2, HalfSpaceFacts DEF d, seq_ge, SignedDiff, SeqNum
  <2>2. ~(d < n)
    BY <1>5, <1>2, HalfSpaceFacts DEF SeqNum
  <2>3. QED
    BY <2>1, <2>2 DEF seq_in_range, end, d
<1>6. QED
  BY <1>2, <1>4, <1>5, HalfSpaceFacts DEF SeqNum, d, end
\* Bytes of a stream, and the FINs behind it, are compared by their positions.
Compared(e, m, n) ==
  /\ SignedDiff(Stream(e, m), Stream(e, n)) = m - n
  /\ n <= m => SeqSub(Stream(e, m), Stream(e, n)) = m - n

\* The numbers of a stream and of the FINs after it: distinct from the SYN's.
LEMMA StreamType ==
  ASSUME NEW e \in Ends, NEW n \in 0 .. MaxWritten + 4
  PROVE  /\ Stream(e, n) \in SeqNum
         /\ Stream(e, n) # Isn[e]
         /\ Stream(e, n) = IF Isn[e] + 1 + n < SeqSpace THEN Isn[e] + 1 + n
                           ELSE Isn[e] + 1 + n - SeqSpace
<1>1. Isn[e] \in SeqNum /\ 1 + n \in 1 .. SeqSpace - 1 /\ 1 + n \in Int
  BY PairAssumption, HalfSpaceFacts
<1>2. /\ SeqAdd(Isn[e], 1 + n) \in SeqNum
      /\ SeqAdd(Isn[e], 1 + n) = IF Isn[e] + (1 + n) < SeqSpace THEN Isn[e] + (1 + n)
                                 ELSE Isn[e] + (1 + n) - SeqSpace
  BY <1>1, SeqAddType, HalfSpaceFacts
<1> QED BY <1>1, <1>2, HalfSpaceFacts DEF Stream, SeqNum

\* Two numbers of one stream differ by the distance of their positions.
LEMMA StreamCompared ==
  ASSUME NEW e \in Ends, NEW m \in 0 .. MaxWritten + 3, NEW n \in 0 .. MaxWritten + 3
  PROVE  Compared(e, m, n)
<1>1. MaxWritten \in Nat /\ MaxWritten + 4 <= HalfSpace
  BY PairAssumption, HalfSpaceFacts
<1> DEFINE a == Stream(e, m)
           b == Stream(e, n)
           i == Isn[e]
<1>2. /\ i \in SeqNum /\ a \in SeqNum /\ b \in SeqNum
      /\ a = IF i + 1 + m < SeqSpace THEN i + 1 + m ELSE i + 1 + m - SeqSpace
      /\ b = IF i + 1 + n < SeqSpace THEN i + 1 + n ELSE i + 1 + n - SeqSpace
  BY <1>1, StreamType, PairAssumption
<1>3. SeqSub(a, b) = IF a >= b THEN a - b ELSE a - b + SeqSpace
  BY <1>2, SeqSubType
<1> HIDE DEF a, b, i
<1>4. SeqSub(a, b) = IF m >= n THEN m - n ELSE m - n + SeqSpace
  BY <1>1, <1>2, <1>3, HalfSpaceFacts DEF SeqNum
<1>5. SignedDiff(a, b) = m - n
  BY <1>1, <1>4, HalfSpaceFacts DEF SignedDiff
<1> QED BY <1>4, <1>5 DEF a, b, Compared

\* The comparisons of tcp_seq.hpp on one stream are those of the positions.
LEMMA StreamOrder ==
  ASSUME NEW e \in Ends, NEW m \in 0 .. MaxWritten + 3, NEW n \in 0 .. MaxWritten + 3
  PROVE  /\ seq_lt(Stream(e, m), Stream(e, n)) <=> m < n
         /\ seq_le(Stream(e, m), Stream(e, n)) <=> m <= n
         /\ seq_gt(Stream(e, m), Stream(e, n)) <=> m > n
         /\ n <= m => SeqSub(Stream(e, m), Stream(e, n)) = m - n
         /\ Stream(e, m) = Stream(e, n) => m = n
<1>1. Compared(e, m, n) /\ Compared(e, n, n) /\ MaxWritten \in Nat
  BY StreamCompared, PairAssumption
<1>2. SignedDiff(Stream(e, m), Stream(e, n)) = m - n /\ SignedDiff(Stream(e, n), Stream(e, n)) = 0
  BY <1>1 DEF Compared
<1>3. Stream(e, m) = Stream(e, n) => m = n
  BY <1>1, <1>2
<1> QED BY <1>1, <1>2, <1>3 DEF Compared, seq_lt, seq_le, seq_gt

\* A sum taken in two steps.
LEMMA StreamAdd ==
  ASSUME NEW e \in Ends, NEW m \in Nat, NEW n \in Nat, m + n <= MaxWritten + 4
  PROVE  SeqAdd(Stream(e, m), n) = Stream(e, m + n)
<1>1. MaxWritten \in Nat /\ MaxWritten + 4 <= HalfSpace
  BY PairAssumption, HalfSpaceFacts
<1> DEFINE a == Stream(e, m)
           b == Stream(e, m + n)
           i == Isn[e]
<1>2. /\ i \in SeqNum /\ a \in SeqNum /\ b \in SeqNum
      /\ a = IF i + 1 + m < SeqSpace THEN i + 1 + m ELSE i + 1 + m - SeqSpace
      /\ b = IF i + 1 + (m + n) < SeqSpace THEN i + 1 + (m + n) ELSE i + 1 + (m + n) - SeqSpace
  BY <1>1, StreamType, PairAssumption
<1>3. SeqAdd(a, n) = IF a + n < SeqSpace THEN a + n ELSE a + n - SeqSpace
  BY <1>1, <1>2, SeqAddType, HalfSpaceFacts
<1> HIDE DEF a, b, i
<1>4. SeqAdd(a, n) = b
  BY <1>1, <1>2, <1>3, HalfSpaceFacts DEF SeqNum
<1> QED BY <1>4 DEF a, b

\* An acknowledgement within an entry leaves a part of it.
LEMMA Trimmed ==
  ASSUME NEW start \in SeqNum, NEW ack \in SeqNum, NEW len \in Nat, len < HalfSpace,
         seq_lt(start, ack), ~seq_le(SeqAdd(start, len), ack)
  PROVE  /\ SeqSub(ack, start) \in 1 .. len - 1
         /\ SeqAdd(start, SeqSub(ack, start)) = ack
         /\ SeqAdd(ack, len - SeqSub(ack, start)) = SeqAdd(start, len)
<1> DEFINE end == SeqAdd(start, len)
           n == SeqSub(ack, start)
<1>1. end \in SeqNum /\ end = IF start + len < SeqSpace THEN start + len ELSE start + len - SeqSpace
  BY SeqAddType, HalfSpaceFacts
<1>2. n \in SeqNum /\ n = IF ack >= start THEN ack - start ELSE ack - start + SeqSpace
  BY SeqSubType
<1>3. /\ SeqSub(start, ack) = IF start >= ack THEN start - ack ELSE start - ack + SeqSpace
      /\ SeqSub(end, ack) = IF end >= ack THEN end - ack ELSE end - ack + SeqSpace
  BY <1>1, SeqSubType
<1>4. /\ ~(SeqSub(start, ack) < HalfSpace)
      /\ SeqSub(end, ack) < HalfSpace /\ SeqSub(end, ack) # 0
  <2>1. /\ SignedDiff(start, ack) < 0 /\ ~(SignedDiff(end, ack) <= 0)
    BY DEF seq_lt, seq_le
  <2>2. SeqSub(start, ack) \in SeqNum /\ SeqSub(end, ack) \in SeqNum
    BY <1>1, SeqSubType
  <2> QED BY <2>1, <2>2, HalfSpaceFacts DEF SignedDiff, SeqNum
<1> HIDE DEF end, n
<1>5. n \in 1 .. len - 1
  BY <1>1, <1>2, <1>3, <1>4, HalfSpaceFacts DEF SeqNum
<1>6. SeqAdd(start, n) = IF start + n < SeqSpace THEN start + n ELSE start + n - SeqSpace
  BY <1>2, SeqAddType DEF SeqNum
<1>7. SeqAdd(ack, len - n) = IF ack + (len - n) < SeqSpace THEN ack + (len - n)
                             ELSE ack + (len - n) - SeqSpace
  <2>1. len - n \in 0 .. SeqSpace - 1
    BY <1>5, HalfSpaceFacts
  <2> QED BY <2>1, SeqAddType
<1>8. SeqAdd(start, n) = ack /\ SeqAdd(ack, len - n) = end
  BY <1>1, <1>2, <1>5, <1>6, <1>7, HalfSpaceFacts DEF SeqNum
<1> QED BY <1>5, <1>8 DEF end, n

-----------------------------------------------------------------------------
(* Scans and loops.                                                        *)

\* A nonempty set of natural numbers has a least one.
LEMMA LeastNat ==
  ASSUME NEW T \in SUBSET Nat, T # {}
  PROVE  \E x \in T : \A y \in T : x <= y
<1>1. PICK x \in T : \A y \in T : ~(<<y, x>> \in OpToRel(<, Nat))
  BY NatLessThanWellFounded, WFMin
<1>2. ASSUME NEW y \in T PROVE x <= y
  <2>1. x \in Nat /\ y \in Nat
    OBVIOUS
  <2>2. y < x => <<y, x>> \in OpToRel(<, Nat)
    <3>1. y < x => <<y, x>>[1] < <<y, x>>[2]
      OBVIOUS
    <3>2. <<y, x>> \in Nat \X Nat
      BY <2>1
    <3> QED BY <3>1, <3>2, Zenon DEF OpToRel
  <2>3. ~(y < x)
    BY <1>1, <2>2, Zenon
  <2> QED BY <2>1, <2>3
<1> QED BY <1>2

\* The scan of a queue of n entries stops behind entries that are all in S.
LEMMA LeadingStops ==
  ASSUME NEW S, NEW n \in Nat
  PROVE  /\ Leading(S, n) \in 0 .. n
         /\ 1 .. Leading(S, n) \subseteq S
         /\ Leading(S, n) = n \/ Leading(S, n) + 1 \notin S
<1> DEFINE T == {k \in Nat : k = n \/ k + 1 \notin S}
<1>1. PICK k \in T : \A y \in T : k <= y
  <2>1. n \in T /\ T \in SUBSET Nat
    OBVIOUS
  <2> QED BY <2>1, LeastNat
<1>2. k \in 0 .. n
  <2>1. n \in T
    OBVIOUS
  <2> QED BY <1>1, <2>1
<1>3. ASSUME NEW i \in 1 .. k PROVE i \in S
  <2>1. i - 1 \in Nat /\ ~(k <= i - 1) /\ i - 1 # n /\ (i - 1) + 1 = i
    BY <1>2
  <2>2. i - 1 \notin T
    BY <1>1, <2>1
  <2> QED BY <2>1, <2>2
<1>4. k \in 0 .. n /\ 1 .. k \subseteq S /\ (k = n \/ k + 1 \notin S)
  BY <1>1, <1>2, <1>3
<1> QED BY <1>4 DEF Leading

\* A loop of n turns that starts in R, and of which each turn stays in R, ends in R.
LEMMA Turns ==
  ASSUME NEW n \in Nat, NEW f, NEW R, f[0] \in R,
         \A k \in 1 .. n : f[k - 1] \in R => f[k] \in R
  PROVE  f[n] \in R
<1> DEFINE T == {k \in 0 .. n : f[k] \notin R}
<1>1. SUFFICES ASSUME T # {} PROVE FALSE
  OBVIOUS
<1>2. PICK k \in T : \A y \in T : k <= y
  <2>1. T \in SUBSET Nat
    OBVIOUS
  <2> HIDE DEF T
  <2> QED BY <1>1, <2>1, LeastNat
<1>3. k \in 1 .. n
  <2>1. k # 0
    OBVIOUS
  <2> QED BY <2>1
<1>4. k - 1 \in 0 .. n /\ ~(k <= k - 1)
  BY <1>3
<1>5. f[k - 1] \in R
  BY <1>2, <1>4
<1> QED BY <1>3, <1>5

\* The loop of send_buffered_data has its turns.
SendTurns(r, n) ==
  CHOOSE g : g = [k \in 0 .. n |-> IF k = 0 THEN r ELSE SendNext(g[k - 1])]

\* The turns of the loop of send_buffered_data, one after the other.
LEMMA SendLoop ==
  ASSUME NEW r, NEW n \in Nat
  PROVE  /\ SendTurns(r, n)[0] = r
         /\ \A k \in 1 .. n : SendTurns(r, n)[k] = SendNext(SendTurns(r, n)[k - 1])
<1> DEFINE f == SendTurns(r, n)
           Turn(g, m) == g = [k \in 0 .. m |-> IF k = 0 THEN r ELSE SendNext(g[k - 1])]
           T == {m \in Nat : ~\E g : Turn(g, m)}
<1>1. T = {}
  <2>1. SUFFICES ASSUME T # {} PROVE FALSE
    OBVIOUS
  <2>2. PICK m \in T : \A y \in T : m <= y
    <3>1. T \in SUBSET Nat
      OBVIOUS
    <3> HIDE DEF T
    <3> QED BY <2>1, <3>1, LeastNat
  <2>3. m \in Nat /\ ~\E g : Turn(g, m)
    OBVIOUS
  <2>4. m # 0
    <3> DEFINE h == [k \in 0 .. 0 |-> r]
    <3>1. h = [k \in 0 .. 0 |-> IF k = 0 THEN r ELSE SendNext(h[k - 1])]
      OBVIOUS
    <3>2. Turn(h, 0)
      BY <3>1
    <3> QED BY <2>3, <3>2
  <2>5. m - 1 \in Nat /\ ~(m <= m - 1)
    BY <2>3, <2>4
  <2>6. PICK g : Turn(g, m - 1)
    BY <2>2, <2>5
  <2> DEFINE h == [k \in 0 .. m |-> IF k = m THEN SendNext(g[m - 1]) ELSE g[k]]
  <2>7. ASSUME NEW k \in 0 .. m PROVE h[k] = IF k = 0 THEN r ELSE SendNext(h[k - 1])
    <3>1. CASE k = 0
      BY <2>4, <2>5, <2>6, <3>1
    <3>2. CASE k # 0
      <4>1. k - 1 \in 0 .. m /\ k - 1 # m /\ k - 1 \in 0 .. m - 1
        BY <2>3, <3>2
      <4>2. h[k - 1] = g[k - 1]
        BY <4>1
      <4>3. k # m => k \in 0 .. m - 1
        BY <2>3
      <4>4. k # m => g[k] = SendNext(g[k - 1])
        BY <2>6, <3>2, <4>3
      <4> QED BY <3>2, <4>2, <4>4
    <3> QED BY <3>1, <3>2
  <2>8. Turn(h, m)
    <3>1. h = [k \in 0 .. m |-> h[k]]
      OBVIOUS
    <3> HIDE DEF h
    <3> QED BY <2>7, <3>1
  <2> QED BY <2>3, <2>8
<1>2. \E g : Turn(g, n)
  BY <1>1
<1>3. Turn(f, n)
  BY <1>2 DEF SendTurns
<1> HIDE DEF f
<1>4. ASSUME NEW k \in 0 .. n PROVE f[k] = IF k = 0 THEN r ELSE SendNext(f[k - 1])
  BY <1>3, Zenon
<1>5. f[0] = r
  BY <1>4
<1>6. ASSUME NEW k \in 1 .. n PROVE f[k] = SendNext(f[k - 1])
  <2>1. k \in 0 .. n /\ k # 0
    OBVIOUS
  <2> QED BY <1>4, <2>1, Zenon
<1> QED BY <1>5, <1>6 DEF f

\* The loop of deliver_ooo_data has its turns.
DeliverTurns(r, n) ==
  CHOOSE g : g = [k \in 0 .. n |-> IF k = 0 THEN r ELSE deliver_first(g[k - 1])]

\* The turns of the loop of deliver_ooo_data, one after the other.
LEMMA DeliverLoop ==
  ASSUME NEW r, NEW n \in Nat
  PROVE  /\ DeliverTurns(r, n)[0] = r
         /\ \A k \in 1 .. n : DeliverTurns(r, n)[k] = deliver_first(DeliverTurns(r, n)[k - 1])
<1> DEFINE f == DeliverTurns(r, n)
           Turn(g, m) == g = [k \in 0 .. m |-> IF k = 0 THEN r ELSE deliver_first(g[k - 1])]
           T == {m \in Nat : ~\E g : Turn(g, m)}
<1>1. T = {}
  <2>1. SUFFICES ASSUME T # {} PROVE FALSE
    OBVIOUS
  <2>2. PICK m \in T : \A y \in T : m <= y
    <3>1. T \in SUBSET Nat
      OBVIOUS
    <3> HIDE DEF T
    <3> QED BY <2>1, <3>1, LeastNat
  <2>3. m \in Nat /\ ~\E g : Turn(g, m)
    OBVIOUS
  <2>4. m # 0
    <3> DEFINE h == [k \in 0 .. 0 |-> r]
    <3>1. h = [k \in 0 .. 0 |-> IF k = 0 THEN r ELSE deliver_first(h[k - 1])]
      OBVIOUS
    <3>2. Turn(h, 0)
      BY <3>1
    <3> QED BY <2>3, <3>2
  <2>5. m - 1 \in Nat /\ ~(m <= m - 1)
    BY <2>3, <2>4
  <2>6. PICK g : Turn(g, m - 1)
    BY <2>2, <2>5
  <2> DEFINE h == [k \in 0 .. m |-> IF k = m THEN deliver_first(g[m - 1]) ELSE g[k]]
  <2>7. ASSUME NEW k \in 0 .. m PROVE h[k] = IF k = 0 THEN r ELSE deliver_first(h[k - 1])
    <3>1. CASE k = 0
      BY <2>4, <2>5, <2>6, <3>1
    <3>2. CASE k # 0
      <4>1. k - 1 \in 0 .. m /\ k - 1 # m /\ k - 1 \in 0 .. m - 1
        BY <2>3, <3>2
      <4>2. h[k - 1] = g[k - 1]
        BY <4>1
      <4>3. k # m => k \in 0 .. m - 1
        BY <2>3
      <4>4. k # m => g[k] = deliver_first(g[k - 1])
        BY <2>6, <3>2, <4>3
      <4> QED BY <3>2, <4>2, <4>4
    <3> QED BY <3>1, <3>2
  <2>8. Turn(h, m)
    <3>1. h = [k \in 0 .. m |-> h[k]]
      OBVIOUS
    <3> HIDE DEF h
    <3> QED BY <2>7, <3>1
  <2> QED BY <2>3, <2>8
<1>2. \E g : Turn(g, n)
  BY <1>1
<1>3. Turn(f, n)
  BY <1>2 DEF DeliverTurns
<1> HIDE DEF f
<1>4. ASSUME NEW k \in 0 .. n PROVE f[k] = IF k = 0 THEN r ELSE deliver_first(f[k - 1])
  BY <1>3, Zenon
<1>5. f[0] = r
  BY <1>4
<1>6. ASSUME NEW k \in 1 .. n PROVE f[k] = deliver_first(f[k - 1])
  <2>1. k \in 0 .. n /\ k # 0
    OBVIOUS
  <2> QED BY <1>4, <2>1, Zenon
<1> QED BY <1>5, <1>6 DEF f

-----------------------------------------------------------------------------
(* What a call changes.                                                    *)

\* Everything but what is sent: the application and where the TCB stands.
Same(r, s) ==
  /\ CallType(s) /\ s.a = r.a
  /\ s.c.state = r.c.state /\ s.c.iss = r.c.iss /\ s.c.snd_una = r.c.snd_una
  /\ s.c.rcv_nxt = r.c.rcv_nxt /\ s.c.ooo_queue = r.c.ooo_queue
  /\ r.c.send_buffer = 0 => s.c.send_buffer = 0

\* The same, when bytes may have been buffered.
Alike(r, s) ==
  /\ CallType(s) /\ s.a = r.a
  /\ s.c.state = r.c.state /\ s.c.iss = r.c.iss /\ s.c.snd_una = r.c.snd_una
  /\ s.c.rcv_nxt = r.c.rcv_nxt /\ s.c.ooo_queue = r.c.ooo_queue

\* What was sent and kept stays sound: bytes are added to a stream not closed.
Grows(a, b) == /\ a.written <= b.written
               /\ a.closed => b.closed /\ b.written = a.written

\* The calls that send leave the receiving side as it is.
Left(r, s) ==
  /\ CallType(s) /\ Grows(r.a, s.a)
  /\ s.a.received = r.a.received /\ s.a.connected = r.a.connected
  /\ s.a.peer_fin = r.a.peer_fin
  /\ s.c.rcv_nxt = r.c.rcv_nxt /\ s.c.ooo_queue = r.c.ooo_queue
  /\ \/ s.c.state = r.c.state
     \/ r.c.state = "ESTABLISHED" /\ s.c.state = "FIN_WAIT_1"
     \/ r.c.state = "CLOSE_WAIT" /\ s.c.state = "LAST_ACK"

\* Sound so far: what has been sent is, and what the TCB holds to send.
SoundCall(r, e, k) ==
  /\ CallType(r) /\ SendSound(r.c, r.a, e, k) /\ r.out \in Seq(Sendable(e, r.a))

Sender(r, e) ==
  /\ SoundCall(r, e, Fins(r.c.state))
  /\ r.c.state \in Closing => r.a.closed /\ r.c.send_buffer = 0

\* What PairAssumption says of each constant.
LEMMA Constants ==
  /\ MSS \in Nat /\ SendBufferSize \in Nat /\ RecvBufferSize \in Nat
  /\ MaxRetransmit \in Nat /\ MaxWritten \in Nat
  /\ MAX_TCP_SIZE \in Nat /\ MaxWindow \in Nat /\ MSS <= MAX_TCP_SIZE
  /\ 0 <= MAX_TCP_SIZE
  BY PairAssumption

\* The window a segment tells.
LEMMA TellsWindow == ASSUME NEW c, TcbType(c) PROVE Smaller(c.rcv_wnd, MaxWindow) \in Nat
  BY Constants DEF Smaller, TcbType

\* One call that sends, and another.
LEMMA LeftTransitive ==
  ASSUME NEW r, NEW s, NEW t, CallType(r), Left(r, s), Left(s, t) PROVE Left(r, t)
<1>1. Grows(r.a, t.a)
  BY Constants DEF Left, Grows, CallType, AppType
<1> QED BY <1>1 DEF Left

\* A call that buffers leaves the receiving side as it is.
LEMMA AlikeIsLeft ==
  ASSUME NEW r, NEW s, CallType(r), Alike(r, s) PROVE Left(r, s)
<1>1. Grows(r.a, s.a)
  BY Constants DEF Alike, Grows, CallType, AppType
<1> QED BY <1>1 DEF Alike, Left

\* So does a call that sends nothing but segments.
LEMMA SameIsLeft ==
  ASSUME NEW r, NEW s, CallType(r), Same(r, s) PROVE Left(r, s)
  BY AlikeIsLeft DEF Same, Alike

\* Sending and sending again.
LEMMA SameTransitive ==
  ASSUME NEW r, NEW s, NEW t, Same(r, s), Same(s, t) PROVE Same(r, t)
  BY DEF Same

\* What was sound to send or keep remains so while the stream grows.
LEMMA FinNumbersGrow ==
  ASSUME NEW e, NEW a, NEW b, AppType(a), AppType(b), Grows(a, b)
  PROVE  /\ Sendable(e, a) \subseteq Sendable(e, b)
         /\ Kept(e, a) \subseteq Kept(e, b)
<1>1. /\ a.written \in Nat /\ b.written \in Nat /\ a.written <= b.written
      /\ a.closed => b.closed /\ b.written = a.written
  BY Constants DEF Grows, AppType
<1>2. ASSUME NEW seg \in Sendable(e, a) PROVE seg \in Sendable(e, b)
  <2>1. seg \in Segment /\ SegmentSound(seg, e, a) /\ seg.from \in Nat /\ seg.len \in Nat
    BY DEF Sendable, Segment
  <2>2. SegmentSound(seg, e, b)
    BY <1>1, <2>1 DEF SegmentSound
  <2> QED BY <2>1, <2>2 DEF Sendable
<1>3. ASSUME NEW q \in Kept(e, a) PROVE q \in Kept(e, b)
  <2>1. q \in Entry /\ EntrySound(q, e, a) /\ q.from \in Nat /\ q.len \in Nat
    BY DEF Kept, Entry
  <2>2. EntrySound(q, e, b)
    BY <1>1, <2>1 DEF EntrySound
  <2> QED BY <2>1, <2>2 DEF Kept
<1> QED BY <1>2, <1>3

\* A call whose TCB counts no more than k FINs, when its application goes on.
LEMMA MoreFins ==
  ASSUME NEW r, NEW e, NEW k \in Nat, NEW m \in Nat, k <= m, SoundCall(r, e, k)
  PROVE  SoundCall(r, e, m)
<1>1. PICK f \in 0 .. k : Numbered(r.c, r.a, e, f)
  BY DEF SoundCall, SendSound
<1>2. f \in 0 .. m
  OBVIOUS
<1> QED BY <1>1, <1>2 DEF SoundCall, SendSound

\* The numbers of FINs are even.
LEMMA FinsType ==
  ASSUME NEW state PROVE Fins(state) \in {0, 2, 4}
  BY DEF Fins

-----------------------------------------------------------------------------
(* Sending segments.                                                       *)

\* What raw_send and send_segment do to a call.
RawSent(r, s, seg) ==
  /\ Same(r, s) /\ s.out = Append(r.out, seg)
  /\ s.c.snd_nxt = r.c.snd_nxt /\ s.c.retransmit_queue = r.c.retransmit_queue
  /\ s.c.send_buffer = r.c.send_buffer /\ s.c.close_pending = r.c.close_pending

\* raw_send appends one segment and no more.
LEMMA RawSend ==
  ASSUME NEW r, CallType(r), NEW flags, NEW seq, NEW from, NEW len \in Nat, len <= MAX_TCP_SIZE
  PROVE  RawSent(r, raw_send(r, flags, seq, from, len), SegmentOf(r.c, flags, seq, from, len))
<1>1. ~(len > MAX_TCP_SIZE)
  BY Constants
<1> QED BY <1>1 DEF RawSent, raw_send, Same, CallType

SegmentSent(r, s, seg, nxt, queue) ==
  /\ Same(r, s) /\ s.out = Append(r.out, seg)
  /\ s.c.snd_nxt = nxt /\ s.c.retransmit_queue = queue
  /\ s.c.send_buffer = r.c.send_buffer /\ s.c.close_pending = r.c.close_pending

SetNumbers(t, nxt, queue) == [t EXCEPT !.c.snd_nxt = nxt, !.c.retransmit_queue = queue]

\* A segment sent, and the numbers moved after it.
LEMMA SetSent ==
  ASSUME NEW r, NEW t, NEW seg, CallType(r), RawSent(r, t, seg), NEW nxt \in SeqNum, NEW queue
  PROVE  SegmentSent(r, SetNumbers(t, nxt, queue), seg, nxt, queue)
<1> DEFINE u == [t EXCEPT !.c.snd_nxt = nxt]
           s == SetNumbers(t, nxt, queue)
<1>1. s = [u EXCEPT !.c.retransmit_queue = queue]
  BY DEF SetNumbers
<1> HIDE DEF s
<1>2. /\ CallType(u) /\ u.c.snd_nxt = nxt /\ u.a = t.a /\ u.out = t.out
      /\ u.c = [t.c EXCEPT !.snd_nxt = nxt]
  BY DEF RawSent, Same, CallType, TcbType
<1> HIDE DEF u
<1>3. /\ CallType(s) /\ s.a = u.a /\ s.out = u.out
      /\ s.c = [u.c EXCEPT !.retransmit_queue = queue]
  BY <1>1, <1>2 DEF CallType, TcbType
<1>4. s.c.snd_nxt = nxt /\ s.c.retransmit_queue = queue
  BY <1>2, <1>3 DEF CallType, TcbType
<1>5. /\ s.c.state = t.c.state /\ s.c.iss = t.c.iss /\ s.c.snd_una = t.c.snd_una
      /\ s.c.rcv_nxt = t.c.rcv_nxt /\ s.c.ooo_queue = t.c.ooo_queue
      /\ s.c.send_buffer = t.c.send_buffer /\ s.c.close_pending = t.c.close_pending
  BY <1>2, <1>3 DEF CallType, TcbType
<1>6. SegmentSent(r, s, seg, nxt, queue)
  BY <1>2, <1>3, <1>4, <1>5 DEF RawSent, SegmentSent, Same
<1> QED BY <1>6 DEF s

\* A sum of numbers is a number.
LEMMA SeqAddIn == ASSUME NEW a \in SeqNum, NEW n \in Nat PROVE SeqAdd(a, n) \in SeqNum
  BY SeqSpaceAssumption DEF SeqAdd, SeqNum

\* Flags that take a number.
LEMMA CountedFlags ==
  /\ Cardinality({"ACK"} \cap {"SYN", "FIN"}) = 0
  /\ Cardinality({"FIN", "ACK"} \cap {"SYN", "FIN"}) = 1
  /\ Cardinality({"SYN", "ACK"} \cap {"SYN", "FIN"}) = 1
  /\ Cardinality({"SYN"} \cap {"SYN", "FIN"}) = 1
<1>1. /\ {"ACK"} \cap {"SYN", "FIN"} = {} /\ {"FIN", "ACK"} \cap {"SYN", "FIN"} = {"FIN"}
      /\ {"SYN", "ACK"} \cap {"SYN", "FIN"} = {"SYN"} /\ {"SYN"} \cap {"SYN", "FIN"} = {"SYN"}
  OBVIOUS
<1>2. Cardinality({}) = 0 /\ Cardinality({"FIN"}) = 1 /\ Cardinality({"SYN"}) = 1
  BY FS_EmptySet, FS_Singleton
<1> QED BY <1>1, <1>2

EntryOf(seq, nxt, from, len) ==
  [seq_start |-> seq, seq_end |-> nxt, from |-> from, len |-> len, retransmit_count |-> 0]

\* send_segment: one segment out, snd_nxt moved, an entry kept if it must be.
LEMMA SendSegment ==
  ASSUME NEW r, CallType(r), NEW flags, NEW from, NEW len \in Nat, NEW n \in Nat,
         len <= MAX_TCP_SIZE, Cardinality(flags \cap {"SYN", "FIN"}) = n,
         NEW seq, seq = IF "SYN" \in flags THEN r.c.snd_una ELSE r.c.snd_nxt,
         NEW nxt, nxt = SeqAdd(r.c.snd_nxt, len + n),
         NEW queue, queue = IF len > 0 \/ flags \cap {"SYN", "FIN"} # {}
                            THEN Append(r.c.retransmit_queue, EntryOf(seq, nxt, from, len))
                            ELSE r.c.retransmit_queue
  PROVE  SegmentSent(r, send_segment(r, flags, from, len),
                     SegmentOf(r.c, flags, seq, from, len), nxt, queue)
<1> DEFINE t == raw_send(r, flags, seq, from, len)
           seg == SegmentOf(r.c, flags, seq, from, len)
<1>1. nxt \in SeqNum
  BY SeqAddIn DEF CallType, TcbType
<1>2. RawSent(r, t, seg)
  BY RawSend
<1>3. send_segment(r, flags, from, len) =
        [t EXCEPT !.c.snd_nxt = nxt, !.c.retransmit_queue =
           IF len > 0 \/ flags \cap {"SYN", "FIN"} # {}
           THEN Append(@, EntryOf(seq, nxt, from, len)) ELSE @]
  <2>1. ~(len > MAX_TCP_SIZE)
    BY Constants
  <2> QED BY <2>1 DEF send_segment, EntryOf
<1>4. t.c.retransmit_queue = r.c.retransmit_queue
  BY <1>2 DEF RawSent
<1> HIDE DEF t, seg
<1> DEFINE s == send_segment(r, flags, from, len)
<1>5. s = SetNumbers(t, nxt, queue)
  BY <1>3, <1>4 DEF SetNumbers
<1> HIDE DEF s
<1>6. SegmentSent(r, s, seg, nxt, queue)
  BY <1>1, <1>2, <1>5, SetSent
<1> QED BY <1>6 DEF s, seg

\* A segment without data, SYN or FIN, and one with bytes of the stream.
LEMMA PlainSegment ==
  ASSUME NEW r, CallType(r), NEW e, NEW seq \in SeqNum, NEW from \in Nat, NEW len \in Nat,
         len > 0 => seq = Stream(e, from) /\ from + len <= r.a.written,
         NEW seg, seg = SegmentOf(r.c, {"ACK"}, seq, from, len)
  PROVE  seg \in Sendable(e, r.a)
<1>1. {"ACK"} \in SUBSET Flags
  BY DEF Flags
<1>2. /\ seg \in Segment /\ seg.flags = {"ACK"} /\ seg.seq = seq
      /\ seg.from = from /\ seg.len = len
  BY <1>1, TellsWindow DEF SegmentOf, Segment, CallType, TcbType
<1>3. SegmentSound(seg, e, r.a)
  BY <1>2 DEF SegmentSound, HasSyn, HasFin
<1> QED BY <1>2, <1>3 DEF Sendable

\* A call stays sound when what it sends and keeps is.
LEMMA Sending ==
  ASSUME NEW r, NEW e, NEW k \in Nat, SoundCall(r, e, k), NEW m \in Nat,
         NEW s, NEW seg, NEW nxt, NEW queue, SegmentSent(r, s, seg, nxt, queue),
         seg \in Sendable(e, r.a), queue \in Seq(Kept(e, r.a)),
         NEW f \in 0 .. m, nxt = Stream(e, r.a.written - r.c.send_buffer + f),
         f > 0 => r.a.closed /\ r.c.send_buffer = 0
  PROVE  SoundCall(s, e, m) /\ Same(r, s)
<1>1. s.out \in Seq(Sendable(e, s.a))
  BY AppendProperties DEF SoundCall, SegmentSent, Same
<1>2. Numbered(s.c, s.a, e, f)
  BY DEF SegmentSent, Same, Numbered
<1>3. SendSound(s.c, s.a, e, m)
  BY <1>2 DEF SoundCall, SendSound, SegmentSent, Same
<1> QED BY <1>1, <1>3 DEF SoundCall, SegmentSent, Same

\* raw_send, and send_segment without anything that takes a number.
LEMMA RawSending ==
  ASSUME NEW r, NEW e, NEW k \in Nat, SoundCall(r, e, k), NEW s, NEW seg, RawSent(r, s, seg),
         seg \in Sendable(e, r.a)
  PROVE  SoundCall(s, e, k) /\ Same(r, s)
<1>1. s.out \in Seq(Sendable(e, s.a))
  BY AppendProperties DEF SoundCall, RawSent, Same
<1>2. SendSound(s.c, s.a, e, k)
  BY DEF SoundCall, SendSound, RawSent, Same, Numbered
<1> QED BY <1>1, <1>2 DEF SoundCall, RawSent, Same

\* An acknowledgement carries nothing of the stream.
LEMMA SendAck ==
  ASSUME NEW r, NEW e, NEW k \in Nat, SoundCall(r, e, k)
  PROVE  SoundCall(send_ack(r), e, k) /\ Same(r, send_ack(r))
<1>1. PICK f \in 0 .. k : Numbered(r.c, r.a, e, f)
  BY DEF SoundCall, SendSound
<1>2. CallType(r) /\ r.c.snd_nxt \in SeqNum /\ r.c.retransmit_queue \in Seq(Kept(e, r.a))
  BY DEF SoundCall, SendSound, CallType, TcbType
<1>3. SeqAdd(r.c.snd_nxt, 0 + 0) = r.c.snd_nxt
  BY <1>2, SeqSpaceAssumption DEF SeqAdd, SeqNum
<1> DEFINE seg == SegmentOf(r.c, {"ACK"}, r.c.snd_nxt, 0, 0)
<1>4. SegmentSent(r, send_ack(r), seg, SeqAdd(r.c.snd_nxt, 0 + 0), r.c.retransmit_queue)
  <2>1. "SYN" \notin {"ACK"} /\ {"ACK"} \cap {"SYN", "FIN"} = {} /\ 0 \in Nat /\ ~(0 > 0)
    OBVIOUS
  <2>2. 0 <= MAX_TCP_SIZE
    BY Constants
  <2> QED BY <1>2, <2>1, <2>2, CountedFlags, SendSegment DEF send_ack
<1>5. seg \in Sendable(e, r.a)
  <2>1. seg = SegmentOf(r.c, {"ACK"}, r.c.snd_nxt, 0, 0) /\ 0 \in Nat /\ ~(0 > 0)
    OBVIOUS
  <2> HIDE DEF seg
  <2> QED BY <1>2, <2>1, PlainSegment
<1> HIDE DEF seg
<1>6. /\ r.c.snd_nxt = Stream(e, r.a.written - r.c.send_buffer + f)
      /\ f > 0 => r.a.closed /\ r.c.send_buffer = 0
  BY <1>1 DEF Numbered
<1> QED BY <1>2, <1>3, <1>4, <1>5, <1>6, Sending

\* Before an acknowledgement of a FIN counted, the next number follows f of them.
LEMMA SendFin ==
  ASSUME NEW r, NEW e \in Ends, NEW k \in 0 .. 3, SoundCall(r, e, k),
         r.a.closed, r.c.send_buffer = 0
  PROVE  SoundCall(send_fin(r), e, k + 1) /\ Same(r, send_fin(r))
<1>1. PICK f \in 0 .. k : Numbered(r.c, r.a, e, f)
  BY DEF SoundCall, SendSound
<1>2. /\ CallType(r) /\ r.c.snd_nxt \in SeqNum /\ r.c.retransmit_queue \in Seq(Kept(e, r.a))
      /\ r.a.written \in 0 .. MaxWritten /\ MaxWritten \in Nat
  BY Constants DEF SoundCall, SendSound, CallType, TcbType, AppType
<1>3. r.c.snd_nxt = Stream(e, r.a.written + f) /\ f \in 0 .. 3
  <2>1. r.c.snd_nxt = Stream(e, r.a.written - 0 + f)
    BY <1>1 DEF Numbered
  <2>2. r.a.written - 0 + f = r.a.written + f
    BY <1>2
  <2> QED BY <2>1, <2>2
<1> DEFINE seq == r.c.snd_nxt
           nxt == SeqAdd(seq, 0 + 1)
           entry == EntryOf(seq, nxt, 0, 0)
           queue == Append(r.c.retransmit_queue, entry)
           seg == SegmentOf(r.c, {"FIN", "ACK"}, seq, 0, 0)
<1>4. SegmentSent(r, send_fin(r), seg, nxt, queue)
  <2> DEFINE flags == {"FIN", "ACK"}
  <2>1. /\ flags \cap {"SYN", "FIN"} # {} /\ seq = IF "SYN" \in flags THEN r.c.snd_una ELSE seq
        /\ Cardinality(flags \cap {"SYN", "FIN"}) = 1 /\ 0 \in Nat /\ 1 \in Nat
        /\ 0 <= MAX_TCP_SIZE
    BY CountedFlags, Constants
  <2>2. nxt = SeqAdd(r.c.snd_nxt, 0 + 1)
    OBVIOUS
  <2>3. send_fin(r) = send_segment(r, flags, 0, 0)
    BY DEF send_fin
  <2>4. seg = SegmentOf(r.c, flags, seq, 0, 0)
    OBVIOUS
  <2> HIDE DEF nxt, flags, seg
  <2>5. queue = IF 0 > 0 \/ flags \cap {"SYN", "FIN"} # {}
                THEN Append(r.c.retransmit_queue, EntryOf(seq, nxt, 0, 0))
                ELSE r.c.retransmit_queue
    BY <2>1
  <2> HIDE DEF queue
  <2>6. SegmentSent(r, send_segment(r, flags, 0, 0), SegmentOf(r.c, flags, seq, 0, 0), nxt, queue)
    BY <1>2, <2>1, <2>2, <2>5, SendSegment
  <2> QED BY <2>3, <2>4, <2>6
<1>5. nxt = Stream(e, r.a.written + (f + 1))
  <2>1. /\ 0 + 1 = 1 /\ r.a.written + f \in Nat /\ 1 \in Nat
        /\ r.a.written + f + 1 <= MaxWritten + 4
        /\ r.a.written + f + 1 = r.a.written + (f + 1)
    <3> DEFINE w == r.a.written
    <3>1. w \in Nat /\ MaxWritten \in Nat /\ w <= MaxWritten /\ f \in Nat /\ f <= 3
      BY <1>2, <1>3
    <3> HIDE DEF w
    <3>2. /\ 0 + 1 = 1 /\ w + f \in Nat /\ 1 \in Nat
          /\ w + f + 1 <= MaxWritten + 4 /\ w + f + 1 = w + (f + 1)
      BY <3>1
    <3> QED BY <3>2 DEF w
  <2>2. SeqAdd(Stream(e, r.a.written + f), 1) = Stream(e, r.a.written + f + 1)
    BY <2>1, StreamAdd
  <2> QED BY <1>3, <2>1, <2>2
<1>6. seq \in FinNumbers(e, r.a.written)
  BY <1>3 DEF FinNumbers
<1>7. seg \in Sendable(e, r.a)
  <2>1. {"FIN", "ACK"} \in SUBSET Flags
    BY DEF Flags
  <2>2. /\ seg \in Segment /\ seg.flags = {"FIN", "ACK"} /\ seg.seq = seq /\ seg.len = 0
    BY <1>2, <2>1, TellsWindow DEF SegmentOf, Segment, CallType, TcbType
  <2> HIDE DEF seg
  <2>3. SegmentSound(seg, e, r.a)
    BY <1>6, <2>2 DEF SegmentSound, HasSyn, HasFin
  <2> QED BY <2>2, <2>3 DEF Sendable
<1>8. entry \in Kept(e, r.a)
  <2>1. nxt \in SeqNum
    BY <1>2, SeqAddIn
  <2>2. /\ entry \in Entry /\ entry.len = 0 /\ entry.seq_start = seq
        /\ entry.seq_end = SeqAdd(entry.seq_start, 1)
    BY <1>2, <2>1 DEF EntryOf, Entry
  <2> HIDE DEF entry
  <2>3. EntrySound(entry, e, r.a)
    BY <1>6, <2>2 DEF EntrySound
  <2> QED BY <2>2, <2>3 DEF Kept
<1>9. queue \in Seq(Kept(e, r.a))
  BY <1>2, <1>8, AppendProperties
<1> HIDE DEF seg, queue, nxt
<1>10. /\ nxt = Stream(e, r.a.written - r.c.send_buffer + (f + 1))
       /\ f + 1 \in 0 .. k + 1 /\ k + 1 \in Nat /\ k \in Nat
  <2>1. r.a.written - 0 + (f + 1) = r.a.written + (f + 1)
    BY <1>2
  <2> QED BY <1>5, <2>1
<1> QED BY <1>4, <1>7, <1>9, <1>10, Sending

\* The receive window is not part of what is sent.
LEMMA UpdateWindow ==
  ASSUME NEW r, NEW e, NEW k \in Nat, SoundCall(r, e, k)
  PROVE  /\ SoundCall(UpdateRcvWnd(r), e, k) /\ Same(r, UpdateRcvWnd(r))
         /\ UpdateRcvWnd(r).c.send_buffer = r.c.send_buffer
<1> DEFINE s == UpdateRcvWnd(r)
           wnd == Smaller(SendBufferSize - r.c.send_buffer, RecvBufferSize)
<1>1. CallType(r)
  BY DEF SoundCall
<1>2. wnd \in 0 .. RecvBufferSize
  BY <1>1, Constants DEF Smaller, CallType, TcbType
<1>3. s = [r EXCEPT !.c.rcv_wnd = wnd]
  BY DEF UpdateRcvWnd
<1> HIDE DEF s, wnd
<1>4. /\ Same(r, s) /\ s.out = r.out /\ s.c.snd_nxt = r.c.snd_nxt
      /\ s.c.send_buffer = r.c.send_buffer /\ s.c.close_pending = r.c.close_pending
      /\ s.c.retransmit_queue = r.c.retransmit_queue
  BY <1>1, <1>2, <1>3 DEF Same, CallType, TcbType
<1>5. SoundCall(s, e, k)
  BY <1>4 DEF SoundCall, SendSound, Same, Numbered
<1> QED BY <1>4, <1>5 DEF s

-----------------------------------------------------------------------------
(* Sending what is buffered.                                               *)

SetBuffer(t, b) == [t EXCEPT !.c.send_buffer = b]
SetRead(t, p) == [t EXCEPT !.c.send_read = p]

\* Where the ring is read next is no part of what is sent.
LEMMA ReadMoved ==
  ASSUME NEW r, NEW e, NEW k \in Nat, SoundCall(r, e, k), NEW p \in 0 .. SendBufferSize
  PROVE  /\ SoundCall(SetRead(r, p), e, k) /\ Same(r, SetRead(r, p))
         /\ SetRead(r, p).c.send_buffer = r.c.send_buffer
<1> DEFINE s == SetRead(r, p)
<1>1. CallType(r)
  BY DEF SoundCall
<1>2. s = [r EXCEPT !.c.send_read = p]
  BY DEF SetRead
<1> HIDE DEF s
<1>3. /\ Same(r, s) /\ s.out = r.out /\ s.c.snd_nxt = r.c.snd_nxt
      /\ s.c.send_buffer = r.c.send_buffer /\ s.c.close_pending = r.c.close_pending
      /\ s.c.retransmit_queue = r.c.retransmit_queue
  BY <1>1, <1>2 DEF Same, CallType, TcbType
<1>4. SoundCall(s, e, k)
  BY <1>3 DEF SoundCall, SendSound, Same, Numbered
<1> QED BY <1>3, <1>4 DEF s

\* Bytes of the stream are sent, and b bytes are left in the buffer.
LEMMA DataSent ==
  ASSUME NEW r, NEW e \in Ends, CallType(r), r.out \in Seq(Sendable(e, r.a)),
         r.c.retransmit_queue \in Seq(Kept(e, r.a)), r.c.close_pending => r.a.closed,
         NEW from \in Nat, NEW n \in Nat, n <= MAX_TCP_SIZE,
         NEW b \in 0 .. SendBufferSize, b <= r.a.written,
         from + n = r.a.written - b, r.c.snd_nxt = Stream(e, from),
         NEW k \in Nat
  PROVE  /\ SoundCall(SetBuffer(send_segment(r, {"ACK"}, from, n), b), e, k)
         /\ Alike(r, SetBuffer(send_segment(r, {"ACK"}, from, n), b))
         /\ SetBuffer(send_segment(r, {"ACK"}, from, n), b).c.send_buffer = b
<1>1. /\ r.a.written \in Nat /\ r.a.written <= MaxWritten /\ MaxWritten \in Nat
      /\ r.c.snd_nxt \in SeqNum /\ b \in Nat /\ SendBufferSize \in Nat
  BY Constants DEF CallType, TcbType, AppType
<1> DEFINE seq == r.c.snd_nxt
           nxt == SeqAdd(seq, n + 0)
           entry == EntryOf(seq, nxt, from, n)
           queue == IF n > 0 THEN Append(r.c.retransmit_queue, entry) ELSE r.c.retransmit_queue
           seg == SegmentOf(r.c, {"ACK"}, seq, from, n)
           t == send_segment(r, {"ACK"}, from, n)
<1>2. SegmentSent(r, t, seg, nxt, queue)
  <2> DEFINE flags == {"ACK"}
  <2>1. /\ flags \cap {"SYN", "FIN"} = {} /\ seq = IF "SYN" \in flags THEN r.c.snd_una ELSE seq
        /\ Cardinality(flags \cap {"SYN", "FIN"}) = 0 /\ 0 \in Nat
    BY CountedFlags
  <2>2. nxt = SeqAdd(r.c.snd_nxt, n + 0)
    OBVIOUS
  <2>3. t = send_segment(r, flags, from, n) /\ seg = SegmentOf(r.c, flags, seq, from, n)
    OBVIOUS
  <2> HIDE DEF nxt, flags, seg, t
  <2>5. queue = IF n > 0 \/ flags \cap {"SYN", "FIN"} # {}
                THEN Append(r.c.retransmit_queue, EntryOf(seq, nxt, from, n))
                ELSE r.c.retransmit_queue
    BY <2>1
  <2> HIDE DEF queue
  <2>6. SegmentSent(r, send_segment(r, flags, from, n), SegmentOf(r.c, flags, seq, from, n), nxt, queue)
    BY <1>1, <2>1, <2>2, <2>5, SendSegment
  <2> QED BY <2>3, <2>6
<1>3. from + n <= r.a.written
  BY <1>1
<1>4. seg \in Sendable(e, r.a)
  <2>1. seg = SegmentOf(r.c, {"ACK"}, seq, from, n)
    OBVIOUS
  <2> HIDE DEF seg
  <2> QED BY <1>1, <1>3, <2>1, PlainSegment
<1>5. nxt = Stream(e, from + n)
  <2>1. n + 0 = n /\ from + n <= MaxWritten + 4
    BY <1>1, <1>3
  <2> QED BY <2>1, StreamAdd
<1>6. n > 0 => entry \in Kept(e, r.a)
  <2>1. nxt \in SeqNum
    BY <1>1, SeqAddIn
  <2>2. nxt = SeqAdd(seq, n)
    <3>1. n + 0 = n
      OBVIOUS
    <3> QED BY <3>1
  <2> HIDE DEF nxt
  <2>3. /\ entry \in Entry /\ entry.len = n /\ entry.seq_start = seq /\ entry.from = from
        /\ entry.seq_end = nxt
    BY <1>1, <2>1 DEF EntryOf, Entry
  <2> HIDE DEF entry
  <2>4. n > 0 => EntrySound(entry, e, r.a)
    BY <1>3, <2>2, <2>3 DEF EntrySound
  <2> QED BY <2>3, <2>4 DEF Kept
<1>7. queue \in Seq(Kept(e, r.a))
  BY <1>6, AppendProperties
<1> DEFINE s == SetBuffer(t, b)
<1>8. s = [t EXCEPT !.c.send_buffer = b]
  BY DEF SetBuffer
<1> HIDE DEF seg, queue, nxt, entry, t, s
<1>9. /\ Alike(r, s) /\ s.out = t.out /\ s.c.snd_nxt = nxt /\ s.c.retransmit_queue = queue
      /\ s.c.send_buffer = b /\ s.c.close_pending = r.c.close_pending
  BY <1>1, <1>2, <1>8 DEF SegmentSent, Same, Alike, CallType, TcbType
<1>10. s.out \in Seq(Sendable(e, s.a))
  BY <1>2, <1>4, <1>9, AppendProperties DEF SegmentSent, Same, Alike
<1>11. Numbered(s.c, s.a, e, 0)
  <2>1. r.a.written - b + 0 = from + n
    BY <1>1
  <2> QED BY <1>5, <1>9, <2>1 DEF Numbered, Alike
<1>12. SendSound(s.c, s.a, e, k)
  BY <1>7, <1>9, <1>11 DEF SendSound, Alike
<1>13. SoundCall(s, e, k) /\ Alike(r, s) /\ s.c.send_buffer = b
  BY <1>9, <1>10, <1>12 DEF SoundCall, Alike
<1> QED BY <1>13 DEF s, t

\* The room in the window is a number of bytes.
LEMMA WindowType == ASSUME NEW r, CallType(r) PROVE Available(r) \in Nat
<1>1. SeqSub(r.c.snd_nxt, r.c.snd_una) \in SeqNum
  BY SeqSubType DEF CallType, TcbType
<1>2. effective_window(r) \in Nat
  BY DEF effective_window, Smaller, CallType, TcbType
<1> QED BY <1>1, <1>2, HalfSpaceFacts DEF Available, SeqNum

\* One turn of send_buffered_data sends the next bytes written.
LEMMA SendOne ==
  ASSUME NEW r, NEW e \in Ends, NEW k \in Nat, SoundCall(r, e, k)
  PROVE  SoundCall(SendNext(r), e, k) /\ Same(r, SendNext(r))
<1>1. CallType(r) /\ Same(r, r)
  BY DEF SoundCall, Same
<1> DEFINE contiguous == Smaller(r.c.send_buffer, SendBufferSize - r.c.send_read)
           n == Smaller(Smaller(contiguous, Available(r)), MSS)
           from == r.a.written - r.c.send_buffer
           b == r.c.send_buffer - n
<1>2. CASE n = 0
  BY <1>1, <1>2 DEF SendNext, SendPart
<1>3. CASE n # 0
  <2>1. PICK f \in 0 .. k : Numbered(r.c, r.a, e, f)
    BY DEF SoundCall, SendSound
  <2>2. /\ r.a.written \in Nat /\ r.c.send_buffer \in Nat /\ r.c.send_buffer <= r.a.written
        /\ r.c.send_buffer \in 0 .. SendBufferSize /\ SendBufferSize \in Nat
        /\ r.c.send_read \in 0 .. SendBufferSize
    BY <1>1, Constants DEF SoundCall, SendSound, CallType, TcbType, AppType
  <2>3. Available(r) \in Nat
    BY <1>1, WindowType
  <2>4. n \in Nat /\ n <= r.c.send_buffer /\ n <= MAX_TCP_SIZE
    <3>1. contiguous \in Nat /\ contiguous <= r.c.send_buffer
      BY <2>2 DEF Smaller
    <3> HIDE DEF contiguous
    <3> QED BY <2>2, <2>3, <3>1, Constants DEF Smaller
  <2>5. f = 0 /\ r.c.snd_nxt = Stream(e, from)
    <3>1. r.c.send_buffer # 0
      BY <1>3, <2>2, <2>4
    <3>2. f = 0 /\ r.c.snd_nxt = Stream(e, r.a.written - r.c.send_buffer + 0)
      BY <2>1, <3>1 DEF Numbered
    <3>3. r.a.written - r.c.send_buffer + 0 = from
      BY <2>2
    <3> QED BY <3>2, <3>3
  <2>6. /\ from \in Nat /\ b \in 0 .. SendBufferSize /\ b <= r.a.written
        /\ from + n = r.a.written - b
    BY <2>2, <2>4
  <2>7. SendNext(r) = [send_segment(r, {"ACK"}, from, n)
                         EXCEPT !.c.send_buffer = @ - n,
                                !.c.send_read = (@ + n) % SendBufferSize]
    BY <1>3 DEF SendNext, SendPart
  <2>8. /\ r.out \in Seq(Sendable(e, r.a)) /\ r.c.retransmit_queue \in Seq(Kept(e, r.a))
        /\ r.c.close_pending => r.a.closed
    BY DEF SoundCall, SendSound
  <2> DEFINE t == send_segment(r, {"ACK"}, from, n)
  <2>9. t.c.send_buffer = r.c.send_buffer /\ CallType(t)
    <3>1. n + 0 \in Nat /\ 0 \in Nat
      BY <2>4
    <3> DEFINE flags == {"ACK"}
               seq == IF "SYN" \in flags THEN r.c.snd_una ELSE r.c.snd_nxt
               nxt == SeqAdd(r.c.snd_nxt, n + 0)
               queue == IF n > 0 \/ flags \cap {"SYN", "FIN"} # {}
                        THEN Append(r.c.retransmit_queue, EntryOf(seq, nxt, from, n))
                        ELSE r.c.retransmit_queue
    <3>2. t = send_segment(r, flags, from, n) /\ Cardinality(flags \cap {"SYN", "FIN"}) = 0
      BY CountedFlags
    <3> HIDE DEF flags, t, n, from
    <3>3. SegmentSent(r, send_segment(r, flags, from, n),
                      SegmentOf(r.c, flags, seq, from, n), nxt, queue)
      BY <1>1, <2>4, <3>1, <3>2, SendSegment
    <3> QED BY <3>2, <3>3 DEF SegmentSent, Same
  <2> DEFINE p == (t.c.send_read + n) % SendBufferSize
             u == SetBuffer(t, b)
  <2>10. p \in 0 .. SendBufferSize
    <3>1. SendBufferSize > 0
      BY <1>3, <2>2, <2>4
    <3>2. t.c.send_read \in Nat
      BY <2>9, Constants DEF CallType, TcbType
    <3> HIDE DEF t, n
    <3> QED BY <2>2, <2>4, <3>1, <3>2
  <2> HIDE DEF n, from, b
  <2>11. SoundCall(u, e, k) /\ Alike(r, u) /\ u.c.send_buffer = b
    BY <1>1, <2>4, <2>5, <2>6, <2>8, DataSent
  <2>12. SendNext(r) = SetRead(u, p)
    <3> HIDE DEF t
    <3>1. SendNext(r) = [t EXCEPT !.c.send_buffer = @ - n,
                                  !.c.send_read = (@ + n) % SendBufferSize]
      BY <2>7 DEF t
    <3> QED BY <2>9, <3>1 DEF SetBuffer, SetRead, b, CallType, TcbType
  <2> HIDE DEF p, u
  <2>13. /\ SoundCall(SendNext(r), e, k) /\ Same(u, SendNext(r))
         /\ SendNext(r).c.send_buffer = b
    BY <2>10, <2>11, <2>12, ReadMoved
  <2>14. r.c.send_buffer = 0 => b = 0
    BY <2>2, <2>4 DEF b
  <2> QED BY <2>11, <2>13, <2>14 DEF Same, Alike
<1> QED BY <1>2, <1>3

\* All its turns.
LEMMA SendLoopEnds ==
  ASSUME NEW r, NEW e \in Ends, NEW k \in Nat, SoundCall(r, e, k)
  PROVE  SoundCall(SendWhatFits(r), e, k) /\ Same(r, SendWhatFits(r))
<1> DEFINE n == r.c.send_buffer
           f == SendTurns(r, n)
<1>1. CallType(r) /\ Same(r, r) /\ n \in Nat
  BY Constants DEF SoundCall, Same, CallType, TcbType
<1>2. SendWhatFits(r) = f[n]
  BY DEF SendWhatFits, SendTurns
<1>3. f[0] = r /\ \A i \in 1 .. n : f[i] = SendNext(f[i - 1])
  <2> HIDE DEF n
  <2> QED BY <1>1, SendLoop
<1> HIDE DEF f
<1> DEFINE R == {s \in {f[i] : i \in 0 .. n} : SoundCall(s, e, k) /\ Same(r, s)}
<1>4. f[0] \in R
  <2>1. f[0] \in {f[i] : i \in 0 .. n}
    BY <1>1
  <2> QED BY <1>1, <1>3, <2>1
<1>5. ASSUME NEW i \in 1 .. n, f[i - 1] \in R PROVE f[i] \in R
  <2>1. SoundCall(f[i - 1], e, k) /\ Same(r, f[i - 1])
    BY <1>5
  <2>2. f[i] = SendNext(f[i - 1])
    BY <1>3
  <2>3. SoundCall(f[i], e, k) /\ Same(f[i - 1], f[i])
    BY <2>1, <2>2, SendOne
  <2>4. Same(r, f[i])
    BY <2>1, <2>3, SameTransitive
  <2>5. f[i] \in {f[j] : j \in 0 .. n}
    BY <1>1
  <2> QED BY <2>3, <2>4, <2>5
<1> HIDE DEF R, n
<1>6. f[n] \in R
  BY <1>1, <1>4, <1>5, Turns
<1> QED BY <1>2, <1>6 DEF R

\* A buffer that is empty, and a close that waited: the FIN is sent.
Flushed(r, s, e, k) ==
  /\ Left(r, s) /\ s.a = r.a /\ s.c.iss = r.c.iss /\ s.c.snd_una = r.c.snd_una
  /\ s.c.state = r.c.state => /\ SoundCall(s, e, k)
                              /\ r.c.send_buffer = 0 => s.c.send_buffer = 0
  /\ s.c.state # r.c.state => /\ SoundCall(s, e, k + 1)
                              /\ r.a.closed /\ s.c.send_buffer = 0

SetState(r, state) == [r EXCEPT !.c.state = state]

\* A change of state sends nothing.
LEMMA StateSet ==
  ASSUME NEW r, NEW e, NEW k, SoundCall(r, e, k), NEW state \in States \cup {"CLOSED"}
  PROVE  /\ SoundCall(SetState(r, state), e, k)
         /\ SetState(r, state).c = [r.c EXCEPT !.state = state]
         /\ SetState(r, state).a = r.a /\ SetState(r, state).out = r.out
         /\ SetState(r, state).c.state = state
<1> DEFINE s == SetState(r, state)
<1>1. s = [r EXCEPT !.c.state = state] /\ CallType(r)
  BY DEF SetState, SoundCall
<1> HIDE DEF s
<1>2. s.c = [r.c EXCEPT !.state = state] /\ s.a = r.a /\ s.out = r.out
  BY <1>1 DEF CallType
<1>3. CallType(s) /\ s.c.state = state
  BY <1>1, <1>2 DEF CallType, TcbType
<1>4. SendSound(s.c, s.a, e, k)
  BY <1>1, <1>2 DEF SoundCall, SendSound, Numbered, CallType, TcbType
<1>5. SoundCall(s, e, k)
  BY <1>2, <1>3, <1>4 DEF SoundCall
<1> QED BY <1>2, <1>3, <1>5 DEF s

SetPending(r, pending) == [r EXCEPT !.c.close_pending = pending]

\* A close is put off only after the application has closed.
LEMMA PendingSet ==
  ASSUME NEW r, NEW e, NEW k, SoundCall(r, e, k), NEW pending \in BOOLEAN,
         pending = TRUE => r.a.closed
  PROVE  /\ SoundCall(SetPending(r, pending), e, k) /\ Same(r, SetPending(r, pending))
         /\ SetPending(r, pending).c.send_buffer = r.c.send_buffer
<1> DEFINE s == SetPending(r, pending)
<1>1. CallType(r) /\ s = [r EXCEPT !.c.close_pending = pending]
  BY DEF SoundCall, SetPending
<1> HIDE DEF s
<1>2. /\ Same(r, s) /\ s.out = r.out /\ s.c.snd_nxt = r.c.snd_nxt
      /\ s.c.send_buffer = r.c.send_buffer /\ s.c.close_pending = pending
      /\ s.c.retransmit_queue = r.c.retransmit_queue
  BY <1>1 DEF Same, CallType, TcbType
<1>3. SoundCall(s, e, k)
  BY <1>2 DEF SoundCall, SendSound, Same, Numbered
<1> QED BY <1>2, <1>3 DEF s

\* The FIN and the state that follows it.
LEMMA FinSent ==
  ASSUME NEW r, NEW e \in Ends, NEW k \in 0 .. 3, SoundCall(r, e, k),
         r.a.closed, r.c.send_buffer = 0, NEW state \in {"FIN_WAIT_1", "LAST_ACK"},
         NEW s, s = SetState(send_fin(r), state)
  PROVE  /\ SoundCall(s, e, k + 1) /\ s.a = r.a /\ s.c.state = state
         /\ s.c.iss = r.c.iss /\ s.c.snd_una = r.c.snd_una /\ s.c.rcv_nxt = r.c.rcv_nxt
         /\ s.c.ooo_queue = r.c.ooo_queue /\ s.c.send_buffer = 0
<1> DEFINE t == send_fin(r)
<1>1. SoundCall(t, e, k + 1) /\ Same(r, t)
  BY SendFin
<1>2. CallType(t)
  BY <1>1 DEF SoundCall
<1>3. state \in States
  BY DEF States
<1> HIDE DEF t
<1>4. SoundCall(s, e, k + 1) /\ s.c = [t.c EXCEPT !.state = state] /\ s.a = t.a
  BY <1>1, <1>3, StateSet DEF t
<1>5. /\ s.c.state = state /\ s.c.iss = t.c.iss /\ s.c.snd_una = t.c.snd_una
      /\ s.c.rcv_nxt = t.c.rcv_nxt /\ s.c.ooo_queue = t.c.ooo_queue
      /\ s.c.send_buffer = t.c.send_buffer
  BY <1>2, <1>4 DEF CallType, TcbType
<1> QED BY <1>1, <1>4, <1>5 DEF Same

\* A close that waited sends its FIN, and moves the state on.
LEMMA CloseCompleted ==
  ASSUME NEW r, NEW e \in Ends, NEW k \in Nat, SoundCall(r, e, k),
         r.c.state \in {"ESTABLISHED", "CLOSE_WAIT"} => k <= 3
  PROVE  Flushed(r, CompleteClose(r), e, k)
<1> DEFINE done == [r EXCEPT !.c.close_pending = FALSE]
           s == CompleteClose(r)
<1>1. CallType(r) /\ Same(r, r) /\ r.c.send_buffer \in Nat
  BY Constants DEF SoundCall, Same, CallType, TcbType
<1>2. SoundCall(done, e, k) /\ Same(r, done) /\ done.c.send_buffer = r.c.send_buffer
  <2>1. done = SetPending(r, FALSE) /\ FALSE \in BOOLEAN /\ (FALSE = TRUE => r.a.closed)
    BY DEF SetPending
  <2> HIDE DEF done
  <2> QED BY <2>1, PendingSet, Zenon
<1>3. r.c.close_pending => r.a.closed
  BY DEF SoundCall, SendSound
<1>4. ASSUME NEW t, t \in {r, done} PROVE Flushed(r, t, e, k)
  <2>1. SoundCall(t, e, k) /\ Same(r, t)
    BY <1>1, <1>2, <1>4
  <2> QED BY <1>1, <2>1, SameIsLeft DEF Flushed, Same
<1>5. ASSUME NEW state, r.c.close_pending, ~(r.c.send_buffer > 0),
             \/ r.c.state = "ESTABLISHED" /\ state = "FIN_WAIT_1"
             \/ r.c.state = "CLOSE_WAIT" /\ state = "LAST_ACK",
             s = SetState(send_fin(done), state)
      PROVE  Flushed(r, s, e, k)
  <2>1. /\ k \in 0 .. 3 /\ done.a.closed /\ done.c.send_buffer = 0
        /\ state \in {"FIN_WAIT_1", "LAST_ACK"}
    BY <1>1, <1>2, <1>3, <1>5 DEF Same
  <2> HIDE DEF s, done
  <2>2. /\ SoundCall(s, e, k + 1) /\ s.a = done.a /\ s.c.state = state
        /\ s.c.iss = done.c.iss /\ s.c.snd_una = done.c.snd_una
        /\ s.c.rcv_nxt = done.c.rcv_nxt /\ s.c.ooo_queue = done.c.ooo_queue
        /\ s.c.send_buffer = 0
    BY <1>2, <1>5, <2>1, FinSent
  <2>3. Grows(r.a, s.a) /\ s.a = r.a
    BY <1>1, <1>2, <2>2, Constants DEF Same, Grows, CallType, AppType
  <2>4. CallType(s)
    BY <2>2 DEF SoundCall
  <2> QED BY <1>2, <1>3, <1>5, <2>2, <2>3, <2>4 DEF Flushed, Left, Same
<1>6. CASE r.c.send_buffer > 0 \/ ~r.c.close_pending
  <2>1. s = r
    BY <1>6 DEF CompleteClose
  <2> QED BY <1>4, <2>1
<1>7. CASE ~(r.c.send_buffer > 0) /\ r.c.close_pending
  <2>1. CASE r.c.state = "ESTABLISHED"
    <3>1. s = SetState(send_fin(done), "FIN_WAIT_1")
      BY <1>7, <2>1 DEF CompleteClose, SetState
    <3> QED BY <1>5, <1>7, <2>1, <3>1
  <2>2. CASE r.c.state = "CLOSE_WAIT"
    <3>1. s = SetState(send_fin(done), "LAST_ACK")
      BY <1>7, <2>2 DEF CompleteClose, SetState
    <3> QED BY <1>5, <1>7, <2>2, <3>1
  <2>3. CASE r.c.state \notin {"ESTABLISHED", "CLOSE_WAIT"}
    <3>1. s = done
      BY <1>7, <2>3 DEF CompleteClose
    <3> QED BY <1>4, <3>1
  <2> QED BY <2>1, <2>2, <2>3
<1> QED BY <1>6, <1>7

\* send_buffered_data, with the close that may wait for it.
LEMMA BufferedSent ==
  ASSUME NEW r, NEW e \in Ends, NEW k \in Nat, SoundCall(r, e, k),
         r.c.state \in {"ESTABLISHED", "CLOSE_WAIT"} => k <= 3
  PROVE  Flushed(r, send_buffered_data(r), e, k)
<1> DEFINE s == SendWhatFits(r)
           t == UpdateRcvWnd(s)
           u == CompleteClose(t)
<1>1. SoundCall(s, e, k) /\ Same(r, s)
  BY SendLoopEnds
<1> HIDE DEF s
<1>2. SoundCall(t, e, k) /\ Same(s, t)
  BY <1>1, UpdateWindow
<1>3. Same(r, t) /\ CallType(r)
  BY <1>1, <1>2, SameTransitive DEF SoundCall
<1> HIDE DEF t
<1>4. Flushed(t, u, e, k)
  <2>1. t.c.state = r.c.state
    BY <1>3 DEF Same
  <2> QED BY <1>2, <2>1, CloseCompleted
<1> HIDE DEF u
<1>5. Left(r, u)
  <2>1. Left(r, t) /\ Left(t, u)
    BY <1>3, <1>4, SameIsLeft DEF Flushed
  <2> QED BY <1>3, <2>1, LeftTransitive
<1>6. Flushed(r, u, e, k)
  BY <1>3, <1>4, <1>5 DEF Flushed, Same
<1> QED BY <1>6 DEF send_buffered_data, u, t, s

\* A sound sender stays one through send_buffered_data.
LEMMA FlushedSender ==
  ASSUME NEW r, NEW s, NEW e, Sender(r, e), Flushed(r, s, e, Fins(r.c.state))
  PROVE  Sender(s, e) /\ Left(r, s)
<1>1. Left(r, s) /\ s.a = r.a
  BY DEF Flushed
<1>2. CASE s.c.state = r.c.state
  BY <1>1, <1>2 DEF Flushed, Sender
<1>3. CASE s.c.state # r.c.state
  <2>1. r.a.closed /\ s.c.send_buffer = 0 /\ SoundCall(s, e, Fins(r.c.state) + 1)
    BY <1>3 DEF Flushed
  <2>2. Fins(r.c.state) + 1 \in Nat /\ Fins(s.c.state) \in Nat
        /\ Fins(r.c.state) + 1 <= Fins(s.c.state)
    <3>1. \/ r.c.state = "ESTABLISHED" /\ s.c.state = "FIN_WAIT_1"
          \/ r.c.state = "CLOSE_WAIT" /\ s.c.state = "LAST_ACK"
      BY <1>1, <1>3 DEF Left
    <3>2. /\ Fins("ESTABLISHED") = 0 /\ Fins("FIN_WAIT_1") = 2
          /\ Fins("CLOSE_WAIT") = 2 /\ Fins("LAST_ACK") = 4
      BY DEF Fins, Handshake
    <3> QED BY <3>1, <3>2
  <2>3. SoundCall(s, e, Fins(s.c.state))
    BY <2>1, <2>2, MoreFins
  <2> QED BY <1>1, <2>1, <2>3 DEF Sender
<1> QED BY <1>2, <1>3

\* send_buffered_data, in any state.
LEMMA SenderFlushes ==
  ASSUME NEW r, NEW e \in Ends, Sender(r, e)
  PROVE  Sender(send_buffered_data(r), e) /\ Left(r, send_buffered_data(r))
<1>1. Fins(r.c.state) \in Nat
  BY FinsType
<1>2. r.c.state \in {"ESTABLISHED", "CLOSE_WAIT"} => Fins(r.c.state) <= 3
  BY DEF Fins, Handshake
<1>3. SoundCall(r, e, Fins(r.c.state))
  BY DEF Sender
<1>4. Flushed(r, send_buffered_data(r), e, Fins(r.c.state))
  BY <1>1, <1>2, <1>3, BufferedSent
<1> QED BY <1>4, FlushedSender

\* A sound sender stays one through a call that only sends.
LEMMA SameSender ==
  ASSUME NEW r, NEW s, NEW e, Sender(r, e), Same(r, s), SoundCall(s, e, Fins(r.c.state))
  PROVE  Sender(s, e) /\ Left(r, s)
<1>1. CallType(r)
  BY DEF Sender, SoundCall
<1> QED BY <1>1, SameIsLeft DEF Sender, Same

SetWritten(r, written) == [r EXCEPT !.a.written = written]

\* Bytes accepted by send() lengthen the stream.
LEMMA WrittenSet ==
  ASSUME NEW r, NEW e, NEW k, SoundCall(r, e, k), ~r.a.closed,
         NEW n \in Nat, r.a.written + n <= MaxWritten,
         NEW w, w = SetWritten(r, r.a.written + n)
  PROVE  /\ CallType(w) /\ w.c = r.c /\ w.cwnd = r.cwnd /\ Left(r, w)
         /\ w.a.written = r.a.written + n /\ w.a.closed = r.a.closed
         /\ w.out \in Seq(Sendable(e, w.a)) /\ w.c.retransmit_queue \in Seq(Kept(e, w.a))
<1>1. CallType(r) /\ AppType(r.a) /\ r.a.written \in Nat /\ MaxWritten \in Nat
  BY Constants DEF SoundCall, CallType, AppType
<1>2. r.a.written + n \in 0 .. MaxWritten
  BY <1>1
<1>3. w.c = r.c /\ w.out = r.out /\ w.cwnd = r.cwnd
      /\ w.a = [r.a EXCEPT !.written = r.a.written + n]
      /\ DOMAIN w = DOMAIN r
  BY <1>1 DEF SetWritten, CallType
<1>4. /\ AppType(w.a) /\ w.a.written = r.a.written + n /\ w.a.closed = r.a.closed
      /\ w.a.received = r.a.received /\ w.a.connected = r.a.connected
      /\ w.a.peer_fin = r.a.peer_fin
  BY <1>1, <1>2, <1>3 DEF AppType
<1>5. CallType(w) /\ Grows(r.a, w.a)
  BY <1>1, <1>3, <1>4 DEF CallType, Grows
<1>6. Left(r, w)
  BY <1>3, <1>4, <1>5 DEF Left
<1>7. Sendable(e, r.a) \subseteq Sendable(e, w.a) /\ Kept(e, r.a) \subseteq Kept(e, w.a)
  BY <1>1, <1>4, <1>5, FinNumbersGrow
<1>8. r.out \in Seq(Sendable(e, r.a)) /\ r.c.retransmit_queue \in Seq(Kept(e, r.a))
  BY DEF SoundCall, SendSound
<1>9. r.out \in Seq(Sendable(e, w.a)) /\ r.c.retransmit_queue \in Seq(Kept(e, w.a))
  BY <1>7, <1>8, SeqMonotonic
<1> QED BY <1>3, <1>4, <1>5, <1>6, <1>9

\* send() of bytes that are within the bound.
LEMMA SendCall ==
  ASSUME NEW r, NEW e \in Ends, Sender(r, e), ~r.a.closed, NEW len \in Nat,
         r.a.written + len <= MaxWritten
  PROVE  Sender(send(r, len), e) /\ Left(r, send(r, len))
<1> DEFINE accepted == Smaller(len, SendBufferSize - r.c.send_buffer)
           first == r.a.written
           w == SetWritten(r, first + accepted)
           n == Smaller(Smaller(accepted, Available(r)), MSS)
           buffered == SetBuffer(w, r.c.send_buffer + accepted)
           sent == SetBuffer(send_segment(w, {"ACK"}, first, n), accepted - n)
           k == Fins(r.c.state)
<1>1. /\ CallType(r) /\ SoundCall(r, e, k) /\ k \in Nat
      /\ r.c.send_buffer \in 0 .. SendBufferSize /\ SendBufferSize \in Nat
      /\ first \in Nat /\ first <= MaxWritten /\ MaxWritten \in Nat
      /\ r.c.send_buffer <= first /\ r.c.send_buffer \in Nat
  <2>1. CallType(r) /\ SoundCall(r, e, k) /\ k \in Nat
    BY FinsType DEF Sender, SoundCall
  <2>2. r.c.send_buffer <= first
    BY <2>1 DEF SoundCall, SendSound
  <2> QED BY <2>1, <2>2, Constants DEF CallType, TcbType, AppType
<1>2. accepted \in Nat /\ accepted <= len /\ r.c.send_buffer + accepted <= SendBufferSize
  BY <1>1 DEF Smaller
<1>3. Left(r, r)
  BY <1>1 DEF Left, Grows
<1>4. r.c.snd_nxt = Stream(e, first - r.c.send_buffer) /\ ~r.c.close_pending
  <2>1. PICK f \in 0 .. k : Numbered(r.c, r.a, e, f)
    BY <1>1 DEF SoundCall, SendSound
  <2>2. f = 0
    BY <2>1 DEF Numbered
  <2>3. first - r.c.send_buffer + 0 = first - r.c.send_buffer
    BY <1>1
  <2>4. ~r.c.close_pending
    BY <1>1 DEF SoundCall, SendSound
  <2> QED BY <2>1, <2>2, <2>3, <2>4 DEF Numbered
<1>5. /\ CallType(w) /\ w.c = r.c /\ Left(r, w)
      /\ w.a.written = first + accepted /\ w.a.closed = r.a.closed
      /\ w.out \in Seq(Sendable(e, w.a)) /\ w.c.retransmit_queue \in Seq(Kept(e, w.a))
  <2>1. w = SetWritten(r, r.a.written + accepted) /\ first + len <= MaxWritten
    OBVIOUS
  <2> HIDE DEF accepted
  <2>2. r.a.written + accepted <= MaxWritten
    <3> HIDE DEF first
    <3>1. first + accepted <= MaxWritten
      BY <1>1, <1>2, <2>1
    <3> QED BY <3>1 DEF first
  <2>3. SoundCall(r, e, k) /\ accepted \in Nat /\ w = SetWritten(r, r.a.written + accepted)
    BY <1>1, <1>2, <2>1
  <2> HIDE DEF w, k
  <2> QED BY <2>2, <2>3, WrittenSet
<1>6. r.c.state \notin Closing
  BY DEF Sender
<1>7. ASSUME NEW s, SoundCall(s, e, k), Alike(w, s)
      PROVE  Sender(s, e) /\ Left(r, s)
  <2>1. s.c.state = r.c.state
    BY <1>5, <1>7 DEF Alike
  <2>2. Left(r, s)
    BY <1>1, <1>5, <1>7, AlikeIsLeft, LeftTransitive
  <2> QED BY <1>6, <1>7, <2>1, <2>2 DEF Sender
<1>8. accepted # 0 => Sender(buffered, e) /\ Left(r, buffered)
  <2> DEFINE b == r.c.send_buffer + accepted
  <2>1. b \in 0 .. SendBufferSize /\ buffered = [w EXCEPT !.c.send_buffer = b]
    BY <1>1, <1>2 DEF SetBuffer
  <2> HIDE DEF buffered, b, w, accepted
  <2>2. /\ Alike(w, buffered) /\ buffered.out = w.out /\ buffered.c.snd_nxt = w.c.snd_nxt
        /\ buffered.c.retransmit_queue = w.c.retransmit_queue
        /\ buffered.c.send_buffer = b /\ buffered.c.close_pending = w.c.close_pending
    BY <1>5, <2>1 DEF Alike, CallType, TcbType
  <2>3. Numbered(buffered.c, buffered.a, e, 0)
    <3>1. first + accepted - b + 0 = first - r.c.send_buffer
      BY <1>1, <1>2 DEF b
    <3>2. buffered.a.written - buffered.c.send_buffer + 0 = first - r.c.send_buffer
      <4>1. buffered.a.written = first + accepted /\ buffered.c.send_buffer = b
        BY <1>5, <2>2 DEF Alike
      <4> QED BY <1>1, <1>2, <2>1, <3>1, <4>1
    <3>3. buffered.c.snd_nxt = Stream(e, buffered.a.written - buffered.c.send_buffer + 0)
      BY <1>4, <1>5, <2>2, <3>2
    <3> QED BY <3>3 DEF Numbered
  <2>4. b <= first + accepted
    BY <1>1, <1>2 DEF b
  <2>5. SendSound(buffered.c, buffered.a, e, k)
    BY <1>1, <1>4, <1>5, <2>2, <2>3, <2>4 DEF SendSound, Alike
  <2>6. SoundCall(buffered, e, k)
    BY <1>5, <2>2, <2>5 DEF SoundCall, Alike
  <2> QED BY <1>7, <2>2, <2>6
<1>9. r.c.send_buffer = 0 => Sender(sent, e) /\ Left(r, sent)
  <2>1. Available(r) \in Nat
    BY <1>1, WindowType
  <2>2. n \in Nat /\ n <= accepted /\ n <= MAX_TCP_SIZE
    BY <1>2, <2>1, Constants DEF Smaller
  <2> DEFINE b == accepted - n
  <2>3. /\ b \in 0 .. SendBufferSize /\ b <= first + accepted
        /\ first + n = first + accepted - b
    BY <1>1, <1>2, <2>2
  <2>4. r.c.send_buffer = 0 => w.c.snd_nxt = Stream(e, first)
    <3>1. first - 0 = first
      BY <1>1
    <3> QED BY <1>4, <1>5, <3>1
  <2>5. w.c.close_pending => w.a.closed
    BY <1>4, <1>5
  <2>6. sent = SetBuffer(send_segment(w, {"ACK"}, first, n), b)
    OBVIOUS
  <2> HIDE DEF w, n, b, sent, accepted
  <2>7. b <= w.a.written /\ first + n = w.a.written - b
    BY <1>1, <1>2, <1>5, <2>3
  <2>8. r.c.send_buffer = 0 => SoundCall(sent, e, k) /\ Alike(w, sent)
    <3> HIDE DEF first, k
    <3> QED BY <1>1, <1>5, <2>2, <2>3, <2>4, <2>5, <2>6, <2>7, DataSent
  <2> QED BY <1>7, <2>8
<1>10. send(r, len) \in {r, buffered, sent, send_buffered_data(sent)}
       /\ (send(r, len) # r => accepted # 0)
       /\ (send(r, len) \notin {r, buffered} => r.c.send_buffer = 0)
  <2>1. buffered = [w EXCEPT !.c.send_buffer = @ + accepted]
    BY <1>5 DEF SetBuffer
  <2>2. w = [r EXCEPT !.a.written = @ + accepted]
    BY DEF SetWritten
  <2>3. sent = [send_segment(w, {"ACK"}, first, n) EXCEPT !.c.send_buffer = accepted - n]
    BY DEF SetBuffer
  <2>4. send(r, len) =
          IF r.c.state \notin {"ESTABLISHED", "CLOSE_WAIT"} \/ accepted = 0 THEN r
          ELSE IF r.c.send_buffer > 0 THEN buffered
          ELSE IF Nagle /\ r.c.snd_nxt # r.c.snd_una /\ accepted < MSS THEN buffered
          ELSE IF Available(r) = 0 THEN buffered
          ELSE IF n < accepted THEN send_buffered_data(sent) ELSE sent
    <3> HIDE DEF buffered, sent
    <3> QED BY <2>1, <2>2, <2>3, Zenon DEF send
  <2> HIDE DEF buffered, sent, accepted, w, n
  <2> QED BY <1>1, <2>4
<1> HIDE DEF buffered, sent, accepted
<1>11. CASE send(r, len) = r
  BY <1>3, <1>11
<1>12. CASE send(r, len) # r /\ send(r, len) = buffered
  BY <1>8, <1>10, <1>12
<1>13. CASE send(r, len) \notin {r, buffered}
  <2>1. Sender(sent, e) /\ Left(r, sent)
    BY <1>9, <1>10, <1>13
  <2>2. LET s == send_buffered_data(sent) IN Sender(s, e) /\ Left(sent, s)
    BY <2>1, SenderFlushes
  <2>3. Left(r, send_buffered_data(sent))
    BY <1>1, <2>1, <2>2, LeftTransitive
  <2> QED BY <1>10, <1>13, <2>1, <2>2, <2>3
<1> QED BY <1>11, <1>12, <1>13

SetClosed(r) == [r EXCEPT !.a.closed = TRUE]

\* close() marks the stream as ended.
LEMMA ClosedSet ==
  ASSUME NEW r, NEW e, Sender(r, e)
  PROVE  /\ Sender(SetClosed(r), e) /\ Left(r, SetClosed(r))
         /\ SetClosed(r).a.closed /\ SetClosed(r).c = r.c
<1> DEFINE s == SetClosed(r)
           k == Fins(r.c.state)
<1>1. CallType(r) /\ AppType(r.a) /\ r.a.written \in Nat /\ SoundCall(r, e, k)
  BY Constants DEF Sender, SoundCall, CallType, AppType
<1>2. /\ s.c = r.c /\ s.out = r.out /\ s.cwnd = r.cwnd /\ DOMAIN s = DOMAIN r
      /\ s.a = [r.a EXCEPT !.closed = TRUE]
  BY <1>1 DEF SetClosed, CallType
<1> HIDE DEF s
<1>3. /\ AppType(s.a) /\ s.a.written = r.a.written /\ s.a.closed
      /\ s.a.received = r.a.received /\ s.a.connected = r.a.connected
      /\ s.a.peer_fin = r.a.peer_fin
  BY <1>1, <1>2 DEF AppType
<1>4. CallType(s) /\ Grows(r.a, s.a)
  BY <1>1, <1>2, <1>3 DEF CallType, Grows
<1>5. Left(r, s)
  BY <1>2, <1>3, <1>4 DEF Left
<1>6. Sendable(e, r.a) \subseteq Sendable(e, s.a) /\ Kept(e, r.a) \subseteq Kept(e, s.a)
  BY <1>1, <1>3, <1>4, FinNumbersGrow
<1>7. r.out \in Seq(Sendable(e, r.a)) /\ r.c.retransmit_queue \in Seq(Kept(e, r.a))
  BY <1>1 DEF SoundCall, SendSound
<1>8. s.out \in Seq(Sendable(e, s.a)) /\ s.c.retransmit_queue \in Seq(Kept(e, s.a))
  BY <1>2, <1>6, <1>7, SeqMonotonic
<1>9. SendSound(s.c, s.a, e, k)
  BY <1>1, <1>2, <1>3, <1>8 DEF SoundCall, SendSound, Numbered
<1>10. Sender(s, e)
  BY <1>2, <1>3, <1>4, <1>8, <1>9 DEF SoundCall, Sender
<1> QED BY <1>2, <1>3, <1>5, <1>10 DEF s

\* close() with a buffer that is flushed, or waits.
LEMMA ClosedByFin ==
  ASSUME NEW r, NEW e \in Ends, Sender(r, e), r.a.closed, NEW state,
         \/ r.c.state = "ESTABLISHED" /\ state = "FIN_WAIT_1"
         \/ r.c.state = "CLOSE_WAIT" /\ state = "LAST_ACK",
         NEW flushed, flushed = send_buffered_data(r),
         NEW s, s \in {SetPending(flushed, TRUE), SetState(send_fin(flushed), state)},
         s # SetPending(flushed, TRUE) => flushed.c.send_buffer = 0
  PROVE  Sender(s, e) /\ Left(r, s)
<1>1. Sender(flushed, e) /\ Left(r, flushed) /\ CallType(r)
  BY SenderFlushes DEF Sender, SoundCall
<1>2. flushed.a.closed
  BY <1>1 DEF Left, Grows
<1>3. CASE s = SetPending(flushed, TRUE)
  <2>1. SoundCall(flushed, e, Fins(flushed.c.state))
    BY <1>1 DEF Sender
  <2>2. SoundCall(s, e, Fins(flushed.c.state)) /\ Same(flushed, s)
    <3>1. TRUE \in BOOLEAN /\ (TRUE = TRUE => flushed.a.closed)
      BY <1>2
    <3> QED BY <1>3, <2>1, <3>1, PendingSet
  <2>3. Sender(s, e) /\ Left(flushed, s)
    BY <1>1, <2>2, SameSender
  <2> QED BY <1>1, <2>3, LeftTransitive
<1>4. CASE s # SetPending(flushed, TRUE)
  <2> DEFINE k == Fins(r.c.state)
  <2>1. k \in Nat /\ k + 1 \in 0 .. 3 /\ k + 2 \in Nat /\ k + 2 <= Fins(state) /\ Fins(state) \in Nat
        /\ k <= 3 /\ k <= k + 1 /\ k + 1 + 1 = k + 2 /\ k + 1 \in Nat
    BY DEF Fins, Handshake
  <2>2. SoundCall(r, e, k)
    BY DEF Sender
  <2> HIDE DEF k
  <2>3. Flushed(r, flushed, e, k)
    BY <2>1, <2>2, BufferedSent
  <2>4. SoundCall(flushed, e, k + 1)
    <3>1. CASE flushed.c.state = r.c.state
      BY <2>1, <2>3, <3>1, MoreFins DEF Flushed
    <3>2. CASE flushed.c.state # r.c.state
      BY <2>3, <3>2 DEF Flushed
    <3> QED BY <3>1, <3>2
  <2>5. s = SetState(send_fin(flushed), state) /\ flushed.c.send_buffer = 0
        /\ state \in {"FIN_WAIT_1", "LAST_ACK"}
    BY <1>4
  <2>6. /\ SoundCall(s, e, k + 1 + 1) /\ s.a = flushed.a /\ s.c.state = state
        /\ s.c.rcv_nxt = flushed.c.rcv_nxt /\ s.c.ooo_queue = flushed.c.ooo_queue
        /\ s.c.send_buffer = 0
    BY <1>2, <2>1, <2>4, <2>5, FinSent
  <2>7. SoundCall(s, e, Fins(state))
    BY <2>1, <2>6, MoreFins
  <2>8. Sender(s, e)
    BY <1>2, <2>6, <2>7 DEF Sender
  <2>9. Left(r, s)
    BY <1>1, <2>6, <2>7 DEF Left, SoundCall
  <2> QED BY <2>8, <2>9
<1> QED BY <1>3, <1>4

\* close(), in every state but SYN_SENT.
LEMMA CloseCall ==
  ASSUME NEW r, NEW e \in Ends, Sender(r, e), r.c.state # "SYN_SENT"
  PROVE  Sender(close(r), e) /\ Left(r, close(r)) /\ close(r).a.closed
<1> DEFINE closed == SetClosed(r)
           flushed == send_buffered_data(closed)
           Fin(state) == IF flushed.c.send_buffer > 0 THEN SetPending(flushed, TRUE)
                         ELSE SetState(send_fin(flushed), state)
<1>1. Sender(closed, e) /\ Left(r, closed) /\ closed.a.closed /\ closed.c = r.c /\ CallType(r)
  BY ClosedSet DEF Sender, SoundCall
<1>2. close(r) = CASE r.c.state = "ESTABLISHED" -> Fin("FIN_WAIT_1")
                   [] r.c.state = "CLOSE_WAIT" -> Fin("LAST_ACK")
                   [] OTHER -> closed
  BY DEF close, SetClosed, SetPending, SetState
<1> HIDE DEF closed
<1>3. flushed.c.send_buffer \in Nat
  <2>1. Sender(flushed, e)
    BY <1>1, SenderFlushes
  <2> HIDE DEF flushed
  <2>2. TcbType(flushed.c)
    BY <2>1 DEF Sender, SoundCall, CallType
  <2> QED BY <2>2, Constants DEF TcbType
<1>4. ASSUME NEW state, close(r) = Fin(state),
             \/ r.c.state = "ESTABLISHED" /\ state = "FIN_WAIT_1"
             \/ r.c.state = "CLOSE_WAIT" /\ state = "LAST_ACK"
      PROVE  Sender(close(r), e) /\ Left(r, close(r)) /\ close(r).a.closed
  <2> DEFINE s == close(r)
  <2>1. /\ s \in {SetPending(flushed, TRUE), SetState(send_fin(flushed), state)}
        /\ s # SetPending(flushed, TRUE) => flushed.c.send_buffer = 0
    <3> DEFINE waiting == SetPending(flushed, TRUE)
               over == SetState(send_fin(flushed), state)
    <3>1. s = IF flushed.c.send_buffer > 0 THEN waiting ELSE over
      BY <1>4
    <3> HIDE DEF waiting, over, s, flushed
    <3>2. s \in {waiting, over} /\ (s # waiting => flushed.c.send_buffer = 0)
      BY <1>3, <3>1
    <3> QED BY <3>2 DEF waiting, over
  <2>2. flushed = send_buffered_data(closed)
    OBVIOUS
  <2> HIDE DEF s, flushed
  <2>3. Sender(s, e) /\ Left(closed, s)
    BY <1>1, <1>4, <2>1, <2>2, ClosedByFin
  <2>4. s.a.closed
    BY <1>1, <2>3 DEF Left, Grows
  <2>5. Left(r, s)
    BY <1>1, <2>3, LeftTransitive
  <2> QED BY <2>3, <2>4, <2>5 DEF s
<1> HIDE DEF Fin
<1>5. CASE r.c.state = "ESTABLISHED"
  BY <1>2, <1>4, <1>5
<1>6. CASE r.c.state = "CLOSE_WAIT"
  BY <1>2, <1>4, <1>6
<1>7. CASE r.c.state \notin {"ESTABLISHED", "CLOSE_WAIT"}
  <2>1. close(r) = closed
    BY <1>2, <1>7
  <2> QED BY <1>1, <2>1
<1> QED BY <1>5, <1>6, <1>7

\* The application, called back, sends or closes or does nothing.
LEMMA Reacts ==
  ASSUME NEW r, NEW e \in Ends, Sender(r, e), r.c.state # "SYN_SENT", NEW callback
  PROVE  Sender(React(r, callback), e) /\ Left(r, React(r, callback))
<1>1. CallType(r) /\ Left(r, r) /\ r.a.written \in Nat /\ MaxWritten \in Nat
  BY Constants DEF Sender, SoundCall, CallType, AppType, Left, Grows
<1>2. /\ React(r, callback) \in {r, send(r, 1), close(r)}
      /\ React(r, callback) \notin {r, close(r)} => r.a.written < MaxWritten /\ ~r.a.closed
  BY DEF React
<1>3. CASE React(r, callback) = r
  BY <1>1, <1>3
<1>4. CASE React(r, callback) = close(r)
  BY <1>4, CloseCall
<1>5. CASE React(r, callback) \notin {r, close(r)}
  <2>1. 1 \in Nat /\ r.a.written + 1 <= MaxWritten /\ ~r.a.closed
    BY <1>1, <1>2, <1>5
  <2>2. Sender(send(r, 1), e) /\ Left(r, send(r, 1))
    BY <2>1, SendCall
  <2> QED BY <1>2, <1>5, <2>2
<1> QED BY <1>2, <1>3, <1>4, <1>5

-----------------------------------------------------------------------------
(* Acknowledgements.                                                       *)

\* Nothing that counts for what is sent has changed.
Untouched(r, s) ==
  /\ Same(r, s) /\ s.out = r.out /\ s.c.snd_nxt = r.c.snd_nxt
  /\ s.c.retransmit_queue = r.c.retransmit_queue
  /\ s.c.send_buffer = r.c.send_buffer /\ s.c.close_pending = r.c.close_pending

\* Fields that say nothing of the streams.
LEMMA UntouchedSound ==
  ASSUME NEW r, NEW s, NEW e, NEW k, SoundCall(r, e, k), Untouched(r, s)
  PROVE  SoundCall(s, e, k) /\ Same(r, s)
  BY DEF SoundCall, SendSound, Same, Untouched, Numbered

\* The peer's window.
LEMMA SetWindow ==
  ASSUME NEW r, CallType(r), NEW window \in Nat, NEW s, s = [r EXCEPT !.c.snd_wnd = window]
  PROVE  Untouched(r, s)
  BY DEF Untouched, Same, CallType, TcbType

SetDupAcks(r, n) == [r EXCEPT !.c.dup_ack_count = n]

\* The count of duplicate acknowledgements.
LEMMA DupAcksSet ==
  ASSUME NEW r, CallType(r), NEW n \in 0 .. 2
  PROVE  Untouched(r, SetDupAcks(r, n))
  BY DEF Untouched, Same, CallType, TcbType, SetDupAcks

\* The first entry of the queue, repeated in whole or in part.
LEMMA Repeated ==
  ASSUME NEW r, NEW e \in Ends, NEW k \in Nat, SoundCall(r, e, k),
         r.c.retransmit_queue # <<>>,
         NEW first, first = Head(r.c.retransmit_queue), first.len # 0,
         NEW s, s = raw_send(r, {"ACK"}, first.seq_start, first.from, Smaller(first.len, MSS))
  PROVE  SoundCall(s, e, k) /\ Same(r, s)
<1>1. CallType(r) /\ r.a.written \in Nat /\ r.c.retransmit_queue \in Seq(Kept(e, r.a))
  BY Constants DEF SoundCall, SendSound, CallType, AppType
<1>2. first \in Kept(e, r.a)
  BY <1>1, HeadTailProperties
<1>3. /\ first.seq_start \in SeqNum /\ first.from \in Nat /\ first.len \in Nat
      /\ EntrySound(first, e, r.a)
  BY <1>2 DEF Kept, Entry
<1>4. first.seq_start = Stream(e, first.from) /\ first.from + first.len <= r.a.written
  BY <1>3 DEF EntrySound
<1> DEFINE n == Smaller(first.len, MSS)
           seg == SegmentOf(r.c, {"ACK"}, first.seq_start, first.from, n)
<1>5. n \in Nat /\ n <= first.len /\ n <= MAX_TCP_SIZE
  BY <1>3, Constants DEF Smaller
<1>6. first.from + n <= r.a.written
  BY <1>1, <1>3, <1>4, <1>5
<1>7. RawSent(r, s, seg)
  BY <1>1, <1>5, RawSend
<1>8. seg = SegmentOf(r.c, {"ACK"}, first.seq_start, first.from, n)
  OBVIOUS
<1> HIDE DEF n, seg
<1>9. seg \in Sendable(e, r.a)
  BY <1>1, <1>3, <1>4, <1>5, <1>6, <1>8, PlainSegment
<1> QED BY <1>7, <1>9, RawSending

\* check_dup_ack: a fast retransmission repeats what is kept.
LEMMA DupAckChecked ==
  ASSUME NEW r, NEW e \in Ends, NEW k \in Nat, SoundCall(r, e, k), NEW ack
  PROVE  SoundCall(check_dup_ack(r, ack), e, k) /\ Same(r, check_dup_ack(r, ack))
<1> DEFINE queue == r.c.retransmit_queue
           first == Head(queue)
           again == raw_send(r, {"ACK"}, first.seq_start, first.from, Smaller(first.len, MSS))
           t == IF first.len = 0 THEN r ELSE again
           more == SetDupAcks(r, r.c.dup_ack_count + 1)
           reset == SetDupAcks(t, 0)
           s == check_dup_ack(r, ack)
<1>1. CallType(r) /\ Same(r, r) /\ r.c.dup_ack_count \in 0 .. 2
  BY DEF SoundCall, Same, CallType, TcbType
<1>2. \/ s = r
      \/ s = more /\ r.c.dup_ack_count < 2
      \/ s = reset /\ queue # <<>>
  BY <1>1 DEF check_dup_ack, SetDupAcks
<1>3. CASE s = r
  BY <1>1, <1>3
<1>4. CASE s = more /\ r.c.dup_ack_count < 2
  <2>1. r.c.dup_ack_count + 1 \in 0 .. 2
    BY <1>1, <1>4
  <2>2. Untouched(r, more)
    BY <1>1, <2>1, DupAcksSet
  <2>3. SoundCall(more, e, k) /\ Same(r, more)
    BY <2>2, UntouchedSound
  <2> QED BY <1>4, <2>3
<1>5. CASE s = reset /\ queue # <<>>
  <2>1. SoundCall(t, e, k) /\ Same(r, t)
    <3>1. CASE first.len = 0
      BY <1>1, <3>1
    <3>2. CASE first.len # 0
      <4>1. SoundCall(again, e, k) /\ Same(r, again)
        BY <1>5, <3>2, Repeated
      <4> QED BY <3>2, <4>1
    <3> QED BY <3>1, <3>2
  <2> HIDE DEF t
  <2>2. Untouched(t, reset)
    BY <2>1, DupAcksSet DEF SoundCall
  <2>3. SoundCall(reset, e, k) /\ Same(t, reset)
    BY <2>1, <2>2, UntouchedSound
  <2> HIDE DEF reset
  <2>4. Same(r, reset)
    BY <2>1, <2>3, SameTransitive
  <2> QED BY <1>5, <2>3, <2>4
<1> QED BY <1>2, <1>3, <1>4, <1>5

\* What is left of an entry acknowledged in part.
LEMMA EntryTrimmed ==
  ASSUME NEW e \in Ends, NEW a, AppType(a), NEW q \in Kept(e, a), NEW ack \in SeqNum,
         seq_lt(q.seq_start, ack), ~seq_le(q.seq_end, ack),
         NEW n, n = SeqSub(ack, q.seq_start),
         NEW p, p = [q EXCEPT !.seq_start = ack, !.from = @ + n, !.len = @ - n]
  PROVE  p \in Kept(e, a)
<1>1. /\ q \in Entry /\ q.seq_start \in SeqNum /\ q.seq_end \in SeqNum /\ q.from \in Nat
      /\ q.len \in Nat /\ EntrySound(q, e, a) /\ q.retransmit_count \in Nat
  BY DEF Kept, Entry
<1>2. a.written \in Nat /\ a.written <= MaxWritten /\ MaxWritten \in Nat /\ MaxWritten + 4 <= HalfSpace
  BY PairAssumption, HalfSpaceFacts DEF AppType
<1>3. q.len # 0
  <2>1. SUFFICES ASSUME q.len = 0 PROVE FALSE
    OBVIOUS
  <2>2. ~seq_le(SeqAdd(q.seq_start, 1), ack) /\ 1 \in Nat /\ 1 < HalfSpace
    BY <1>1, <1>2, <2>1, HalfSpaceFacts DEF EntrySound
  <2>3. SeqSub(ack, q.seq_start) \in 1 .. 1 - 1
    BY <1>1, <2>2, Trimmed
  <2> QED BY <2>3
<1>4. /\ q.seq_end = SeqAdd(q.seq_start, q.len)
      /\ q.seq_start = Stream(e, q.from) /\ q.from + q.len <= a.written
  BY <1>1, <1>3 DEF EntrySound
<1>5. q.len < HalfSpace
  BY <1>1, <1>2, <1>4, HalfSpaceFacts
<1>6. /\ n \in 1 .. q.len - 1 /\ SeqAdd(q.seq_start, n) = ack
      /\ SeqAdd(ack, q.len - n) = q.seq_end
  BY <1>1, <1>4, <1>5, Trimmed
<1>7. ack = Stream(e, q.from + n)
  <2>1. n \in Nat /\ q.from + n <= MaxWritten + 4
    BY <1>1, <1>2, <1>4, <1>6
  <2>2. SeqAdd(Stream(e, q.from), n) = Stream(e, q.from + n)
    BY <1>1, <2>1, StreamAdd
  <2> QED BY <1>4, <1>6, <2>2
<1>8. /\ q.from + n \in Nat /\ q.len - n \in Nat /\ q.len - n # 0
      /\ q.from + n + (q.len - n) <= a.written
  BY <1>1, <1>2, <1>4, <1>6
<1>9. /\ p.seq_start = ack /\ p.from = q.from + n /\ p.len = q.len - n
      /\ p.seq_end = q.seq_end /\ p.retransmit_count = q.retransmit_count
      /\ p = [seq_start |-> p.seq_start, seq_end |-> p.seq_end, from |-> p.from,
              len |-> p.len, retransmit_count |-> p.retransmit_count]
  <2> DEFINE p1 == [q EXCEPT !.seq_start = ack]
             p2 == [p1 EXCEPT !.from = @ + n]
  <2>1. p1 \in Entry /\ p1.seq_start = ack /\ p1.from = q.from /\ p1.len = q.len
        /\ p1.seq_end = q.seq_end /\ p1.retransmit_count = q.retransmit_count
    BY <1>1 DEF Entry
  <2> HIDE DEF p1
  <2>2. p2 \in Entry /\ p2.seq_start = ack /\ p2.from = q.from + n /\ p2.len = q.len
        /\ p2.seq_end = q.seq_end /\ p2.retransmit_count = q.retransmit_count
    BY <1>8, <2>1 DEF Entry
  <2>3. p = [p2 EXCEPT !.len = @ - n]
    BY DEF p1
  <2> HIDE DEF p2
  <2> QED BY <1>8, <2>2, <2>3 DEF Entry
<1>10. p \in Entry
  BY <1>1, <1>8, <1>9 DEF Entry
<1>11. EntrySound(p, e, a)
  BY <1>6, <1>7, <1>8, <1>9 DEF EntrySound
<1> QED BY <1>10, <1>11 DEF Kept

\* Acknowledged entries go, and one that is acknowledged in part is cut.
LEMMA QueueAcknowledged ==
  ASSUME NEW e \in Ends, NEW a, AppType(a), NEW queue \in Seq(Kept(e, a)), NEW ack \in SeqNum
  PROVE  Acknowledge(queue, ack) \in Seq(Kept(e, a))
<1> DEFINE K == Kept(e, a)
           covered == {i \in DOMAIN queue : seq_le(queue[i].seq_end, ack)}
           k == Leading(covered, Len(queue))
           rest == SubSeq(queue, k + 1, Len(queue))
           n == SeqSub(ack, rest[1].seq_start)
           trimmed == [rest[1] EXCEPT !.seq_start = ack, !.from = @ + n, !.len = @ - n]
<1>1. Len(queue) \in Nat
  BY LenProperties
<1>d. DOMAIN queue = 1 .. Len(queue)
  BY LenProperties
<1>2. k \in 0 .. Len(queue) /\ (k = Len(queue) \/ k + 1 \notin covered)
  <2> HIDE DEF covered
  <2> QED BY <1>1, LeadingStops
<1>0. \A i \in DOMAIN queue : i \in covered <=> seq_le(queue[i].seq_end, ack)
  OBVIOUS
<1> HIDE DEF covered
<1>3. /\ rest \in Seq(K) /\ (rest # <<>> => k < Len(queue))
      /\ k < Len(queue) => Len(rest) \in Nat /\ Len(rest) > 0 /\ rest[1] = queue[k + 1]
                           /\ rest[1] \in K
  <2> HIDE DEF k, K
  <2>1. \A i \in k + 1 .. Len(queue) : queue[i] \in Kept(e, a)
    BY <1>1, <1>2, ElementOfSeq
  <2>2. /\ rest \in Seq(K)
        /\ Len(rest) = IF k + 1 <= Len(queue) THEN Len(queue) - (k + 1) + 1 ELSE 0
        /\ \A i \in 1 .. Len(queue) - (k + 1) + 1 : rest[i] = queue[(k + 1) + i - 1]
    BY <1>1, <1>2, <2>1, SubSeqProperties DEF K
  <2> HIDE DEF rest
  <2>3. rest # <<>> => Len(rest) # 0
    BY <2>2, EmptySeq
  <2>4. k < Len(queue) => rest[1] = queue[k + 1]
    <3>1. k < Len(queue) => 1 \in 1 .. Len(queue) - (k + 1) + 1 /\ (k + 1) + 1 - 1 = k + 1
      BY <1>1, <1>2
    <3> QED BY <2>2, <3>1
  <2>5. k < Len(queue) => queue[k + 1] \in K
    <3>1. k < Len(queue) => k + 1 \in 1 .. Len(queue)
      BY <1>1, <1>2
    <3> QED BY <3>1, ElementOfSeq DEF K
  <2> QED BY <1>1, <1>2, <2>2, <2>3, <2>4, <2>5
<1>4. CASE rest = <<>> \/ ~seq_lt(rest[1].seq_start, ack)
  BY <1>3, <1>4 DEF Acknowledge, covered
<1>5. CASE rest # <<>> /\ seq_lt(rest[1].seq_start, ack)
  <2>1. k < Len(queue) /\ k + 1 \in 1 .. Len(queue)
    BY <1>1, <1>2, <1>3, <1>5
  <2>2. ~seq_le(rest[1].seq_end, ack)
    <3>1. k + 1 \notin covered /\ k + 1 \in DOMAIN queue /\ rest[1] = queue[k + 1]
      <4> HIDE DEF rest
      <4> QED BY <1>1, <1>d, <1>2, <1>3, <2>1
    <3> HIDE DEF rest, k
    <3> QED BY <1>0, <3>1
  <2> HIDE DEF rest
  <2>3. trimmed \in K
    BY <1>3, <1>5, <2>1, <2>2, EntryTrimmed
  <2>4. [rest EXCEPT ![1] = trimmed] \in Seq(K)
    <3>1. 1 \in 1 .. Len(rest)
      BY <1>3, <2>1
    <3> HIDE DEF trimmed, K
    <3> QED BY <1>3, <2>3, <3>1, ExceptSeq
  <2>5. Acknowledge(queue, ack) = [rest EXCEPT ![1] = trimmed]
    <3>1. Acknowledge(queue, ack) =
            [rest EXCEPT ![1].seq_start = ack, ![1].from = @ + n, ![1].len = @ - n]
      BY <1>5 DEF Acknowledge, rest, covered
    <3>2. rest \in Seq(K) /\ 1 \in DOMAIN rest /\ rest[1] \in Entry
      BY <1>3, <2>1 DEF Kept
    <3> HIDE DEF n, K
    <3> QED BY <3>1, <3>2 DEF Entry
  <2> QED BY <2>4, <2>5
<1> QED BY <1>4, <1>5

SetAcked(t, ack) ==
  [t EXCEPT !.c.snd_una = ack, !.c.retransmit_queue = Acknowledge(@, ack),
            !.c.dup_ack_count = 0]

\* The acknowledgement recorded.
LEMMA AckedSet ==
  ASSUME NEW t, NEW e \in Ends, NEW k, SoundCall(t, e, k), NEW ack \in SeqNum
  PROVE  /\ SoundCall(SetAcked(t, ack), e, k) /\ Left(t, SetAcked(t, ack))
         /\ SetAcked(t, ack).a = t.a /\ SetAcked(t, ack).c.state = t.c.state
         /\ SetAcked(t, ack).c.send_buffer = t.c.send_buffer
<1> DEFINE queue == Acknowledge(t.c.retransmit_queue, ack)
           u == [t EXCEPT !.c.snd_una = ack]
           v == [u EXCEPT !.c.retransmit_queue = queue]
           s == SetAcked(t, ack)
<1>1. CallType(t) /\ t.c.retransmit_queue \in Seq(Kept(e, t.a)) /\ AppType(t.a)
      /\ t.out \in Seq(Sendable(e, t.a)) /\ SendSound(t.c, t.a, e, k)
  BY DEF SoundCall, SendSound, CallType
<1>2. queue \in Seq(Kept(e, t.a))
  BY <1>1, QueueAcknowledged
<1>3. /\ CallType(u) /\ u.a = t.a /\ u.out = t.out /\ u.c = [t.c EXCEPT !.snd_una = ack]
  BY <1>1 DEF CallType, TcbType
<1>4. u.c.retransmit_queue = t.c.retransmit_queue
  BY <1>1, <1>3 DEF CallType, TcbType
<1>5. s = SetDupAcks(v, 0)
  BY <1>4 DEF SetAcked, SetDupAcks
<1> HIDE DEF u, queue
<1>6. /\ CallType(v) /\ v.a = u.a /\ v.out = u.out
      /\ v.c = [u.c EXCEPT !.retransmit_queue = queue]
  BY <1>3 DEF CallType, TcbType
<1> HIDE DEF v, s
<1>7. Untouched(v, s)
  BY <1>5, <1>6, DupAcksSet
<1>8. /\ v.c.state = t.c.state /\ v.c.rcv_nxt = t.c.rcv_nxt /\ v.c.ooo_queue = t.c.ooo_queue
      /\ v.c.snd_nxt = t.c.snd_nxt /\ v.c.send_buffer = t.c.send_buffer
      /\ v.c.close_pending = t.c.close_pending /\ v.c.retransmit_queue = queue
  BY <1>1, <1>3, <1>6 DEF CallType, TcbType
<1>9. /\ s.c.state = t.c.state /\ s.c.rcv_nxt = t.c.rcv_nxt /\ s.c.ooo_queue = t.c.ooo_queue
      /\ s.c.snd_nxt = t.c.snd_nxt /\ s.c.send_buffer = t.c.send_buffer
      /\ s.c.close_pending = t.c.close_pending /\ s.c.retransmit_queue = queue
  BY <1>7, <1>8 DEF Untouched, Same
<1>10. s.a = t.a /\ s.out = t.out /\ CallType(s)
  BY <1>3, <1>6, <1>7 DEF Untouched, Same
<1>11. SendSound(s.c, s.a, e, k)
  BY <1>1, <1>2, <1>9, <1>10 DEF SendSound, Numbered
<1>12. SoundCall(s, e, k)
  BY <1>1, <1>10, <1>11 DEF SoundCall
<1>13. Left(t, s)
  <2>1. Grows(t.a, s.a)
    BY <1>1, <1>10, Constants DEF Grows, AppType
  <2> QED BY <1>9, <1>10, <2>1 DEF Left
<1> QED BY <1>9, <1>10, <1>12, <1>13 DEF s

\* process_ack, with what the freed window lets out.
LEMMA AckProcessed ==
  ASSUME NEW r, NEW e \in Ends, Sender(r, e), NEW ack \in SeqNum, NEW window \in Nat
  PROVE  Sender(process_ack(r, ack, window), e) /\ Left(r, process_ack(r, ack, window))
<1> DEFINE t == [r EXCEPT !.c.snd_wnd = window]
           seen == check_dup_ack(t, ack)
           acked == SetAcked(seen, ack)
           k == Fins(r.c.state)
           s == process_ack(r, ack, window)
<1>1. CallType(r) /\ SoundCall(r, e, k) /\ k \in Nat
  BY FinsType DEF Sender, SoundCall
<1>2. s \in {seen, send_buffered_data(seen), send_buffered_data(acked)}
  BY DEF process_ack, SetAcked
<1>3. Untouched(r, t)
  BY <1>1, SetWindow
<1> HIDE DEF k, t
<1>4. SoundCall(t, e, k) /\ Same(r, t)
  BY <1>1, <1>3, UntouchedSound
<1>5. SoundCall(seen, e, k) /\ Same(t, seen)
  BY <1>1, <1>4, DupAckChecked
<1> HIDE DEF seen, s
<1>6. Same(r, seen)
  BY <1>4, <1>5, SameTransitive
<1>7. Sender(seen, e) /\ Left(r, seen)
  BY <1>5, <1>6, SameSender DEF k
<1>8. SoundCall(acked, e, k) /\ Left(seen, acked) /\ acked.a = seen.a
      /\ acked.c.state = seen.c.state /\ acked.c.send_buffer = seen.c.send_buffer
  BY <1>5, AckedSet
<1> HIDE DEF acked
<1>9. Sender(acked, e) /\ Left(r, acked)
  <2>1. Left(r, acked)
    BY <1>1, <1>7, <1>8, LeftTransitive
  <2>2. acked.c.state = r.c.state
    BY <1>6, <1>8 DEF Same
  <2> QED BY <1>6, <1>7, <1>8, <2>1, <2>2 DEF Sender, Same, k
<1>10. ASSUME NEW u, Sender(u, e), Left(r, u)
       PROVE  Sender(send_buffered_data(u), e) /\ Left(r, send_buffered_data(u))
  BY <1>1, <1>10, SenderFlushes, LeftTransitive
<1>11. Sender(s, e) /\ Left(r, s)
  BY <1>2, <1>7, <1>9, <1>10
<1> QED BY <1>11 DEF s

-----------------------------------------------------------------------------
(* Receiving.                                                              *)

\* An end that receives, against a peer whose application is p.
Receiver(r, e, p) ==
  /\ Sender(r, e)
  /\ r.c.state \in Receiving /\ r.a.connected /\ ~r.a.peer_fin
  /\ r.c.rcv_nxt = Stream(Peer(e), Len(r.a.received))
  /\ r.c.ooo_queue \in Seq(Ahead(Peer(e), p.written))
  /\ r.a.received = Bytes(0, Len(r.a.received)) /\ Len(r.a.received) <= p.written

\* What was written and handed over stays so.
Progress(r, s) == Grows(r.a, s.a) /\ Len(r.a.received) <= Len(s.a.received)

\* The same, by calls that receive: they leave the states after close().
Goes(r, s) == /\ Progress(r, s)
              /\ r.c.state \in {"FIN_WAIT_1", "FIN_WAIT_2"} => s.c.state = r.c.state

\* There are two ends.
LEMMA PeerType == ASSUME NEW e \in Ends PROVE Peer(e) \in Ends /\ Peer(e) # e /\ Peer(Peer(e)) = e
  BY DEF Ends, Peer

\* One call, and another.
LEMMA ProgressTransitive ==
  ASSUME NEW r, NEW s, NEW t, CallType(r), CallType(s), CallType(t),
         Progress(r, s), Progress(s, t)
  PROVE  Progress(r, t)
<1>1. Grows(r.a, t.a)
  BY Constants DEF Progress, Grows, CallType, AppType
<1>2. Len(r.a.received) \in Nat /\ Len(s.a.received) \in Nat /\ Len(t.a.received) \in Nat
  BY LenProperties DEF CallType, AppType
<1>3. Len(r.a.received) <= Len(t.a.received)
  BY <1>2 DEF Progress
<1> QED BY <1>1, <1>3 DEF Progress

\* The same of calls that receive.
LEMMA GoesTransitive ==
  ASSUME NEW r, NEW s, NEW t, CallType(r), CallType(s), CallType(t), Goes(r, s), Goes(s, t)
  PROVE  Goes(r, t)
  BY ProgressTransitive DEF Goes

\* A call that does nothing.
LEMMA GoesNowhere == ASSUME NEW r, CallType(r) PROVE Goes(r, r)
<1>1. Len(r.a.received) \in Nat
  BY LenProperties DEF CallType, AppType
<1>2. Grows(r.a, r.a)
  BY Constants DEF Grows, CallType, AppType
<1> QED BY <1>1, <1>2 DEF Goes, Progress

\* A call that sends.
LEMMA LeftGoes ==
  ASSUME NEW r, NEW s, CallType(r), Left(r, s) PROVE Goes(r, s)
<1>1. Len(r.a.received) \in Nat
  BY LenProperties DEF CallType, AppType
<1> QED BY <1>1 DEF Left, Goes, Progress

\* The bytes of a stream up to m and those that follow.
LEMMA BytesJoin ==
  ASSUME NEW m \in Nat, NEW n \in Nat
  PROVE  /\ Bytes(0, m) \o Bytes(m, n) = Bytes(0, m + n)
         /\ Bytes(0, m) \in Seq(Nat) /\ Len(Bytes(0, m)) = m
<1> DEFINE a == Bytes(0, m)
           b == Bytes(m, n)
           c == Bytes(0, m + n)
<1>1. /\ a \in Seq(Nat) /\ Len(a) = m /\ \A i \in 1 .. m : a[i] = 0 + i - 1
  BY DEF Bytes
<1>2. /\ b \in Seq(Nat) /\ Len(b) = n /\ \A i \in 1 .. n : b[i] = m + i - 1
  BY DEF Bytes
<1>3. /\ c \in Seq(Nat) /\ Len(c) = m + n /\ \A i \in 1 .. m + n : c[i] = 0 + i - 1
  BY DEF Bytes
<1> HIDE DEF a, b, c
<1>4. /\ a \o b \in Seq(Nat) /\ Len(a \o b) = m + n
      /\ \A i \in 1 .. m + n : (a \o b)[i] = IF i <= m THEN a[i] ELSE b[i - m]
  BY <1>1, <1>2, ConcatProperties
<1>5. ASSUME NEW i \in 1 .. Len(a \o b) PROVE (a \o b)[i] = c[i]
  <2>1. i \in 1 .. m + n /\ c[i] = i - 1
    BY <1>3, <1>4
  <2>2. CASE i <= m
    BY <1>1, <1>4, <2>1, <2>2
  <2>3. CASE ~(i <= m)
    <3>1. i - m \in 1 .. n
      BY <2>1, <2>3
    <3> QED BY <1>2, <1>4, <2>1, <2>3, <3>1
  <2> QED BY <2>2, <2>3
<1>6. a \o b = c
  <2>1. Len(a \o b) = Len(c)
    BY <1>3, <1>4
  <2> QED BY <1>3, <1>4, <1>5, <2>1, SeqEqual
<1> QED BY <1>1, <1>6 DEF a, b, c

\* An end that receives still does after a call that sends.
LEMMA LeftReceiver ==
  ASSUME NEW r, NEW s, NEW e, NEW p, Receiver(r, e, p), Sender(s, e), Left(r, s)
  PROVE  Receiver(s, e, p) /\ Goes(r, s)
<1>1. CallType(r)
  BY DEF Receiver, Sender, SoundCall
<1>2. Goes(r, s)
  BY <1>1, LeftGoes
<1>3. s.c.state \in Receiving
  BY DEF Left, Receiver, Receiving
<1> QED BY <1>2, <1>3 DEF Receiver, Left

\* What a delivery sets when the bytes have been handed over.
SetReceived(t, nxt, queue) == [t EXCEPT !.c.rcv_nxt = nxt, !.c.ooo_queue = queue]

\* rcv_nxt and the queue behind a gap are not part of what is sent.
LEMMA ReceivedSet ==
  ASSUME NEW t, NEW e, NEW k, SoundCall(t, e, k), NEW nxt \in SeqNum, NEW queue,
         NEW s, s = SetReceived(t, nxt, queue)
  PROVE  /\ SoundCall(s, e, k) /\ s.a = t.a /\ s.out = t.out
         /\ s.c.state = t.c.state /\ s.c.iss = t.c.iss /\ s.c.snd_una = t.c.snd_una
         /\ s.c.send_buffer = t.c.send_buffer
         /\ s.c.rcv_nxt = nxt /\ s.c.ooo_queue = queue
<1>1. CallType(t)
  BY DEF SoundCall
<1> DEFINE u == [t EXCEPT !.c.rcv_nxt = nxt]
<1>2. s = [u EXCEPT !.c.ooo_queue = queue]
  BY DEF SetReceived
<1>3. CallType(u) /\ u.a = t.a /\ u.out = t.out /\ u.c = [t.c EXCEPT !.rcv_nxt = nxt]
  BY <1>1 DEF CallType, TcbType
<1> HIDE DEF u
<1>4. CallType(s) /\ s.a = u.a /\ s.out = u.out /\ s.c = [u.c EXCEPT !.ooo_queue = queue]
  <2>1. /\ s.a = u.a /\ s.out = u.out /\ s.c = [u.c EXCEPT !.ooo_queue = queue]
        /\ DOMAIN s = DOMAIN u /\ s.cwnd = u.cwnd
    BY <1>2, <1>3 DEF CallType
  <2>2. TcbType(s.c)
    BY <1>3, <2>1 DEF CallType, TcbType
  <2> QED BY <1>3, <2>1, <2>2 DEF CallType
<1>5. /\ s.c.state = t.c.state /\ s.c.iss = t.c.iss /\ s.c.snd_una = t.c.snd_una
      /\ s.c.send_buffer = t.c.send_buffer /\ s.c.snd_nxt = t.c.snd_nxt
      /\ s.c.retransmit_queue = t.c.retransmit_queue /\ s.c.close_pending = t.c.close_pending
      /\ s.c.rcv_nxt = nxt /\ s.c.ooo_queue = queue
  BY <1>1, <1>3, <1>4 DEF CallType, TcbType
<1>6. SoundCall(s, e, k)
  BY <1>3, <1>4, <1>5 DEF SoundCall, SendSound, Numbered
<1> QED BY <1>3, <1>4, <1>5, <1>6

HandOver(r, bytes) == [r EXCEPT !.a.received = @ \o bytes]

\* Neither are the bytes handed to the application.
LEMMA HandedOver ==
  ASSUME NEW r, NEW e, Sender(r, e), NEW bytes \in Seq(Nat), NEW s, s = HandOver(r, bytes)
  PROVE  /\ Sender(s, e) /\ s.c = r.c /\ s.a.received = r.a.received \o bytes
         /\ s.a.connected = r.a.connected /\ s.a.peer_fin = r.a.peer_fin
         /\ Grows(r.a, s.a)
<1>1. CallType(r) /\ AppType(r.a)
  BY DEF Sender, SoundCall, CallType
<1>2. s.c = r.c /\ s.out = r.out /\ s.cwnd = r.cwnd /\ DOMAIN s = DOMAIN r
      /\ s.a = [r.a EXCEPT !.received = r.a.received \o bytes]
  BY <1>1 DEF HandOver, CallType
<1>3. r.a.received \o bytes \in Seq(Nat)
  BY <1>1, ConcatProperties DEF AppType
<1>4. /\ AppType(s.a) /\ s.a.written = r.a.written /\ s.a.closed = r.a.closed
      /\ s.a.received = r.a.received \o bytes
      /\ s.a.connected = r.a.connected /\ s.a.peer_fin = r.a.peer_fin
  BY <1>1, <1>2, <1>3 DEF AppType
<1>0. Grows(r.a, s.a)
  BY <1>1, <1>4, Constants DEF Grows, AppType
<1>c. TcbType(s.c)
  BY <1>1, <1>2 DEF CallType
<1>5. CallType(s) /\ Grows(r.a, s.a) /\ AppType(s.a)
  <2>1. DOMAIN s = {"c", "a", "out", "cb", "cwnd"} /\ s.cwnd \in Nat
    BY <1>1, <1>2 DEF CallType
  <2>2. AppType(s.a)
    BY <1>4
  <2>3. CallType(s)
    BY <1>c, <2>1, <2>2 DEF CallType
  <2> QED BY <1>0, <2>2, <2>3
<1>6. Sendable(e, r.a) \subseteq Sendable(e, s.a) /\ Kept(e, r.a) \subseteq Kept(e, s.a)
  BY <1>1, <1>5, FinNumbersGrow
<1>7. /\ s.out \in Seq(Sendable(e, s.a)) /\ s.c.retransmit_queue \in Seq(Kept(e, s.a))
  <2>1. s.out = r.out /\ s.c.retransmit_queue = r.c.retransmit_queue
    BY <1>2
  <2>2. r.out \in Seq(Sendable(e, r.a)) /\ r.c.retransmit_queue \in Seq(Kept(e, r.a))
    BY DEF Sender, SoundCall, SendSound
  <2> QED BY <1>6, <2>1, <2>2, SeqMonotonic, Zenon
<1>8. SoundCall(s, e, Fins(s.c.state))
  BY <1>2, <1>4, <1>5, <1>7 DEF Sender, SoundCall, SendSound, Numbered
<1>9. Sender(s, e)
  BY <1>2, <1>4, <1>8 DEF Sender
<1> QED BY <1>2, <1>4, <1>5, <1>9

\* deliver_data, before the TCB notes what is next.
Handed(r, t, e, n) ==
  /\ Sender(t, e) /\ t.c.state \in Receiving
  /\ t.a.connected = r.a.connected /\ t.a.peer_fin = r.a.peer_fin
  /\ t.a.received = Bytes(0, n) /\ Len(t.a.received) = n
  /\ t.c.ooo_queue = r.c.ooo_queue /\ Goes(r, t)

\* deliver_data hands over the next bytes of the stream.
LEMMA DataHanded ==
  ASSUME NEW r, NEW e \in Ends, NEW p, Receiver(r, e, p), NEW len \in Nat
  PROVE  Handed(r, deliver_data(r, Len(r.a.received), len), e, Len(r.a.received) + len)
<1> DEFINE n == Len(r.a.received)
           t == deliver_data(r, n, len)
           bytes == Bytes(n, len)
           h == HandOver(r, bytes)
           v == React(h, "on_receive")
           w == UpdateRcvWnd(v)
<1>1. CallType(r) /\ Sender(r, e) /\ r.a.connected /\ ~r.a.peer_fin
  BY DEF Receiver, Sender, SoundCall
<1>2. n \in Nat /\ r.a.received \in Seq(Nat)
  BY <1>1, LenProperties DEF CallType, AppType
<1>3. bytes \in Seq(Nat) /\ r.a.received \o bytes = Bytes(0, n + len)
      /\ Len(Bytes(0, n + len)) = n + len /\ n <= n + len
  <2>1. r.a.received = Bytes(0, n)
    BY DEF Receiver
  <2>2. n + len \in Nat
    BY <1>2
  <2>3. bytes \in Seq(Nat)
    BY <1>2 DEF Bytes
  <2>4. Bytes(0, n) \o Bytes(n, len) = Bytes(0, n + len) /\ Len(Bytes(0, n + len)) = n + len
    BY <1>2, <2>2, BytesJoin
  <2>5. n <= n + len
    BY <1>2
  <2> QED BY <2>1, <2>3, <2>4, <2>5
<1>4. t = w
  BY <1>1 DEF deliver_data, on_receive, HandOver
<1> HIDE DEF bytes
<1>5. /\ Sender(h, e) /\ h.c = r.c /\ h.a.received = r.a.received \o bytes
      /\ h.a.connected = r.a.connected /\ h.a.peer_fin = r.a.peer_fin /\ Grows(r.a, h.a)
  BY <1>1, <1>3, HandedOver
<1> HIDE DEF h
<1>6. h.c.state # "SYN_SENT"
  BY <1>5 DEF Receiver, Receiving
<1>7. Sender(v, e) /\ Left(h, v)
  BY <1>5, <1>6, Reacts
<1> HIDE DEF v
<1>8. Sender(w, e) /\ Left(v, w)
  <2>1. SoundCall(v, e, Fins(v.c.state)) /\ Fins(v.c.state) \in Nat
    BY <1>7, FinsType DEF Sender
  <2>2. SoundCall(w, e, Fins(v.c.state)) /\ Same(v, w)
    BY <2>1, UpdateWindow
  <2> QED BY <1>7, <2>2, SameSender
<1> HIDE DEF w
<1>9. CallType(h) /\ CallType(v) /\ CallType(w)
  BY <1>5, <1>7, <1>8 DEF Sender, SoundCall
<1>10. Left(h, w)
  BY <1>7, <1>8, <1>9, LeftTransitive
<1>11. w.c.state \in Receiving
  BY <1>5, <1>10 DEF Receiver, Receiving, Left
<1>12. w.a.received = Bytes(0, n + len)
  BY <1>3, <1>5, <1>10 DEF Left
<1>13. Goes(r, w)
  <2>1. Goes(r, h)
    BY <1>2, <1>3, <1>5 DEF Goes, Progress
  <2>2. Goes(h, w)
    BY <1>9, <1>10, LeftGoes
  <2> QED BY <1>1, <1>9, <2>1, <2>2, GoesTransitive
<1> QED BY <1>3, <1>4, <1>5, <1>8, <1>10, <1>11, <1>12, <1>13 DEF Left, Handed

\* The application is handed the next bytes and the TCB moves on.
LEMMA Delivered ==
  ASSUME NEW r, NEW e \in Ends, NEW p, Receiver(r, e, p), AppType(p),
         NEW n, n = Len(r.a.received), NEW len \in Nat, n + len <= p.written,
         NEW t, t = deliver_data(r, n, len),
         NEW queue \in Seq(Ahead(Peer(e), p.written)),
         NEW nxt, nxt = Stream(Peer(e), n + len),
         NEW s, s = SetReceived(t, nxt, queue)
  PROVE  Receiver(s, e, p) /\ Goes(r, s)
<1>1. /\ Sender(t, e) /\ t.c.state \in Receiving
      /\ t.a.connected = r.a.connected /\ t.a.peer_fin = r.a.peer_fin
      /\ t.a.received = Bytes(0, n + len) /\ Len(t.a.received) = n + len
      /\ t.c.ooo_queue = r.c.ooo_queue /\ Goes(r, t)
  <2>1. Handed(r, t, e, n + len)
    BY DataHanded
  <2> QED BY <2>1 DEF Handed
<1>2. CallType(r) /\ CallType(t) /\ n \in Nat
  BY <1>1, LenProperties DEF Receiver, Sender, SoundCall, CallType, AppType
<1>3. nxt \in SeqNum
  <2>1. n + len \in 0 .. MaxWritten + 4
    BY <1>2, Constants DEF AppType
  <2> QED BY <2>1, PeerType, StreamType
<1>4. SoundCall(t, e, Fins(t.c.state))
  BY <1>1 DEF Sender
<1>5. /\ SoundCall(s, e, Fins(t.c.state)) /\ s.a = t.a
      /\ s.c.state = t.c.state /\ s.c.send_buffer = t.c.send_buffer
      /\ s.c.rcv_nxt = nxt /\ s.c.ooo_queue = queue
  BY <1>3, <1>4, ReceivedSet
<1>6. Sender(s, e)
  BY <1>1, <1>5 DEF Sender
<1> QED BY <1>1, <1>5, <1>6 DEF Receiver, Goes, Progress

\* What the numbers of bytes ahead, or under way, mean.
LEMMA Positions ==
  ASSUME NEW e \in Ends, NEW n \in 0 .. MaxWritten, NEW from \in Nat, NEW len \in Nat,
         from + len <= MaxWritten
  PROVE  /\ SeqAdd(Stream(e, from), len) = Stream(e, from + len)
         /\ seq_gt(Stream(e, from), Stream(e, n)) <=> from > n
         /\ seq_lt(Stream(e, from), Stream(e, n)) <=> from < n
         /\ seq_le(Stream(e, from + len), Stream(e, n)) <=> from + len <= n
         /\ from <= n => SeqSub(Stream(e, n), Stream(e, from)) = n - from
<1>1. /\ from \in 0 .. MaxWritten + 3 /\ n \in 0 .. MaxWritten + 3
      /\ from + len \in 0 .. MaxWritten + 3 /\ from + len <= MaxWritten + 4
  BY Constants
<1>2. SeqAdd(Stream(e, from), len) = Stream(e, from + len)
  BY <1>1, StreamAdd
<1>3. /\ seq_gt(Stream(e, from), Stream(e, n)) <=> from > n
      /\ seq_lt(Stream(e, from), Stream(e, n)) <=> from < n
      /\ from <= n => SeqSub(Stream(e, n), Stream(e, from)) = n - from
  BY <1>1, StreamOrder
<1>4. seq_le(Stream(e, from + len), Stream(e, n)) <=> from + len <= n
  BY <1>1, StreamOrder
<1> QED BY <1>2, <1>3, <1>4

\* One turn of deliver_ooo_data keeps what was handed over a prefix.
LEMMA DeliverFirst ==
  ASSUME NEW r, NEW e \in Ends, NEW p, Receiver(r, e, p), AppType(p),
         NEW s, s = deliver_first(r)
  PROVE  Receiver(s, e, p) /\ Goes(r, s)
<1> DEFINE f == Peer(e)
           A == Ahead(f, p.written)
           first == Head(r.c.ooo_queue)
           n == Len(r.a.received)
           skip == SeqSub(r.c.rcv_nxt, first.seq_start)
           t == deliver_data(r, first.from + skip, first.len - skip)
<1>1. CallType(r) /\ n \in Nat /\ n <= p.written /\ r.c.ooo_queue \in Seq(A) /\ f \in Ends
      /\ r.c.rcv_nxt = Stream(f, n)
  BY LenProperties, PeerType DEF Receiver, Sender, SoundCall, CallType, AppType
<1>2. p.written \in Nat /\ p.written <= MaxWritten /\ MaxWritten \in Nat /\ n \in 0 .. MaxWritten
  BY <1>1, Constants DEF AppType
<1>3. Goes(r, r)
  BY <1>1, GoesNowhere
<1>6. ASSUME NEW l \in Nat, NEW u, u = deliver_data(r, n, l)
      PROVE  u.c.ooo_queue = r.c.ooo_queue /\ CallType(u)
  <2>1. Handed(r, u, e, n + l)
    BY <1>6, DataHanded
  <2> QED BY <2>1 DEF Handed, Sender, SoundCall
<1>4. CASE r.c.ooo_queue = <<>> \/ seq_gt(first.seq_start, r.c.rcv_nxt)
  BY <1>3, <1>4 DEF deliver_first
<1>5. CASE r.c.ooo_queue # <<>> /\ ~seq_gt(first.seq_start, r.c.rcv_nxt)
  <2>1. first \in A /\ Tail(r.c.ooo_queue) \in Seq(A)
    BY <1>1, <1>5, HeadTailProperties
  <2>2. /\ first.from \in Nat /\ first.len \in Nat /\ first.from + first.len <= p.written
        /\ first.seq_start = Stream(f, first.from)
        /\ first.seq_end = SeqAdd(first.seq_start, first.len)
    BY <2>1 DEF Ahead, OooEntry
  <2> HIDE DEF first, n, A, f
  <2>3. first.from + first.len <= MaxWritten
    BY <1>2, <2>2
  <2>4. /\ first.seq_end = Stream(f, first.from + first.len) /\ first.from <= n
        /\ skip = n - first.from
        /\ seq_le(first.seq_end, r.c.rcv_nxt) <=> first.from + first.len <= n
    <3>1. /\ SeqAdd(Stream(f, first.from), first.len) = Stream(f, first.from + first.len)
          /\ seq_gt(Stream(f, first.from), Stream(f, n)) <=> first.from > n
          /\ seq_le(Stream(f, first.from + first.len), Stream(f, n)) <=> first.from + first.len <= n
          /\ first.from <= n => SeqSub(Stream(f, n), Stream(f, first.from)) = n - first.from
      BY <1>1, <1>2, <2>2, <2>3, Positions
    <3>2. ~(first.from > n)
      BY <1>1, <1>5, <2>2, <3>1
    <3>3. first.from <= n
      BY <1>1, <2>2, <3>2
    <3> QED BY <1>1, <2>2, <3>1, <3>3
  <2>5. CASE seq_le(first.seq_end, r.c.rcv_nxt)
    <3> DEFINE q == Tail(r.c.ooo_queue)
    <3>1. s = [r EXCEPT !.c.ooo_queue = q]
      BY <1>5, <2>5 DEF deliver_first, first
    <3>2. r.c.rcv_nxt \in SeqNum /\ SoundCall(r, e, Fins(r.c.state))
      BY <1>1 DEF CallType, TcbType, Receiver, Sender
    <3>3. s = SetReceived(r, r.c.rcv_nxt, q)
      BY <1>1, <3>1 DEF SetReceived, CallType, TcbType
    <3> HIDE DEF q
    <3>4. /\ SoundCall(s, e, Fins(r.c.state)) /\ s.a = r.a
          /\ s.c.state = r.c.state /\ s.c.send_buffer = r.c.send_buffer
          /\ s.c.rcv_nxt = r.c.rcv_nxt /\ s.c.ooo_queue = q
      BY <3>2, <3>3, ReceivedSet
    <3>5. Sender(s, e)
      BY <3>4 DEF Receiver, Sender
    <3>6. q \in Seq(Ahead(Peer(e), p.written))
      BY <2>1 DEF q, A, f
    <3> QED BY <1>3, <3>4, <3>5, <3>6 DEF Receiver, Goes, Progress
  <2>6. CASE ~seq_le(first.seq_end, r.c.rcv_nxt)
    <3> DEFINE len == first.len - skip
    <3>1. len \in Nat /\ first.from + skip = n /\ n + len = first.from + first.len
          /\ n + len <= p.written
      BY <1>1, <1>2, <2>2, <2>4, <2>6
    <3>2. t = deliver_data(r, n, len)
      BY <3>1
    <3>3. s = [t EXCEPT !.c.rcv_nxt = first.seq_end, !.c.ooo_queue = Tail(@)]
      BY <1>5, <2>6 DEF deliver_first, first
    <3> HIDE DEF t, len
    <3>4. t.c.ooo_queue = r.c.ooo_queue /\ CallType(t)
      BY <1>6, <3>1, <3>2
    <3> DEFINE q == Tail(r.c.ooo_queue)
               nxt == first.seq_end
    <3>5. s = SetReceived(t, nxt, q)
      BY <3>3, <3>4 DEF SetReceived
    <3>6. q \in Seq(Ahead(Peer(e), p.written)) /\ nxt = Stream(Peer(e), n + len)
      BY <2>1, <2>4, <3>1 DEF A, f
    <3> HIDE DEF q, nxt
    <3>7. n = Len(r.a.received)
      BY DEF n
    <3> QED BY <3>1, <3>2, <3>5, <3>6, <3>7, Delivered
  <2> QED BY <2>5, <2>6
<1> QED BY <1>4, <1>5

\* All its turns.
LEMMA DeliverLoopEnds ==
  ASSUME NEW r, NEW e \in Ends, NEW p, Receiver(r, e, p), AppType(p)
  PROVE  Receiver(deliver_ooo_data(r), e, p) /\ Goes(r, deliver_ooo_data(r))
<1> DEFINE n == Len(r.c.ooo_queue)
           f == DeliverTurns(r, n)
           R == {s \in {f[i] : i \in 0 .. n} : Receiver(s, e, p) /\ Goes(r, s)}
<1>1. n \in Nat /\ CallType(r)
  BY LenProperties DEF Receiver, Sender, SoundCall
<1>2. deliver_ooo_data(r) = f[n]
  BY DEF deliver_ooo_data, DeliverTurns
<1>3. f[0] = r /\ \A i \in 1 .. n : f[i] = deliver_first(f[i - 1])
  <2> HIDE DEF n
  <2> QED BY <1>1, DeliverLoop
<1> HIDE DEF f
<1>4. f[0] \in R
  <2>1. f[0] \in {f[i] : i \in 0 .. n}
    BY <1>1
  <2>2. Goes(r, r)
    BY <1>1, GoesNowhere
  <2> QED BY <1>3, <2>1, <2>2
<1>5. ASSUME NEW i \in 1 .. n, f[i - 1] \in R PROVE f[i] \in R
  <2>1. Receiver(f[i - 1], e, p) /\ Goes(r, f[i - 1])
    BY <1>5
  <2>2. f[i] = deliver_first(f[i - 1])
    BY <1>3
  <2>3. Receiver(f[i], e, p) /\ Goes(f[i - 1], f[i])
    BY <2>1, <2>2, DeliverFirst
  <2>4. CallType(f[i - 1]) /\ CallType(f[i])
    BY <2>1, <2>3 DEF Receiver, Sender, SoundCall
  <2>5. Goes(r, f[i])
    BY <1>1, <2>1, <2>3, <2>4, GoesTransitive
  <2>6. f[i] \in {f[j] : j \in 0 .. n}
    BY <1>1
  <2> QED BY <2>3, <2>5, <2>6
<1> HIDE DEF R, n
<1>6. f[n] \in R
  BY <1>1, <1>4, <1>5, Turns
<1> QED BY <1>2, <1>6 DEF R

\* A call that only sends leaves a receiver one.
LEMMA SameReceiver ==
  ASSUME NEW r, NEW s, NEW e, NEW p, Receiver(r, e, p), Same(r, s),
         SoundCall(s, e, Fins(r.c.state))
  PROVE  Receiver(s, e, p) /\ Goes(r, s)
<1>1. Sender(s, e) /\ Left(r, s)
  BY SameSender DEF Receiver
<1> QED BY <1>1, LeftReceiver

SetDelayed(r, pending) == [r EXCEPT !.c.delayed_ack_pending = pending]

\* Nor is the acknowledgement that is put off.
LEMMA DelayedSet ==
  ASSUME NEW r, CallType(r), NEW pending
  PROVE  Untouched(r, SetDelayed(r, pending))
  BY DEF Untouched, Same, CallType, TcbType, SetDelayed

\* An acknowledgement is sent, or put off, or no longer put off.
LEMMA Acks ==
  ASSUME NEW r, NEW e, NEW k \in Nat, SoundCall(r, e, k),
         NEW s \in {send_ack(r), SetDelayed(r, TRUE), SetDelayed(send_ack(r), FALSE)}
  PROVE  SoundCall(s, e, k) /\ Same(r, s)
<1> DEFINE a == send_ack(r)
<1>1. SoundCall(a, e, k) /\ Same(r, a)
  BY SendAck
<1>2. CallType(r) /\ CallType(a)
  BY <1>1 DEF SoundCall
<1> HIDE DEF a
<1>3. Untouched(r, SetDelayed(r, TRUE)) /\ Untouched(a, SetDelayed(a, FALSE))
  BY <1>2, DelayedSet
<1>4. SoundCall(SetDelayed(r, TRUE), e, k) /\ Same(r, SetDelayed(r, TRUE))
  BY <1>3, UntouchedSound
<1>5. SoundCall(SetDelayed(a, FALSE), e, k) /\ Same(a, SetDelayed(a, FALSE))
  BY <1>1, <1>3, UntouchedSound
<1>6. Same(r, SetDelayed(a, FALSE))
  BY <1>1, <1>5, SameTransitive
<1> QED BY <1>1, <1>4, <1>5, <1>6 DEF a

\* The acknowledgement of data, at once or later.
LEMMA AckDelivered ==
  ASSUME NEW r, NEW e, NEW p, Receiver(r, e, p),
         NEW s \in {send_ack(r), ack_delivered(r)}
  PROVE  Receiver(s, e, p) /\ Goes(r, s)
<1>1. s \in {send_ack(r), SetDelayed(r, TRUE), SetDelayed(send_ack(r), FALSE)}
  BY DEF ack_delivered, SetDelayed
<1>2. SoundCall(r, e, Fins(r.c.state)) /\ Fins(r.c.state) \in Nat
  BY FinsType DEF Receiver, Sender
<1>3. SoundCall(s, e, Fins(r.c.state)) /\ Same(r, s)
  BY <1>1, <1>2, Acks
<1> QED BY <1>3, SameReceiver

\* A segment behind a gap is queued with its numbers.
LEMMA QueuedAhead ==
  ASSUME NEW r, NEW e \in Ends, NEW p, Receiver(r, e, p),
         NEW from \in Nat, NEW len \in Nat, len > 0, from + len <= p.written,
         NEW seq \in SeqNum, seq = Stream(Peer(e), from),
         NEW s, s = add_to_ooo_queue(r, seq, from, len)
  PROVE  Receiver(s, e, p) /\ Goes(r, s)
<1> DEFINE A == Ahead(Peer(e), p.written)
           queue == r.c.ooo_queue
           k == Leading({i \in DOMAIN queue : seq_lt(queue[i].seq_start, seq)}, Len(queue))
           entry == [seq_start |-> seq, seq_end |-> SeqAdd(seq, len), from |-> from, len |-> len]
           q == SubSeq(queue, 1, k) \o <<entry>> \o SubSeq(queue, k + 1, Len(queue))
<1>1. /\ CallType(r) /\ SoundCall(r, e, Fins(r.c.state)) /\ r.c.rcv_nxt \in SeqNum
      /\ queue \in Seq(A) /\ Len(queue) \in Nat
  BY LenProperties DEF Receiver, Sender, SoundCall, CallType, TcbType
<1>2. entry \in A
  <2>1. SeqAdd(seq, len) \in SeqNum
    BY SeqAddIn
  <2> QED BY <2>1 DEF Ahead, OooEntry
<1>3. k \in 0 .. Len(queue)
  BY <1>1, LeadingStops
<1>4. s = r \/ s = SetReceived(r, r.c.rcv_nxt, q)
  <2>1. s = r \/ s = [r EXCEPT !.c.ooo_queue = q]
    BY DEF add_to_ooo_queue
  <2> HIDE DEF q
  <2> QED BY <1>1, <2>1 DEF SetReceived, CallType, TcbType
<1>5. q \in Seq(A)
  <2> HIDE DEF A, k, entry, queue
  <2>1. \A i \in 1 .. Len(queue) : queue[i] \in A
    BY <1>1, ElementOfSeq
  <2>2. SubSeq(queue, 1, k) \in Seq(A)
    BY <1>1, <1>3, <2>1, SubSeqProperties
  <2>3. SubSeq(queue, k + 1, Len(queue)) \in Seq(A)
    BY <1>1, <1>3, <2>1, SubSeqProperties
  <2>4. <<entry>> \in Seq(A)
    BY <1>2
  <2> QED BY <2>2, <2>3, <2>4, ConcatProperties
<1> HIDE DEF q, A
<1>6. Goes(r, r)
  BY <1>1, GoesNowhere
<1>7. CASE s = r
  BY <1>6, <1>7
<1>8. CASE s = SetReceived(r, r.c.rcv_nxt, q)
  <2>1. /\ SoundCall(s, e, Fins(r.c.state)) /\ s.a = r.a
        /\ s.c.state = r.c.state /\ s.c.send_buffer = r.c.send_buffer
        /\ s.c.rcv_nxt = r.c.rcv_nxt /\ s.c.ooo_queue = q
    BY <1>1, <1>8, ReceivedSet
  <2>2. Sender(s, e)
    BY <2>1 DEF Receiver, Sender
  <2> QED BY <1>5, <1>6, <2>1, <2>2 DEF Receiver, Goes, Progress, A
<1> QED BY <1>4, <1>7, <1>8

\* What the peer may send, when it resets nothing.
LEMMA FromPeer ==
  ASSUME NEW e, NEW p, NEW seg \in Sendable(e, p), ~HasRst(seg)
  PROVE  /\ seg.seq \in SeqNum /\ seg.ack \in SeqNum /\ seg.wnd \in Nat
         /\ seg.from \in Nat /\ seg.len \in Nat
         /\ HasSyn(seg) => seg.seq = Isn[e]
         /\ HasFin(seg) => seg.len = 0 /\ p.closed /\ seg.seq \in FinNumbers(e, p.written)
         /\ seg.len > 0 => seg.seq = Stream(e, seg.from) /\ seg.from + seg.len <= p.written
<1>1. seg \in Segment /\ SegmentSound(seg, e, p)
  BY DEF Sendable
<1> QED BY <1>1 DEF Segment, SegmentSound

\* handle_data: in order, partly old, ahead, or not at all.
LEMMA HandleData ==
  ASSUME NEW r, NEW e \in Ends, NEW p, Receiver(r, e, p), AppType(p),
         NEW seg \in Sendable(Peer(e), p), ~HasRst(seg),
         NEW s, s = handle_data(r, seg)
  PROVE  Receiver(s, e, p) /\ Goes(r, s)
<1> DEFINE f == Peer(e)
           n == Len(r.a.received)
           end == SeqAdd(seg.seq, seg.len)
           skip == IF seq_lt(seg.seq, r.c.rcv_nxt) THEN SeqSub(r.c.rcv_nxt, seg.seq) ELSE 0
           t == deliver_data(r, seg.from + skip, seg.len - skip)
           u == [t EXCEPT !.c.rcv_nxt = end]
           ahead == add_to_ooo_queue(r, seg.seq, seg.from, seg.len)
<1>1. CallType(r) /\ n \in Nat /\ n <= p.written /\ r.c.rcv_nxt = Stream(f, n) /\ f \in Ends
  BY LenProperties, PeerType DEF Receiver, Sender, SoundCall, CallType, AppType
<1>2. p.written \in Nat /\ p.written <= MaxWritten /\ MaxWritten \in Nat /\ n \in 0 .. MaxWritten
  BY <1>1, Constants DEF AppType
<1>3. /\ seg.seq \in SeqNum /\ seg.from \in Nat /\ seg.len \in Nat
      /\ seg.len > 0 => seg.seq = Stream(f, seg.from) /\ seg.from + seg.len <= p.written
  BY FromPeer
<1>4. Goes(r, r)
  BY <1>1, GoesNowhere
<1>5. CASE seg.len = 0 \/ seq_le(end, r.c.rcv_nxt)
  BY <1>4, <1>5 DEF handle_data
<1>6. CASE ~(seg.len = 0 \/ seq_le(end, r.c.rcv_nxt))
  <2>1. /\ seg.seq = Stream(f, seg.from) /\ seg.from + seg.len <= p.written /\ seg.len > 0
        /\ seg.from + seg.len <= MaxWritten
    BY <1>2, <1>3, <1>6
  <2>2. /\ SeqAdd(Stream(f, seg.from), seg.len) = Stream(f, seg.from + seg.len)
        /\ seq_lt(Stream(f, seg.from), Stream(f, n)) <=> seg.from < n
        /\ seq_le(Stream(f, seg.from + seg.len), Stream(f, n)) <=> seg.from + seg.len <= n
        /\ seg.from <= n => SeqSub(Stream(f, n), Stream(f, seg.from)) = n - seg.from
    <3> HIDE DEF f, n
    <3> QED BY <1>1, <1>2, <1>3, <2>1, Positions
  <2> HIDE DEF f, n
  <2>3. /\ end = Stream(f, seg.from + seg.len) /\ n < seg.from + seg.len
        /\ skip = IF seg.from < n THEN n - seg.from ELSE 0
    <3>1. end = Stream(f, seg.from + seg.len)
      BY <2>1, <2>2
    <3>2. ~(seg.from + seg.len <= n)
      BY <1>1, <1>6, <2>2, <3>1
    <3>3. skip = IF seg.from < n THEN n - seg.from ELSE 0
      BY <1>1, <1>3, <2>1, <2>2
    <3> QED BY <1>1, <1>3, <3>1, <3>2, <3>3
  <2> HIDE DEF end, skip
  <2>4. CASE SeqAdd(seg.seq, skip) = r.c.rcv_nxt
    <3> DEFINE len == seg.len - skip
    <3>1. seg.from + skip = n
      <4>1. CASE seg.from < n
        BY <1>1, <1>3, <2>3, <4>1
      <4>2. CASE ~(seg.from < n)
        <5>1. skip = 0 /\ SeqAdd(seg.seq, 0) = seg.seq
          BY <1>3, <2>3, <4>2, SeqSpaceAssumption DEF SeqAdd, SeqNum
        <5>2. Stream(f, seg.from) = Stream(f, n)
          BY <1>1, <2>1, <2>4, <5>1
        <5>3. seg.from \in 0 .. MaxWritten + 3 /\ n \in 0 .. MaxWritten + 3
          BY <1>2, <1>3, <2>1
        <5>4. seg.from = n
          BY <1>1, <5>2, <5>3, StreamOrder
        <5> QED BY <1>1, <5>1, <5>4
      <4> QED BY <4>1, <4>2
    <3>2. len \in Nat /\ n + len = seg.from + seg.len /\ n + len <= p.written
      BY <1>1, <1>2, <1>3, <2>1, <2>3, <3>1
    <3>3. t = deliver_data(r, n, len)
      BY <3>1
    <3>4. s = ack_delivered(deliver_ooo_data(u))
      BY <1>6, <2>4 DEF handle_data, end, skip
    <3> HIDE DEF t, len
    <3>5. t.c.ooo_queue = r.c.ooo_queue /\ CallType(t)
      <4>1. Handed(r, t, e, n + len)
        BY <3>2, <3>3, DataHanded DEF n
      <4> QED BY <4>1 DEF Handed, Sender, SoundCall
    <3> DEFINE q == r.c.ooo_queue
    <3>6. u = SetReceived(t, end, q)
      BY <3>5 DEF SetReceived, CallType, TcbType
    <3>7. q \in Seq(Ahead(Peer(e), p.written)) /\ end = Stream(Peer(e), n + len)
          /\ n = Len(r.a.received)
      BY <2>3, <3>2 DEF Receiver, f, n
    <3> HIDE DEF u, q
    <3>8. Receiver(u, e, p) /\ Goes(r, u)
      BY <3>2, <3>3, <3>6, <3>7, Delivered
    <3> DEFINE v == deliver_ooo_data(u)
    <3>9. Receiver(v, e, p) /\ Goes(u, v)
      BY <3>8, DeliverLoopEnds
    <3> HIDE DEF v
    <3>10. Receiver(s, e, p) /\ Goes(v, s)
      BY <3>4, <3>9, AckDelivered DEF v
    <3>11. CallType(u) /\ CallType(v) /\ CallType(s)
      BY <3>8, <3>9, <3>10 DEF Receiver, Sender, SoundCall
    <3>12. Goes(r, v)
      BY <1>1, <3>8, <3>9, <3>11, GoesTransitive
    <3> QED BY <1>1, <3>10, <3>11, <3>12, GoesTransitive
  <2>5. CASE SeqAdd(seg.seq, skip) # r.c.rcv_nxt
    <3>1. s = send_ack(ahead)
      BY <1>6, <2>5 DEF handle_data, end, skip
    <3>2. Receiver(ahead, e, p) /\ Goes(r, ahead)
      BY <1>3, <2>1, QueuedAhead DEF f
    <3> HIDE DEF ahead
    <3>3. Receiver(s, e, p) /\ Goes(ahead, s)
      BY <3>1, <3>2, AckDelivered
    <3>4. CallType(ahead) /\ CallType(s)
      BY <3>2, <3>3 DEF Receiver, Sender, SoundCall
    <3> QED BY <1>1, <3>2, <3>3, <3>4, GoesTransitive
  <2> QED BY <2>4, <2>5
<1> QED BY <1>5, <1>6

-----------------------------------------------------------------------------
(* The end of the stream, and what a call leads to.                        *)

\* The states in which the peer's FIN has been consumed.
Settled == {"CLOSE_WAIT", "CLOSING", "LAST_ACK", "TIME_WAIT"}

\* After a call the end has a sound TCB, or none.
Open(r, e, p) ==
  /\ Sender(r, e) /\ r.c.state \in States \ {NONE}
  /\ ReceiveSound(r.c, r.a, e, p.written) /\ HandedSound(r.a, p)
Gone(r, e, p) ==
  /\ CallType(r) /\ r.c = NoTcb /\ r.out \in Seq(Sendable(e, r.a)) /\ HandedSound(r.a, p)
Outcome(r, e, p) == Open(r, e, p) \/ Gone(r, e, p)

\* An end that receives is open.
LEMMA ReceiverOpen ==
  ASSUME NEW r, NEW e, NEW p, Receiver(r, e, p) PROVE Open(r, e, p)
<1>1. r.c.state \in States \ {NONE} /\ r.c.state \notin Handshake
  BY DEF Receiver, Receiving, States, NONE, Handshake
<1>2. ReceiveSound(r.c, r.a, e, p.written)
  BY <1>1 DEF Receiver, ReceiveSound
<1> QED BY <1>1, <1>2 DEF Receiver, Open, HandedSound

\* An open end in a receiving state receives.
LEMMA OpenReceiver ==
  ASSUME NEW r, NEW e, NEW p, Open(r, e, p), r.c.state \in Receiving PROVE Receiver(r, e, p)
  BY DEF Open, Receiver, ReceiveSound, HandedSound

\* An end that has consumed the FIN needs no rcv_nxt.
LEMMA SettledOpen ==
  ASSUME NEW r, NEW e, NEW p, Sender(r, e), r.c.state \in Settled,
         r.c.ooo_queue \in Seq(Ahead(Peer(e), p.written)), HandedSound(r.a, p)
  PROVE  Open(r, e, p)
<1>1. /\ r.c.state \in States \ {NONE} /\ r.c.state \notin Handshake
      /\ r.c.state \notin Receiving /\ r.c.state # "SYN_RCVD"
  BY DEF Settled, Receiving, States, NONE, Handshake
<1>2. ReceiveSound(r.c, r.a, e, p.written)
  BY <1>1 DEF ReceiveSound
<1> QED BY <1>1, <1>2 DEF Open

\* A change of state that counts no fewer FINs.
LEMMA StateMoved ==
  ASSUME NEW r, NEW e, Sender(r, e), NEW state \in States \cup {"CLOSED"},
         Fins(r.c.state) <= Fins(state),
         state \in Closing => r.a.closed /\ r.c.send_buffer = 0,
         NEW s, s = SetState(r, state)
  PROVE  /\ Sender(s, e) /\ s.a = r.a /\ s.c.state = state
         /\ s.c.iss = r.c.iss /\ s.c.snd_una = r.c.snd_una /\ s.c.rcv_nxt = r.c.rcv_nxt
         /\ s.c.ooo_queue = r.c.ooo_queue
<1>1. /\ SoundCall(r, e, Fins(r.c.state)) /\ CallType(r)
      /\ Fins(r.c.state) \in Nat /\ Fins(state) \in Nat
  BY FinsType DEF Sender, SoundCall
<1>2. SoundCall(r, e, Fins(state))
  BY <1>1, MoreFins
<1>3. /\ SoundCall(s, e, Fins(state)) /\ s.c = [r.c EXCEPT !.state = state] /\ s.a = r.a
      /\ s.c.state = state
  BY <1>2, StateSet
<1>4. /\ s.c.iss = r.c.iss /\ s.c.snd_una = r.c.snd_una /\ s.c.rcv_nxt = r.c.rcv_nxt
      /\ s.c.ooo_queue = r.c.ooo_queue /\ s.c.send_buffer = r.c.send_buffer
  BY <1>1, <1>3 DEF CallType, TcbType
<1>5. Sender(s, e)
  BY <1>3, <1>4 DEF Sender
<1> QED BY <1>3, <1>4, <1>5

SetApp(r, b) == [r EXCEPT !.a = b]

\* A change of the application's side that writes and closes nothing.
LEMMA AppSet ==
  ASSUME NEW r, NEW e, Sender(r, e), NEW b, AppType(b),
         b.written = r.a.written, b.closed = r.a.closed, NEW s, s = SetApp(r, b)
  PROVE  Sender(s, e) /\ s.c = r.c /\ s.a = b /\ Grows(r.a, b)
<1>1. CallType(r) /\ AppType(r.a)
  BY DEF Sender, SoundCall, CallType
<1>2. s.c = r.c /\ s.out = r.out /\ s.cwnd = r.cwnd /\ DOMAIN s = DOMAIN r /\ s.a = b
  BY <1>1 DEF SetApp, CallType
<1>3. Grows(r.a, b)
  BY <1>1, Constants DEF Grows, AppType
<1>4. CallType(s)
  <2>1. DOMAIN s = {"c", "a", "out", "cb", "cwnd"} /\ s.cwnd \in Nat /\ TcbType(s.c)
    BY <1>1, <1>2 DEF CallType
  <2> QED BY <1>2, <2>1 DEF CallType
<1>5. Sendable(e, r.a) \subseteq Sendable(e, b) /\ Kept(e, r.a) \subseteq Kept(e, b)
  BY <1>1, <1>3, FinNumbersGrow
<1>6. s.out \in Seq(Sendable(e, s.a)) /\ s.c.retransmit_queue \in Seq(Kept(e, s.a))
  BY <1>2, <1>5, SeqMonotonic DEF Sender, SoundCall, SendSound
<1>7. SoundCall(s, e, Fins(s.c.state))
  BY <1>2, <1>4, <1>6 DEF Sender, SoundCall, SendSound, Numbered
<1>8. Sender(s, e)
  BY <1>2, <1>7 DEF Sender
<1> QED BY <1>2, <1>3, <1>8

\* The FIN that is next is behind all that was written.
LEMMA NextFin ==
  ASSUME NEW r, NEW e \in Ends, NEW p, Receiver(r, e, p), AppType(p),
         NEW seg \in Sendable(Peer(e), p), ~HasRst(seg), FinIsNext(r, seg)
  PROVE  p.closed /\ Len(r.a.received) = p.written
<1> DEFINE f == Peer(e)
           n == Len(r.a.received)
<1>1. /\ n \in Nat /\ n <= p.written /\ r.c.rcv_nxt = Stream(f, n) /\ f \in Ends
      /\ p.written \in Nat /\ p.written <= MaxWritten /\ MaxWritten \in Nat
  BY LenProperties, PeerType, Constants DEF Receiver, Sender, SoundCall, CallType, AppType
<1>2. p.closed /\ seg.len = 0 /\ seg.seq \in FinNumbers(f, p.written) /\ seg.seq \in SeqNum
  BY FromPeer DEF FinIsNext
<1>3. seg.seq = Stream(f, n)
  <2>1. SeqAdd(seg.seq, 0) = seg.seq
    BY <1>2, SeqSpaceAssumption DEF SeqAdd, SeqNum
  <2> QED BY <1>1, <1>2, <2>1 DEF FinIsNext
<1> HIDE DEF f, n
<1>4. PICK j \in 0 .. 3 : Stream(f, n) = Stream(f, p.written + j)
  <2>1. Stream(f, n) # Isn[f]
    <3>1. n \in 0 .. MaxWritten + 4
      BY <1>1
    <3> QED BY <1>1, <3>1, StreamType
  <2> QED BY <1>2, <1>3, <2>1 DEF FinNumbers
<1>5. n = p.written + j
  <2>1. n \in 0 .. MaxWritten + 3 /\ p.written + j \in 0 .. MaxWritten + 3
    BY <1>1
  <2> QED BY <1>1, <1>4, <2>1, StreamOrder
<1>6. n = p.written
  BY <1>1, <1>5
<1> QED BY <1>2, <1>6 DEF n

\* The FIN is consumed and acknowledged.
LEMMA FinTaken ==
  ASSUME NEW r, NEW e \in Ends, NEW p, Receiver(r, e, p),
         p.closed, Len(r.a.received) = p.written, NEW s, s = TakeFin(r)
  PROVE  /\ Sender(s, e) /\ s.c.state = r.c.state
         /\ s.c.ooo_queue \in Seq(Ahead(Peer(e), p.written))
         /\ HandedSound(s.a, p) /\ s.a.connected = r.a.connected /\ Progress(r, s)
         /\ s.a.closed = r.a.closed /\ (r.c.send_buffer = 0 => s.c.send_buffer = 0)
<1> DEFINE nxt == SeqAdd(r.c.rcv_nxt, 1)
           b == [r.a EXCEPT !.peer_fin = TRUE]
           v == SetReceived(r, nxt, r.c.ooo_queue)
           w == SetApp(v, b)
           x == send_ack(w)
<1>1. /\ Sender(r, e) /\ CallType(r) /\ AppType(r.a) /\ nxt \in SeqNum
      /\ SoundCall(r, e, Fins(r.c.state))
  BY SeqAddIn DEF Receiver, Sender, SoundCall, CallType, TcbType
<1>2. AppType(b) /\ b.written = r.a.written /\ b.closed = r.a.closed
      /\ b.received = r.a.received /\ b.connected = r.a.connected
  BY <1>1 DEF AppType
<1>3. s = x
  <2> DEFINE t == [r EXCEPT !.c.rcv_nxt = nxt]
  <2>1. t = v
    BY <1>1 DEF SetReceived, CallType, TcbType
  <2>2. s = send_ack([t EXCEPT !.a.peer_fin = TRUE]) /\ t.a = r.a
    BY <1>1 DEF TakeFin, CallType
  <2> HIDE DEF t
  <2>3. [t EXCEPT !.a.peer_fin = TRUE] = [t EXCEPT !.a = b]
    BY <2>2
  <2> HIDE DEF b, v
  <2> QED BY <2>1, <2>2, <2>3 DEF SetApp
<1> HIDE DEF nxt, b
<1>4. /\ SoundCall(v, e, Fins(r.c.state)) /\ v.a = r.a
      /\ v.c.state = r.c.state /\ v.c.send_buffer = r.c.send_buffer
      /\ v.c.ooo_queue = r.c.ooo_queue
  BY <1>1, ReceivedSet
<1> HIDE DEF v
<1>5. Sender(v, e)
  BY <1>1, <1>4 DEF Sender
<1>6. Sender(w, e) /\ w.c = v.c /\ w.a = b /\ Grows(v.a, b)
  BY <1>2, <1>4, <1>5, AppSet
<1> HIDE DEF w
<1>7. SoundCall(x, e, Fins(w.c.state)) /\ Same(w, x)
  <2>1. SoundCall(w, e, Fins(w.c.state)) /\ Fins(w.c.state) \in Nat
    BY <1>6, FinsType DEF Sender
  <2> QED BY <2>1, SendAck
<1>8. Sender(x, e)
  BY <1>6, <1>7, SameSender
<1> HIDE DEF x
<1>9. /\ x.a = b /\ x.c.state = r.c.state /\ x.c.ooo_queue = r.c.ooo_queue
      /\ r.c.send_buffer = 0 => x.c.send_buffer = 0
  BY <1>4, <1>6, <1>7 DEF Same
<1>10. HandedSound(b, p)
  BY <1>2 DEF HandedSound, Receiver
<1>11. Progress(r, x)
  <2>1. Goes(r, r)
    BY <1>1, GoesNowhere
  <2> QED BY <1>2, <1>4, <1>6, <1>9, <2>1 DEF Goes, Progress
<1> QED BY <1>2, <1>3, <1>8, <1>9, <1>10, <1>11 DEF Receiver

\* on_close leaves the connection to the TCB.
Quits(r, s) ==
  /\ CallType(s) /\ Grows(r.a, s.a)
  /\ s.a.received = r.a.received /\ s.a.peer_fin = r.a.peer_fin
  /\ s.c.ooo_queue = r.c.ooo_queue
  /\ \/ s.c.state = r.c.state
     \/ r.c.state = "ESTABLISHED" /\ s.c.state = "FIN_WAIT_1"
     \/ r.c.state = "CLOSE_WAIT" /\ s.c.state = "LAST_ACK"

\* on_close: the application may close in it.
LEMMA OnClose ==
  ASSUME NEW r, NEW e \in Ends, Sender(r, e), r.a.connected => r.c.state # "SYN_SENT",
         NEW s, s = on_close(r)
  PROVE  Sender(s, e) /\ Quits(r, s)
<1>1. CallType(r)
  BY DEF Sender, SoundCall
<1>2. CASE ~r.a.connected
  <2>1. s = r
    BY <1>2 DEF on_close
  <2>2. Grows(r.a, r.a)
    BY <1>1, Constants DEF Grows, CallType, AppType
  <2> QED BY <1>1, <2>1, <2>2 DEF Quits
<1>3. CASE r.a.connected
  <2> DEFINE t == React(r, "on_close")
             b == [t.a EXCEPT !.connected = FALSE]
  <2>1. Sender(t, e) /\ Left(r, t)
    BY <1>3, Reacts
  <2>2. s = [t EXCEPT !.a.connected = FALSE]
    BY <1>3 DEF on_close
  <2> HIDE DEF t
  <2>3. AppType(t.a) /\ CallType(t)
    BY <2>1 DEF Sender, SoundCall, CallType
  <2>4. /\ AppType(b) /\ b.written = t.a.written /\ b.closed = t.a.closed
        /\ b.received = t.a.received /\ b.peer_fin = t.a.peer_fin
    BY <2>3 DEF AppType
  <2>5. s = SetApp(t, b)
    BY <2>2 DEF SetApp
  <2> HIDE DEF b
  <2>6. Sender(s, e) /\ s.c = t.c /\ s.a = b
    BY <2>1, <2>4, <2>5, AppSet
  <2>7. Grows(r.a, b)
    BY <2>1, <2>4 DEF Left, Grows
  <2>8. CallType(s)
    BY <2>6 DEF Sender, SoundCall
  <2> QED BY <2>1, <2>4, <2>6, <2>7, <2>8 DEF Quits, Left
<1> QED BY <1>2, <1>3

\* start_time_wait_timer.
LEMMA TimeWaits ==
  ASSUME NEW r, NEW e, NEW p, Sender(r, e), r.a.closed, r.c.send_buffer = 0,
         Fins(r.c.state) <= 2, HandedSound(r.a, p), NEW s, s = TimeWait(r)
  PROVE  Open(s, e, p) /\ s.a = r.a
<1> DEFINE t == SetState(r, "TIME_WAIT")
           u == [t EXCEPT !.c.send_buffer = 0]
           cleared == [u EXCEPT !.c.send_read = 0]
           v == [cleared EXCEPT !.c.retransmit_queue = <<>>]
<1>1. Fins("TIME_WAIT") = 2 /\ "TIME_WAIT" \in States
  BY DEF Fins, Handshake, States
<1>2. Sender(t, e) /\ t.a = r.a /\ t.c.state = "TIME_WAIT"
  BY <1>1, StateMoved
<1>3. s = [v EXCEPT !.c.ooo_queue = <<>>]
  BY DEF TimeWait, SetState
<1>4. CallType(t) /\ CallType(r) /\ SoundCall(t, e, 2)
  BY <1>1, <1>2 DEF Sender, SoundCall
<1>5. t.c.send_buffer = 0
  BY <1>4 DEF SetState, CallType, TcbType
<1> HIDE DEF t
<1>6. CallType(u) /\ u.a = t.a /\ u.out = t.out /\ u.c = [t.c EXCEPT !.send_buffer = 0]
  BY <1>4, Constants DEF CallType, TcbType
<1> HIDE DEF u
<1>7. /\ CallType(v) /\ v.a = t.a /\ v.out = t.out
      /\ v.c = [cleared.c EXCEPT !.retransmit_queue = <<>>]
      /\ cleared.c = [u.c EXCEPT !.send_read = 0] /\ CallType(cleared)
  <2>1. /\ CallType(cleared) /\ cleared.a = t.a /\ cleared.out = t.out
        /\ cleared.c = [u.c EXCEPT !.send_read = 0]
    BY <1>6, Constants DEF CallType, TcbType
  <2> HIDE DEF cleared
  <2> QED BY <2>1 DEF CallType, TcbType
<1> HIDE DEF v, cleared
<1>8. CallType(s) /\ s.a = v.a /\ s.out = v.out /\ s.c = [v.c EXCEPT !.ooo_queue = <<>>]
  <2>1. /\ s.a = v.a /\ s.out = v.out /\ s.c = [v.c EXCEPT !.ooo_queue = <<>>]
        /\ DOMAIN s = DOMAIN v /\ s.cwnd = v.cwnd
    BY <1>3, <1>7 DEF CallType
  <2>2. TcbType(s.c)
    BY <1>7, <2>1 DEF CallType, TcbType
  <2> QED BY <1>7, <2>1, <2>2 DEF CallType
<1>9. /\ s.c.state = t.c.state /\ s.c.send_buffer = t.c.send_buffer
      /\ s.c.snd_nxt = t.c.snd_nxt /\ s.c.close_pending = t.c.close_pending
      /\ s.c.retransmit_queue = <<>> /\ s.c.ooo_queue = <<>>
  <2>1. /\ cleared.c.state = t.c.state /\ cleared.c.send_buffer = t.c.send_buffer
        /\ cleared.c.snd_nxt = t.c.snd_nxt /\ cleared.c.close_pending = t.c.close_pending
    BY <1>4, <1>5, <1>6, <1>7 DEF CallType, TcbType
  <2> QED BY <1>7, <1>8, <2>1 DEF CallType, TcbType
<1>10. SoundCall(s, e, 2)
  <2>1. <<>> \in Seq(Kept(e, s.a))
    OBVIOUS
  <2> QED BY <1>4, <1>7, <1>8, <1>9, <2>1 DEF SoundCall, SendSound, Numbered
<1>11. Sender(s, e)
  BY <1>1, <1>2, <1>5, <1>7, <1>8, <1>9, <1>10 DEF Sender
<1>12. s.c.ooo_queue \in Seq(Ahead(Peer(e), p.written))
  BY <1>9
<1>13. s.c.state \in Settled /\ s.a = r.a
  BY <1>2, <1>7, <1>8, <1>9 DEF Settled
<1> QED BY <1>11, <1>12, <1>13, SettledOpen

-----------------------------------------------------------------------------
(* The handlers of an established connection.                              *)

\* The acknowledgement in a segment.
LEMMA AckTaken ==
  ASSUME NEW r, NEW e \in Ends, NEW p, Sender(r, e),
         NEW seg \in Sendable(Peer(e), p), ~HasRst(seg), NEW s, s = IfAck(r, seg)
  PROVE  Sender(s, e) /\ Left(r, s)
<1>1. seg.ack \in SeqNum /\ seg.wnd \in Nat
  BY FromPeer
<1>2. CASE s = process_ack(r, seg.ack, seg.wnd)
  BY <1>1, <1>2, AckProcessed
<1>3. CASE s = r
  <2>1. CallType(r)
    BY DEF Sender, SoundCall
  <2> QED BY <1>3, <2>1, Constants DEF Left, Grows, CallType, AppType
<1> QED BY <1>2, <1>3 DEF IfAck

\* The acknowledgement and then the data, as the state handlers take them.
LEMMA DataTaken ==
  ASSUME NEW r, NEW e \in Ends, NEW p, Receiver(r, e, p), AppType(p),
         NEW seg \in Sendable(Peer(e), p), ~HasRst(seg),
         NEW s, s = handle_data(IfAck(r, seg), seg)
  PROVE  Receiver(s, e, p) /\ Goes(r, s)
<1> DEFINE t == IfAck(r, seg)
<1>1. Sender(t, e) /\ Left(r, t)
  BY AckTaken DEF Receiver
<1> HIDE DEF t
<1>2. Receiver(t, e, p) /\ Goes(r, t)
  BY <1>1, LeftReceiver
<1>3. Receiver(s, e, p) /\ Goes(t, s)
  BY <1>2, HandleData DEF t
<1>4. CallType(r) /\ CallType(t) /\ CallType(s)
  BY <1>2, <1>3 DEF Receiver, Sender, SoundCall
<1> QED BY <1>2, <1>3, <1>4, GoesTransitive

\* handle_established.
LEMMA HandleEstablished ==
  ASSUME NEW r, NEW e \in Ends, NEW p, Receiver(r, e, p), AppType(p),
         NEW seg \in Sendable(Peer(e), p), ~HasRst(seg),
         NEW t, t = handle_established(r, seg)
  PROVE  Open(t, e, p) /\ Progress(r, t)
<1> DEFINE s == handle_data(IfAck(r, seg), seg)
           fin == TakeFin(s)
           u == SetState(fin, "CLOSE_WAIT")
<1>1. Receiver(s, e, p) /\ Goes(r, s)
  BY DataTaken
<1>2. \/ t = s
      \/ FinIsNext(s, seg) /\ t = on_close(u)
  BY DEF handle_established, SetState
<1> HIDE DEF s
<1>3. CASE t = s
  BY <1>1, <1>3, ReceiverOpen DEF Goes
<1>4. CASE FinIsNext(s, seg) /\ t = on_close(u)
  <2>1. p.closed /\ Len(s.a.received) = p.written
    BY <1>1, <1>4, NextFin
  <2>2. /\ Sender(fin, e) /\ fin.c.state = s.c.state
        /\ fin.c.ooo_queue \in Seq(Ahead(Peer(e), p.written))
        /\ HandedSound(fin.a, p) /\ Progress(s, fin)
    BY <1>1, <2>1, FinTaken
  <2> HIDE DEF fin
  <2>3. "CLOSE_WAIT" \in States /\ "CLOSE_WAIT" \notin Closing
        /\ Fins(fin.c.state) <= Fins("CLOSE_WAIT")
    BY <1>1, <2>2 DEF Receiver, Receiving, States, Closing, Fins, Handshake
  <2>4. Sender(u, e) /\ u.a = fin.a /\ u.c.state = "CLOSE_WAIT"
        /\ u.c.ooo_queue = fin.c.ooo_queue
    BY <2>2, <2>3, StateMoved
  <2> HIDE DEF u
  <2>5. Sender(t, e) /\ Quits(u, t)
    <3>1. u.c.state # "SYN_SENT"
      BY <2>4
    <3> QED BY <1>4, <2>4, <3>1, OnClose
  <2>6. t.c.state \in Settled
    BY <2>4, <2>5 DEF Quits, Settled
  <2>7. HandedSound(t.a, p)
    BY <2>2, <2>4, <2>5 DEF Quits, HandedSound
  <2>8. Open(t, e, p)
    BY <2>2, <2>4, <2>5, <2>6, <2>7, SettledOpen DEF Quits
  <2>9. CallType(r) /\ CallType(s) /\ CallType(fin) /\ CallType(t)
    BY <1>1, <2>2, <2>5 DEF Receiver, Sender, SoundCall
  <2>10. Progress(fin, t)
    <3>1. Len(fin.a.received) \in Nat
      BY <2>9, LenProperties DEF CallType, AppType
    <3> QED BY <2>4, <2>5, <3>1 DEF Quits, Progress
  <2> QED BY <1>1, <2>2, <2>8, <2>9, <2>10, ProgressTransitive DEF Goes
<1> QED BY <1>2, <1>3, <1>4

\* The peer's FIN, when this end has sent its own.
LEMMA BothFins ==
  ASSUME NEW r, NEW e \in Ends, NEW p, Receiver(r, e, p), AppType(p),
         r.c.state \in {"FIN_WAIT_1", "FIN_WAIT_2"},
         NEW seg \in Sendable(Peer(e), p), ~HasRst(seg), FinIsNext(r, seg),
         NEW s \in {TimeWait(TakeFin(r)), SetState(TakeFin(r), "CLOSING")}
  PROVE  Open(s, e, p) /\ Progress(r, s)
<1> DEFINE fin == TakeFin(r)
<1>1. p.closed /\ Len(r.a.received) = p.written
  BY NextFin
<1>2. r.a.closed = TRUE \/ r.a.closed
  BY DEF Receiver, Sender, Closing
<1>3. /\ Sender(fin, e) /\ fin.c.state = r.c.state
      /\ fin.c.ooo_queue \in Seq(Ahead(Peer(e), p.written))
      /\ HandedSound(fin.a, p) /\ Progress(r, fin)
  BY <1>1, FinTaken
<1> HIDE DEF fin
<1>4. fin.a.closed /\ fin.c.send_buffer = 0 /\ Fins(fin.c.state) = 2
  BY <1>3 DEF Sender, Closing, Fins, Handshake
<1>5. CASE s = TimeWait(fin)
  <2>1. Open(s, e, p) /\ s.a = fin.a
    BY <1>3, <1>4, <1>5, TimeWaits
  <2> QED BY <1>3, <2>1 DEF Progress
<1>6. CASE s = SetState(fin, "CLOSING")
  <2>1. Fins("CLOSING") = 2 /\ "CLOSING" \in States /\ "CLOSING" \in Settled
    BY DEF Fins, Handshake, States, Settled
  <2>2. /\ Sender(s, e) /\ s.a = fin.a /\ s.c.state = "CLOSING"
        /\ s.c.ooo_queue = fin.c.ooo_queue
    BY <1>3, <1>4, <1>6, <2>1, StateMoved
  <2>3. Open(s, e, p)
    BY <1>3, <2>1, <2>2, SettledOpen
  <2> QED BY <1>3, <2>2, <2>3 DEF Progress
<1> QED BY <1>5, <1>6 DEF fin

\* handle_fin_wait_1 and handle_fin_wait_2.
LEMMA HandleFinWait ==
  ASSUME NEW r, NEW e \in Ends, NEW p, Receiver(r, e, p), AppType(p),
         NEW seg \in Sendable(Peer(e), p), ~HasRst(seg), NEW t,
         \/ r.c.state = "FIN_WAIT_1" /\ t = handle_fin_wait_1(r, seg)
         \/ r.c.state = "FIN_WAIT_2" /\ t = handle_fin_wait_2(r, seg)
  PROVE  Open(t, e, p) /\ Progress(r, t)
<1> DEFINE s == handle_data(IfAck(r, seg), seg)
           fin == TakeFin(s)
<1>1. Receiver(s, e, p) /\ Goes(r, s)
  BY DataTaken
<1>2. \/ t = s
      \/ FinIsNext(s, seg) /\ t \in {TimeWait(fin), SetState(fin, "CLOSING")}
      \/ r.c.state = "FIN_WAIT_1" /\ t = SetState(s, "FIN_WAIT_2")
  BY DEF handle_fin_wait_1, handle_fin_wait_2, SetState
<1>3. s.c.state = r.c.state /\ r.c.state \in {"FIN_WAIT_1", "FIN_WAIT_2"}
  BY <1>1 DEF Goes
<1> HIDE DEF s
<1>4. CallType(r) /\ CallType(s)
  BY <1>1 DEF Receiver, Sender, SoundCall
<1>5. CASE t = s
  BY <1>1, <1>5, ReceiverOpen DEF Goes
<1>6. CASE FinIsNext(s, seg) /\ t \in {TimeWait(fin), SetState(fin, "CLOSING")}
  <2>1. Open(t, e, p) /\ Progress(s, t)
    BY <1>1, <1>3, <1>6, BothFins
  <2>2. CallType(t)
    BY <2>1 DEF Open, Sender, SoundCall
  <2> QED BY <1>1, <1>4, <2>1, <2>2, ProgressTransitive DEF Goes
<1>7. CASE r.c.state = "FIN_WAIT_1" /\ t = SetState(s, "FIN_WAIT_2")
  <2>1. /\ Fins("FIN_WAIT_1") = 2 /\ Fins("FIN_WAIT_2") = 2 /\ "FIN_WAIT_2" \in States
        /\ s.a.closed /\ s.c.send_buffer = 0
    BY <1>1, <1>3, <1>7 DEF Fins, Handshake, States, Receiver, Sender, Closing
  <2>2. /\ Sender(t, e) /\ t.a = s.a /\ t.c.state = "FIN_WAIT_2"
        /\ t.c.rcv_nxt = s.c.rcv_nxt /\ t.c.ooo_queue = s.c.ooo_queue
    BY <1>1, <1>3, <1>7, <2>1, StateMoved DEF Receiver
  <2>3. Receiver(t, e, p)
    BY <1>1, <2>2 DEF Receiver, Receiving
  <2> QED BY <1>1, <2>2, <2>3, ReceiverOpen DEF Goes, Progress
<1> QED BY <1>2, <1>5, <1>6, <1>7

-----------------------------------------------------------------------------
(* The handlers behind the peer's FIN.                                     *)

\* An end that has consumed the FIN, after a call that sends.
LEMMA LeftSettled ==
  ASSUME NEW r, NEW s, NEW e, NEW p, Open(r, e, p), r.c.state \in Settled,
         Sender(s, e), Left(r, s)
  PROVE  Open(s, e, p) /\ Progress(r, s)
<1>1. s.c.state \in Settled /\ HandedSound(s.a, p)
  BY DEF Left, Settled, Open, HandedSound
<1>2. s.c.ooo_queue \in Seq(Ahead(Peer(e), p.written))
  BY DEF Left, Open, ReceiveSound
<1>3. Goes(r, s)
  BY LeftGoes DEF Open, Sender, SoundCall
<1> QED BY <1>1, <1>2, <1>3, SettledOpen DEF Goes

\* The TCB is erased.
LEMMA Dropped ==
  ASSUME NEW r, NEW e, NEW p, Sender(r, e), HandedSound(r.a, p),
         NEW s, s = [r EXCEPT !.c = NoTcb]
  PROVE  Gone(s, e, p) /\ s.a = r.a
<1>1. CallType(r) /\ r.out \in Seq(Sendable(e, r.a))
  BY DEF Sender, SoundCall
<1>2. /\ s.c = NoTcb /\ s.a = r.a /\ s.out = r.out /\ s.cwnd = r.cwnd
      /\ DOMAIN s = DOMAIN r
  BY <1>1 DEF CallType
<1>3. TcbType(NoTcb)
  BY Constants, SeqSpaceAssumption DEF TcbType, NoTcb, NewTcb, NONE, States, SeqNum
<1> HIDE DEF NoTcb
<1>4. CallType(s)
  BY <1>1, <1>2, <1>3 DEF CallType
<1> QED BY <1>1, <1>2, <1>4 DEF Gone

\* The handlers of the states in which the FIN has been consumed.
LEMMA HandleSettled ==
  ASSUME NEW r, NEW e \in Ends, NEW p, Open(r, e, p),
         NEW seg \in Sendable(Peer(e), p), ~HasRst(seg), NEW t,
         \/ r.c.state = "CLOSE_WAIT" /\ t = handle_close_wait(r, seg)
         \/ r.c.state = "CLOSING" /\ t = handle_closing(r, seg)
         \/ r.c.state = "LAST_ACK" /\ t = handle_last_ack(r, seg)
         \/ r.c.state = "TIME_WAIT" /\ t = handle_time_wait(r, seg)
  PROVE  Outcome(t, e, p) /\ Progress(r, t)
<1> DEFINE s == IfAck(r, seg)
<1>1. r.c.state \in Settled /\ Sender(r, e) /\ CallType(r)
  BY DEF Settled, Open, Sender, SoundCall
<1>2. Sender(s, e) /\ Left(r, s)
  BY <1>1, AckTaken
<1>3. \/ t \in {r, s, send_ack(r)}
      \/ r.c.state = "CLOSING" /\ t = TimeWait(s)
      \/ r.c.state = "LAST_ACK" /\ t = [s EXCEPT !.c = NoTcb]
  BY DEF handle_close_wait, handle_closing, handle_last_ack, handle_time_wait
<1> HIDE DEF s
<1>4. Open(s, e, p) /\ Progress(r, s)
  BY <1>1, <1>2, LeftSettled
<1>5. CASE t = s
  BY <1>4, <1>5 DEF Outcome
<1>6. CASE t = r
  BY <1>1, <1>6, GoesNowhere DEF Outcome, Goes
<1>7. CASE t = send_ack(r)
  <2>1. SoundCall(t, e, Fins(r.c.state)) /\ Same(r, t)
    <3>1. SoundCall(r, e, Fins(r.c.state)) /\ Fins(r.c.state) \in Nat
      BY <1>1, FinsType DEF Sender
    <3> QED BY <1>7, <3>1, SendAck
  <2>2. Sender(t, e) /\ Left(r, t)
    BY <1>1, <2>1, SameSender
  <2> QED BY <1>1, <2>2, LeftSettled DEF Outcome
<1>8. CASE r.c.state = "CLOSING" /\ t = TimeWait(s)
  <2>1. s.c.state = "CLOSING" /\ HandedSound(s.a, p)
    BY <1>2, <1>4, <1>8 DEF Left, Open
  <2>2. s.a.closed /\ s.c.send_buffer = 0 /\ Fins(s.c.state) <= 2
    BY <1>2, <2>1 DEF Sender, Closing, Fins, Handshake
  <2>3. Open(t, e, p) /\ t.a = s.a
    BY <1>2, <1>8, <2>1, <2>2, TimeWaits
  <2> QED BY <1>4, <2>3 DEF Outcome, Progress
<1>9. CASE r.c.state = "LAST_ACK" /\ t = [s EXCEPT !.c = NoTcb]
  <2>1. Gone(t, e, p) /\ t.a = s.a
    BY <1>2, <1>4, <1>9, Dropped DEF Open
  <2> QED BY <1>4, <2>1 DEF Outcome, Progress
<1> QED BY <1>3, <1>5, <1>6, <1>7, <1>8, <1>9

\* A connection is reset: the application learns of it, the TCB goes.
LEMMA HandleRst ==
  ASSUME NEW r, NEW e \in Ends, NEW p, Open(r, e, p), NEW seg, NEW t, t = handle_rst(r, seg)
  PROVE  Outcome(t, e, p) /\ Progress(r, t)
<1> DEFINE u == SetState(r, "CLOSED")
           v == on_close(u)
<1>1. Sender(r, e) /\ CallType(r) /\ HandedSound(r.a, p)
  BY DEF Open, Sender, SoundCall
<1>2. CASE t = r
  BY <1>1, <1>2, GoesNowhere DEF Outcome, Goes
<1>3. CASE t = [v EXCEPT !.c = NoTcb]
  <2>1. Fins(r.c.state) <= Fins("CLOSED") /\ "CLOSED" \notin Closing
    <3>1. Fins("CLOSED") = 4 /\ Fins(r.c.state) \in {0, 2, 4}
      BY FinsType DEF Fins, Handshake
    <3> QED BY <3>1 DEF Closing
  <2>2. Sender(u, e) /\ u.a = r.a /\ u.c.state = "CLOSED"
    BY <1>1, <2>1, StateMoved
  <2> HIDE DEF u
  <2>3. Sender(v, e) /\ Quits(u, v)
    <3>1. u.c.state # "SYN_SENT"
      BY <2>2
    <3> QED BY <2>2, <3>1, OnClose
  <2> HIDE DEF v
  <2>4. HandedSound(v.a, p)
    BY <1>1, <2>2, <2>3 DEF Quits, HandedSound
  <2>5. Gone(t, e, p) /\ t.a = v.a
    BY <1>3, <2>3, <2>4, Dropped
  <2>6. Progress(r, t)
    <3>1. Len(r.a.received) \in Nat
      BY <1>1, LenProperties DEF CallType, AppType
    <3> QED BY <2>2, <2>3, <2>5, <3>1 DEF Quits, Progress
  <2> QED BY <2>5, <2>6 DEF Outcome
<1> QED BY <1>2, <1>3 DEF handle_rst, SetState

-----------------------------------------------------------------------------
(* The handshake.                                                          *)

\* A TCB that has sent nothing, or takes back its SYN.
Fresh(r, e, p) ==
  /\ CallType(r) /\ r.a = NewApp /\ r.out \in Seq(Sendable(e, r.a))
  /\ r.c.iss = Isn[e] /\ r.c.snd_una = Isn[e] /\ r.c.snd_nxt = Isn[e]
  /\ r.c.retransmit_queue = <<>> /\ r.c.send_buffer = 0 /\ ~r.c.close_pending
  /\ r.c.ooo_queue \in Seq(Ahead(Peer(e), p.written))

\* An application that has done nothing.
LEMMA NewAppType == AppType(NewApp)
  BY Constants DEF AppType, NewApp

\* A SYN, or a SYN with an acknowledgement.
LEMMA SynSent ==
  ASSUME NEW r, NEW e \in Ends, NEW p, Fresh(r, e, p),
         NEW flags \in {{"SYN"}, {"SYN", "ACK"}}, NEW s, s = send_segment(r, flags, 0, 0)
  PROVE  SoundCall(s, e, 0) /\ Same(r, s)
<1> DEFINE seq == Isn[e]
           nxt == SeqAdd(r.c.snd_nxt, 0 + 1)
           entry == EntryOf(seq, nxt, 0, 0)
           queue == Append(r.c.retransmit_queue, entry)
           seg == SegmentOf(r.c, flags, seq, 0, 0)
<1>1. /\ CallType(r) /\ seq \in SeqNum /\ r.c.snd_nxt = seq /\ r.c.snd_una = seq
      /\ r.a.written = 0 /\ r.c.send_buffer = 0 /\ ~r.c.close_pending
      /\ r.c.retransmit_queue = <<>> /\ r.out \in Seq(Sendable(e, r.a))
  BY DEF Fresh, NewApp, CallType, TcbType
<1>2. /\ Cardinality(flags \cap {"SYN", "FIN"}) = 1 /\ flags \cap {"SYN", "FIN"} # {}
      /\ "SYN" \in flags /\ "FIN" \notin flags /\ "RST" \notin flags /\ flags \in SUBSET Flags
  BY CountedFlags DEF Flags
<1>3. SegmentSent(r, s, seg, nxt, queue)
  <2>1. nxt = SeqAdd(r.c.snd_nxt, 0 + 1) /\ seg = SegmentOf(r.c, flags, seq, 0, 0)
    OBVIOUS
  <2>2. seq = IF "SYN" \in flags THEN r.c.snd_una ELSE r.c.snd_nxt
    BY <1>1, <1>2
  <2> HIDE DEF nxt, seg, seq
  <2>3. queue = IF 0 > 0 \/ flags \cap {"SYN", "FIN"} # {}
                THEN Append(r.c.retransmit_queue, EntryOf(seq, nxt, 0, 0))
                ELSE r.c.retransmit_queue
    BY <1>2
  <2>4. 0 \in Nat /\ 1 \in Nat /\ 0 <= MAX_TCP_SIZE
    BY Constants
  <2> HIDE DEF queue
  <2>5. SegmentSent(r, send_segment(r, flags, 0, 0), SegmentOf(r.c, flags, seq, 0, 0), nxt, queue)
    BY <1>1, <1>2, <2>1, <2>2, <2>3, <2>4, SendSegment
  <2> QED BY <2>1, <2>5
<1>4. seg \in Sendable(e, r.a)
  <2>1. seg \in Segment /\ seg.flags = flags /\ seg.seq = seq /\ seg.len = 0
    BY <1>1, <1>2, TellsWindow DEF SegmentOf, Segment, CallType, TcbType
  <2> HIDE DEF seg
  <2>2. SegmentSound(seg, e, r.a)
    BY <1>2, <2>1 DEF SegmentSound, HasSyn, HasFin
  <2> QED BY <2>1, <2>2 DEF Sendable
<1>5. nxt = SeqAdd(seq, 1) /\ nxt = Stream(e, 0) /\ nxt \in SeqNum
  <2>1. 0 + 1 = 1 /\ 1 + 0 = 1
    OBVIOUS
  <2> QED BY <1>1, <2>1, SeqAddIn DEF Stream
<1>6. entry \in Kept(e, r.a)
  <2>1. /\ entry \in Entry /\ entry.len = 0 /\ entry.seq_start = seq /\ entry.seq_end = nxt
    BY <1>1, <1>5 DEF EntryOf, Entry
  <2> HIDE DEF entry
  <2>2. EntrySound(entry, e, r.a)
    BY <1>5, <2>1 DEF EntrySound
  <2> QED BY <2>1, <2>2 DEF Kept
<1>7. queue \in Seq(Kept(e, r.a))
  <2>1. r.c.retransmit_queue \in Seq(Kept(e, r.a))
    BY <1>1
  <2> QED BY <1>6, <2>1, AppendProperties
<1> HIDE DEF seg, queue, nxt, entry
<1>8. s.out \in Seq(Sendable(e, s.a))
  <2>1. s.out = Append(r.out, seg) /\ s.a = r.a
    BY <1>3 DEF SegmentSent, Same
  <2>2. Append(r.out, seg) \in Seq(Sendable(e, r.a))
    BY <1>1, <1>4, AppendProperties
  <2> QED BY <2>1, <2>2
<1>9. Numbered(s.c, s.a, e, 0)
  <2>1. 0 - 0 + 0 = 0
    OBVIOUS
  <2> QED BY <1>1, <1>3, <1>5, <2>1 DEF Numbered, SegmentSent, Same
<1>10. SendSound(s.c, s.a, e, 0)
  BY <1>1, <1>3, <1>7, <1>9 DEF SendSound, SegmentSent, Same
<1> QED BY <1>3, <1>8, <1>10 DEF SoundCall, SegmentSent, Same

\* The SYN is sent and the handshake has begun.
LEMMA Opened ==
  ASSUME NEW r, NEW e \in Ends, NEW p, AppType(p), Fresh(r, e, p),
         NEW flags \in {{"SYN"}, {"SYN", "ACK"}}, NEW state \in Handshake,
         state = "SYN_RCVD" => r.c.rcv_nxt = Stream(Peer(e), 0)
  PROVE  /\ Open(SetState(send_segment(r, flags, 0, 0), state), e, p)
         /\ SetState(send_segment(r, flags, 0, 0), state).a = r.a
<1> DEFINE t == send_segment(r, flags, 0, 0)
           s == SetState(t, state)
<1>1. SoundCall(t, e, 0) /\ Same(r, t)
  BY SynSent
<1> HIDE DEF t
<1>2. /\ state \in States \ {NONE} /\ Fins(state) = 0 /\ state \notin Closing
      /\ state \notin Receiving
  BY DEF Handshake, States, NONE, Fins, Closing, Receiving
<1>3. /\ SoundCall(s, e, 0) /\ s.c = [t.c EXCEPT !.state = state] /\ s.a = t.a
      /\ s.c.state = state
  BY <1>1, <1>2, StateSet
<1> HIDE DEF s
<1>4. /\ s.c.iss = r.c.iss /\ s.c.snd_una = r.c.snd_una /\ s.c.rcv_nxt = r.c.rcv_nxt
      /\ s.c.ooo_queue = r.c.ooo_queue /\ s.a = r.a
  BY <1>1, <1>3 DEF Same, CallType, TcbType
<1>5. Sender(s, e)
  BY <1>2, <1>3 DEF Sender
<1>6. s.a = NewApp /\ Len(s.a.received) = 0 /\ s.a.received = Bytes(0, 0) /\ ~s.a.peer_fin
  <2>1. NewApp.received = <<>> /\ NewApp.peer_fin = FALSE
    BY DEF NewApp
  <2>2. Len(<<>>) = 0 /\ <<>> = Bytes(0, 0)
    BY DEF Bytes
  <2> QED BY <1>4, <2>1, <2>2 DEF Fresh
<1>7. HandedSound(s.a, p)
  BY <1>6, Constants DEF HandedSound, AppType
<1>8. ReceiveSound(s.c, s.a, e, p.written)
  BY <1>2, <1>3, <1>4, <1>6 DEF ReceiveSound, Fresh, Handshake
<1>9. Open(s, e, p) /\ s.a = r.a
  BY <1>2, <1>3, <1>4, <1>5, <1>7, <1>8 DEF Open
<1> QED BY <1>9 DEF s, t

\* A call that only sends.
LEMMA SameOpen ==
  ASSUME NEW r, NEW s, NEW e, NEW p, Open(r, e, p), Same(r, s),
         SoundCall(s, e, Fins(r.c.state))
  PROVE  Open(s, e, p) /\ Progress(r, s)
<1>1. Sender(s, e) /\ Left(r, s)
  BY SameSender DEF Open
<1>2. Goes(r, s)
  BY <1>1, LeftGoes DEF Open, Sender, SoundCall
<1>3. ReceiveSound(s.c, s.a, e, p.written)
  BY DEF Open, ReceiveSound, Same
<1> QED BY <1>1, <1>2, <1>3 DEF Open, Same, Goes

\* A reset says nothing of the stream.
LEMMA ResetSent ==
  ASSUME NEW r, CallType(r), NEW seg \in Segment, NEW e, NEW s, s = send_rst(r, seg)
  PROVE  \E x \in Sendable(e, r.a) : RawSent(r, s, x)
<1> DEFINE n == Cardinality(seg.flags \cap {"SYN", "FIN"})
           seg_len == seg.len + n
           rst == IF "ACK" \in seg.flags
                  THEN [flags |-> {"RST"}, seq |-> seg.ack, ack |-> 0]
                  ELSE [flags |-> {"RST", "ACK"}, seq |-> 0, ack |-> SeqAdd(seg.seq, seg_len)]
           x == [flags |-> rst.flags, seq |-> rst.seq, ack |-> rst.ack,
                 wnd |-> 0, from |-> 0, len |-> 0]
<1>1. n \in Nat
  <2>1. IsFiniteSet({"SYN", "FIN"})
    <3>1. IsFiniteSet({"SYN"})
      BY FS_Singleton
    <3>2. {"SYN", "FIN"} = {"SYN"} \cup {"FIN"}
      OBVIOUS
    <3> QED BY <3>1, <3>2, FS_AddElement
  <2>2. IsFiniteSet(seg.flags \cap {"SYN", "FIN"})
    BY <2>1, FS_Subset
  <2> QED BY <2>2, FS_CardinalityType
<1> HIDE DEF n
<1>2. seg.seq \in SeqNum /\ seg.ack \in SeqNum /\ seg_len \in Nat /\ 0 \in SeqNum
  BY <1>1, SeqSpaceAssumption DEF Segment, SeqNum
<1>3. SeqAdd(seg.seq, seg_len) \in SeqNum
  BY <1>2, SeqAddIn
<1>4. s = [r EXCEPT !.out = Append(@, x)]
  BY DEF send_rst, n
<1> HIDE DEF seg_len
<1>5. /\ rst.flags \in SUBSET Flags /\ "RST" \in rst.flags
      /\ rst.seq \in SeqNum /\ rst.ack \in SeqNum
  <2>1. CASE "ACK" \in seg.flags
    BY <1>2, <2>1 DEF Flags
  <2>2. CASE "ACK" \notin seg.flags
    BY <1>2, <1>3, <2>2 DEF Flags
  <2> QED BY <2>1, <2>2
<1> HIDE DEF rst
<1>6. x \in Segment /\ x.flags = rst.flags
  BY <1>5 DEF Segment
<1> HIDE DEF x
<1>7. x \in Sendable(e, r.a)
  BY <1>5, <1>6 DEF Sendable, SegmentSound, HasRst
<1>8. RawSent(r, s, x)
  BY <1>4 DEF RawSent, Same, CallType
<1> QED BY <1>7, <1>8

\* A reset sent in answer leaves the TCB as it is.
LEMMA ResetOpen ==
  ASSUME NEW r, NEW e, NEW p, Open(r, e, p), NEW seg \in Segment, NEW s, s = send_rst(r, seg)
  PROVE  Open(s, e, p) /\ Progress(r, s)
<1>1. SoundCall(r, e, Fins(r.c.state)) /\ Fins(r.c.state) \in Nat /\ CallType(r)
  BY FinsType DEF Open, Sender, SoundCall
<1>2. PICK x \in Sendable(e, r.a) : RawSent(r, s, x)
  BY <1>1, ResetSent
<1>3. SoundCall(s, e, Fins(r.c.state)) /\ Same(r, s)
  BY <1>1, <1>2, RawSending
<1> QED BY <1>3, SameOpen

\* The handshake is over: the application is told.
LEMMA Connected ==
  ASSUME NEW r, NEW e \in Ends, NEW p, AppType(p), Sender(r, e), r.c.state \in Handshake,
         r.c.rcv_nxt = Stream(Peer(e), 0), r.a.received = <<>>, ~r.a.peer_fin,
         r.c.ooo_queue \in Seq(Ahead(Peer(e), p.written)),
         NEW s, s = on_connect(SetState(r, "ESTABLISHED"))
  PROVE  Receiver(s, e, p) /\ Progress(r, s)
<1> DEFINE u == SetState(r, "ESTABLISHED")
           b == [u.a EXCEPT !.connected = TRUE]
           v == SetApp(u, b)
<1>1. /\ Fins(r.c.state) = 0 /\ Fins("ESTABLISHED") = 0 /\ "ESTABLISHED" \in States
      /\ "ESTABLISHED" \notin Closing
  BY DEF Fins, Handshake, States, Closing
<1>2. /\ Sender(u, e) /\ u.a = r.a /\ u.c.state = "ESTABLISHED"
      /\ u.c.rcv_nxt = r.c.rcv_nxt /\ u.c.ooo_queue = r.c.ooo_queue
  BY <1>1, StateMoved
<1>3. s = React([u EXCEPT !.a.connected = TRUE], "on_connect")
  BY DEF on_connect
<1> HIDE DEF u
<1>4. AppType(u.a) /\ CallType(u) /\ CallType(r)
  BY <1>2 DEF Sender, SoundCall, CallType
<1>5. /\ AppType(b) /\ b.written = u.a.written /\ b.closed = u.a.closed
      /\ b.received = u.a.received /\ b.peer_fin = u.a.peer_fin /\ b.connected = TRUE
  BY <1>4 DEF AppType
<1>6. s = React(v, "on_connect")
  BY <1>3 DEF SetApp
<1> HIDE DEF b
<1>7. Sender(v, e) /\ v.c = u.c /\ v.a = b /\ Grows(u.a, b)
  BY <1>2, <1>5, AppSet
<1> HIDE DEF v
<1>8. Len(v.a.received) = 0 /\ v.a.received = Bytes(0, 0)
  <2>1. v.a.received = <<>>
    BY <1>2, <1>5, <1>7
  <2>2. Len(<<>>) = 0 /\ <<>> = Bytes(0, 0)
    BY DEF Bytes
  <2> QED BY <2>1, <2>2
<1>9. Receiver(v, e, p)
  <2>1. 0 <= p.written
    BY Constants DEF AppType
  <2>2. v.c.state \in Receiving /\ v.c.state = "ESTABLISHED"
    BY <1>2, <1>7 DEF Receiving
  <2> QED BY <1>2, <1>5, <1>7, <1>8, <2>1, <2>2 DEF Receiver
<1>10. Sender(s, e) /\ Left(v, s)
  <2>1. v.c.state # "SYN_SENT"
    BY <1>2, <1>7
  <2> QED BY <1>6, <1>7, <2>1, Reacts
<1>11. Receiver(s, e, p) /\ Goes(v, s)
  BY <1>9, <1>10, LeftReceiver
<1>12. CallType(v) /\ CallType(s)
  BY <1>7, <1>10 DEF Sender, SoundCall
<1>13. Progress(r, v)
  <2>1. Len(r.a.received) \in Nat
    BY <1>4, LenProperties DEF CallType, AppType
  <2> QED BY <1>2, <1>5, <1>7, <2>1 DEF Progress
<1> QED BY <1>4, <1>11, <1>12, <1>13, ProgressTransitive DEF Goes

\* The number after a SYN is that of the first byte.
LEMMA SynNext ==
  ASSUME NEW e, NEW p, NEW seg \in Sendable(e, p), ~HasRst(seg), HasSyn(seg)
  PROVE  SeqAdd(seg.seq, 1) = Stream(e, 0) /\ SeqAdd(seg.seq, 1) \in SeqNum
<1>1. seg.seq = Isn[e] /\ seg.seq \in SeqNum /\ 1 + 0 = 1
  BY FromPeer
<1> QED BY <1>1, SeqAddIn DEF Stream

\* handle_syn_sent: a SYN with or without an acknowledgement, or neither.
LEMMA HandleSynSent ==
  ASSUME NEW r, NEW e \in Ends, NEW p, AppType(p), Open(r, e, p), r.c.state = "SYN_SENT",
         NEW seg \in Sendable(Peer(e), p), ~HasRst(seg), NEW t, t = handle_syn_sent(r, seg)
  PROVE  Open(t, e, p) /\ Progress(r, t)
<1> DEFINE nxt == SeqAdd(seg.seq, 1)
           synced == [r EXCEPT !.c.rcv_nxt = nxt]
           acked == process_ack(synced, seg.ack, seg.wnd)
           answered == send_ack(acked)
           again == [synced EXCEPT !.c.retransmit_queue = <<>>, !.c.snd_nxt = r.c.iss]
           A == Ahead(Peer(e), p.written)
<1>1. /\ Sender(r, e) /\ CallType(r) /\ SoundCall(r, e, Fins(r.c.state))
      /\ r.a = NewApp /\ r.c.snd_una = Isn[e] /\ r.c.iss = Isn[e]
      /\ r.c.ooo_queue \in Seq(A) /\ seg \in Segment /\ Isn[e] \in SeqNum
  BY PairAssumption DEF Open, Sender, SoundCall, ReceiveSound, Handshake, Sendable
<1>2. \/ t = send_rst(r, seg)
      \/ HasSyn(seg) /\ t = on_connect(SetState(answered, "ESTABLISHED"))
      \/ HasSyn(seg) /\ t = SetState(send_segment(again, {"SYN", "ACK"}, 0, 0), "SYN_RCVD")
      \/ t = r
  BY DEF handle_syn_sent, SetState
<1>3. CASE t = send_rst(r, seg)
  BY <1>1, <1>3, ResetOpen
<1>4. CASE t = r
  BY <1>1, <1>4, GoesNowhere DEF Goes
<1>5. ASSUME HasSyn(seg)
      PROVE  /\ SoundCall(synced, e, Fins(r.c.state)) /\ synced.a = r.a /\ synced.out = r.out
             /\ synced.c.state = r.c.state /\ synced.c.iss = r.c.iss
             /\ synced.c.snd_una = r.c.snd_una /\ synced.c.send_buffer = r.c.send_buffer
             /\ synced.c.rcv_nxt = Stream(Peer(e), 0) /\ synced.c.ooo_queue = r.c.ooo_queue
  <2>1. nxt = Stream(Peer(e), 0) /\ nxt \in SeqNum
    BY <1>5, SynNext
  <2>2. synced = SetReceived(r, nxt, r.c.ooo_queue)
    BY <1>1 DEF SetReceived, CallType, TcbType
  <2> HIDE DEF synced, nxt
  <2> QED BY <1>1, <2>1, <2>2, ReceivedSet
<1> HIDE DEF synced
<1>6. CASE HasSyn(seg) /\ t = on_connect(SetState(answered, "ESTABLISHED"))
  <2>1. Sender(synced, e)
    BY <1>1, <1>5, <1>6 DEF Sender
  <2>2. Sender(acked, e) /\ Left(synced, acked)
    <3>1. seg.ack \in SeqNum /\ seg.wnd \in Nat
      BY FromPeer
    <3> QED BY <2>1, <3>1, AckProcessed
  <2> HIDE DEF acked
  <2>3. Sender(answered, e) /\ Left(acked, answered)
    <3>1. SoundCall(acked, e, Fins(acked.c.state)) /\ Fins(acked.c.state) \in Nat
      BY <2>2, FinsType DEF Sender
    <3>2. SoundCall(answered, e, Fins(acked.c.state)) /\ Same(acked, answered)
      BY <3>1, SendAck
    <3> QED BY <2>2, <3>2, SameSender
  <2> HIDE DEF answered
  <2>4. CallType(synced) /\ CallType(answered)
    BY <2>1, <2>3 DEF Sender, SoundCall
  <2>5. Left(synced, answered)
    BY <2>2, <2>3, <2>4, LeftTransitive
  <2>6. r.a.received = <<>> /\ r.a.peer_fin = FALSE
    BY <1>1 DEF NewApp
  <2>7. /\ answered.c.state \in Handshake /\ answered.c.rcv_nxt = Stream(Peer(e), 0)
        /\ answered.a.received = <<>> /\ ~answered.a.peer_fin
        /\ answered.c.ooo_queue \in Seq(Ahead(Peer(e), p.written))
    BY <1>1, <1>5, <1>6, <2>5, <2>6 DEF Left, Handshake
  <2>8. Receiver(t, e, p) /\ Progress(answered, t)
    BY <1>6, <2>3, <2>7, Connected
  <2>9. Progress(r, answered)
    <3>1. Goes(synced, answered)
      BY <2>4, <2>5, LeftGoes
    <3> QED BY <1>5, <1>6, <3>1 DEF Goes, Progress
  <2>10. CallType(t)
    BY <2>8 DEF Receiver, Sender, SoundCall
  <2> QED BY <1>1, <2>4, <2>8, <2>9, <2>10, ReceiverOpen, ProgressTransitive
<1>7. CASE HasSyn(seg) /\ t = SetState(send_segment(again, {"SYN", "ACK"}, 0, 0), "SYN_RCVD")
  <2> DEFINE u == [synced EXCEPT !.c.retransmit_queue = <<>>]
  <2>1. CallType(synced)
    BY <1>5, <1>7 DEF SoundCall
  <2>2. CallType(u) /\ u.a = synced.a /\ u.out = synced.out
        /\ u.c = [synced.c EXCEPT !.retransmit_queue = <<>>]
    BY <2>1 DEF CallType, TcbType
  <2>3. again = [u EXCEPT !.c.snd_nxt = Isn[e]]
    BY <1>1
  <2> HIDE DEF u, again
  <2>4. CallType(again) /\ again.a = u.a /\ again.out = u.out
        /\ again.c = [u.c EXCEPT !.snd_nxt = Isn[e]]
    <3>1. /\ again.a = u.a /\ again.out = u.out /\ again.c = [u.c EXCEPT !.snd_nxt = Isn[e]]
          /\ DOMAIN again = DOMAIN u /\ again.cwnd = u.cwnd
      BY <2>2, <2>3 DEF CallType
    <3>2. TcbType(again.c)
      BY <1>1, <2>2, <3>1 DEF CallType, TcbType
    <3> QED BY <2>2, <3>1, <3>2 DEF CallType
  <2>5. /\ again.c.iss = synced.c.iss /\ again.c.snd_una = synced.c.snd_una
        /\ again.c.snd_nxt = Isn[e] /\ again.c.retransmit_queue = <<>>
        /\ again.c.send_buffer = synced.c.send_buffer
        /\ again.c.close_pending = synced.c.close_pending
        /\ again.c.ooo_queue = synced.c.ooo_queue /\ again.c.rcv_nxt = synced.c.rcv_nxt
    BY <2>1, <2>2, <2>4 DEF CallType, TcbType
  <2>6. synced.c.send_buffer = 0 /\ (synced.c.close_pending => FALSE)
    <3>1. /\ synced.c.send_buffer <= synced.a.written
          /\ synced.c.close_pending => synced.a.closed
      BY <1>5, <1>7 DEF SoundCall, SendSound
    <3>2. synced.a.written = 0 /\ synced.a.closed = FALSE
      BY <1>1, <1>5, <1>7 DEF NewApp
    <3>3. synced.c.send_buffer \in Nat
      BY <2>1, Constants DEF CallType, TcbType
    <3> QED BY <3>1, <3>2, <3>3
  <2>7. again.a = NewApp /\ again.out = r.out /\ r.out \in Seq(Sendable(e, r.a))
    BY <1>1, <1>5, <1>7, <2>2, <2>4 DEF SoundCall
  <2>8. Fresh(again, e, p)
    BY <1>1, <1>5, <1>7, <2>4, <2>5, <2>6, <2>7 DEF Fresh
  <2>9. again.c.rcv_nxt = Stream(Peer(e), 0) /\ "SYN_RCVD" \in Handshake
    BY <1>5, <1>7, <2>5 DEF Handshake
  <2>10. Open(t, e, p) /\ t.a = again.a
    <3> DEFINE flags == {"SYN", "ACK"}
               state == "SYN_RCVD"
    <3>1. flags \in {{"SYN"}, {"SYN", "ACK"}} /\ state \in Handshake
          /\ (state = "SYN_RCVD" => again.c.rcv_nxt = Stream(Peer(e), 0))
      BY <2>9
    <3>2. t = SetState(send_segment(again, flags, 0, 0), state)
      BY <1>7
    <3> HIDE DEF flags, state
    <3>3. /\ Open(SetState(send_segment(again, flags, 0, 0), state), e, p)
          /\ SetState(send_segment(again, flags, 0, 0), state).a = again.a
      BY <2>8, <3>1, Opened
    <3> QED BY <3>2, <3>3
  <2>11. Goes(r, r)
    BY <1>1, GoesNowhere
  <2> QED BY <1>1, <2>7, <2>10, <2>11 DEF Goes, Progress
<1> QED BY <1>2, <1>3, <1>4, <1>6, <1>7

\* handle_syn_rcvd.
LEMMA HandleSynRcvd ==
  ASSUME NEW r, NEW e \in Ends, NEW p, AppType(p), Open(r, e, p), r.c.state = "SYN_RCVD",
         NEW seg \in Sendable(Peer(e), p), ~HasRst(seg), NEW t, t = handle_syn_rcvd(r, seg)
  PROVE  Open(t, e, p) /\ Progress(r, t)
<1> DEFINE acked == process_ack(r, seg.ack, seg.wnd)
           established == on_connect(SetState(acked, "ESTABLISHED"))
<1>1. /\ Sender(r, e) /\ CallType(r) /\ r.a = NewApp
      /\ r.c.rcv_nxt = Stream(Peer(e), Len(r.a.received))
      /\ r.c.ooo_queue \in Seq(Ahead(Peer(e), p.written)) /\ seg \in Segment
  BY DEF Open, Sender, SoundCall, ReceiveSound, Handshake, Sendable
<1>2. \/ t = r \/ t = send_rst(r, seg)
      \/ t = established \/ t = handle_established(established, seg)
  BY DEF handle_syn_rcvd, SetState
<1>3. CASE t = r
  BY <1>1, <1>3, GoesNowhere DEF Goes
<1>4. CASE t = send_rst(r, seg)
  BY <1>1, <1>4, ResetOpen
<1>5. Sender(acked, e) /\ Left(r, acked)
  <2>1. seg.ack \in SeqNum /\ seg.wnd \in Nat
    BY FromPeer
  <2> QED BY <1>1, <2>1, AckProcessed
<1> HIDE DEF acked
<1>6. /\ acked.c.state \in Handshake /\ acked.c.rcv_nxt = Stream(Peer(e), 0)
      /\ acked.a.received = <<>> /\ ~acked.a.peer_fin
      /\ acked.c.ooo_queue \in Seq(Ahead(Peer(e), p.written))
  <2>1. r.a.received = <<>> /\ r.a.peer_fin = FALSE /\ Len(<<>>) = 0
    BY <1>1 DEF NewApp
  <2> QED BY <1>1, <1>5, <2>1 DEF Left, Handshake
<1>7. Receiver(established, e, p) /\ Progress(acked, established)
  BY <1>5, <1>6, Connected
<1> HIDE DEF established
<1>8. CallType(acked) /\ CallType(established)
  BY <1>5, <1>7 DEF Receiver, Sender, SoundCall
<1>9. Progress(r, established)
  <2>1. Goes(r, acked)
    BY <1>1, <1>5, LeftGoes
  <2> QED BY <1>1, <1>7, <1>8, <2>1, ProgressTransitive DEF Goes
<1>10. CASE t = established
  BY <1>7, <1>9, <1>10, ReceiverOpen
<1>11. CASE t = handle_established(established, seg)
  <2>1. Open(t, e, p) /\ Progress(established, t)
    BY <1>7, <1>11, HandleEstablished
  <2>2. CallType(t)
    BY <2>1 DEF Open, Sender, SoundCall
  <2> QED BY <1>1, <1>8, <1>9, <2>1, <2>2, ProgressTransitive
<1> QED BY <1>2, <1>3, <1>4, <1>10, <1>11

\* on_segment_received, with a TCB.
LEMMA HandleSegment ==
  ASSUME NEW r, NEW e \in Ends, NEW p, AppType(p), Open(r, e, p),
         NEW seg \in Sendable(Peer(e), p), NEW t, t = handle_segment(r, seg)
  PROVE  Outcome(t, e, p) /\ Progress(r, t)
<1>1. CASE HasRst(seg)
  <2>1. t = handle_rst(r, seg)
    BY <1>1 DEF handle_segment
  <2> QED BY <2>1, HandleRst
<1>2. CASE ~HasRst(seg)
  <2>1. r.c.state \in States \ {NONE}
    BY DEF Open
  <2>2. CASE r.c.state = "SYN_SENT"
    <3>1. t = handle_syn_sent(r, seg)
      BY <1>2, <2>2 DEF handle_segment
    <3> QED BY <1>2, <2>2, <3>1, HandleSynSent DEF Outcome
  <2>3. CASE r.c.state = "SYN_RCVD"
    <3>1. t = handle_syn_rcvd(r, seg)
      BY <1>2, <2>3 DEF handle_segment
    <3> QED BY <1>2, <2>3, <3>1, HandleSynRcvd DEF Outcome
  <2>4. CASE r.c.state = "ESTABLISHED"
    <3>1. t = handle_established(r, seg)
      BY <1>2, <2>4 DEF handle_segment
    <3>2. Receiver(r, e, p)
      BY <2>4, OpenReceiver DEF Receiving
    <3> QED BY <1>2, <3>1, <3>2, HandleEstablished DEF Outcome
  <2>5. CASE r.c.state \in {"FIN_WAIT_1", "FIN_WAIT_2"}
    <3>1. \/ r.c.state = "FIN_WAIT_1" /\ t = handle_fin_wait_1(r, seg)
          \/ r.c.state = "FIN_WAIT_2" /\ t = handle_fin_wait_2(r, seg)
      BY <1>2, <2>5 DEF handle_segment
    <3>2. Receiver(r, e, p)
      BY <2>5, OpenReceiver DEF Receiving
    <3> QED BY <1>2, <3>1, <3>2, HandleFinWait DEF Outcome
  <2>6. CASE r.c.state \in Settled
    <3>1. \/ r.c.state = "CLOSE_WAIT" /\ t = handle_close_wait(r, seg)
          \/ r.c.state = "CLOSING" /\ t = handle_closing(r, seg)
          \/ r.c.state = "LAST_ACK" /\ t = handle_last_ack(r, seg)
          \/ r.c.state = "TIME_WAIT" /\ t = handle_time_wait(r, seg)
      BY <1>2, <2>6 DEF handle_segment, Settled
    <3> QED BY <1>2, <3>1, HandleSettled
  <2> QED BY <2>1, <2>2, <2>3, <2>4, <2>5, <2>6 DEF States, Settled
<1> QED BY <1>1, <1>2

-----------------------------------------------------------------------------
(* The timers.                                                             *)

SetQueue(r, queue) == [r EXCEPT !.c.retransmit_queue = queue]

\* Entries kept may be replaced by entries that are sound.
LEMMA QueueSet ==
  ASSUME NEW r, NEW e, NEW k, SoundCall(r, e, k), NEW queue \in Seq(Kept(e, r.a)),
         NEW s, s = SetQueue(r, queue)
  PROVE  /\ SoundCall(s, e, k) /\ Same(r, s) /\ s.c.retransmit_queue = queue
         /\ s.c.send_buffer = r.c.send_buffer
<1>1. CallType(r)
  BY DEF SoundCall
<1>2. /\ s.a = r.a /\ s.out = r.out /\ s.c = [r.c EXCEPT !.retransmit_queue = queue]
      /\ DOMAIN s = DOMAIN r /\ s.cwnd = r.cwnd
  BY <1>1 DEF SetQueue, CallType
<1>3. TcbType(s.c)
  BY <1>1, <1>2 DEF CallType, TcbType
<1>4. CallType(s)
  BY <1>1, <1>2, <1>3 DEF CallType
<1>5. /\ s.c.state = r.c.state /\ s.c.iss = r.c.iss /\ s.c.snd_una = r.c.snd_una
      /\ s.c.rcv_nxt = r.c.rcv_nxt /\ s.c.ooo_queue = r.c.ooo_queue
      /\ s.c.send_buffer = r.c.send_buffer /\ s.c.snd_nxt = r.c.snd_nxt
      /\ s.c.close_pending = r.c.close_pending /\ s.c.retransmit_queue = queue
  BY <1>1, <1>2 DEF CallType, TcbType
<1>6. Same(r, s)
  BY <1>2, <1>4, <1>5 DEF Same
<1>7. SoundCall(s, e, k)
  BY <1>2, <1>4, <1>5 DEF SoundCall, SendSound, Numbered
<1> QED BY <1>5, <1>6, <1>7

Counted(r) == [r EXCEPT !.c.retransmit_queue[1].retransmit_count = @ + 1]

\* A retransmission is counted in the entry.
LEMMA RetransmitCounted ==
  ASSUME NEW r, NEW e, NEW k, SoundCall(r, e, k), r.c.retransmit_queue # <<>>,
         NEW first, first = Head(r.c.retransmit_queue), NEW s, s = Counted(r)
  PROVE  /\ SoundCall(s, e, k) /\ Same(r, s) /\ s.c.retransmit_queue # <<>>
         /\ Head(s.c.retransmit_queue).seq_start = first.seq_start
         /\ Head(s.c.retransmit_queue).from = first.from
         /\ Head(s.c.retransmit_queue).len = first.len
<1> DEFINE K == Kept(e, r.a)
           queue == r.c.retransmit_queue
           q == [first EXCEPT !.retransmit_count = @ + 1]
           more == [queue EXCEPT ![1] = q]
<1>1. /\ CallType(r) /\ queue \in Seq(K) /\ Len(queue) \in Nat /\ 1 \in 1 .. Len(queue)
      /\ first = queue[1]
  <2>1. CallType(r) /\ queue \in Seq(K)
    BY DEF SoundCall, SendSound
  <2> HIDE DEF K, queue
  <2>2. queue # <<>> /\ first = Head(queue)
    BY DEF queue
  <2>3. Len(queue) \in Nat /\ Len(queue) # 0 /\ Head(queue) = queue[1]
    BY <2>1, <2>2, HeadTailProperties, EmptySeq, LenProperties
  <2> QED BY <2>1, <2>2, <2>3
<1>2. first \in K
  <2> HIDE DEF K, queue
  <2> QED BY <1>1, ElementOfSeq
<1>3. /\ q \in K /\ q.seq_start = first.seq_start /\ q.from = first.from /\ q.len = first.len
  <2>1. first \in Entry /\ EntrySound(first, e, r.a)
    BY <1>2 DEF Kept
  <2>2. /\ q \in Entry /\ q.seq_start = first.seq_start /\ q.seq_end = first.seq_end
        /\ q.from = first.from /\ q.len = first.len
    BY <2>1 DEF Entry
  <2> HIDE DEF q
  <2>3. EntrySound(q, e, r.a)
    BY <2>1, <2>2 DEF EntrySound
  <2> QED BY <2>2, <2>3 DEF Kept
<1>4. s = SetQueue(r, more)
  <2>1. queue[1].retransmit_count = first.retransmit_count
    BY <1>1
  <2> QED BY <1>1, <2>1 DEF Counted, SetQueue
<1>5. more \in Seq(K) /\ more # <<>> /\ Head(more) = q
  <2> HIDE DEF K, queue, q
  <2>1. more \in Seq(K) /\ Len(more) = Len(queue) /\ more[1] = q
    BY <1>1, <1>3, ExceptSeq
  <2> HIDE DEF more
  <2>2. more # <<>>
    <3>1. Len(<<>>) = 0
      OBVIOUS
    <3> QED BY <1>1, <2>1, <3>1
  <2> QED BY <2>1, <2>2, HeadTailProperties
<1> HIDE DEF more, q
<1>6. SoundCall(s, e, k) /\ Same(r, s) /\ s.c.retransmit_queue = more
  BY <1>4, <1>5, QueueSet
<1> QED BY <1>3, <1>5, <1>6

\* A SYN or FIN sent again.
LEMMA ControlRepeated ==
  ASSUME NEW r, NEW e \in Ends, NEW p, Open(r, e, p), r.c.retransmit_queue # <<>>,
         Head(r.c.retransmit_queue).len = 0, ControlFlags(r.c.state) # {},
         NEW s, s = raw_send(r, ControlFlags(r.c.state),
                             Head(r.c.retransmit_queue).seq_start, 0, 0)
  PROVE  SoundCall(s, e, Fins(r.c.state)) /\ Same(r, s)
<1> DEFINE q == Head(r.c.retransmit_queue)
           flags == ControlFlags(r.c.state)
           seg == SegmentOf(r.c, flags, q.seq_start, 0, 0)
<1>1. /\ CallType(r) /\ Sender(r, e) /\ SoundCall(r, e, Fins(r.c.state))
      /\ Fins(r.c.state) \in Nat /\ r.c.retransmit_queue \in Seq(Kept(e, r.a))
  BY FinsType DEF Open, Sender, SoundCall, SendSound
<1>2. q \in Kept(e, r.a)
  BY <1>1, HeadTailProperties
<1>3. /\ q.seq_start \in SeqNum /\ q.seq_start \in FinNumbers(e, r.a.written)
      /\ q.seq_start = Isn[e] \/ r.a.closed
  BY <1>2 DEF Kept, Entry, EntrySound, FinNumbers
<1>4. /\ flags \in SUBSET Flags
      /\ "SYN" \in flags => r.c.state \in Handshake /\ "FIN" \notin flags
      /\ "FIN" \in flags => r.c.state \in Closing
  BY DEF ControlFlags, Flags, Handshake, Closing
<1> HIDE DEF q, flags
<1>5. seg \in Segment /\ seg.flags = flags /\ seg.seq = q.seq_start /\ seg.len = 0
  BY <1>1, <1>3, <1>4, TellsWindow DEF SegmentOf, Segment, CallType, TcbType
<1>6. RawSent(r, s, seg)
  BY <1>1, Constants, RawSend DEF q, flags
<1> HIDE DEF seg
<1>7. "SYN" \in flags => q.seq_start = Isn[e]
  <2>1. NewApp.closed = FALSE
    BY DEF NewApp
  <2>2. "SYN" \in flags => r.a = NewApp
    BY <1>4 DEF Open, ReceiveSound
  <2> QED BY <1>3, <2>1, <2>2
<1>8. "FIN" \in flags => r.a.closed
  BY <1>1, <1>4 DEF Sender
<1>9. SegmentSound(seg, e, r.a)
  BY <1>3, <1>4, <1>5, <1>7, <1>8 DEF SegmentSound, HasSyn, HasFin
<1>10. seg \in Sendable(e, r.a)
  BY <1>5, <1>9 DEF Sendable
<1> QED BY <1>1, <1>6, <1>10, RawSending

\* The connection is given up: it will be erased.
GivenUp(r, s, e, p) ==
  /\ s.c.state = "CLOSED"
  /\ Gone([s EXCEPT !.c = NoTcb], e, p) /\ Progress(r, [s EXCEPT !.c = NoTcb])

\* check_retransmit: the first entry is sent again, or the connection given up.
LEMMA CheckRetransmit ==
  ASSUME NEW r, NEW e \in Ends, NEW p, Open(r, e, p), NEW s, s = check_retransmit(r)
  PROVE  (Open(s, e, p) /\ Progress(r, s)) \/ GivenUp(r, s, e, p)
<1> DEFINE first == Head(r.c.retransmit_queue)
           u == Counted(r)
           flags == ControlFlags(r.c.state)
           again == raw_send(u, {"ACK"}, first.seq_start, first.from, Smaller(first.len, MSS))
           v == on_close(u)
           w == [v EXCEPT !.c.state = "CLOSED"]
           k == Fins(r.c.state)
<1>1. /\ CallType(r) /\ Sender(r, e) /\ SoundCall(r, e, k) /\ k \in Nat
      /\ r.c.retransmit_queue \in Seq(Kept(e, r.a)) /\ HandedSound(r.a, p)
  BY FinsType DEF Open, Sender, SoundCall, SendSound
<1>2. CASE r.c.retransmit_queue = <<>>
  <2>1. s = r
    BY <1>2 DEF check_retransmit
  <2> QED BY <1>1, <2>1, GoesNowhere DEF Goes
<1>3. CASE r.c.retransmit_queue # <<>>
  <2>1. first.len \in Nat
    <3>1. first \in Kept(e, r.a)
      BY <1>1, <1>3, HeadTailProperties
    <3> QED BY <3>1 DEF Kept, Entry
  <2>2. \/ s = [w EXCEPT !.a.aborted = TRUE]
        \/ first.len > 0 /\ s = again
        \/ /\ ~(first.len > 0) /\ flags # {}
           /\ s = raw_send(u, flags, first.seq_start, 0, 0)
        \/ s = u
    BY <1>3 DEF check_retransmit, Counted
  <2> HIDE DEF first
  <2>3. /\ SoundCall(u, e, k) /\ Same(r, u) /\ u.c.retransmit_queue # <<>>
        /\ Head(u.c.retransmit_queue).seq_start = first.seq_start
        /\ Head(u.c.retransmit_queue).from = first.from
        /\ Head(u.c.retransmit_queue).len = first.len
    <3> HIDE DEF k, u
    <3>1. first = Head(r.c.retransmit_queue) /\ u = Counted(r)
      BY DEF first, u
    <3> QED BY <1>1, <1>3, <3>1, RetransmitCounted
  <2> HIDE DEF u
  <2>4. Open(u, e, p) /\ Progress(r, u)
    BY <2>3, SameOpen DEF k
  <2>5. u.c.state = r.c.state /\ CallType(u)
    BY <2>3 DEF Same
  <2>6. ASSUME NEW x, SoundCall(x, e, k), Same(u, x) PROVE Open(x, e, p) /\ Progress(r, x)
    <3>1. Open(x, e, p) /\ Progress(u, x)
      BY <2>4, <2>5, <2>6, SameOpen DEF k
    <3>2. CallType(x)
      BY <2>6 DEF SoundCall
    <3> QED BY <1>1, <2>4, <2>5, <3>1, <3>2, ProgressTransitive
  <2>7. CASE s = u
    BY <2>4, <2>7
  <2>8. CASE first.len > 0 /\ s = again
    <3> DEFINE head == Head(u.c.retransmit_queue)
    <3>1. head.len # 0 /\ s = raw_send(u, {"ACK"}, head.seq_start, head.from, Smaller(head.len, MSS))
      BY <2>1, <2>3, <2>8
    <3>2. head = Head(u.c.retransmit_queue)
      OBVIOUS
    <3> HIDE DEF head, k
    <3>3. SoundCall(s, e, k) /\ Same(u, s)
      BY <1>1, <2>3, <3>1, <3>2, Repeated
    <3> QED BY <2>6, <3>3
  <2>9. CASE ~(first.len > 0) /\ flags # {} /\ s = raw_send(u, flags, first.seq_start, 0, 0)
    <3>1. /\ Head(u.c.retransmit_queue).len = 0 /\ ControlFlags(u.c.state) # {}
          /\ s = raw_send(u, ControlFlags(u.c.state), Head(u.c.retransmit_queue).seq_start, 0, 0)
      BY <2>1, <2>3, <2>5, <2>9
    <3>2. SoundCall(s, e, Fins(u.c.state)) /\ Same(u, s)
      BY <2>3, <2>4, <3>1, ControlRepeated
    <3> QED BY <2>5, <2>6, <3>2
  <2>10. CASE s = [w EXCEPT !.a.aborted = TRUE]
    <3> DEFINE b == [v.a EXCEPT !.aborted = TRUE]
               x == SetApp(v, b)
               d == [s EXCEPT !.c = NoTcb]
    <3>1. Sender(v, e) /\ Quits(u, v)
      <4>1. u.a.connected => u.c.state # "SYN_SENT"
        <5>1. NewApp.connected = FALSE
          BY DEF NewApp
        <5> QED BY <2>4, <5>1 DEF Open, ReceiveSound, Handshake
      <4> QED BY <2>4, <4>1, OnClose DEF Open
    <3> HIDE DEF v
    <3>2. CallType(v) /\ AppType(v.a)
      BY <3>1 DEF Sender, SoundCall, CallType
    <3>3. /\ AppType(b) /\ b.written = v.a.written /\ b.closed = v.a.closed
          /\ b.received = v.a.received /\ b.peer_fin = v.a.peer_fin
      BY <3>2 DEF AppType
    <3>4. /\ s.c.state = "CLOSED" /\ s = [v EXCEPT !.c = s.c, !.a = b]
      <4>1. w.c.state = "CLOSED" /\ w.a = v.a /\ w = [v EXCEPT !.c = w.c]
        BY <3>2 DEF CallType, TcbType
      <4> HIDE DEF w
      <4> QED BY <2>10, <3>2, <4>1 DEF CallType
    <3>5. d = [x EXCEPT !.c = NoTcb]
      <4> HIDE DEF NoTcb, b
      <4> QED BY <3>2, <3>4 DEF SetApp, CallType
    <3> HIDE DEF b, d
    <3>6. Sender(x, e) /\ x.a = b
      BY <3>1, <3>3, AppSet
    <3> HIDE DEF x
    <3>7. HandedSound(x.a, p)
      <4>1. HandedSound(u.a, p)
        BY <2>4 DEF Open
      <4> QED BY <3>1, <3>3, <3>6, <4>1 DEF Quits, HandedSound
    <3>8. Gone(d, e, p) /\ d.a = x.a
      BY <3>5, <3>6, <3>7, Dropped
    <3>9. Progress(u, d)
      <4>1. Len(u.a.received) \in Nat
        BY <2>5, LenProperties DEF CallType, AppType
      <4> QED BY <3>1, <3>3, <3>6, <3>8, <4>1 DEF Quits, Progress, Grows
    <3>10. CallType(d)
      BY <3>8 DEF Gone
    <3>11. Progress(r, d)
      BY <1>1, <2>4, <2>5, <3>9, <3>10, ProgressTransitive
    <3> QED BY <3>4, <3>8, <3>11 DEF GivenUp, d
  <2> QED BY <2>2, <2>7, <2>8, <2>9, <2>10
<1> QED BY <1>2, <1>3

SetProbe(r, needed) == [r EXCEPT !.c.zero_window_probe_needed = needed]

\* Whether a probe is due says nothing of the streams.
LEMMA ProbeSet ==
  ASSUME NEW r, CallType(r), NEW needed
  PROVE  Untouched(r, SetProbe(r, needed))
  BY DEF Untouched, Same, CallType, TcbType, SetProbe

\* The probe carries a byte that was written.
LEMMA Probed ==
  ASSUME NEW r, NEW e \in Ends, NEW k \in Nat, SoundCall(r, e, k), r.c.send_buffer > 0,
         NEW s, s = send_zero_window_probe(r)
  PROVE  SoundCall(s, e, k) /\ Same(r, s)
<1> DEFINE from == r.a.written - r.c.send_buffer
           wnd == r.c.rcv_wnd % (MaxWindow + 1)
           plain == SegmentOf(r.c, {"ACK"}, r.c.snd_nxt, from, 1)
           seg == [plain EXCEPT !.wnd = wnd]
<1>1. /\ CallType(r) /\ r.c.snd_nxt \in SeqNum /\ r.a.written \in Nat
      /\ r.c.send_buffer \in Nat /\ r.c.send_buffer <= r.a.written
  BY Constants DEF SoundCall, SendSound, CallType, TcbType, AppType
<1>2. PICK f \in 0 .. k : Numbered(r.c, r.a, e, f)
  BY DEF SoundCall, SendSound
<1>3. r.c.snd_nxt = Stream(e, from)
  <2>1. f = 0
    BY <1>1, <1>2 DEF Numbered
  <2>2. r.a.written - r.c.send_buffer + 0 = from
    BY <1>1
  <2> QED BY <1>2, <2>1, <2>2 DEF Numbered
<1>4. from \in Nat /\ from + 1 <= r.a.written /\ 1 \in Nat
  BY <1>1
<1>5. RawSent(r, s, seg)
  BY <1>1 DEF send_zero_window_probe, RawSent, Same, CallType
<1>6. plain \in Sendable(e, r.a)
  <2>1. plain = SegmentOf(r.c, {"ACK"}, r.c.snd_nxt, from, 1)
    OBVIOUS
  <2> HIDE DEF plain, from
  <2> QED BY <1>1, <1>3, <1>4, <2>1, PlainSegment
<1>7. seg \in Sendable(e, r.a)
  <2>1. r.c.rcv_wnd \in Nat /\ MaxWindow + 1 \in Nat \ {0}
    BY <1>1, Constants DEF CallType, TcbType
  <2>2. wnd \in Nat
    BY <2>1
  <2> HIDE DEF wnd, plain
  <2>3. /\ seg \in Segment /\ seg.flags = plain.flags /\ seg.seq = plain.seq
        /\ seg.from = plain.from /\ seg.len = plain.len
    BY <1>6, <2>2 DEF Sendable, Segment
  <2>4. SegmentSound(plain, e, r.a)
    BY <1>6 DEF Sendable
  <2> HIDE DEF seg
  <2> QED BY <2>3, <2>4 DEF Sendable, SegmentSound, HasRst, HasSyn, HasFin
<1> HIDE DEF seg
<1> QED BY <1>5, <1>7, RawSending

\* on_timer: every timer that has expired, in the order of the code.
LEMMA OnTimer ==
  ASSUME NEW r, NEW e \in Ends, NEW p, Open(r, e, p), NEW due, NEW x, x = on_timer(r, due)
  PROVE  Outcome(x, e, p) /\ Progress(r, x)
<1> DEFINE s == IF "rto" \in due THEN check_retransmit(r) ELSE r
           t == IF "delayed_ack" \in due THEN check_delayed_ack(s) ELSE s
           u == check_zero_window_probe(t, "zwp" \in due)
<1>1. CallType(r) /\ Progress(r, r)
  <2>1. CallType(r)
    BY DEF Open, Sender, SoundCall
  <2> QED BY <2>1, GoesNowhere DEF Goes
<1>2. (Open(s, e, p) /\ Progress(r, s)) \/ GivenUp(r, s, e, p)
  <2>1. \/ Open(check_retransmit(r), e, p) /\ Progress(r, check_retransmit(r))
        \/ GivenUp(r, check_retransmit(r), e, p)
    BY CheckRetransmit
  <2> QED BY <1>1, <2>1
<1>3. x = IF s.c.state = "CLOSED" THEN [s EXCEPT !.c = NoTcb]
          ELSE IF u.c.state = "TIME_WAIT" /\ "time_wait" \in due THEN [u EXCEPT !.c = NoTcb]
          ELSE u
  BY DEF on_timer
<1> HIDE DEF s
<1>4. CASE GivenUp(r, s, e, p)
  <2>1. x = [s EXCEPT !.c = NoTcb]
    BY <1>3, <1>4 DEF GivenUp
  <2> QED BY <1>4, <2>1 DEF GivenUp, Outcome
<1>5. CASE Open(s, e, p) /\ Progress(r, s)
  <2>1. s.c.state # "CLOSED"
    BY <1>5 DEF Open, States, NONE
  <2> DEFINE k == Fins(s.c.state)
  <2>2. SoundCall(s, e, k) /\ k \in Nat
    BY <1>5, FinsType DEF Open, Sender
  <2> HIDE DEF k
  <2>3. SoundCall(t, e, k) /\ Same(s, t)
    <3>1. t \in {s, SetDelayed(send_ack(s), FALSE)}
      BY DEF check_delayed_ack, SetDelayed
    <3>2. Same(s, s)
      BY <2>2 DEF SoundCall, Same
    <3> HIDE DEF t
    <3> QED BY <2>2, <3>1, <3>2, Acks
  <2> HIDE DEF t
  <2>4. SoundCall(u, e, k) /\ Same(t, u)
    <3>1. CallType(t) /\ Same(t, t)
      BY <2>3 DEF SoundCall, Same
    <3>2. \/ u = SetProbe(t, TRUE) \/ u = SetProbe(t, FALSE) \/ u = t
          \/ t.c.send_buffer > 0 /\ u = send_zero_window_probe(t)
      BY DEF check_zero_window_probe, SetProbe
    <3> HIDE DEF u
    <3>3. Untouched(t, SetProbe(t, TRUE)) /\ Untouched(t, SetProbe(t, FALSE))
      BY <3>1, ProbeSet
    <3>4. CASE u = SetProbe(t, TRUE) \/ u = SetProbe(t, FALSE)
      BY <2>3, <3>3, <3>4, UntouchedSound
    <3>5. CASE u = t
      BY <2>3, <3>1, <3>5
    <3>6. CASE t.c.send_buffer > 0 /\ u = send_zero_window_probe(t)
      BY <2>2, <2>3, <3>6, Probed
    <3> QED BY <3>2, <3>4, <3>5, <3>6
  <2> HIDE DEF u
  <2>5. Same(s, u)
    BY <2>3, <2>4, SameTransitive
  <2>6. Open(u, e, p) /\ Progress(s, u)
    BY <1>5, <2>4, <2>5, SameOpen DEF k
  <2>7. CallType(s) /\ CallType(u)
    BY <2>2, <2>4 DEF SoundCall
  <2>8. Progress(r, u)
    BY <1>1, <1>5, <2>6, <2>7, ProgressTransitive
  <2>9. CASE x = u
    BY <2>6, <2>8, <2>9 DEF Outcome
  <2>10. CASE x = [u EXCEPT !.c = NoTcb]
    <3>1. Gone(x, e, p) /\ x.a = u.a
      BY <2>6, <2>10, Dropped DEF Open
    <3> QED BY <2>8, <3>1 DEF Outcome, Progress
  <2> QED BY <1>3, <2>1, <2>9, <2>10
<1> QED BY <1>2, <1>4, <1>5

-----------------------------------------------------------------------------
(* The calls that open a connection.                                       *)

\* The TCB a call starts from.
GiveTcb(r, c) == [r EXCEPT !.c = c]

\* A TCB as its constructor leaves it, and none.
LEMMA NewTcbType ==
  /\ \A isn \in SeqNum : TcbType(NewTcb(isn))
  /\ TcbType(NoTcb) /\ NoTcb.state = NONE
<1>1. 0 \in SeqNum
  BY SeqSpaceAssumption DEF SeqNum
<1>2. ASSUME NEW isn \in SeqNum PROVE TcbType(NewTcb(isn))
  BY <1>1, Constants DEF TcbType, NewTcb
<1>3. /\ DOMAIN NoTcb = DOMAIN NewTcb(0) /\ NoTcb.state = NONE
      /\ NoTcb.snd_una = NewTcb(0).snd_una /\ NoTcb.snd_nxt = NewTcb(0).snd_nxt
      /\ NoTcb.rcv_nxt = NewTcb(0).rcv_nxt /\ NoTcb.snd_wnd = NewTcb(0).snd_wnd
      /\ NoTcb.rcv_wnd = NewTcb(0).rcv_wnd /\ NoTcb.send_buffer = NewTcb(0).send_buffer
      /\ NoTcb.send_read = NewTcb(0).send_read
      /\ NoTcb.dup_ack_count = NewTcb(0).dup_ack_count
  BY DEF NoTcb, NewTcb
<1>4. TcbType(NewTcb(0)) /\ NONE \in States
  BY <1>1, <1>2 DEF States
<1>5. TcbType(NoTcb)
  BY <1>3, <1>4 DEF TcbType
<1> QED BY <1>2, <1>3, <1>5

\* A call whose TCB is replaced.
LEMMA TcbGiven ==
  ASSUME NEW r, CallType(r), NEW c, TcbType(c)
  PROVE  /\ CallType(GiveTcb(r, c)) /\ GiveTcb(r, c).c = c
         /\ GiveTcb(r, c).a = r.a /\ GiveTcb(r, c).out = r.out
  BY DEF CallType, GiveTcb

\* The first call at an end, which neither opened nor was opened.
Unopened(r) == CallType(r) /\ r.a = NewApp /\ r.out = <<>>

\* connect() sends a SYN.
LEMMA ConnectCall ==
  ASSUME NEW r, NEW e \in Ends, NEW p, AppType(p), Unopened(r),
         NEW s, s = SetState(send_segment(GiveTcb(r, NewTcb(Isn[e])), {"SYN"}, 0, 0), "SYN_SENT")
  PROVE  Open(s, e, p) /\ s.a = r.a
<1> DEFINE c == NewTcb(Isn[e])
           u == GiveTcb(r, c)
<1>1. Isn[e] \in SeqNum
  BY PairAssumption
<1>2. /\ TcbType(c) /\ c.iss = Isn[e] /\ c.snd_una = Isn[e] /\ c.snd_nxt = Isn[e]
      /\ c.retransmit_queue = <<>> /\ c.send_buffer = 0 /\ c.close_pending = FALSE
      /\ c.ooo_queue = <<>>
  BY <1>1, NewTcbType DEF NewTcb
<1>3. s = SetState(send_segment(u, {"SYN"}, 0, 0), "SYN_SENT")
  OBVIOUS
<1> HIDE DEF c
<1>4. CallType(u) /\ u.c = c /\ u.a = r.a /\ u.out = r.out
  BY <1>2, TcbGiven DEF Unopened
<1> HIDE DEF u
<1>5. u.out \in Seq(Sendable(e, u.a)) /\ c.ooo_queue \in Seq(Ahead(Peer(e), p.written))
  BY <1>2, <1>4 DEF Unopened
<1>6. Fresh(u, e, p)
  BY <1>2, <1>4, <1>5 DEF Fresh, Unopened
<1>7. "SYN_SENT" \in Handshake /\ "SYN_SENT" # "SYN_RCVD"
  BY DEF Handshake
<1>8. /\ Open(SetState(send_segment(u, {"SYN"}, 0, 0), "SYN_SENT"), e, p)
      /\ SetState(send_segment(u, {"SYN"}, 0, 0), "SYN_SENT").a = u.a
  BY <1>6, <1>7, Opened
<1> QED BY <1>3, <1>4, <1>8

\* The TCB the listener makes for a SYN.
Accepted(isn, nxt, wnd) ==
  [NewTcb(isn) EXCEPT !.passive_open = TRUE, !.rcv_nxt = nxt, !.snd_wnd = wnd]

\* The listener answers a SYN.
LEMMA ListenCall ==
  ASSUME NEW r, NEW e \in Ends, NEW p, AppType(p), Unopened(r),
         NEW seg \in Sendable(Peer(e), p), HasSyn(seg), ~HasAck(seg), ~HasRst(seg),
         NEW s, s = handle_listen(r, seg, Isn[e])
  PROVE  Open(s, e, p) /\ s.a = r.a
<1> DEFINE nxt == SeqAdd(seg.seq, 1)
           c == Accepted(Isn[e], nxt, seg.wnd)
           u == GiveTcb(r, c)
<1>1. Isn[e] \in SeqNum /\ nxt = Stream(Peer(e), 0) /\ nxt \in SeqNum /\ seg.wnd \in Nat
  <2>1. seg.wnd \in Nat
    BY DEF Sendable, Segment
  <2>2. Isn[e] \in SeqNum
    BY PairAssumption
  <2> QED BY <2>1, <2>2, SynNext
<1>2. s = SetState(send_segment(u, {"SYN", "ACK"}, 0, 0), "SYN_RCVD")
  BY DEF handle_listen, SetState, GiveTcb, Accepted
<1> HIDE DEF nxt
<1>3. /\ c.rcv_nxt = nxt /\ c.snd_wnd = seg.wnd /\ DOMAIN c = DOMAIN NewTcb(Isn[e])
      /\ c.state = "CLOSED" /\ c.dup_ack_count = 0 /\ c.rcv_wnd = RecvBufferSize
      /\ c.iss = Isn[e] /\ c.snd_una = Isn[e] /\ c.snd_nxt = Isn[e]
      /\ c.retransmit_queue = <<>> /\ c.send_buffer = 0 /\ c.close_pending = FALSE
      /\ c.ooo_queue = <<>> /\ c.send_read = 0
  BY DEF Accepted, NewTcb
<1> HIDE DEF c
<1>4. TcbType(c)
  <2>1. TcbType(NewTcb(Isn[e]))
    BY <1>1, NewTcbType
  <2> QED BY <1>1, <1>3, <2>1, Constants DEF TcbType
<1>5. CallType(u) /\ u.c = c /\ u.a = r.a /\ u.out = r.out
  BY <1>4, TcbGiven DEF Unopened
<1> HIDE DEF u
<1>6. u.out \in Seq(Sendable(e, u.a)) /\ c.ooo_queue \in Seq(Ahead(Peer(e), p.written))
  BY <1>3, <1>5 DEF Unopened
<1>7. Fresh(u, e, p)
  BY <1>3, <1>5, <1>6 DEF Fresh, Unopened
<1>8. "SYN_RCVD" \in Handshake /\ u.c.rcv_nxt = Stream(Peer(e), 0)
  BY <1>1, <1>3, <1>5 DEF Handshake
<1>9. /\ Open(SetState(send_segment(u, {"SYN", "ACK"}, 0, 0), "SYN_RCVD"), e, p)
      /\ SetState(send_segment(u, {"SYN", "ACK"}, 0, 0), "SYN_RCVD").a = u.a
  BY <1>7, <1>8, Opened
<1> QED BY <1>2, <1>5, <1>9

-----------------------------------------------------------------------------
(* The application's calls, and a segment that no TCB takes.               *)

\* What a call that only sends leads to, at an end past its handshake.
LEMMA LeftOpen ==
  ASSUME NEW r, NEW s, NEW e, NEW p, Open(r, e, p), r.a.connected, Sender(s, e), Left(r, s)
  PROVE  Open(s, e, p) /\ Progress(r, s)
<1>1. r.c.state \in States \ {NONE} /\ ReceiveSound(r.c, r.a, e, p.written)
  BY DEF Open
<1>2. r.c.state \notin Handshake
  <2>1. NewApp.connected = FALSE
    BY DEF NewApp
  <2> QED BY <1>1, <2>1 DEF ReceiveSound
<1>3. CASE r.c.state \in Receiving
  BY <1>3, OpenReceiver, LeftReceiver, ReceiverOpen DEF Goes
<1>4. CASE r.c.state \in Settled
  BY <1>4, LeftSettled
<1> QED BY <1>1, <1>2, <1>3, <1>4 DEF States, Handshake, Receiving, Settled

\* send(), while the application holds the connection.
LEMMA SendOutcome ==
  ASSUME NEW r, NEW e \in Ends, NEW p, Outcome(r, e, p), r.a.connected, ~r.a.closed,
         NEW len \in Nat, r.a.written + len <= MaxWritten, NEW s, s = send(r, len)
  PROVE  Outcome(s, e, p) /\ Progress(r, s)
<1>1. CASE Open(r, e, p)
  <2>1. Sender(s, e) /\ Left(r, s)
    BY <1>1, SendCall DEF Open
  <2> QED BY <1>1, <2>1, LeftOpen DEF Outcome
<1>2. CASE Gone(r, e, p)
  <2>1. s = r
    <3>1. r.c.state \notin {"ESTABLISHED", "CLOSE_WAIT"}
      BY <1>2, NewTcbType DEF Gone, NONE
    <3> QED BY <3>1 DEF send
  <2> QED BY <1>2, <2>1, GoesNowhere DEF Outcome, Gone, Goes
<1> QED BY <1>1, <1>2 DEF Outcome

\* close(), while the application holds the connection.
LEMMA CloseOutcome ==
  ASSUME NEW r, NEW e \in Ends, NEW p, Outcome(r, e, p), r.a.connected, NEW s, s = close(r)
  PROVE  Outcome(s, e, p) /\ Progress(r, s)
<1>1. CASE Open(r, e, p)
  <2>1. r.c.state # "SYN_SENT"
    <3>1. NewApp.connected = FALSE
      BY DEF NewApp
    <3> QED BY <1>1, <3>1 DEF Open, ReceiveSound, Handshake
  <2>2. Sender(s, e) /\ Left(r, s)
    BY <1>1, <2>1, CloseCall DEF Open
  <2> QED BY <1>1, <2>2, LeftOpen DEF Outcome
<1>2. CASE Gone(r, e, p)
  <2>1. s = SetClosed(r)
    <3>1. r.c.state \notin {"ESTABLISHED", "CLOSE_WAIT", "SYN_SENT"}
      BY <1>2, NewTcbType DEF Gone, NONE
    <3> QED BY <3>1 DEF close, SetClosed
  <2>2. CallType(r) /\ AppType(r.a) /\ r.c = NoTcb
    BY <1>2 DEF Gone, CallType
  <2>3. s.c = r.c /\ s.out = r.out /\ s.cwnd = r.cwnd /\ DOMAIN s = DOMAIN r
        /\ s.a = [r.a EXCEPT !.closed = TRUE]
    BY <2>1, <2>2 DEF SetClosed, CallType
  <2>4. /\ AppType(s.a) /\ s.a.written = r.a.written /\ s.a.received = r.a.received
        /\ s.a.peer_fin = r.a.peer_fin /\ s.a.closed
    BY <2>2, <2>3 DEF AppType
  <2>5. Grows(r.a, s.a) /\ Len(r.a.received) \in Nat
    BY <2>2, <2>4, Constants, LenProperties DEF Grows, AppType
  <2>6. CallType(s) /\ Progress(r, s)
    BY <2>2, <2>3, <2>4, <2>5 DEF CallType, Progress
  <2>7. s.out \in Seq(Sendable(e, s.a))
    <3>1. Sendable(e, r.a) \subseteq Sendable(e, s.a)
      BY <2>2, <2>4, <2>5, FinNumbersGrow
    <3> QED BY <1>2, <2>3, <3>1, SeqMonotonic DEF Gone
  <2>8. HandedSound(s.a, p)
    BY <1>2, <2>4 DEF Gone, HandedSound
  <2> QED BY <2>2, <2>3, <2>6, <2>7, <2>8 DEF Gone, Outcome
<1> QED BY <1>1, <1>2 DEF Outcome

\* The reset that answers a segment nobody expects.
LEMMA ResetOutcome ==
  ASSUME NEW r, NEW e, NEW p, Gone(r, e, p), NEW seg \in Segment, NEW s, s = send_rst(r, seg)
  PROVE  Outcome(s, e, p) /\ Progress(r, s)
<1>1. CallType(r) /\ r.c = NoTcb /\ r.out \in Seq(Sendable(e, r.a)) /\ HandedSound(r.a, p)
  BY DEF Gone
<1>2. s = [r EXCEPT !.out = s.out]
  BY DEF send_rst
<1>3. s.c = r.c /\ s.a = r.a
  BY <1>1, <1>2 DEF CallType
<1>4. PICK x \in Sendable(e, r.a) : RawSent(r, s, x)
  BY <1>1, ResetSent
<1>5. s.out = Append(r.out, x) /\ CallType(s)
  BY <1>4 DEF RawSent, Same
<1>6. s.out \in Seq(Sendable(e, s.a))
  BY <1>1, <1>3, <1>5, AppendProperties
<1>7. Progress(r, s)
  BY <1>1, <1>3, GoesNowhere DEF Goes, Progress
<1> QED BY <1>1, <1>3, <1>5, <1>6, <1>7 DEF Outcome, Gone

-----------------------------------------------------------------------------
(* The steps of the two ends.                                              *)

\* What end e starts a call from.
LEMMA Calls ==
  ASSUME PairInv, NEW e \in Ends, NEW cb, NEW cwnd \in Nat, NEW r, r = Context(e, cb, cwnd)
  PROVE  /\ r.c = tcb[e] /\ r.a = app[e] /\ CallType(r) /\ AppType(app[Peer(e)])
         /\ IF tcb[e].state = NONE THEN Gone(r, e, app[Peer(e)]) ELSE Open(r, e, app[Peer(e)])
         /\ Outcome(r, e, app[Peer(e)])
         /\ e \notin opened => Unopened(r)
<1> DEFINE p == app[Peer(e)]
<1>1. EndInv(e) /\ EndInv(Peer(e)) /\ Peer(e) \in Ends
  BY PeerType DEF PairInv
<1>2. EndSound(tcb[e], app[e], e, p) /\ AppType(p)
  BY <1>1 DEF EndInv, EndSound
<1>3. /\ r.c = tcb[e] /\ r.a = app[e] /\ r.out = <<>> /\ r.cwnd = cwnd
      /\ DOMAIN r = {"c", "a", "out", "cb", "cwnd"}
  BY DEF Context
<1> HIDE DEF p
<1>4. CallType(r)
  BY <1>2, <1>3 DEF CallType, EndSound
<1>5. r.out \in Seq(Sendable(e, r.a))
  BY <1>3
<1>6. ASSUME tcb[e].state = NONE PROVE Gone(r, e, app[Peer(e)])
  BY <1>2, <1>3, <1>4, <1>5, <1>6 DEF EndSound, Gone, p
<1>7. ASSUME tcb[e].state # NONE PROVE Open(r, e, app[Peer(e)])
  <2>1. Sender(r, e)
    BY <1>2, <1>3, <1>4, <1>5, <1>7 DEF EndSound, Sends, Sender, SoundCall
  <2>2. r.c.state \in States \ {NONE}
    BY <1>2, <1>3, <1>7 DEF EndSound, TcbType
  <2> QED BY <1>2, <1>3, <1>7, <2>1, <2>2 DEF EndSound, Open, p
<1>8. e \notin opened => Unopened(r)
  BY <1>1, <1>3, <1>4 DEF EndInv, Unopened
<1> QED BY <1>2, <1>3, <1>4, <1>6, <1>7, <1>8 DEF Outcome, p

\* An end that a call leaves.
LEMMA OutcomeSound ==
  ASSUME NEW r, NEW e, NEW p, Outcome(r, e, p)
  PROVE  /\ EndSound(r.c, r.a, e, p) /\ AppType(r.a)
         /\ r.out \in Seq(Sendable(e, r.a))
<1>1. CASE Open(r, e, p)
  <2>1. r.c.state \in States \ {NONE} /\ SoundCall(r, e, Fins(r.c.state)) /\ CallType(r)
    BY <1>1 DEF Open, Sender, SoundCall
  <2>2. r.c.state # "CLOSED" /\ r.c.state # NONE
    BY <2>1 DEF States, NONE
  <2>3. Sends(r.c, r.a, e)
    BY <1>1 DEF Open, Sender, SoundCall, Sends
  <2> QED BY <1>1, <2>1, <2>2, <2>3 DEF Open, EndSound, CallType, SoundCall
<1>2. CASE Gone(r, e, p)
  <2>1. r.c.state = NONE /\ r.c.state # "CLOSED"
    BY <1>2, NewTcbType DEF Gone, NONE
  <2> QED BY <1>2, <2>1 DEF Gone, EndSound, CallType
<1> QED BY <1>1, <1>2 DEF Outcome

\* What the peer of a growing stream holds and was handed stays sound.
LEMMA PeerGrows ==
  ASSUME NEW f \in Ends, NEW c, NEW a, NEW p, NEW q, EndSound(c, a, f, p),
         AppType(p), AppType(q), Grows(p, q)
  PROVE  EndSound(c, a, f, q)
<1>1. p.written \in Nat /\ q.written \in Nat /\ p.written <= q.written
  BY Constants DEF Grows, AppType
<1>2. Ahead(Peer(f), p.written) \subseteq Ahead(Peer(f), q.written)
  <2>1. ASSUME NEW x \in Ahead(Peer(f), p.written) PROVE x \in Ahead(Peer(f), q.written)
    <3>1. x \in OooEntry /\ x.from \in Nat /\ x.len \in Nat /\ x.from + x.len <= p.written
      BY DEF Ahead, OooEntry
    <3>2. x.from + x.len <= q.written
      BY <1>1, <3>1
    <3> QED BY <3>1, <3>2 DEF Ahead
  <2> QED BY <2>1
<1>3. Seq(Ahead(Peer(f), p.written)) \subseteq Seq(Ahead(Peer(f), q.written))
  BY <1>2, SeqMonotonic
<1>4. HandedSound(a, q)
  <2>1. AppType(a) /\ Len(a.received) \in Nat
    BY LenProperties DEF EndSound, AppType
  <2>2. HandedSound(a, p)
    BY DEF EndSound
  <2>3. Len(a.received) <= q.written
    BY <1>1, <2>1, <2>2 DEF HandedSound
  <2> QED BY <2>2, <2>3 DEF HandedSound, Grows
<1>5. c.state # NONE => ReceiveSound(c, a, f, q.written)
  BY <1>3 DEF EndSound, ReceiveSound
<1> QED BY <1>4, <1>5 DEF EndSound

\* One end has moved: its stream may have grown, or what it was handed.
Moved(e) ==
  /\ app'[Peer(e)] = app[Peer(e)]
  /\ Grows(app[e], app'[e]) /\ Len(app[e].received) <= Len(app'[e].received)

\* A call at end e has returned.
LEMMA Returns ==
  ASSUME PairInv, NEW e \in Ends, NEW r, Outcome(r, e, app[Peer(e)]),
         Grows(app[e], r.a), Len(app[e].received) <= Len(r.a.received),
         NEW q \in Seq(Sendable(Peer(e), app[Peer(e)])), Return(e, r, q),
         UNCHANGED scenario, opened \subseteq opened',
         e \notin opened' => r.c = NoTcb /\ r.a = NewApp
  PROVE  PairInv' /\ Moved(e)
<1> DEFINE f == Peer(e)
<1>1. f \in Ends /\ f # e /\ Peer(f) = e /\ Ends = {e, f}
  BY PeerType DEF Ends
<1>2. /\ DOMAIN tcb = Ends /\ DOMAIN app = Ends /\ DOMAIN net = Ends
      /\ EndInv(e) /\ EndInv(f)
  BY <1>1 DEF PairInv
<1>3. /\ tcb'[e] = r.c /\ tcb'[f] = tcb[f] /\ app'[e] = r.a /\ app'[f] = app[f]
      /\ net'[e] = q /\ net'[f] = net[f] \o r.out
      /\ DOMAIN tcb' = Ends /\ DOMAIN app' = Ends /\ DOMAIN net' = Ends
  BY <1>1, <1>2 DEF Return
<1> HIDE DEF f
<1>4. EndSound(r.c, r.a, e, app[f]) /\ AppType(r.a) /\ r.out \in Seq(Sendable(e, r.a))
  BY OutcomeSound DEF f
<1>5. AppType(app[e]) /\ EndSound(tcb[f], app[f], f, app[e])
      /\ net[f] \in Seq(Sendable(e, app[e]))
  BY <1>1, <1>2 DEF EndInv, EndSound
<1>6. EndInv(e)'
  BY <1>1, <1>3, <1>4 DEF EndInv, f
<1>7. EndInv(f)'
  <2>1. EndSound(tcb[f], app[f], f, r.a)
    BY <1>1, <1>4, <1>5, PeerGrows
  <2>2. net[f] \o r.out \in Seq(Sendable(e, r.a))
    <3>1. Sendable(e, app[e]) \subseteq Sendable(e, r.a)
      BY <1>4, <1>5, FinNumbersGrow
    <3>2. net[f] \in Seq(Sendable(e, r.a))
      BY <1>5, <3>1, SeqMonotonic
    <3> QED BY <1>4, <3>2, ConcatProperties
  <2>3. f \notin opened' => tcb[f] = NoTcb /\ app[f] = NewApp
    BY <1>2 DEF EndInv
  <2> QED BY <1>1, <1>3, <2>1, <2>2, <2>3 DEF EndInv
<1>8. scenario' \in Scenarios
  BY DEF PairInv
<1>9. PairInv'
  BY <1>1, <1>3, <1>6, <1>7, <1>8 DEF PairInv
<1>10. Moved(e)
  BY <1>3 DEF Moved, f
<1> QED BY <1>9, <1>10

\* The values a scenario gives to a call.
LEMMA ScenarioType ==
  ASSUME PairInv, NEW e \in Ends
  PROVE  scenario.writes[e] \subseteq Nat /\ scenario.cwnds \subseteq Nat
  BY PairAssumption DEF PairInv, Scenario

\* connect().
LEMMA ConnectStep ==
  ASSUME PairInv, NEW e \in Ends, connect(e)
  PROVE  PairInv' /\ Moved(e)
<1> DEFINE r == Context(e, <<>>, 0)
           sent == send_segment([r EXCEPT !.c = NewTcb(Isn[e])], {"SYN"}, 0, 0)
           s == SetState(send_segment(GiveTcb(r, NewTcb(Isn[e])), {"SYN"}, 0, 0), "SYN_SENT")
<1>1. /\ e \notin opened /\ opened' = opened \cup {e} /\ UNCHANGED scenario
      /\ Return(e, [sent EXCEPT !.c.state = "SYN_SENT"], net[e])
  BY DEF connect
<1>2. Return(e, s, net[e])
  BY <1>1 DEF SetState, GiveTcb
<1>3. r.a = app[e] /\ CallType(r) /\ AppType(app[Peer(e)]) /\ Unopened(r)
  BY <1>1, Calls
<1> HIDE DEF r
<1>4. Open(s, e, app[Peer(e)]) /\ s.a = app[e]
  BY <1>3, ConnectCall
<1> HIDE DEF s
<1>5. Grows(app[e], s.a) /\ Len(app[e].received) <= Len(s.a.received)
  BY <1>3, <1>4, GoesNowhere DEF Goes, Progress
<1>6. net[e] \in Seq(Sendable(Peer(e), app[Peer(e)])) /\ e \in opened'
  BY <1>1 DEF PairInv, EndInv
<1> QED BY <1>1, <1>2, <1>4, <1>5, <1>6, Returns DEF Outcome

\* send().
LEMMA SendStep ==
  ASSUME PairInv, NEW e \in Ends, app_send(e)
  PROVE  PairInv' /\ Moved(e)
<1>1. PICK n \in scenario.writes[e], cwnd \in scenario.cwnds :
        /\ app[e].written + n <= MaxWritten
        /\ Return(e, send(Context(e, <<>>, cwnd), n), net[e])
  BY DEF app_send
<1> DEFINE r == Context(e, <<>>, cwnd)
           s == send(r, n)
<1>2. app[e].connected /\ ~app[e].closed /\ UNCHANGED <<scenario, opened>>
  BY DEF app_send
<1>3. n \in Nat /\ cwnd \in Nat
  BY ScenarioType
<1>4. r.a = app[e] /\ CallType(r) /\ Outcome(r, e, app[Peer(e)])
  BY <1>3, Calls
<1>5. Return(e, s, net[e])
  BY <1>1
<1> HIDE DEF r
<1>6. Outcome(s, e, app[Peer(e)]) /\ Progress(r, s)
  BY <1>1, <1>2, <1>3, <1>4, SendOutcome
<1> HIDE DEF s
<1>7. Grows(app[e], s.a) /\ Len(app[e].received) <= Len(s.a.received)
  BY <1>4, <1>6 DEF Progress
<1>8. net[e] \in Seq(Sendable(Peer(e), app[Peer(e)])) /\ e \in opened'
  <2>1. NewApp.connected = FALSE
    BY DEF NewApp
  <2> QED BY <1>2, <2>1 DEF PairInv, EndInv
<1> QED BY <1>2, <1>5, <1>6, <1>7, <1>8, Returns

\* close().
LEMMA CloseStep ==
  ASSUME PairInv, NEW e \in Ends, app_close(e)
  PROVE  PairInv' /\ Moved(e)
<1>1. PICK cwnd \in scenario.cwnds : Return(e, close(Context(e, <<>>, cwnd)), net[e])
  BY DEF app_close
<1> DEFINE r == Context(e, <<>>, cwnd)
           s == close(r)
<1>2. app[e].connected /\ UNCHANGED <<scenario, opened>>
  BY DEF app_close
<1>3. cwnd \in Nat
  BY ScenarioType
<1>4. r.a = app[e] /\ CallType(r) /\ Outcome(r, e, app[Peer(e)])
  BY <1>3, Calls
<1>5. Return(e, s, net[e])
  BY <1>1
<1> HIDE DEF r
<1>6. Outcome(s, e, app[Peer(e)]) /\ Progress(r, s)
  BY <1>2, <1>4, CloseOutcome
<1> HIDE DEF s
<1>7. Grows(app[e], s.a) /\ Len(app[e].received) <= Len(s.a.received)
  BY <1>4, <1>6 DEF Progress
<1>8. net[e] \in Seq(Sendable(Peer(e), app[Peer(e)])) /\ e \in opened'
  <2>1. NewApp.connected = FALSE
    BY DEF NewApp
  <2> QED BY <1>2, <2>1 DEF PairInv, EndInv
<1> QED BY <1>2, <1>5, <1>6, <1>7, <1>8, Returns

\* on_timer(), for whichever timers have expired.
LEMMA ExpireStep ==
  ASSUME PairInv, NEW e \in Ends, NEW due, expire(e, due)
  PROVE  PairInv' /\ Moved(e)
<1>1. PICK cb \in scenario.reactions[e], cwnd \in scenario.cwnds :
        Return(e, on_timer(Context(e, cb, cwnd), due), net[e])
  BY DEF expire
<1> DEFINE r == Context(e, cb, cwnd)
           s == on_timer(r, due)
<1>2. tcb[e].state # NONE /\ UNCHANGED <<scenario, opened>>
  BY DEF expire
<1>3. cwnd \in Nat
  BY ScenarioType
<1>4. r.a = app[e] /\ CallType(r) /\ Open(r, e, app[Peer(e)])
  BY <1>2, <1>3, Calls
<1>5. Return(e, s, net[e])
  BY <1>1
<1> HIDE DEF r
<1>6. Outcome(s, e, app[Peer(e)]) /\ Progress(r, s)
  BY <1>4, OnTimer
<1> HIDE DEF s
<1>7. Grows(app[e], s.a) /\ Len(app[e].received) <= Len(s.a.received)
  BY <1>4, <1>6 DEF Progress
<1>8. net[e] \in Seq(Sendable(Peer(e), app[Peer(e)])) /\ e \in opened'
  BY <1>2, NewTcbType DEF PairInv, EndInv
<1> QED BY <1>2, <1>5, <1>6, <1>7, <1>8, Returns

\* on_segment_received(): a segment for the TCB, the listener, or nobody.
LEMMA SegmentStep ==
  ASSUME PairInv, NEW e \in Ends, NEW seg \in Sendable(Peer(e), app[Peer(e)]),
         NEW q \in Seq(Sendable(Peer(e), app[Peer(e)])),
         on_segment_received(e, seg, q), UNCHANGED scenario
  PROVE  PairInv' /\ Moved(e)
<1> DEFINE accepts == e \notin opened /\ HasSyn(seg) /\ ~HasAck(seg)
           Step(r) ==
             IF tcb[e].state # NONE
             THEN Return(e, handle_segment(r, seg), q) /\ UNCHANGED <<listening, opened>>
             ELSE IF listening /\ e = "B"
             THEN IF HasRst(seg)
                  THEN /\ Return(e, r, q)
                       /\ listening' = ~seq_in_range(seg.seq, 0, MaxWindow)
                       /\ UNCHANGED opened
                  ELSE /\ Return(e, IF accepts THEN handle_listen(r, seg, Isn[e]) ELSE r, q)
                       /\ opened' = IF accepts THEN opened \cup {e} ELSE opened
                       /\ UNCHANGED listening
             ELSE /\ Return(e, IF HasRst(seg) THEN r ELSE send_rst(r, seg), q)
                  /\ UNCHANGED <<listening, opened>>
<1>1. PICK cb \in scenario.reactions[e], cwnd \in scenario.cwnds : Step(Context(e, cb, cwnd))
  BY DEF on_segment_received
<1> DEFINE r == Context(e, cb, cwnd)
           p == app[Peer(e)]
<1>2. cwnd \in Nat
  BY ScenarioType
<1>3. /\ r.c = tcb[e] /\ r.a = app[e] /\ CallType(r) /\ AppType(p)
      /\ IF tcb[e].state = NONE THEN Gone(r, e, p) ELSE Open(r, e, p)
      /\ Outcome(r, e, p)
      /\ e \notin opened => Unopened(r)
  BY <1>2, Calls
<1>4. \/ tcb[e].state # NONE /\ Return(e, handle_segment(r, seg), q) /\ opened' = opened
      \/ tcb[e].state = NONE /\ Return(e, r, q) /\ opened' = opened
      \/ /\ tcb[e].state = NONE /\ ~HasRst(seg) /\ accepts
         /\ Return(e, handle_listen(r, seg, Isn[e]), q) /\ opened' = opened \cup {e}
      \/ tcb[e].state = NONE /\ Return(e, send_rst(r, seg), q) /\ opened' = opened
  <2>1. Step(r)
    BY <1>1
  <2> HIDE DEF r
  <2>2. CASE tcb[e].state # NONE
    BY <2>1, <2>2
  <2>3. CASE tcb[e].state = NONE /\ listening /\ e = "B"
    BY <2>1, <2>3
  <2>4. CASE tcb[e].state = NONE /\ ~(listening /\ e = "B")
    BY <2>1, <2>4
  <2> QED BY <2>2, <2>3, <2>4
<1>5. e \notin opened => tcb[e] = NoTcb /\ app[e] = NewApp /\ tcb[e].state = NONE
  BY NewTcbType DEF PairInv, EndInv
<1> HIDE DEF r, p
<1>6. CASE tcb[e].state # NONE /\ Return(e, handle_segment(r, seg), q) /\ opened' = opened
  <2> DEFINE s == handle_segment(r, seg)
  <2>1. Outcome(s, e, p) /\ Progress(r, s)
    BY <1>3, <1>6, HandleSegment DEF p
  <2>2. Return(e, s, q) /\ e \in opened' /\ opened \subseteq opened'
    BY <1>5, <1>6
  <2> HIDE DEF s
  <2>3. Grows(app[e], s.a) /\ Len(app[e].received) <= Len(s.a.received)
    BY <1>3, <2>1 DEF Progress
  <2> QED BY <2>1, <2>2, <2>3, Returns DEF p
<1>7. CASE tcb[e].state = NONE /\ Return(e, r, q) /\ opened' = opened
  <2>1. Grows(app[e], r.a) /\ Len(app[e].received) <= Len(r.a.received)
    BY <1>3, GoesNowhere DEF Goes, Progress
  <2>2. e \notin opened' => r.c = NoTcb /\ r.a = NewApp
    BY <1>3, <1>5, <1>7
  <2> QED BY <1>3, <1>7, <2>1, <2>2, Returns DEF p
<1>8. CASE /\ tcb[e].state = NONE /\ ~HasRst(seg) /\ accepts
           /\ Return(e, handle_listen(r, seg, Isn[e]), q) /\ opened' = opened \cup {e}
  <2> DEFINE s == handle_listen(r, seg, Isn[e])
  <2>1. Open(s, e, p) /\ s.a = r.a
    BY <1>3, <1>8, ListenCall DEF p
  <2>2. Return(e, s, q) /\ e \in opened' /\ opened \subseteq opened'
    BY <1>8
  <2> HIDE DEF s
  <2>3. Grows(app[e], s.a) /\ Len(app[e].received) <= Len(s.a.received)
    BY <1>3, <2>1, GoesNowhere DEF Goes, Progress
  <2> QED BY <2>1, <2>2, <2>3, Returns DEF p, Outcome
<1>9. CASE tcb[e].state = NONE /\ Return(e, send_rst(r, seg), q) /\ opened' = opened
  <2> DEFINE s == send_rst(r, seg)
  <2>1. seg \in Segment
    BY DEF Sendable
  <2>2. Outcome(s, e, p) /\ Progress(r, s)
    BY <1>3, <1>9, <2>1, ResetOutcome
  <2>3. s.c = r.c /\ s.a = r.a
    <3>1. s = [r EXCEPT !.out = s.out]
      BY DEF send_rst
    <3> QED BY <1>3, <3>1 DEF CallType
  <2>4. Return(e, s, q) /\ opened \subseteq opened'
    BY <1>9
  <2> HIDE DEF s
  <2>5. Grows(app[e], s.a) /\ Len(app[e].received) <= Len(s.a.received)
    BY <1>3, <2>2 DEF Progress
  <2>6. e \notin opened' => s.c = NoTcb /\ s.a = NewApp
    BY <1>3, <1>5, <1>9, <2>3
  <2> QED BY <2>2, <2>4, <2>5, <2>6, Returns DEF p
<1> QED BY <1>4, <1>6, <1>7, <1>8, <1>9

\* What is under way is sound, whichever of it arrives.
LEMMA UnderWay ==
  ASSUME PairInv, NEW e \in Ends
  PROVE  /\ net[e] \in Seq(Sendable(Peer(e), app[Peer(e)]))
         /\ net[e] # <<>> =>
              /\ Head(net[e]) \in Sendable(Peer(e), app[Peer(e)])
              /\ Tail(net[e]) \in Seq(Sendable(Peer(e), app[Peer(e)]))
         /\ \A k \in 2 .. Len(net[e]) :
              /\ net[e][k] \in Sendable(Peer(e), app[Peer(e)])
              /\ Without(e, k) \in Seq(Sendable(Peer(e), app[Peer(e)]))
<1> DEFINE S == Sendable(Peer(e), app[Peer(e)])
           n == net[e]
<1>1. n \in Seq(S)
  BY DEF PairInv, EndInv
<1>2. \A k : Without(e, k) = SubSeq(n, 1, k - 1) \o SubSeq(n, k + 1, Len(n))
  BY DEF Without
<1> HIDE DEF S, n
<1>3. n # <<>> => Head(n) \in S /\ Tail(n) \in Seq(S)
  BY <1>1, HeadTailProperties
<1>4. ASSUME NEW k \in 2 .. Len(n) PROVE n[k] \in S /\ Without(e, k) \in Seq(S)
  <2>1. Len(n) \in Nat /\ \A i \in 1 .. Len(n) : n[i] \in S
    BY <1>1, ElementOfSeq, LenProperties
  <2>2. /\ k - 1 \in Int /\ k + 1 \in Int /\ 1 \in Int /\ Len(n) \in Int
        /\ \A i \in 1 .. k - 1 : n[i] \in S
        /\ \A i \in k + 1 .. Len(n) : n[i] \in S
    BY <2>1
  <2>3. SubSeq(n, 1, k - 1) \in Seq(S) /\ SubSeq(n, k + 1, Len(n)) \in Seq(S)
    BY <2>2, SubSeqProperties
  <2>4. SubSeq(n, 1, k - 1) \o SubSeq(n, k + 1, Len(n)) \in Seq(S)
    BY <2>3, ConcatProperties
  <2>5. n[k] \in S
    BY <2>1
  <2> QED BY <1>2, <2>4, <2>5
<1> QED BY <1>1, <1>3, <1>4 DEF S, n

\* The network loses a segment.
LEMMA LoseStep ==
  ASSUME PairInv, NEW e \in Ends, lose(e)
  PROVE  PairInv' /\ Moved(e)
<1> DEFINE f == Peer(e)
<1>1. f \in Ends /\ Peer(f) = e /\ Ends = {e, f} /\ f # e
  BY PeerType DEF Ends
<1>2. /\ net[e] # <<>> /\ net' = [net EXCEPT ![e] = Tail(@)]
      /\ UNCHANGED <<scenario, opened, tcb, app>>
  BY DEF lose
<1>3. Tail(net[e]) \in Seq(Sendable(f, app[f]))
  BY <1>2, UnderWay
<1> HIDE DEF f
<1>4. /\ DOMAIN tcb = Ends /\ DOMAIN app = Ends /\ DOMAIN net = Ends
      /\ scenario \in Scenarios /\ EndInv(e) /\ EndInv(f)
  BY <1>1 DEF PairInv
<1>5. /\ net'[e] = Tail(net[e]) /\ net'[f] = net[f] /\ DOMAIN net' = Ends
  BY <1>1, <1>2, <1>4
<1>6. EndInv(e)'
  BY <1>2, <1>3, <1>4, <1>5 DEF EndInv, f
<1>7. EndInv(f)'
  BY <1>1, <1>2, <1>4, <1>5 DEF EndInv
<1>8. PairInv'
  BY <1>1, <1>2, <1>4, <1>5, <1>6, <1>7 DEF PairInv
<1>9. Moved(e)
  <2>1. AppType(app[e])
    BY <1>4 DEF EndInv, EndSound
  <2>2. Grows(app[e], app[e]) /\ Len(app[e].received) \in Nat
    BY <2>1, Constants, LenProperties DEF Grows, AppType
  <2> QED BY <1>2, <2>2 DEF Moved
<1> QED BY <1>8, <1>9

\* Every step keeps the invariant, and moves one end.
LEMMA NextStep ==
  ASSUME PairInv, Next
  PROVE  PairInv' /\ \E e \in Ends : Moved(e)
<1>1. PICK e \in Ends : \/ connect(e) \/ app_send(e) \/ app_close(e)
                        \/ receive(e) \/ receive_late(e) \/ receive_duplicate(e) \/ lose(e)
                        \/ timer(e) \/ timer_early(e)
  BY DEF Next
<1> SUFFICES PairInv' /\ Moved(e)
  OBVIOUS
<1>2. CASE connect(e)
  BY <1>2, ConnectStep
<1>3. CASE app_send(e)
  BY <1>3, SendStep
<1>4. CASE app_close(e)
  BY <1>4, CloseStep
<1>5. CASE receive(e)
  <2>1. /\ net[e] # <<>> /\ on_segment_received(e, Head(net[e]), Tail(net[e]))
        /\ UNCHANGED scenario
    BY <1>5 DEF receive
  <2> QED BY <2>1, UnderWay, SegmentStep
<1>6. CASE receive_late(e)
  <2>1. PICK k \in 2 .. Len(net[e]) : on_segment_received(e, net[e][k], Without(e, k))
    BY <1>6 DEF receive_late
  <2>2. UNCHANGED scenario
    BY <1>6 DEF receive_late
  <2>3. /\ net[e][k] \in Sendable(Peer(e), app[Peer(e)])
        /\ Without(e, k) \in Seq(Sendable(Peer(e), app[Peer(e)]))
    BY UnderWay
  <2> QED BY <2>1, <2>2, <2>3, SegmentStep
<1>7. CASE receive_duplicate(e)
  <2>1. /\ net[e] # <<>> /\ on_segment_received(e, Head(net[e]), net[e])
        /\ UNCHANGED scenario
    BY <1>7 DEF receive_duplicate
  <2> QED BY <2>1, UnderWay, SegmentStep
<1>8. CASE lose(e)
  BY <1>8, LoseStep
<1>9. CASE timer(e)
  <2>1. PICK due \in SUBSET CanExpire(e) : expire(e, due)
    BY <1>9 DEF timer
  <2> QED BY <2>1, ExpireStep
<1>10. CASE timer_early(e)
  <2>1. expire(e, {"rto"})
    BY <1>10 DEF timer_early
  <2> QED BY <2>1, ExpireStep
<1> QED BY <1>1, <1>2, <1>3, <1>4, <1>5, <1>6, <1>7, <1>8, <1>9, <1>10

\* Neither end has a TCB at first.
LEMMA InitSound == Init => PairInv
<1> SUFFICES ASSUME Init PROVE PairInv
  OBVIOUS
<1>1. ASSUME NEW e \in Ends PROVE EndInv(e)
  <2>1. /\ tcb[e] = NoTcb /\ app[e] = NewApp /\ net[e] = <<>>
        /\ app[Peer(e)] = NewApp
    BY PeerType DEF Init
  <2>2. TcbType(NoTcb) /\ NoTcb.state = NONE /\ NONE # "CLOSED" /\ AppType(NewApp)
    BY NewTcbType, NewAppType DEF NONE
  <2>3. HandedSound(NewApp, NewApp)
    <3>1. NewApp.received = <<>> /\ NewApp.peer_fin = FALSE /\ NewApp.written = 0
      BY DEF NewApp
    <3>2. Len(<<>>) = 0 /\ <<>> = Bytes(0, 0)
      BY DEF Bytes
    <3> QED BY <3>1, <3>2 DEF HandedSound
  <2>4. EndSound(tcb[e], app[e], e, app[Peer(e)])
    BY <2>1, <2>2, <2>3 DEF EndSound
  <2>5. net[e] \in Seq(Sendable(Peer(e), app[Peer(e)]))
    BY <2>1
  <2> QED BY <2>1, <2>4, <2>5 DEF EndInv
<1>2. scenario \in Scenarios /\ DOMAIN tcb = Ends /\ DOMAIN app = Ends /\ DOMAIN net = Ends
  BY DEF Init
<1> QED BY <1>1, <1>2 DEF PairInv

\* A step that changes nothing.
LEMMA StutterSound == PairInv /\ UNCHANGED vars => PairInv'
<1> SUFFICES ASSUME PairInv, UNCHANGED vars PROVE PairInv'
  OBVIOUS
<1>1. UNCHANGED <<scenario, opened, tcb, app, net>>
  BY DEF vars
<1> QED BY <1>1 DEF PairInv, EndInv

-----------------------------------------------------------------------------
(* The theorems.                                                           *)

\* What the numbers of every segment, of every entry kept and of both TCBs mean,
\* in every state two ends can reach: the invariant that the properties rest on.
THEOREM PairInvariant == Spec => []PairInv
<1>1. PairInv /\ [Next]_vars => PairInv'
  BY NextStep, StutterSound
<1> QED BY InitSound, <1>1, PTL DEF Spec

\* The numbers, buffers and windows of both ends stay in their ranges between
\* calls (tcp_tcb.hpp), whatever the two applications and the network do.
THEOREM TypeCorrect == Spec => []TypeOK
<1>1. PairInv => TypeOK
  <2> SUFFICES ASSUME PairInv, NEW e \in Ends PROVE
        /\ tcb[e].state \in States
        /\ {tcb[e].snd_una, tcb[e].snd_nxt, tcb[e].rcv_nxt} \subseteq SeqNum
        /\ tcb[e].send_buffer \in 0 .. SendBufferSize
        /\ tcb[e].rcv_wnd \in 0 .. RecvBufferSize
        /\ tcb[e].dup_ack_count \in 0 .. 2
        /\ app[e].written \in 0 .. MaxWritten
    BY DEF TypeOK
  <2>1. EndSound(tcb[e], app[e], e, app[Peer(e)])
    BY DEF PairInv, EndInv
  <2> QED BY <2>1 DEF EndSound, TcbType, AppType
<1> QED BY PairInvariant, <1>1, PTL

\* A FIN is consumed only behind all the data before it (process_data and the FIN
\* handling of the state handlers): the end of the stream is not taken for
\* reached early, whatever is lost, repeated or overtaken.
THEOREM FinBehindData == Spec => []FinAfterData
<1>1. PairInv => FinAfterData
  BY DEF PairInv, EndInv, EndSound, HandedSound, FinAfterData
<1> QED BY PairInvariant, <1>1, PTL

\* More has been written, or handed over, or not.
LEMMA WriteStep ==
  ASSUME NEW v \in 0 .. MaxWritten, NEW w \in 0 .. MaxWritten, v <= w
  PROVE  w = v \/ \E n \in 1 .. MaxWritten : v + n <= MaxWritten /\ w = v + n
<1>1. MaxWritten \in Nat
  BY Constants
<1>2. CASE v < w
  <2> DEFINE n == w - v
  <2>1. n \in 1 .. MaxWritten /\ v + n <= MaxWritten /\ w = v + n
    BY <1>1, <1>2
  <2> QED BY <2>1
<1> QED BY <1>1, <1>2

\* More has been handed over, or not.
LEMMA ReadStep ==
  ASSUME NEW x, NEW y, Len(x) \in Nat, Len(y) \in Nat,
         x = Bytes(0, Len(x)), y = Bytes(0, Len(y)),
         NEW w \in 0 .. MaxWritten, Len(x) <= Len(y), Len(y) <= w
  PROVE  y = x \/ \E n \in 1 .. MaxWritten :
                      Len(x) + n <= w /\ y = x \o Bytes(Len(x), n)
<1> DEFINE k == Len(x)
           m == Len(y)
<1>1. /\ MaxWritten \in Nat /\ k \in Nat /\ m \in Nat /\ k <= m /\ m <= w
      /\ x = Bytes(0, k) /\ y = Bytes(0, m)
  BY Constants
<1> HIDE DEF k, m
<1>2. CASE k < m
  <2> DEFINE n == m - k
  <2>1. n \in 1 .. MaxWritten /\ n \in Nat /\ k + n = m /\ k + n <= w
    BY <1>1, <1>2
  <2> HIDE DEF n
  <2>2. Bytes(0, k) \o Bytes(k, n) = Bytes(0, k + n)
    BY <1>1, <2>1, BytesJoin
  <2>3. y = x \o Bytes(k, n)
    BY <1>1, <2>1, <2>2
  <2>4. Len(x) + n <= w /\ y = x \o Bytes(Len(x), n) /\ n \in 1 .. MaxWritten
    BY <2>1, <2>3 DEF k
  <2> QED BY <2>4, Zenon
<1>3. CASE k = m
  BY <1>1, <1>3
<1>4. k < m \/ k = m
  BY <1>1
<1> QED BY <1>2, <1>3, <1>4, Zenon

\* The stream of one end, seen from both, is a byte stream: the call writes, or
\* the other end's call reads, or neither.
LEMMA StreamStep ==
  ASSUME PairInv, PairInv', NEW e \in Ends, NEW g \in Ends, Moved(g)
  PROVE  \/ /\ app'[e].written = app[e].written
            /\ app'[Peer(e)].received = app[Peer(e)].received
         \/ \E n \in 1 .. MaxWritten :
              /\ app[e].written + n <= MaxWritten
              /\ app'[e].written = app[e].written + n
              /\ app'[Peer(e)].received = app[Peer(e)].received
         \/ \E n \in 1 .. MaxWritten :
              /\ Len(app[Peer(e)].received) + n <= app[e].written
              /\ app'[Peer(e)].received
                   = app[Peer(e)].received \o Bytes(Len(app[Peer(e)].received), n)
              /\ app'[e].written = app[e].written
<1> DEFINE f == Peer(e)
           a == app[e]
           b == app'[e]
           x == app[f].received
           y == app'[f].received
<1>1. f \in Ends /\ Peer(f) = e /\ Ends = {e, f} /\ f # e
  BY PeerType DEF Ends
<1>2. /\ AppType(a) /\ AppType(b) /\ AppType(app[f]) /\ AppType(app'[f])
      /\ HandedSound(app[f], a) /\ HandedSound(app'[f], b)
  BY <1>1 DEF PairInv, EndInv, EndSound
<1>3. /\ a.written \in 0 .. MaxWritten /\ b.written \in 0 .. MaxWritten
      /\ x = Bytes(0, Len(x)) /\ y = Bytes(0, Len(y)) /\ Len(y) <= b.written
      /\ Len(x) \in Nat /\ Len(y) \in Nat /\ MaxWritten \in Nat
  BY <1>2, LenProperties, Constants DEF AppType, HandedSound
<1>4. CASE g = e
  <2>1. y = x /\ a.written <= b.written
    BY <1>4 DEF Moved, Grows
  <2> HIDE DEF x, y, a, b
  <2>2. \/ b.written = a.written
        \/ \E n \in 1 .. MaxWritten : a.written + n <= MaxWritten /\ b.written = a.written + n
    BY <1>3, <2>1, WriteStep
  <2> QED BY <2>1, <2>2 DEF x, y, a, b, f
<1>5. CASE g = f
  <2>1. b = a /\ Len(x) <= Len(y)
    BY <1>1, <1>5 DEF Moved
  <2> HIDE DEF x, y, a, b
  <2>2. y = x \/ \E n \in 1 .. MaxWritten :
                    Len(x) + n <= a.written /\ y = x \o Bytes(Len(x), n)
    BY <1>3, <2>1, ReadStep
  <2> QED BY <2>1, <2>2 DEF x, y, a, b, f
<1> QED BY <1>1, <1>4, <1>5

\* What each application is handed is what the other one wrote: every byte, once,
\* in order, through send_segment, the retransmissions, process_data and
\* deliver_ooo_data, whatever is lost, repeated or overtaken and however the two
\* sequence spaces wrap.
THEOREM StreamsImplemented == Spec => ImplementsStreams
<1>1. Init => FromA!StreamInit /\ FromB!StreamInit
  <2>1. NewApp.written = 0 /\ NewApp.received = <<>>
    BY DEF NewApp
  <2>2. "A" \in Ends /\ "B" \in Ends
    BY DEF Ends
  <2> QED BY <2>1, <2>2 DEF Init, FromA!StreamInit, FromB!StreamInit
<1>2. PairInv /\ [Next]_vars
        => [FromA!StreamNext]_(FromA!streamVars) /\ [FromB!StreamNext]_(FromB!streamVars)
  <2> SUFFICES ASSUME PairInv, [Next]_vars
               PROVE  /\ [FromA!StreamNext]_(FromA!streamVars)
                      /\ [FromB!StreamNext]_(FromB!streamVars)
    OBVIOUS
  <2>1. CASE UNCHANGED vars
    BY <2>1 DEF vars, FromA!streamVars, FromB!streamVars
  <2>2. CASE Next
    <3>1. "A" \in Ends /\ "B" \in Ends /\ Peer("A") = "B" /\ Peer("B") = "A"
      BY DEF Ends, Peer
    <3>2. PICK g \in Ends : PairInv' /\ Moved(g)
      BY <2>2, NextStep
    <3>3. [FromA!StreamNext]_(FromA!streamVars)
      BY <3>1, <3>2, StreamStep
      DEF FromA!StreamNext, FromA!Write, FromA!Read, FromA!streamVars, FromA!Bytes, Bytes
    <3>4. [FromB!StreamNext]_(FromB!streamVars)
      BY <3>1, <3>2, StreamStep
      DEF FromB!StreamNext, FromB!Write, FromB!Read, FromB!streamVars, FromB!Bytes, Bytes
    <3> QED BY <3>3, <3>4
  <2> QED BY <2>1, <2>2
<1> QED BY <1>1, <1>2, PairInvariant, PTL
  DEF Spec, ImplementsStreams, FromA!StreamSpec, FromB!StreamSpec
=============================================================================

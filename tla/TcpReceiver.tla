---------------------------- MODULE TcpReceiver ----------------------------
(***************************************************************************)
(* The receive side of one TCP connection of                               *)
(* src/transport/tcp_connection.cpp: reassembly (handle_data,              *)
(* add_to_ooo_queue, deliver_ooo_data, deliver_data) and delayed           *)
(* acknowledgements (handle_data, check_delayed_ack).                      *)
(*                                                                         *)
(* The network is the worst one: at any time it may present any piece of   *)
(* at most MSS bytes of what the peer has sent so far, so loss,            *)
(* duplication, reordering and every re-cut of a retransmission are all    *)
(* behaviours of receive.  Sequence numbers are positions in the peer's    *)
(* stream, counted from its initial sequence number plus one; SeqOrder in  *)
(* TcpPairProofs shows that tcp_seq.hpp's comparisons agree with =< on     *)
(* positions less than half the sequence space apart.                      *)
(*                                                                         *)
(* deliver_data calls the application back, from handle_data and from each *)
(* iteration of deliver_ooo_data, and rcv_nxt moves only when the callback  *)
(* has returned: a segment the application sends from it carries the old   *)
(* acknowledgement number.  So the call, the return and each iteration are *)
(* steps of their own, and pc says where the thread is.                    *)
(***************************************************************************)
EXTENDS Integers, Sequences, FiniteSets

CONSTANTS MaxStream,       \* bound: the bytes the peer sends in all
          MSS,             \* options.mss: the longest segment
          RecvBufferSize,  \* options.recv_buffer_size: the limit on ooo_size
          DelayedAck       \* options.delayed_ack_enabled

ASSUME ReceiverAssumption ==
  /\ MaxStream \in Nat
  /\ MSS \in Nat \ {0}
  /\ RecvBufferSize \in Nat
  /\ DelayedAck \in BOOLEAN

VARIABLES
  sent,                \* bytes the peer has sent at least once (environment)
  rcv_nxt,             \* the next byte expected
  ooo_queue,           \* out-of-order segments, a list sorted by start
  ooo_size,            \* bytes held in ooo_queue, as the code counts them
  delivered,           \* the bytes passed to on_receive, in order
  delayed_ack_pending, \* an acknowledgement is owed and its timer armed
  last_ack,            \* acknowledgement number of the last ACK sent
  pc,                  \* "idle", between handlers; "callback", "callback_ooo":
                       \* in on_receive; "drain": in deliver_ooo_data's loop
  seg_end              \* in a callback: where rcv_nxt moves when it returns

queueVars == <<ooo_queue, ooo_size>>
ackVars == <<delayed_ack_pending, last_ack>>
vars == <<sent, rcv_nxt, queueVars, delivered, ackVars, pc, seg_end>>

\* A segment's bytes: those of the stream from start up to, not including, end.
Segment == {s \in [start : 0..MaxStream, end : 0..MaxStream] :
              s.start < s.end /\ s.end - s.start =< MSS}

Bytes(start, end) == [i \in 1..(end - start) |-> start + i - 1]

Init ==
  /\ sent = 0
  /\ rcv_nxt = 0
  /\ ooo_queue = <<>>
  /\ ooo_size = 0
  /\ delivered = <<>>
  /\ delayed_ack_pending = FALSE
  /\ last_ack = 0
  /\ pc = "idle"
  /\ seg_end = 0

-----------------------------------------------------------------------------
(* The peer.                                                               *)

\* The peer sends n more bytes: from now on the network may present them.
peer_send(n) ==
  /\ sent + n =< MaxStream
  /\ sent' = sent + n
  /\ UNCHANGED <<rcv_nxt, queueVars, delivered, ackVars, pc, seg_end>>

-----------------------------------------------------------------------------
(* Helpers of the handlers.                                                *)

\* Hand the bytes from start to end to the application: on_receive is entered.
deliver_data(start, end) ==
  /\ delivered' = delivered \o Bytes(start, end)
  /\ seg_end' = end

\* Mutant: acknowledge the last byte held, not the first one missing.
send_ack_highest ==
  last_ack' = IF ooo_queue = <<>> THEN rcv_nxt ELSE ooo_queue[Len(ooo_queue)].end

\* An ACK segment carries the current rcv_nxt.
send_ack == last_ack' = rcv_nxt

\* Mutant: append.
IsInsertPoint_last(k, seq) == k = Len(ooo_queue)

\* add_to_ooo_queue inserts behind the first k entries: those that start
\* before seq.
IsInsertPoint(k, seq) ==
  /\ \A i \in 1..k : ooo_queue[i].start < seq
  /\ k < Len(ooo_queue) => ooo_queue[k + 1].start >= seq

Insert(k, seg) ==
  [i \in 1..(Len(ooo_queue) + 1) |->
     IF i =< k THEN ooo_queue[i]
     ELSE IF i = k + 1 THEN seg ELSE ooo_queue[i - 1]]

\* Keep an out-of-order segment, unless the buffer limit would be exceeded.
add_to_ooo_queue(seg) ==
  IF ooo_size + (seg.end - seg.start) > RecvBufferSize
  THEN UNCHANGED <<ooo_queue, ooo_size>>
  ELSE /\ \E k \in 0..Len(ooo_queue) : /\ IsInsertPoint(k, seg.start)
                                        /\ ooo_queue' = Insert(k, seg)
       /\ ooo_size' = ooo_size + (seg.end - seg.start)

-----------------------------------------------------------------------------
(* handle_data, by the position of the segment.                            *)

\* The part of the segment that is not before rcv_nxt.
Trim(seg) == [start |-> IF seg.start < rcv_nxt THEN rcv_nxt ELSE seg.start,
              end   |-> seg.end]

\* Case 1: nothing new.  The segment is dropped and not acknowledged.
receive_duplicate(seg) ==
  /\ seg.end =< rcv_nxt
  /\ UNCHANGED vars

\* Cases 2 and 3: the segment, less what is before rcv_nxt, is the data
\* expected next.
receive_in_order(seg) ==
  /\ seg.end > rcv_nxt
  /\ Trim(seg).start = rcv_nxt
  /\ deliver_data(Trim(seg).start, seg.end)
  /\ pc' = "callback"
  /\ UNCHANGED <<sent, rcv_nxt, queueVars, ackVars>>

\* Case 4: a gap before the segment.  It is kept if there is room, and a
\* duplicate ACK is sent at once (the delayed one stays armed).
receive_out_of_order(seg) ==
  /\ seg.end > rcv_nxt
  /\ Trim(seg).start > rcv_nxt
  /\ add_to_ooo_queue(Trim(seg))
  /\ send_ack
  /\ UNCHANGED <<sent, rcv_nxt, delivered, delayed_ack_pending, pc, seg_end>>

handle_data(seg) ==
  /\ pc = "idle"
  /\ seg.end =< sent
  /\ \/ receive_duplicate(seg)
     \/ receive_in_order(seg)
     \/ receive_out_of_order(seg)

-----------------------------------------------------------------------------
(* deliver_ooo_data, one iteration, and the acknowledgement that follows.  *)

\* Mutant: give back only the part that was new.
PopFront_new_part ==
  /\ ooo_queue' = Tail(ooo_queue)
  /\ ooo_size' = ooo_size - (Head(ooo_queue).end - Trim(Head(ooo_queue)).start)

\* Remove the first entry, with all its bytes.
PopFront ==
  /\ ooo_queue' = Tail(ooo_queue)
  /\ ooo_size' = ooo_size - (Head(ooo_queue).end - Head(ooo_queue).start)

\* The application returns from on_receive: the bytes count as received, and
\* an entry of the queue that held them is removed.
callback_return ==
  /\ pc \in {"callback", "callback_ooo"}
  /\ rcv_nxt' = seg_end
  /\ IF pc = "callback_ooo" THEN PopFront ELSE UNCHANGED queueVars
  /\ pc' = "drain"
  /\ seg_end' = 0
  /\ UNCHANGED <<sent, delivered, ackVars>>

\* The first entry holds only bytes already delivered.
drain_discard ==
  /\ pc = "drain"
  /\ ooo_queue # <<>>
  /\ Head(ooo_queue).start =< rcv_nxt
  /\ Head(ooo_queue).end =< rcv_nxt
  /\ PopFront
  /\ UNCHANGED <<sent, rcv_nxt, delivered, ackVars, pc, seg_end>>

\* Mutant: no check that the entry holds anything new.
drain_deliver_stale ==
  /\ pc = "drain"
  /\ ooo_queue # <<>>
  /\ Head(ooo_queue).start =< rcv_nxt
  /\ deliver_data(Trim(Head(ooo_queue)).start, Head(ooo_queue).end)
  /\ pc' = "callback_ooo"
  /\ UNCHANGED <<sent, rcv_nxt, queueVars, ackVars>>

\* Mutant: no check for a gap before the entry.
drain_deliver_gap ==
  /\ pc = "drain"
  /\ ooo_queue # <<>>
  /\ Head(ooo_queue).end > rcv_nxt
  /\ deliver_data(Trim(Head(ooo_queue)).start, Head(ooo_queue).end)
  /\ pc' = "callback_ooo"
  /\ UNCHANGED <<sent, rcv_nxt, queueVars, ackVars>>

\* The first entry reaches beyond rcv_nxt and leaves no gap.
drain_deliver ==
  /\ pc = "drain"
  /\ ooo_queue # <<>>
  /\ Head(ooo_queue).start =< rcv_nxt
  /\ Head(ooo_queue).end > rcv_nxt
  /\ deliver_data(Trim(Head(ooo_queue)).start, Head(ooo_queue).end)
  /\ pc' = "callback_ooo"
  /\ UNCHANGED <<sent, rcv_nxt, queueVars, ackVars>>

\* Mutant: the second segment stops the timer and sends nothing.
ack_delivered_unsent ==
  /\ delayed_ack_pending' = ~delayed_ack_pending
  /\ UNCHANGED last_ack

\* In-order data is acknowledged at once, or, with delayed ACKs, at every
\* second segment; the first one arms the timer.
ack_delivered ==
  IF DelayedAck /\ ~delayed_ack_pending
  THEN delayed_ack_pending' = TRUE /\ UNCHANGED last_ack
  ELSE send_ack /\ delayed_ack_pending' = FALSE

\* The loop ends: nothing is queued, or a gap comes first.
drain_done ==
  /\ pc = "drain"
  /\ ooo_queue # <<>> => Head(ooo_queue).start > rcv_nxt
  /\ ack_delivered
  /\ pc' = "idle"
  /\ UNCHANGED <<sent, rcv_nxt, queueVars, delivered, seg_end>>

\* Mutant: the timer is put off while data is held out of order.
check_delayed_ack_held ==
  /\ pc = "idle"
  /\ delayed_ack_pending
  /\ ooo_queue = <<>>
  /\ send_ack
  /\ delayed_ack_pending' = FALSE
  /\ UNCHANGED <<sent, rcv_nxt, queueVars, delivered, pc, seg_end>>

\* on_timer finds the delayed ACK due.
check_delayed_ack ==
  /\ pc = "idle"
  /\ delayed_ack_pending
  /\ send_ack
  /\ delayed_ack_pending' = FALSE
  /\ UNCHANGED <<sent, rcv_nxt, queueVars, delivered, pc, seg_end>>

\* The application sends data of its own, from on_receive or between handlers:
\* the segment carries rcv_nxt, and a delayed ACK stays armed.
app_send ==
  /\ pc # "drain"
  /\ send_ack
  /\ UNCHANGED <<sent, rcv_nxt, queueVars, delivered, delayed_ack_pending,
                 pc, seg_end>>

-----------------------------------------------------------------------------

drain == callback_return \/ drain_discard \/ drain_deliver \/ drain_done

Next ==
  \/ \E n \in 1..MaxStream : peer_send(n)
  \/ \E seg \in Segment : handle_data(seg)
  \/ drain
  \/ check_delayed_ack
  \/ app_send

Spec == Init /\ [][Next]_vars

\* The event loop runs the handler it is in to its end, and on_timer visits
\* every connection each 100 ms.  Nothing is assumed of the network.
FairSpec == Spec /\ WF_vars(drain) /\ WF_vars(check_delayed_ack)

-----------------------------------------------------------------------------
(* Properties.                                                             *)

\* Types and ranges of the state variables.
TypeOK ==
  /\ sent \in 0..MaxStream
  /\ rcv_nxt \in 0..sent
  /\ ooo_queue \in Seq(Segment)
  /\ ooo_size \in Int /\ ooo_size =< RecvBufferSize
  /\ delivered \in Seq(Nat)
  /\ delayed_ack_pending \in BOOLEAN
  /\ last_ack \in 0..sent
  /\ pc \in {"idle", "callback", "callback_ooo", "drain"}
  /\ seg_end \in 0..sent

\* handle_data and deliver_ooo_data: whatever was lost, repeated, reordered
\* or re-cut, the application has been handed exactly a prefix of the peer's
\* stream, each byte once and in order: the first rcv_nxt bytes between
\* handlers, those up to seg_end inside a callback.
InOrder ==
  /\ Len(delivered) = IF pc \in {"callback", "callback_ooo"}
                      THEN seg_end ELSE rcv_nxt
  /\ \A i \in 1..Len(delivered) : delivered[i] = i - 1

\* An ACK never acknowledges a byte the application has not been handed: the
\* peer forgets what it is told has arrived.
AckTruthful == last_ack =< Len(delivered)

\* deliver_ooo_data stops at the first entry that leaves a gap: no entry
\* behind it may be deliverable, or bytes the peer was told are missing would
\* sit in the queue until more data arrives.
NoStrandedData ==
  pc = "idle" => \A i \in 1..Len(ooo_queue) : ooo_queue[i].start > rcv_nxt

\* The bytes the entries of queue hold, each with its entry: entries overlap, and
\* a byte held twice takes room twice.
Held(queue) ==
  {b \in (1..Len(queue)) \X (0..MaxStream) :
     queue[b[1]].start =< b[2] /\ b[2] < queue[b[1]].end}

\* add_to_ooo_queue and deliver_ooo_data keep ooo_size by increments: it is
\* what the queue holds, so the limit is neither overrun nor used up for good.
OooAccounting == ooo_size = Cardinality(Held(ooo_queue))

\* handle_data may leave an acknowledgement for later only with the timer
\* armed: between handlers, every delivered byte is acknowledged or
\* check_delayed_ack will acknowledge it.
AckOwed == pc = "idle" => (last_ack = rcv_nxt \/ delayed_ack_pending)

\* Acknowledgement numbers never go back.
AckMonotone == [][last_ack' >= last_ack]_last_ack

\* Every byte delivered to the application is acknowledged eventually, if
\* only by the timer.
EventuallyAcked ==
  \A n \in 1..MaxStream : rcv_nxt >= n ~> last_ack >= n

\* The connection implements the byte stream it promises.
Stream == INSTANCE ByteStream WITH snt <- sent, rcvd <- delivered
ImplementsStream == Stream!StreamSpec
=============================================================================

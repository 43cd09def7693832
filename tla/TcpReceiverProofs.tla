------------------------- MODULE TcpReceiverProofs -------------------------
(***************************************************************************)
(* Proofs about TcpReceiver, for a stream, segments and a buffer of any    *)
(* size, with and without delayed ACKs.                                    *)
(*                                                                         *)
(* The properties are not inductive.  They rest on the order of the queue  *)
(* (QueueSorted: deliver_ooo_data looks at the first entry only), on the   *)
(* entries being bytes the peer has sent (QueueSent), on what a callback   *)
(* in progress is handing over (InCallback), and on acknowledgements never *)
(* passing rcv_nxt (AckPast).                                              *)
(***************************************************************************)
EXTENDS TcpReceiver, SequenceTheorems, FiniteSetTheorems, TLAPS

QueueSorted ==
  \A i, j \in 1..Len(ooo_queue) : i < j => ooo_queue[i].start =< ooo_queue[j].start

QueueSent == \A i \in 1..Len(ooo_queue) : ooo_queue[i].end =< sent

InCallback ==
  /\ pc \in {"callback", "callback_ooo"} => rcv_nxt < seg_end
  /\ pc \notin {"callback", "callback_ooo"} => seg_end = 0
  /\ pc = "callback_ooo" => /\ ooo_queue # <<>>
                            /\ seg_end = ooo_queue[1].end

AckPast == last_ack =< rcv_nxt

IInv == /\ TypeOK /\ InOrder /\ NoStrandedData /\ AckOwed
        /\ QueueSorted /\ QueueSent /\ InCallback /\ AckPast

-----------------------------------------------------------------------------
(* The operators on segments and sequences.                                *)

\* The bytes deliver_data hands over are a sequence of positions.
LEMMA BytesSeq ==
  ASSUME NEW start \in Nat, NEW end \in Nat, start =< end
  PROVE  /\ Bytes(start, end) \in Seq(Nat)
         /\ Len(Bytes(start, end)) = end - start
         /\ \A i \in 1..(end - start) : Bytes(start, end)[i] = start + i - 1
  BY DEF Bytes

\* Handing over the bytes that come next keeps the application's bytes a
\* prefix of the stream.
LEMMA DeliverPrefix ==
  \A s \in Seq(Nat), end \in Nat :
    (Len(s) =< end /\ \A i \in 1..Len(s) : s[i] = i - 1) =>
       /\ s \o Bytes(Len(s), end) \in Seq(Nat)
       /\ Len(s \o Bytes(Len(s), end)) = end
       /\ \A i \in 1..Len(s \o Bytes(Len(s), end)) : (s \o Bytes(Len(s), end))[i] = i - 1
<1> SUFFICES ASSUME NEW s \in Seq(Nat), NEW end \in Nat, Len(s) =< end,
                    \A i \in 1..Len(s) : s[i] = i - 1
             PROVE  /\ s \o Bytes(Len(s), end) \in Seq(Nat)
                    /\ Len(s \o Bytes(Len(s), end)) = end
                    /\ \A i \in 1..Len(s \o Bytes(Len(s), end)) :
                         (s \o Bytes(Len(s), end))[i] = i - 1
  OBVIOUS
<1> DEFINE b == Bytes(Len(s), end)
           t == s \o b
<1>1. Len(s) \in Nat
  BY LenProperties
<1>2. b \in Seq(Nat) /\ Len(b) = end - Len(s)
      /\ \A i \in 1..(end - Len(s)) : b[i] = Len(s) + i - 1
  BY <1>1, BytesSeq
<1> HIDE DEF b
<1>3. t \in Seq(Nat) /\ Len(t) = Len(s) + Len(b)
      /\ \A i \in 1..(Len(s) + Len(b)) : t[i] = IF i =< Len(s) THEN s[i] ELSE b[i - Len(s)]
  BY <1>2, ConcatProperties
<1> HIDE DEF t
<1>4. ASSUME NEW i \in 1..Len(t) PROVE t[i] = i - 1
  <2>1. i \in Nat /\ i \in 1..(Len(s) + Len(b))
    BY <1>1, <1>2, <1>3
  <2>2. t[i] = IF i =< Len(s) THEN s[i] ELSE b[i - Len(s)]
    BY <1>3, <2>1
  <2>3. CASE i =< Len(s)
    <3>1. i \in 1..Len(s)
      BY <1>1, <2>1, <2>3
    <3> QED BY <2>2, <2>3, <3>1
  <2>4. CASE ~(i =< Len(s))
    <3>1. i - Len(s) \in 1..(end - Len(s))
      BY <1>1, <1>2, <2>1, <2>4
    <3>2. b[i - Len(s)] = Len(s) + (i - Len(s)) - 1
      BY <1>2, <3>1
    <3> QED BY <1>1, <2>1, <2>2, <2>4, <3>2
  <2> QED BY <2>3, <2>4
<1>5. t \in Seq(Nat) /\ Len(t) = end /\ \A i \in 1..Len(t) : t[i] = i - 1
  BY <1>1, <1>2, <1>3, <1>4
<1> QED BY <1>5 DEF t, b

\* Inserting a segment: the entries before the place stay, those behind it
\* move up by one.
LEMMA InsertSeq ==
  ASSUME ooo_queue \in Seq(Segment), NEW k \in 0..Len(ooo_queue),
         NEW seg \in Segment
  PROVE  /\ Insert(k, seg) \in Seq(Segment)
         /\ Len(Insert(k, seg)) = Len(ooo_queue) + 1
         /\ \A i \in 1..k : Insert(k, seg)[i] = ooo_queue[i]
         /\ Insert(k, seg)[k + 1] = seg
         /\ \A i \in (k + 2)..(Len(ooo_queue) + 1) : Insert(k, seg)[i] = ooo_queue[i - 1]
<1>1. Len(ooo_queue) \in Nat /\ \A i \in 1..Len(ooo_queue) : ooo_queue[i] \in Segment
  BY LenProperties, ElementOfSeq
<1> QED BY <1>1 DEF Insert

\* Inserting behind the entries that start earlier keeps the queue sorted.
LEMMA InsertSorted ==
  ASSUME ooo_queue \in Seq(Segment), QueueSorted,
         NEW seg \in Segment, NEW k \in 0..Len(ooo_queue),
         IsInsertPoint(k, seg.start)
  PROVE  \A i, j \in 1..Len(Insert(k, seg)) :
           i < j => Insert(k, seg)[i].start =< Insert(k, seg)[j].start
<1>1. Len(ooo_queue) \in Nat
      /\ \A i \in 1..Len(ooo_queue) : ooo_queue[i].start \in Nat
      /\ seg.start \in Nat
  BY LenProperties, ElementOfSeq, ReceiverAssumption DEF Segment
<1>2. \A i \in 1..k : ooo_queue[i].start =< seg.start
  BY <1>1 DEF IsInsertPoint
<1>3. \A i \in (k + 1)..Len(ooo_queue) : seg.start =< ooo_queue[i].start
  BY <1>1 DEF IsInsertPoint, QueueSorted
<1> DEFINE ins == Insert(k, seg)
<1>4. /\ Len(ins) = Len(ooo_queue) + 1
      /\ \A i \in 1..k : ins[i] = ooo_queue[i]
      /\ ins[k + 1] = seg
      /\ \A i \in (k + 2)..(Len(ooo_queue) + 1) : ins[i] = ooo_queue[i - 1]
  BY InsertSeq
<1> HIDE DEF ins
<1> SUFFICES ASSUME NEW i \in 1..Len(ins), NEW j \in 1..Len(ins), i < j
             PROVE  ins[i].start =< ins[j].start
  BY DEF ins
<1>5. CASE j < k + 1
  <2>1. i \in 1..k /\ j \in 1..k /\ k =< Len(ooo_queue)
    BY <1>1, <1>4, <1>5
  <2>2. ooo_queue[i].start =< ooo_queue[j].start
    BY <1>1, <2>1 DEF QueueSorted
  <2> QED BY <1>4, <2>1, <2>2
<1>6. CASE i < k + 1 /\ j = k + 1
  BY <1>1, <1>2, <1>4, <1>6
<1>7. CASE i < k + 1 /\ j > k + 1
  <2>1. /\ i \in 1..k /\ j - 1 \in (k + 1)..Len(ooo_queue)
        /\ j \in (k + 2)..(Len(ooo_queue) + 1)
        /\ i \in 1..Len(ooo_queue) /\ j - 1 \in 1..Len(ooo_queue)
    BY <1>1, <1>4, <1>7
  <2>2. ooo_queue[i].start =< seg.start /\ seg.start =< ooo_queue[j - 1].start
    BY <1>2, <1>3, <2>1
  <2>3. ooo_queue[i].start =< ooo_queue[j - 1].start
    BY <1>1, <2>1, <2>2
  <2> QED BY <1>4, <2>1, <2>3
<1>8. CASE i = k + 1
  <2>1. j - 1 \in (k + 1)..Len(ooo_queue) /\ j \in (k + 2)..(Len(ooo_queue) + 1)
    BY <1>1, <1>4, <1>8
  <2> QED BY <1>3, <1>4, <1>8, <2>1
<1>9. CASE i > k + 1
  <2>1. /\ i \in (k + 2)..(Len(ooo_queue) + 1) /\ j \in (k + 2)..(Len(ooo_queue) + 1)
        /\ i - 1 \in 1..Len(ooo_queue) /\ j - 1 \in 1..Len(ooo_queue) /\ i - 1 < j - 1
    BY <1>1, <1>4, <1>9
  <2>2. ooo_queue[i - 1].start =< ooo_queue[j - 1].start
    BY <2>1 DEF QueueSorted
  <2> QED BY <1>4, <2>1, <2>2
<1> QED BY <1>1, <1>4, <1>5, <1>6, <1>7, <1>8, <1>9

-----------------------------------------------------------------------------
(* The bytes held out of order.                                            *)

\* The bytes of one entry, at place k of the queue.
LEMMA EntryBytes ==
  ASSUME NEW k \in Nat, NEW seg \in Segment
  PROVE  /\ IsFiniteSet({k} \X (seg.start..(seg.end - 1)))
         /\ Cardinality({k} \X (seg.start..(seg.end - 1))) = seg.end - seg.start
<1> DEFINE last == seg.end - 1
           bytes == seg.start..last
<1>1. seg.start \in Nat /\ seg.end \in Nat /\ last \in Int /\ seg.start =< last
  BY ReceiverAssumption DEF Segment
<1>2. last - seg.start + 1 = seg.end - seg.start
  BY <1>1
<1> HIDE DEF last
<1>3. IsFiniteSet(bytes) /\ Cardinality(bytes) = last - seg.start + 1
  <2>1. seg.start \in Int /\ ~(seg.start > last)
    BY <1>1
  <2>2. /\ IsFiniteSet(bytes)
        /\ Cardinality(bytes) = IF seg.start > last THEN 0 ELSE last - seg.start + 1
    BY <1>1, <2>1, FS_Interval, Zenon
  <2> QED BY <2>1, <2>2
<1>4. IsFiniteSet({k}) /\ Cardinality({k}) = 1
  BY FS_Singleton
<1> HIDE DEF bytes
<1>5. IsFiniteSet({k} \X bytes) /\ Cardinality({k} \X bytes) = 1 * Cardinality(bytes)
  BY <1>3, <1>4, FS_Product
<1>6. Cardinality({k} \X bytes) = last - seg.start + 1
  BY <1>1, <1>3, <1>5
<1> QED BY <1>2, <1>5, <1>6 DEF bytes, last

LEMMA HeldFinite ==
  ASSUME NEW q \in Seq(Segment)
  PROVE  IsFiniteSet(Held(q)) /\ Cardinality(Held(q)) \in Nat
<1>1. IsFiniteSet(1..Len(q)) /\ IsFiniteSet(0..MaxStream)
  <2>1. 1 \in Int /\ 0 \in Int /\ Len(q) \in Int /\ MaxStream \in Int
    BY LenProperties, ReceiverAssumption
  <2> QED BY <2>1, FS_Interval
<1>2. IsFiniteSet((1..Len(q)) \X (0..MaxStream))
  BY <1>1, FS_Product
<1>3. Held(q) \in SUBSET ((1..Len(q)) \X (0..MaxStream))
  BY DEF Held
<1> QED BY <1>2, <1>3, FS_Subset, FS_CardinalityType

\* A queue q that is p with seg at place k + 1 holds the bytes of p, those behind
\* the place under a number one higher, and those of seg.
LEMMA HeldInsert ==
  ASSUME NEW p \in Seq(Segment), NEW q \in Seq(Segment),
         NEW k \in 0..Len(p), NEW seg \in Segment,
         Len(q) = Len(p) + 1,
         \A i \in 1..k : q[i] = p[i],
         q[k + 1] = seg,
         \A i \in (k + 2)..(Len(p) + 1) : q[i] = p[i - 1]
  PROVE  Cardinality(Held(q)) = Cardinality(Held(p)) + (seg.end - seg.start)
<1> DEFINE place(i) == IF i =< k THEN i ELSE i + 1
           moved == [b \in Held(p) |-> <<place(b[1]), b[2]>>]
           new == {k + 1} \X (seg.start..(seg.end - 1))
           old == Held(q) \ new
<1>1. Len(p) \in Nat /\ Len(q) \in Nat /\ k \in Nat /\ MaxStream \in Nat
  BY LenProperties, ReceiverAssumption
<1>2. /\ seg.start \in 0..MaxStream /\ seg.end \in 0..MaxStream /\ seg.start < seg.end
  BY ReceiverAssumption DEF Segment
<1>3. IsFiniteSet(new) /\ Cardinality(new) = seg.end - seg.start
  <2>1. k + 1 \in Nat
    BY <1>1
  <2> QED BY <2>1, EntryBytes, Zenon
<1>4. new \subseteq Held(q)
  <2> SUFFICES ASSUME NEW n \in seg.start..(seg.end - 1)
               PROVE  <<k + 1, n>> \in Held(q)
    OBVIOUS
  <2>1. n \in 0..MaxStream /\ seg.start =< n /\ n < seg.end
    BY <1>1, <1>2
  <2>2. k + 1 \in 1..Len(q)
    BY <1>1
  <2> QED BY <2>1, <2>2 DEF Held
<1>5. \A b \in old : b[1] \in 1..Len(q) /\ b[1] # k + 1
  <2> SUFFICES ASSUME NEW b \in Held(q), b[1] = k + 1 PROVE b \in new
    BY DEF Held
  <2>1. b[2] \in 0..MaxStream /\ b = <<b[1], b[2]>>
        /\ seg.start =< b[2] /\ b[2] < seg.end
    BY DEF Held
  <2>2. b[2] \in seg.start..(seg.end - 1)
    BY <1>1, <1>2, <2>1
  <2> QED BY <2>1, <2>2
<1>6. \A i \in 1..Len(p) : place(i) \in 1..Len(q) /\ place(i) # k + 1 /\ q[place(i)] = p[i]
  <2> SUFFICES ASSUME NEW i \in 1..Len(p)
               PROVE  place(i) \in 1..Len(q) /\ place(i) # k + 1 /\ q[place(i)] = p[i]
    OBVIOUS
  <2>1. CASE i =< k
    BY <1>1, <2>1
  <2>2. CASE ~(i =< k)
    <3>1. i + 1 \in (k + 2)..(Len(p) + 1) /\ (i + 1) - 1 = i
      BY <1>1, <2>2
    <3>2. q[i + 1] = p[i]
      BY <3>1
    <3> QED BY <1>1, <2>2, <3>1, <3>2
  <2> QED BY <2>1, <2>2
<1>7. moved \in [Held(p) -> old]
  <2> SUFFICES ASSUME NEW b \in Held(p) PROVE <<place(b[1]), b[2]>> \in old
    OBVIOUS
  <2>1. b[1] \in 1..Len(p) /\ b[2] \in 0..MaxStream
        /\ p[b[1]].start =< b[2] /\ b[2] < p[b[1]].end
    BY DEF Held
  <2>2. place(b[1]) \in 1..Len(q) /\ place(b[1]) # k + 1 /\ q[place(b[1])] = p[b[1]]
    BY <1>6, <2>1
  <2> HIDE DEF place
  <2>3. <<place(b[1]), b[2]>> \in Held(q)
    BY <2>1, <2>2 DEF Held
  <2> QED BY <2>2, <2>3
<1>8. \A a, b \in Held(p) : moved[a] = moved[b] => a = b
  <2> SUFFICES ASSUME NEW a \in Held(p), NEW b \in Held(p), moved[a] = moved[b]
               PROVE  a = b
    OBVIOUS
  <2>1. place(a[1]) = place(b[1]) /\ a[2] = b[2]
    OBVIOUS
  <2>2. a[1] \in 1..Len(p) /\ b[1] \in 1..Len(p) /\ a = <<a[1], a[2]>> /\ b = <<b[1], b[2]>>
    BY DEF Held
  <2>3. a[1] = b[1]
    BY <1>1, <2>1, <2>2
  <2> QED BY <2>1, <2>2, <2>3
<1>9. \A c \in old : \E b \in Held(p) : moved[b] = c
  <2> SUFFICES ASSUME NEW c \in old PROVE \E b \in Held(p) : moved[b] = c
    OBVIOUS
  <2>1. /\ c = <<c[1], c[2]>> /\ c[1] \in 1..Len(q) /\ c[2] \in 0..MaxStream
        /\ q[c[1]].start =< c[2] /\ c[2] < q[c[1]].end
    BY DEF Held
  <2>2. PICK i \in 1..Len(p) : place(i) = c[1]
    <3>1. c[1] # k + 1
      BY <1>5
    <3>2. CASE c[1] =< k
      BY <1>1, <2>1, <3>2
    <3>3. CASE c[1] > k + 1
      <4>1. c[1] - 1 \in 1..Len(p) /\ place(c[1] - 1) = c[1]
        BY <1>1, <2>1, <3>3
      <4> QED BY <4>1
    <3> QED BY <1>1, <2>1, <3>1, <3>2, <3>3
  <2>3. q[c[1]] = p[i]
    BY <1>6, <2>2
  <2>4. <<i, c[2]>> \in Held(p)
    BY <2>1, <2>3 DEF Held
  <2>5. moved[<<i, c[2]>>] = c
    BY <2>1, <2>2, <2>4
  <2> QED BY <2>4, <2>5
<1> HIDE DEF moved, old, new
<1>10. ExistsBijection(Held(p), old)
  <2>1. moved \in Injection(Held(p), old)
    BY <1>7, <1>8 DEF Injection, IsInjective
  <2>2. moved \in Surjection(Held(p), old)
    BY <1>7, <1>9 DEF Surjection
  <2>3. moved \in Bijection(Held(p), old)
    BY <2>1, <2>2 DEF Bijection
  <2> QED BY <2>3 DEF ExistsBijection
<1>11. Cardinality(old) = Cardinality(Held(p))
  BY <1>10, HeldFinite, FS_Bijection
<1>12. Cardinality(old) = Cardinality(Held(q)) - Cardinality(Held(q) \cap new)
  BY HeldFinite, FS_Difference DEF old
<1>13. Held(q) \cap new = new
  BY <1>4
<1>14. Cardinality(Held(p)) \in Nat /\ Cardinality(Held(q)) \in Nat
  BY HeldFinite
<1>15. Cardinality(Held(q)) - (seg.end - seg.start) = Cardinality(Held(p))
  BY <1>3, <1>11, <1>12, <1>13
<1> QED BY <1>1, <1>2, <1>14, <1>15

-----------------------------------------------------------------------------
(* The invariant.                                                          *)

LEMMA InitInv == Init => IInv
<1> SUFFICES ASSUME Init PROVE IInv
  OBVIOUS
<1>1. /\ Len(ooo_queue) = 0 /\ ooo_queue \in Seq(Segment)
      /\ Len(delivered) = 0 /\ delivered \in Seq(Nat)
  <2>1. ooo_queue = <<>> /\ delivered = <<>>
    BY DEF Init
  <2> QED BY <2>1, EmptySeq, Zenon
<1>2. delayed_ack_pending \in BOOLEAN
  BY DEF Init
<1>3. TypeOK
  BY <1>1, <1>2, ReceiverAssumption DEF Init, TypeOK
<1> QED
  BY <1>1, <1>3
  DEF Init, IInv, InOrder, NoStrandedData, AckOwed,
      QueueSorted, QueueSent, InCallback, AckPast

\* The types of the entries of the queue, and of a segment.
LEMMA QueueTypes ==
  ASSUME TypeOK
  PROVE  /\ Len(ooo_queue) \in Nat
         /\ \A i \in 1..Len(ooo_queue) :
              /\ ooo_queue[i] \in Segment
              /\ ooo_queue[i].start \in Nat
              /\ ooo_queue[i].end \in Nat
              /\ ooo_queue[i].start < ooo_queue[i].end
         /\ ooo_queue # <<>> => Len(ooo_queue) > 0 /\ Head(ooo_queue) = ooo_queue[1]
<1>1. ooo_queue \in Seq(Segment)
  BY DEF TypeOK
<1>2. Len(ooo_queue) \in Nat /\ \A i \in 1..Len(ooo_queue) : ooo_queue[i] \in Segment
  BY <1>1, LenProperties, ElementOfSeq
<1>3. ooo_queue # <<>> => Len(ooo_queue) > 0 /\ Head(ooo_queue) = ooo_queue[1]
  BY <1>1
<1> QED BY <1>2, <1>3, ReceiverAssumption DEF Segment

\* Removing the first entry keeps what is known of the others.
LEMMA PopFrontInv ==
  ASSUME TypeOK, QueueSorted, QueueSent, ooo_queue # <<>>, PopFront, sent' = sent
  PROVE  /\ ooo_queue' \in Seq(Segment)
         /\ ooo_size' \in Int /\ ooo_size' =< RecvBufferSize
         /\ QueueSorted' /\ QueueSent'
<1>1. /\ ooo_queue' \in Seq(Segment)
      /\ Len(ooo_queue') = Len(ooo_queue) - 1
      /\ \A i \in 1..Len(ooo_queue') : ooo_queue'[i] = ooo_queue[i + 1]
  BY HeadTailProperties DEF TypeOK, PopFront
<1>2. Len(ooo_queue) \in Nat /\ Len(ooo_queue) > 0
  BY QueueTypes
<1>3. ooo_size' \in Int /\ ooo_size' =< RecvBufferSize
  <2>1. /\ Head(ooo_queue).start \in Nat /\ Head(ooo_queue).end \in Nat
        /\ Head(ooo_queue).start < Head(ooo_queue).end
    BY <1>2, QueueTypes
  <2> QED BY <2>1, ReceiverAssumption DEF PopFront, TypeOK
<1>4. QueueSorted'
  <2> SUFFICES ASSUME NEW i \in 1..Len(ooo_queue'), NEW j \in 1..Len(ooo_queue'), i < j
               PROVE  ooo_queue'[i].start =< ooo_queue'[j].start
    BY DEF QueueSorted
  <2>1. i + 1 \in 1..Len(ooo_queue) /\ j + 1 \in 1..Len(ooo_queue) /\ i + 1 < j + 1
    BY <1>1, <1>2
  <2> QED BY <1>1, <2>1 DEF QueueSorted
<1>5. QueueSent'
  <2> SUFFICES ASSUME NEW i \in 1..Len(ooo_queue')
               PROVE  ooo_queue'[i].end =< sent
    BY DEF QueueSent
  <2>1. i + 1 \in 1..Len(ooo_queue)
    BY <1>1, <1>2
  <2> QED BY <1>1, <2>1 DEF QueueSent
<1> QED BY <1>1, <1>3, <1>4, <1>5

LEMMA PeerSendInv ==
  ASSUME IInv, NEW n \in 1..MaxStream, peer_send(n)
  PROVE  IInv'
<1>1. QueueSent'
  <2>1. sent =< sent' /\ sent \in Nat /\ sent' \in Nat
    BY DEF IInv, TypeOK, peer_send
  <2>2. \A i \in 1..Len(ooo_queue) : ooo_queue[i].end \in Nat
    BY QueueTypes DEF IInv
  <2> QED BY <2>1, <2>2 DEF IInv, QueueSent, peer_send, queueVars
<1>2. TypeOK'
  BY ReceiverAssumption DEF IInv, TypeOK, peer_send, queueVars, ackVars
<1> QED
  BY <1>1, <1>2
  DEF IInv, InOrder, NoStrandedData, AckOwed, QueueSorted, InCallback, AckPast,
      peer_send, queueVars, ackVars

LEMMA InOrderDataInv ==
  ASSUME IInv, NEW seg \in Segment, pc = "idle", seg.end =< sent,
         receive_in_order(seg)
  PROVE  IInv'
<1>1. rcv_nxt \in Nat /\ seg.end \in Nat /\ rcv_nxt < seg.end /\ Len(delivered) = rcv_nxt
      /\ delivered \in Seq(Nat) /\ (\A i \in 1..Len(delivered) : delivered[i] = i - 1)
      /\ delivered' = delivered \o Bytes(Len(delivered), seg.end)
  BY ReceiverAssumption, SMTT(30)
  DEF IInv, TypeOK, InOrder, receive_in_order, deliver_data, Segment
<1>2. /\ delivered' \in Seq(Nat) /\ Len(delivered') = seg.end
      /\ \A i \in 1..Len(delivered') : delivered'[i] = i - 1
  <2>1. Len(delivered) =< seg.end
    BY <1>1
  <2> QED BY <1>1, <2>1, DeliverPrefix
<1>3. pc' = "callback" /\ seg_end' = seg.end
      /\ UNCHANGED <<sent, rcv_nxt, queueVars, ackVars>>
  BY DEF receive_in_order, deliver_data
<1>4. TypeOK' /\ InOrder'
  BY <1>1, <1>2, <1>3 DEF IInv, TypeOK, InOrder, queueVars, ackVars
<1> QED
  BY <1>1, <1>3, <1>4
  DEF IInv, NoStrandedData, AckOwed, QueueSorted, QueueSent, InCallback, AckPast,
      queueVars, ackVars

LEMMA OutOfOrderDataInv ==
  ASSUME IInv, NEW seg \in Segment, pc = "idle", seg.end =< sent,
         receive_out_of_order(seg)
  PROVE  IInv'
<1>1. /\ rcv_nxt \in Nat /\ sent \in Nat
      /\ seg.start \in Nat /\ seg.end \in Nat
      /\ seg.start < seg.end /\ rcv_nxt < seg.start
  BY ReceiverAssumption
  DEF IInv, TypeOK, receive_out_of_order, Trim, Segment
<1>2. Trim(seg) = seg
  BY <1>1 DEF Trim, Segment
<1>3. /\ last_ack' = rcv_nxt
      /\ UNCHANGED <<sent, rcv_nxt, delivered, delayed_ack_pending, pc, seg_end>>
  BY DEF receive_out_of_order, send_ack
<1>4. CASE UNCHANGED <<ooo_queue, ooo_size>>
  BY <1>1, <1>3, <1>4
  DEF IInv, TypeOK, InOrder, NoStrandedData, AckOwed,
      QueueSorted, QueueSent, InCallback, AckPast
<1>5. CASE /\ ooo_size + (seg.end - seg.start) =< RecvBufferSize
           /\ \E k \in 0..Len(ooo_queue) : /\ IsInsertPoint(k, seg.start)
                                           /\ ooo_queue' = Insert(k, seg)
           /\ ooo_size' = ooo_size + (seg.end - seg.start)
  <2>1. PICK k \in 0..Len(ooo_queue) : /\ IsInsertPoint(k, seg.start)
                                       /\ ooo_queue' = Insert(k, seg)
    BY <1>5
  <2>2. ooo_queue \in Seq(Segment) /\ QueueSorted
    BY DEF IInv, TypeOK
  <2>3. /\ ooo_queue' \in Seq(Segment)
        /\ Len(ooo_queue') = Len(ooo_queue) + 1
        /\ \A i \in 1..k : ooo_queue'[i] = ooo_queue[i]
        /\ ooo_queue'[k + 1] = seg
        /\ \A i \in (k + 2)..(Len(ooo_queue) + 1) : ooo_queue'[i] = ooo_queue[i - 1]
    BY <2>1, <2>2, InsertSeq
  <2>4. Len(ooo_queue) \in Nat
    BY QueueTypes DEF IInv
  <2>5. TypeOK'
    BY <1>1, <1>3, <1>5, <2>3, ReceiverAssumption, SMTT(30) DEF IInv, TypeOK
  <2>6. QueueSorted'
    BY <2>1, <2>2, InsertSorted DEF QueueSorted
  <2>7. ASSUME NEW i \in 1..Len(ooo_queue')
        PROVE  ooo_queue'[i].end =< sent /\ ooo_queue'[i].start > rcv_nxt
    <3>1. CASE i =< k
      <4>1. i \in 1..k /\ i \in 1..Len(ooo_queue)
        BY <2>3, <2>4, <3>1
      <4> QED BY <2>3, <4>1 DEF IInv, QueueSent, NoStrandedData
    <3>2. CASE i = k + 1
      BY <1>1, <2>3, <3>2
    <3>3. CASE i > k + 1
      <4>1. i \in (k + 2)..(Len(ooo_queue) + 1) /\ i - 1 \in 1..Len(ooo_queue)
        BY <2>3, <2>4, <3>3
      <4> QED BY <2>3, <4>1 DEF IInv, QueueSent, NoStrandedData
    <3> QED BY <2>3, <2>4, <3>1, <3>2, <3>3
  <2>8. QueueSent' /\ NoStrandedData'
    BY <1>3, <2>7 DEF QueueSent, NoStrandedData
  <2> QED
    BY <1>1, <1>3, <2>5, <2>6, <2>8
    DEF IInv, InOrder, AckOwed, InCallback, AckPast
<1> QED
  <2>1. ooo_size + (seg.end - seg.start) \in Int
    BY <1>1 DEF IInv, TypeOK
  <2>2. add_to_ooo_queue(seg)
    BY <1>2 DEF receive_out_of_order
  <2> QED BY <1>4, <1>5, <2>1, <2>2, ReceiverAssumption DEF add_to_ooo_queue

LEMMA CallbackReturnInv ==
  ASSUME IInv, callback_return
  PROVE  IInv'
<1>1. /\ sent \in Nat /\ rcv_nxt \in Nat /\ seg_end \in 0..sent /\ rcv_nxt < seg_end
      /\ rcv_nxt' = seg_end /\ pc' = "drain" /\ seg_end' = 0
      /\ UNCHANGED <<sent, delivered, ackVars>>
  BY ReceiverAssumption DEF IInv, TypeOK, InCallback, callback_return
<1>2. /\ ooo_queue' \in Seq(Segment)
      /\ ooo_size' \in Int /\ ooo_size' =< RecvBufferSize
      /\ QueueSorted' /\ QueueSent'
  <2>1. CASE pc = "callback_ooo"
    BY <1>1, <2>1, PopFrontInv DEF IInv, InCallback, callback_return
  <2>2. CASE pc # "callback_ooo"
    BY <1>1, <2>2
    DEF IInv, TypeOK, QueueSorted, QueueSent, callback_return, queueVars
  <2> QED BY <2>1, <2>2
<1>3. TypeOK'
  BY <1>1, <1>2 DEF IInv, TypeOK, ackVars
<1>4. InOrder'
  BY <1>1 DEF IInv, InOrder, callback_return
<1> QED
  BY <1>1, <1>2, <1>3, <1>4
  DEF IInv, NoStrandedData, AckOwed, InCallback, AckPast, TypeOK, ackVars

LEMMA DrainDiscardInv ==
  ASSUME IInv, drain_discard
  PROVE  IInv'
<1>1. UNCHANGED <<sent, rcv_nxt, delivered, ackVars, pc, seg_end>> /\ pc = "drain"
  BY DEF drain_discard
<1>2. /\ ooo_queue' \in Seq(Segment)
      /\ ooo_size' \in Int /\ ooo_size' =< RecvBufferSize
      /\ QueueSorted' /\ QueueSent'
  BY PopFrontInv DEF IInv, drain_discard
<1> QED
  BY <1>1, <1>2
  DEF IInv, TypeOK, InOrder, NoStrandedData, AckOwed, InCallback, AckPast, ackVars

LEMMA DrainDeliverInv ==
  ASSUME IInv, drain_deliver
  PROVE  IInv'
<1> DEFINE end == Head(ooo_queue).end
<1>1. /\ Len(ooo_queue) > 0 /\ Head(ooo_queue) = ooo_queue[1]
      /\ Head(ooo_queue).start \in Nat /\ end \in Nat /\ end =< sent
  BY QueueTypes DEF IInv, drain_deliver, QueueSent
<1>2. Head(ooo_queue).start =< rcv_nxt /\ rcv_nxt < end /\ pc = "drain" /\ rcv_nxt \in Nat
  BY <1>1 DEF drain_deliver, IInv, TypeOK
<1>3. Trim(Head(ooo_queue)).start = rcv_nxt
  BY <1>1, <1>2 DEF Trim
<1>4. /\ delivered' = delivered \o Bytes(Len(delivered), end)
      /\ seg_end' = end /\ pc' = "callback_ooo"
      /\ UNCHANGED <<sent, rcv_nxt, queueVars, ackVars>>
  BY <1>1, <1>2, <1>3 DEF drain_deliver, deliver_data, IInv, InOrder
<1>5. /\ delivered \in Seq(Nat) /\ Len(delivered) = rcv_nxt
      /\ \A i \in 1..Len(delivered) : delivered[i] = i - 1
  BY <1>2 DEF IInv, TypeOK, InOrder
<1>6. /\ delivered' \in Seq(Nat) /\ Len(delivered') = end
      /\ \A i \in 1..Len(delivered') : delivered'[i] = i - 1
  <2>1. Len(delivered) =< end
    BY <1>1, <1>2, <1>5
  <2> QED BY <1>1, <1>4, <1>5, <2>1, DeliverPrefix
<1> HIDE DEF end
<1>7. TypeOK' /\ InOrder'
  BY <1>1, <1>2, <1>4, <1>6 DEF IInv, TypeOK, InOrder, queueVars, ackVars
<1>8. InCallback'
  <2>1. ooo_queue' = ooo_queue /\ ooo_queue # <<>>
    BY <1>4 DEF queueVars, drain_deliver
  <2> QED BY <1>1, <1>2, <1>4, <2>1 DEF InCallback, end
<1> QED
  BY <1>2, <1>4, <1>7, <1>8
  DEF IInv, NoStrandedData, AckOwed, QueueSorted, QueueSent, AckPast,
      queueVars, ackVars

LEMMA DrainDoneInv ==
  ASSUME IInv, drain_done
  PROVE  IInv'
<1>1. /\ pc = "drain" /\ pc' = "idle"
      /\ UNCHANGED <<sent, rcv_nxt, queueVars, delivered, seg_end>>
  BY DEF drain_done
<1>2. /\ delayed_ack_pending' \in BOOLEAN
      /\ last_ack' = rcv_nxt \/ (last_ack' = last_ack /\ delayed_ack_pending' = TRUE)
  BY DEF drain_done, ack_delivered, send_ack
<1>3. NoStrandedData'
  <2> SUFFICES ASSUME NEW i \in 1..Len(ooo_queue)
               PROVE  ooo_queue[i].start > rcv_nxt
    BY <1>1 DEF NoStrandedData, queueVars
  <2>1. /\ Len(ooo_queue) \in Nat /\ 1 \in 1..Len(ooo_queue) /\ ooo_queue # <<>>
        /\ ooo_queue[1].start \in Nat /\ ooo_queue[i].start \in Nat /\ rcv_nxt \in Nat
    BY QueueTypes DEF IInv, TypeOK
  <2>2. ooo_queue[1].start > rcv_nxt
    BY <2>1, QueueTypes DEF IInv, drain_done
  <2>3. ooo_queue[1].start =< ooo_queue[i].start
    BY <2>1 DEF IInv, QueueSorted
  <2> QED BY <2>1, <2>2, <2>3
<1> QED
  BY <1>1, <1>2, <1>3
  DEF IInv, TypeOK, InOrder, AckOwed, QueueSorted, QueueSent, InCallback, AckPast,
      queueVars

LEMMA CheckDelayedAckInv ==
  ASSUME IInv, check_delayed_ack
  PROVE  IInv'
<1>1. last_ack' = rcv_nxt /\ delayed_ack_pending' = FALSE
      /\ UNCHANGED <<sent, rcv_nxt, queueVars, delivered, pc, seg_end>>
  BY DEF check_delayed_ack, send_ack
<1>2. delayed_ack_pending' \in BOOLEAN
  BY <1>1
<1>3. TypeOK' /\ AckPast' /\ AckOwed'
  BY <1>1, <1>2 DEF IInv, TypeOK, AckPast, AckOwed, queueVars
<1> QED
  BY <1>1, <1>3
  DEF IInv, InOrder, NoStrandedData, QueueSorted, QueueSent, InCallback, queueVars

LEMMA AppSendInv ==
  ASSUME IInv, app_send
  PROVE  IInv'
  BY DEF IInv, TypeOK, InOrder, NoStrandedData, AckOwed, QueueSorted, QueueSent,
         InCallback, AckPast, app_send, send_ack, queueVars

LEMMA StutterInv ==
  ASSUME IInv, UNCHANGED vars
  PROVE  IInv'
  BY DEF IInv, TypeOK, InOrder, NoStrandedData, AckOwed, QueueSorted, QueueSent,
         InCallback, AckPast, vars, queueVars, ackVars

\* Every step keeps the invariant.
LEMMA NextInv == IInv /\ [Next]_vars => IInv'
<1> SUFFICES ASSUME IInv, [Next]_vars PROVE IInv'
  OBVIOUS
<1>1. CASE \E n \in 1..MaxStream : peer_send(n)
  BY <1>1, PeerSendInv
<1>2. CASE \E seg \in Segment : handle_data(seg)
  <2>1. PICK seg \in Segment : handle_data(seg)
    BY <1>2
  <2>2. CASE receive_duplicate(seg)
    BY <2>2, StutterInv DEF receive_duplicate
  <2>3. CASE receive_in_order(seg)
    BY <2>1, <2>3, InOrderDataInv DEF handle_data
  <2>4. CASE receive_out_of_order(seg)
    BY <2>1, <2>4, OutOfOrderDataInv DEF handle_data
  <2> QED BY <2>1, <2>2, <2>3, <2>4 DEF handle_data
<1>3. CASE drain
  BY <1>3, CallbackReturnInv, DrainDiscardInv, DrainDeliverInv, DrainDoneInv DEF drain
<1>4. CASE check_delayed_ack
  BY <1>4, CheckDelayedAckInv
<1>5. CASE app_send
  BY <1>5, AppSendInv
<1>6. CASE UNCHANGED vars
  BY <1>6, StutterInv
<1> QED BY <1>1, <1>2, <1>3, <1>4, <1>5, <1>6 DEF Next

-----------------------------------------------------------------------------
(* The size of the buffer.                                                 *)

\* A segment that is kept adds its bytes.
LEMMA AddHeld ==
  ASSUME IInv, OooAccounting, NEW seg \in Segment, add_to_ooo_queue(seg)
  PROVE  OooAccounting'
<1>1. /\ ooo_queue \in Seq(Segment) /\ ooo_size = Cardinality(Held(ooo_queue))
  BY DEF IInv, TypeOK, OooAccounting
<1>2. CASE UNCHANGED <<ooo_queue, ooo_size>>
  BY <1>1, <1>2 DEF OooAccounting
<1>3. CASE /\ \E k \in 0..Len(ooo_queue) : /\ IsInsertPoint(k, seg.start)
                                           /\ ooo_queue' = Insert(k, seg)
           /\ ooo_size' = ooo_size + (seg.end - seg.start)
  <2>1. PICK k \in 0..Len(ooo_queue) : ooo_queue' = Insert(k, seg)
    BY <1>3
  <2>2. /\ ooo_queue' \in Seq(Segment)
        /\ Len(ooo_queue') = Len(ooo_queue) + 1
        /\ \A i \in 1..k : ooo_queue'[i] = ooo_queue[i]
        /\ ooo_queue'[k + 1] = seg
        /\ \A i \in (k + 2)..(Len(ooo_queue) + 1) : ooo_queue'[i] = ooo_queue[i - 1]
    BY <1>1, <2>1, InsertSeq
  <2>3. Cardinality(Held(ooo_queue')) = Cardinality(Held(ooo_queue)) + (seg.end - seg.start)
    BY <1>1, <2>2, HeldInsert
  <2> QED BY <1>1, <1>3, <2>3 DEF OooAccounting
<1> QED BY <1>2, <1>3 DEF add_to_ooo_queue

\* The first entry gives back all its bytes, the ones already delivered too.
LEMMA PopFrontHeld ==
  ASSUME IInv, OooAccounting, ooo_queue # <<>>, PopFront
  PROVE  OooAccounting'
<1> DEFINE head == Head(ooo_queue)
<1>1. /\ ooo_queue \in Seq(Segment) /\ ooo_size = Cardinality(Held(ooo_queue))
      /\ ooo_queue' = Tail(ooo_queue)
      /\ ooo_size' = ooo_size - (head.end - head.start)
  BY DEF IInv, TypeOK, OooAccounting, PopFront
<1>2. /\ head = ooo_queue[1] /\ head \in Segment
      /\ head.start \in Nat /\ head.end \in Nat
      /\ Len(ooo_queue) \in Nat /\ Len(ooo_queue) > 0
  BY QueueTypes DEF IInv
<1>3. /\ ooo_queue' \in Seq(Segment)
      /\ Len(ooo_queue') = Len(ooo_queue) - 1
      /\ \A i \in 1..Len(ooo_queue') : ooo_queue'[i] = ooo_queue[i + 1]
  BY <1>1, HeadTailProperties
<1> HIDE DEF head
<1>4. ASSUME NEW i \in (0 + 2)..(Len(ooo_queue') + 1) PROVE ooo_queue[i] = ooo_queue'[i - 1]
  <2>1. i - 1 \in 1..Len(ooo_queue') /\ (i - 1) + 1 = i
    BY <1>2, <1>3
  <2> QED BY <1>3, <2>1
<1>5. Len(ooo_queue) = Len(ooo_queue') + 1 /\ ooo_queue[0 + 1] = head
      /\ (\A i \in 1..0 : ooo_queue[i] = ooo_queue'[i]) /\ 0 \in 0..Len(ooo_queue')
  BY <1>2, <1>3
<1>6. Cardinality(Held(ooo_queue)) = Cardinality(Held(ooo_queue')) + (head.end - head.start)
  BY <1>1, <1>2, <1>3, <1>4, <1>5, HeldInsert
<1>7. Cardinality(Held(ooo_queue')) \in Nat
  BY <1>3, HeldFinite
<1> QED BY <1>1, <1>2, <1>6, <1>7 DEF OooAccounting

\* Every step keeps the count right.
LEMMA NextHeld == IInv /\ OooAccounting /\ [Next]_vars => OooAccounting'
<1> SUFFICES ASSUME IInv, OooAccounting, [Next]_vars PROVE OooAccounting'
  OBVIOUS
<1>1. ASSUME UNCHANGED queueVars PROVE OooAccounting'
  BY <1>1 DEF OooAccounting, queueVars
<1>2. ASSUME NEW seg \in Segment, handle_data(seg) PROVE OooAccounting'
  <2>1. CASE receive_out_of_order(seg)
    <3>1. Trim(seg) = seg
      BY <2>1, ReceiverAssumption DEF receive_out_of_order, Trim, Segment, IInv, TypeOK
    <3> QED BY <2>1, <3>1, AddHeld DEF receive_out_of_order
  <2> QED
    BY <1>1, <1>2, <2>1 DEF handle_data, receive_duplicate, receive_in_order, vars
<1>3. ASSUME callback_return PROVE OooAccounting'
  BY <1>1, <1>3, PopFrontHeld DEF callback_return, IInv, InCallback
<1>4. ASSUME drain_discard PROVE OooAccounting'
  BY <1>4, PopFrontHeld DEF drain_discard
<1> QED
  BY <1>1, <1>2, <1>3, <1>4
  DEF Next, peer_send, drain, drain_deliver, drain_done, check_delayed_ack, app_send, vars

-----------------------------------------------------------------------------
(* The theorems.                                                           *)

LEMMA SpecInv == Spec => []IInv
<1>1. Init => IInv
  BY InitInv
<1>2. IInv /\ [Next]_vars => IInv'
  BY NextInv
<1> QED BY <1>1, <1>2, PTL DEF Spec

\* Every variable keeps to its range: sequence numbers within the stream, the
\* out-of-order bytes counted within recv_buffer_size.
THEOREM TypeCorrect == Spec => []TypeOK
<1>1. IInv => TypeOK
  BY DEF IInv
<1> QED BY <1>1, SpecInv, PTL

\* handle_data and deliver_ooo_data hand the application the peer's stream,
\* each byte once and in order, whatever the network does.
THEOREM DeliveredInOrder == Spec => []InOrder
<1>1. IInv => InOrder
  BY DEF IInv
<1> QED BY <1>1, SpecInv, PTL

\* Nothing is acknowledged before on_receive has been called with it, not even
\* by a segment the application sends from inside the callback.
THEOREM AcksAreTruthful == Spec => []AckTruthful
<1>1. IInv => AckTruthful
  <2> SUFFICES ASSUME IInv PROVE AckTruthful
    OBVIOUS
  <2>1. last_ack =< rcv_nxt /\ last_ack \in Nat /\ rcv_nxt \in Nat /\ seg_end \in Nat
    BY ReceiverAssumption DEF IInv, AckPast, TypeOK
  <2>2. rcv_nxt =< Len(delivered)
    BY <2>1 DEF IInv, InCallback, InOrder
  <2>3. Len(delivered) \in Nat
    BY <2>1 DEF IInv, InOrder
  <2> QED BY <2>1, <2>2, <2>3 DEF AckTruthful
<1> QED BY <1>1, SpecInv, PTL

\* Looking at the first entry of the sorted queue is enough: no deliverable
\* entry is left behind.
THEOREM NothingStranded == Spec => []NoStrandedData
<1>1. IInv => NoStrandedData
  BY DEF IInv
<1> QED BY <1>1, SpecInv, PTL

\* handle_data never returns with delivered bytes unacknowledged and no timer.
THEOREM EveryByteAckedOrTimed == Spec => []AckOwed
<1>1. IInv => AckOwed
  BY DEF IInv
<1> QED BY <1>1, SpecInv, PTL

\* ooo_size, moved by increments in add_to_ooo_queue and deliver_ooo_data, is
\* the number of bytes the queue holds, overlaps and all.
THEOREM SizeIsHeld == Spec => []OooAccounting
<1>1. Init => OooAccounting
  <2> SUFFICES ASSUME Init PROVE OooAccounting
    OBVIOUS
  <2>1. Len(ooo_queue) = 0
    <3>1. ooo_queue = <<>>
      BY DEF Init
    <3> QED BY <3>1, EmptySeq, Zenon
  <2>2. Held(ooo_queue) = {}
    BY <2>1 DEF Held
  <2> QED BY <2>2, FS_EmptySet DEF Init, OooAccounting
<1>2. IInv /\ OooAccounting /\ [Next]_vars => OooAccounting'
  BY NextHeld
<1> QED BY <1>1, <1>2, SpecInv, PTL DEF Spec

\* The acknowledgement number of a connection never goes back.
THEOREM AcksMonotone == Spec => AckMonotone
<1>1. IInv /\ [Next]_vars => [last_ack' >= last_ack]_last_ack
  <2> SUFFICES ASSUME IInv, [Next]_vars, last_ack' # last_ack
               PROVE  last_ack' >= last_ack
    OBVIOUS
  <2>1. last_ack =< rcv_nxt /\ last_ack \in Nat /\ rcv_nxt \in Nat
    BY ReceiverAssumption DEF IInv, AckPast, TypeOK
  <2>2. last_ack' = rcv_nxt
    BY DEF Next, peer_send, handle_data, receive_duplicate, receive_in_order,
           receive_out_of_order, drain, callback_return, drain_discard, drain_deliver,
           drain_done, ack_delivered, check_delayed_ack, app_send, send_ack, vars, ackVars
  <2> QED BY <2>1, <2>2
<1> QED BY <1>1, SpecInv, PTL DEF Spec, AckMonotone

\* The receive side implements the byte stream: its initial state is the
\* stream's, entering on_receive is a Read, a first transmission by the peer a
\* Write, and no other step is seen.
THEOREM ReceiverImplementsStream == Spec => ImplementsStream
<1>1. Init => Stream!StreamInit
  BY DEF Init, Stream!StreamInit
<1>2. ASSUME IInv, [Next]_vars PROVE [Stream!StreamNext]_(Stream!streamVars)
  <2>1. ASSUME NEW n \in 1..MaxStream, peer_send(n) PROVE Stream!Write
    BY <2>1 DEF peer_send, Stream!Write
  <2>2. ASSUME NEW seg \in Segment, pc = "idle", seg.end =< sent, receive_in_order(seg)
        PROVE  Stream!Read
    <3>1. /\ rcv_nxt \in Nat /\ seg.end \in Nat /\ rcv_nxt < seg.end /\ sent \in 0..MaxStream
          /\ Len(delivered) = rcv_nxt /\ sent' = sent
          /\ delivered' = delivered \o Bytes(rcv_nxt, seg.end)
      BY <1>2, <2>2, ReceiverAssumption
      DEF IInv, TypeOK, InOrder, receive_in_order, deliver_data, Segment
    <3> QED
      <4>1. seg.end - rcv_nxt \in 1..MaxStream /\ rcv_nxt + (seg.end - rcv_nxt) =< sent
        BY <2>2, <3>1, ReceiverAssumption
      <4>2. Bytes(rcv_nxt, seg.end) = Stream!Bytes(rcv_nxt, seg.end - rcv_nxt)
        BY DEF Bytes, Stream!Bytes
      <4> QED BY <3>1, <4>1, <4>2 DEF Stream!Read
  <2>3. ASSUME drain_deliver PROVE Stream!Read
    <3> DEFINE end == Head(ooo_queue).end
    <3>1. /\ Head(ooo_queue) = ooo_queue[1] /\ Len(ooo_queue) > 0
          /\ Head(ooo_queue).start \in Nat /\ end \in Nat /\ end =< sent
      BY <1>2, <2>3, QueueTypes DEF IInv, drain_deliver, QueueSent
    <3>2. /\ Head(ooo_queue).start =< rcv_nxt /\ rcv_nxt < end
          /\ rcv_nxt \in Nat /\ sent \in 0..MaxStream
          /\ Len(delivered) = rcv_nxt /\ sent' = sent
      BY <1>2, <2>3, <3>1 DEF drain_deliver, IInv, TypeOK, InOrder
    <3>3. Trim(Head(ooo_queue)).start = rcv_nxt
      BY <3>1, <3>2 DEF Trim
    <3>4. delivered' = delivered \o Bytes(rcv_nxt, end)
      BY <2>3, <3>3 DEF drain_deliver, deliver_data
    <3>5. end - rcv_nxt \in 1..MaxStream /\ rcv_nxt + (end - rcv_nxt) =< sent
      BY <3>1, <3>2, ReceiverAssumption
    <3>6. Bytes(rcv_nxt, end) = Stream!Bytes(rcv_nxt, end - rcv_nxt)
      BY DEF Bytes, Stream!Bytes
    <3> QED BY <3>2, <3>4, <3>5, <3>6 DEF Stream!Read
  <2>4. ASSUME UNCHANGED <<sent, delivered>> PROVE UNCHANGED Stream!streamVars
    BY <2>4 DEF Stream!streamVars
  <2>5. CASE UNCHANGED <<sent, delivered>>
    BY <2>4, <2>5
  <2> QED
    BY <1>2, <2>1, <2>2, <2>3, <2>5
    DEF Next, handle_data, receive_duplicate, receive_out_of_order, drain, callback_return,
        drain_discard, drain_done, check_delayed_ack, app_send, vars, Stream!StreamNext
<1> QED BY <1>1, <1>2, SpecInv, PTL DEF Spec, ImplementsStream, Stream!StreamSpec
=============================================================================

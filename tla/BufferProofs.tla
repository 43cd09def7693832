---------------------------- MODULE BufferProofs ----------------------------
(* Four data structures that share no state.                                   *)
(*                                                                             *)
(* The send buffer is a queue of bytes, for every capacity and every bytes.    *)
(* The invariant says that the write position is the read position moved by    *)
(* the size; then each call is compared byte by byte with what the queue does. *)
(*                                                                             *)
(* The pool keeps one list through its free slots, for every size: the list    *)
(* after a step is the one before without its head, or with one more.          *)
(*                                                                             *)
(* The histogram counts at every step the observations that are past it, for   *)
(* any threads, boundaries and values; a snapshot counts first what it finds   *)
(* last, so that its buckets come to no less than its count.                   *)
(*                                                                             *)
(* The ring of metrics samples gives both its readers what they mean to read,  *)
(* for every length of it: the latest samples are in their slots, in the order *)
(* of their timestamps, but for the one that is being written.                 *)
EXTENDS StreamBuffer, FixedPool, Histogram, Metrics, SequenceTheorems, FiniteSetTheorems,
        NaturalsInduction, WellFoundedInduction, TLAPS

\* Where a position that is at most one turn beyond the ring lies in it.
wrapped(p) == IF p < capacity THEN p ELSE p - capacity

\* The remainders the code takes come to that.
LEMMA Remainder ==
  ASSUME NEW p \in 0 .. 2 * capacity - 1
  PROVE  p % capacity = wrapped(p) /\ wrapped(p) \in Slots
<1>1. capacity \in Nat \ {0}
  BY CapacityAssumption
<1>2. ASSUME p < capacity PROVE p % capacity = p
  BY <1>1, <1>2
<1>3. ASSUME ~(p < capacity) PROVE p % capacity = p - capacity
  BY <1>1, <1>3
<1> QED BY <1>1, <1>2, <1>3 DEF wrapped, Slots

StreamInv ==
  /\ StreamTypeOK
  /\ write_pos = wrapped(read_pos + size)
  /\ result \in Seq(Bytes)

\* The ranges of the fields, for arithmetic.
LEMMA Numbers ==
  ASSUME StreamInv
  PROVE  /\ capacity \in Nat /\ capacity > 0
         /\ read_pos \in Nat /\ read_pos < capacity
         /\ write_pos \in Nat /\ write_pos < capacity
         /\ size \in Nat /\ size <= capacity
         /\ available \in Nat /\ available = capacity - size
BY CapacityAssumption DEF StreamInv, StreamTypeOK, Slots, available

\* Positions in turn, where the parts of a content lie behind one another.
LEMMA Turns ==
  ASSUME NEW r \in Nat, r < capacity, NEW s \in Nat, NEW n \in Nat, s + n <= capacity
  PROVE  /\ wrapped(wrapped(r + s) + n) = wrapped(r + s + n)
         /\ r + s \in 0 .. 2 * capacity - 1
         /\ wrapped(r + s) \in Nat /\ wrapped(r + s) < capacity
BY CapacityAssumption DEF wrapped

\* The bytes held, one by one.
Held ==
  /\ Content \in Seq(Bytes) /\ Len(Content) = size
  /\ \A i \in 1 .. size : Content[i] = buffer[wrapped(read_pos + i - 1)]

\* The content is a sequence of size bytes.
LEMMA ContentHeld == StreamInv => Held
<1> SUFFICES ASSUME StreamInv PROVE Held
  OBVIOUS
<1>1. ASSUME NEW i \in 1 .. size
      PROVE  /\ (read_pos + i - 1) % capacity = wrapped(read_pos + i - 1)
             /\ buffer[wrapped(read_pos + i - 1)] \in Bytes
  <2>1. read_pos + i - 1 \in 0 .. 2 * capacity - 1
    BY Numbers
  <2> QED BY <2>1, Remainder DEF StreamInv, StreamTypeOK
<1>2. Content = [i \in 1 .. size |-> buffer[wrapped(read_pos + i - 1)]]
  BY <1>1 DEF Content
<1>3. Content \in [1 .. size -> Bytes]
  BY <1>1, <1>2
<1>4. size \in Nat
  BY Numbers
<1>5. Content \in Seq(Bytes) /\ Len(Content) = size
  BY <1>3, <1>4
<1> QED BY <1>2, <1>5 DEF Held

\* What a peek of n bytes from offset on gives is that part of the content.
LEMMA CopiedIsContent ==
  ASSUME StreamInv, NEW offset \in 0 .. size, NEW n \in 0 .. size - offset
  PROVE  copied(offset, n) = SubSeq(Content, offset + 1, offset + n)
<1> DEFINE s == SubSeq(Content, offset + 1, offset + n)
           pos == (read_pos + offset) % capacity
<1>1. read_pos + offset \in 0 .. 2 * capacity - 1
  BY Numbers
<1>2. pos = wrapped(read_pos + offset) /\ pos \in Slots
  BY <1>1, Remainder
<1>3. s \in Seq(Bytes) /\ Len(s) = n /\ \A i \in 1 .. n : s[i] = Content[offset + i]
  <2>1. \A i \in offset + 1 .. offset + n : Content[i] \in Bytes
    BY ContentHeld, ElementOfSeq, Numbers DEF Held
  <2>2. offset + 1 \in Int /\ offset + n \in Int
    BY Numbers
  <2> QED BY <2>1, <2>2, SubSeqProperties, Numbers
<1>4. copied(offset, n) = [i \in 1 .. n |-> s[i]]
  <2>1. ASSUME NEW i \in 1 .. n
        PROVE  s[i] = IF i <= least(n, capacity - pos) THEN buffer[pos + i - 1]
                      ELSE buffer[i - least(n, capacity - pos) - 1]
    <3>1. s[i] = buffer[wrapped(read_pos + offset + i - 1)]
      <4>1. offset + i \in 1 .. size
        BY Numbers
      <4>2. read_pos + (offset + i) - 1 = read_pos + offset + i - 1
        BY Numbers
      <4> QED BY <4>1, <4>2, <1>3, ContentHeld DEF Held
    <3>2. CASE i <= least(n, capacity - pos)
      <4>1. wrapped(read_pos + offset + i - 1) = pos + i - 1
        BY <1>2, <3>2, Numbers DEF wrapped, least, Slots
      <4> QED BY <3>1, <3>2, <4>1
    <3>3. CASE ~(i <= least(n, capacity - pos))
      <4>1. wrapped(read_pos + offset + i - 1) = i - least(n, capacity - pos) - 1
        BY <1>2, <3>3, Numbers DEF wrapped, least, Slots
      <4> QED BY <3>1, <3>3, <4>1
    <3> QED BY <3>2, <3>3
  <2> QED BY <2>1 DEF copied
<1>5. [i \in 1 .. n |-> s[i]] = s
  BY <1>3
<1> QED BY <1>4, <1>5

-----------------------------------------------------------------------------
\* The place p of the i-th byte, among s bytes of content and those put behind
\* it from w on, in two pieces of which the first has length c, of n altogether.
Placed(s, n, w, c, i, p) ==
  /\ i <= s => p \notin w .. w + c - 1 /\ ~(p < n - c)
  /\ i > s /\ i - s <= c => p \in w .. w + c - 1 /\ p - w + 1 = i - s
  /\ i > s /\ ~(i - s <= c) =>
       p \notin w .. w + c - 1 /\ p < n - c /\ c + p + 1 = i - s

\* The two pieces of write put each byte in its place.
LEMMA Pieces ==
  ASSUME NEW r \in Nat, r < capacity, NEW s \in Nat, NEW n \in Nat, s + n <= capacity,
         NEW w \in Nat, w = wrapped(r + s), NEW c \in Nat, c <= n, c <= capacity - w,
         c = n \/ c = capacity - w,
         NEW i \in 1 .. s + n, NEW p \in Nat, p = wrapped(r + i - 1)
  PROVE  Placed(s, n, w, c, i, p)
<1>1. capacity \in Nat /\ i \in Nat /\ i >= 1 /\ i <= s + n
  BY CapacityAssumption
<1>2. (r + s < capacity => w = r + s) /\ (~(r + s < capacity) => w = r + s - capacity)
  BY <1>1 DEF wrapped
<1>3. /\ r + i - 1 < capacity => p = r + i - 1
      /\ ~(r + i - 1 < capacity) => p = r + i - 1 - capacity
  BY <1>1 DEF wrapped
<1>4. w \in Nat /\ p \in Nat /\ w < capacity /\ p < capacity
  BY <1>1, <1>2, <1>3
<1>5. ASSUME i <= s PROVE p \notin w .. w + c - 1 /\ ~(p < n - c)
  BY <1>1, <1>2, <1>3, <1>4, <1>5
<1>6. ASSUME i > s, i - s <= c PROVE p \in w .. w + c - 1 /\ p - w + 1 = i - s
  BY <1>1, <1>2, <1>3, <1>4, <1>6
<1>7. ASSUME i > s, ~(i - s <= c)
      PROVE  p \notin w .. w + c - 1 /\ p < n - c /\ c + p + 1 = i - s
  BY <1>1, <1>2, <1>3, <1>4, <1>7
<1> QED BY <1>5, <1>6, <1>7 DEF Placed

\* write stores what fits behind the content and touches nothing of it.
LEMMA WriteAppends ==
  ASSUME StreamInv, NEW data \in Data, write(data)
  PROVE  /\ StreamInv'
         /\ result' \in [1 .. Len(result') -> Bytes]
         /\ Len(result') \in 0 .. capacity - size
         /\ Content' = Content \o result'
<1> DEFINE n == least(Len(data), available)
           first_chunk == least(n, capacity - write_pos)
<1>1. data \in Seq(Bytes) /\ Len(data) \in Nat
  BY CapacityAssumption DEF Data
<1>2. n \in Nat /\ n <= Len(data) /\ n <= capacity - size /\ first_chunk \in Nat
      /\ first_chunk <= n /\ first_chunk <= capacity - write_pos
      /\ (first_chunk = n \/ first_chunk = capacity - write_pos)
  BY <1>1, Numbers DEF least
<1>3. /\ result' = SubSeq(data, 1, n) /\ buffer' = stored(data, n) /\ size' = size + n
      /\ write_pos' = (write_pos + n) % capacity /\ read_pos' = read_pos
  BY DEF write
<1>4. /\ result' \in Seq(Bytes) /\ Len(result') = n
      /\ \A i \in 1 .. n : result'[i] = data[i]
  <2>1. \A i \in 1 .. n : data[i] \in Bytes
    BY <1>1, <1>2, ElementOfSeq
  <2>2. n \in Int /\ 1 \in Int
    BY <1>2
  <2> HIDE DEF n
  <2> QED BY <1>2, <1>3, <2>1, <2>2, SubSeqProperties
<1>5. buffer' \in [Slots -> Bytes]
  <2>1. ASSUME NEW p \in Slots
        PROVE  (IF p \in write_pos .. write_pos + first_chunk - 1 THEN data[p - write_pos + 1]
                ELSE IF p < n - first_chunk THEN data[first_chunk + p + 1] ELSE buffer[p]) \in Bytes
    <3> HIDE DEF n, first_chunk
    <3>1. CASE p \in write_pos .. write_pos + first_chunk - 1
      <4>1. p - write_pos + 1 \in 1 .. Len(data)
        BY <1>1, <1>2, <3>1, Numbers, SMTT(30)
      <4> QED BY <4>1, <3>1, <1>1, ElementOfSeq
    <3>2. CASE p \notin write_pos .. write_pos + first_chunk - 1 /\ p < n - first_chunk
      <4>1. first_chunk + p + 1 \in 1 .. Len(data)
        BY <1>1, <1>2, <3>2, Numbers, SMTT(30) DEF Slots
      <4> QED BY <4>1, <3>2, <1>1, ElementOfSeq
    <3>3. CASE p \notin write_pos .. write_pos + first_chunk - 1 /\ ~(p < n - first_chunk)
      BY <3>3 DEF StreamInv, StreamTypeOK
    <3> QED BY <3>1, <3>2, <3>3
  <2> QED BY <2>1, <1>3 DEF stored
<1>6. write_pos' = wrapped(read_pos + size + n) /\ write_pos' \in Slots
  <2>1. write_pos + n \in 0 .. 2 * capacity - 1
    <3>1. n \in Nat /\ n <= capacity - size
      BY <1>2
    <3> HIDE DEF n
    <3> QED BY <3>1, Numbers
  <2>2. write_pos' = wrapped(write_pos + n) /\ write_pos' \in Slots
    BY <2>1, <1>3, Remainder
  <2>3. wrapped(write_pos + n) = wrapped(read_pos + size + n)
    <3>1. write_pos = wrapped(read_pos + size)
      BY DEF StreamInv
    <3>2. size + n <= capacity
      BY <1>2, Numbers
    <3> HIDE DEF n
    <3>3. wrapped(wrapped(read_pos + size) + n) = wrapped(read_pos + size + n)
      <4>1. read_pos \in Nat /\ read_pos < capacity /\ size \in Nat /\ n \in Nat
        BY <1>2, Numbers
      <4> QED BY <4>1, <3>2, Turns, Zenon
    <3> QED BY <3>1, <3>3
  <2> QED BY <2>2, <2>3
<1>7. StreamInv'
  <2>1. size' \in 0 .. capacity
    <3>1. n \in Nat /\ n <= capacity - size /\ size' = size + n
      BY <1>2, <1>3
    <3> HIDE DEF n
    <3> QED BY <3>1, Numbers
  <2>2. read_pos' \in Slots
    BY <1>3 DEF StreamInv, StreamTypeOK
  <2>3. write_pos' = wrapped(read_pos' + size')
    BY <1>6, <1>3, Numbers, <1>2
  <2> QED BY <1>4, <1>5, <1>6, <2>1, <2>2, <2>3 DEF StreamInv, StreamTypeOK, wrapped
<1>8. /\ Content' \in Seq(Bytes) /\ Len(Content') = size + n
      /\ \A i \in 1 .. size + n : Content'[i] = buffer'[wrapped(read_pos + i - 1)]
  <2>1. Held'
    BY <1>7, ContentHeld, PTL
  <2> HIDE DEF n
  <2> QED BY <2>1, <1>3 DEF Held, wrapped
<1>9. /\ Content \o result' \in Seq(Bytes) /\ Len(Content \o result') = size + n
      /\ \A i \in 1 .. size + n :
           (Content \o result')[i] = IF i <= size THEN Content[i] ELSE result'[i - size]
  <2>1. /\ Content \in Seq(Bytes) /\ Len(Content) = size
        /\ result' \in Seq(Bytes) /\ Len(result') = n
    BY <1>4, ContentHeld DEF Held
  <2> HIDE DEF n
  <2> QED BY <2>1, ConcatProperties
<1>10. ASSUME NEW i \in 1 .. size + n
       PROVE  Content'[i] = (Content \o result')[i]
  <2> DEFINE p == wrapped(read_pos + i - 1)
  <2>1. p \in Slots
    <3>1. read_pos + i - 1 \in 0 .. 2 * capacity - 1
      <4>1. size \in Nat /\ n \in Nat /\ size + n <= capacity
        BY <1>2, Numbers
      <4>2. i \in 1 .. size + n
        OBVIOUS
      <4> HIDE DEF n, first_chunk, p
      <4> QED BY <4>1, <4>2, Numbers
    <3> QED BY <3>1, Remainder
  <2>2. Content'[i] = IF p \in write_pos .. write_pos + first_chunk - 1 THEN data[p - write_pos + 1]
                      ELSE IF p < n - first_chunk THEN data[first_chunk + p + 1]
                      ELSE buffer[p]
    BY <1>8, <1>3, <2>1 DEF stored
  <2>w. write_pos = wrapped(read_pos + size)
    BY DEF StreamInv
  <2>p. Placed(size, n, write_pos, first_chunk, i, p)
    <3>1. size + n <= capacity
      BY <1>2, Numbers
    <3>2. /\ read_pos \in Nat /\ read_pos < capacity /\ size \in Nat /\ n \in Nat
          /\ first_chunk \in Nat /\ first_chunk <= n /\ first_chunk <= capacity - write_pos
          /\ (first_chunk = n \/ first_chunk = capacity - write_pos)
      BY <1>2, Numbers
    <3>3. write_pos \in Nat /\ p \in Nat
      BY <2>1, Numbers DEF Slots
    <3>4. p = wrapped(read_pos + i - 1)
      OBVIOUS
    <3>5. i \in 1 .. size + n
      OBVIOUS
    <3> HIDE DEF n, first_chunk, p
    <3> QED BY <3>1, <3>2, <3>3, <3>4, <3>5, <2>w, Pieces, ZenonT(30)
  <2>3. CASE i <= size
    <3>1. Content[i] = buffer[p]
      <4>1. i \in 1 .. size
        BY <2>3, Numbers, <1>2
      <4> QED BY <4>1, ContentHeld DEF Held
    <3> QED BY <2>2, <2>3, <2>p, <3>1, <1>9 DEF Placed
  <2>4. CASE i > size
    <3>1. (Content \o result')[i] = data[i - size]
      <4>1. i - size \in 1 .. n /\ ~(i <= size)
        BY <2>4, <1>2, Numbers
      <4> QED BY <4>1, <1>4, <1>9
    <3> QED BY <2>2, <2>4, <2>p, <3>1 DEF Placed
  <2>5. i <= size \/ i > size
    BY <1>2, Numbers
  <2> QED BY <2>3, <2>4, <2>5
<1> HIDE DEF n
<1>11. Content' = Content \o result'
  BY <1>8, <1>9, <1>10, SeqEqual
<1> QED BY <1>2, <1>4, <1>7, <1>11

\* write, and commit_write, add at the end what fits.
LEMMA WriteRefines ==
  ASSUME StreamInv, NEW data \in Data, write(data)
  PROVE  StreamInv' /\ Queue!Write
<1>1. StreamInv'
  BY WriteAppends
<1>2. Len(Content) = size
  BY ContentHeld DEF Held
<1>3. /\ result' \in [1 .. Len(result') -> Bytes]
      /\ Len(result') \in 0 .. capacity - Len(Content)
      /\ Content' = Content \o result'
  BY <1>2, WriteAppends
<1> QED BY <1>1, <1>3 DEF Queue!Write

\* Taking n bytes leaves the rest of the content.
LEMMA DroppedLeaves ==
  ASSUME StreamInv, NEW n \in 0 .. size, dropped(n), UNCHANGED <<buffer, write_pos>>,
         result' \in Seq(Bytes)
  PROVE  StreamInv' /\ Content' = SubSeq(Content, n + 1, Len(Content))
<1>1. size' = size - n /\ size' \in Nat /\ size' <= capacity /\ n \in Nat
  BY Numbers DEF dropped
<1>2. read_pos' = wrapped(read_pos + n) /\ read_pos' \in Slots
  <2>1. read_pos + n \in 0 .. 2 * capacity - 1
    BY Numbers
  <2> QED BY <2>1, Remainder DEF dropped
<1>3. write_pos' = wrapped(read_pos' + size')
  <2>1. n + (size - n) <= capacity /\ size - n \in Nat /\ read_pos \in Nat /\ read_pos < capacity
    BY Numbers, <1>1
  <2>2. wrapped(wrapped(read_pos + n) + (size - n)) = wrapped(read_pos + n + (size - n))
    BY <2>1, <1>1, Turns, Zenon
  <2>3. read_pos + n + (size - n) = read_pos + size
    BY Numbers
  <2> QED BY <2>2, <2>3, <1>1, <1>2 DEF StreamInv
<1>4. StreamInv'
  <2>1. size' \in 0 .. capacity
    BY <1>1, Numbers
  <2> QED BY <2>1, <1>2, <1>3 DEF StreamInv, StreamTypeOK, wrapped
<1>5. Held /\ Held'
  BY <1>4, ContentHeld, PTL
<1> DEFINE s == SubSeq(Content, n + 1, Len(Content))
<1>6. s \in Seq(Bytes) /\ Len(s) = size - n /\ \A i \in 1 .. size - n : s[i] = Content[n + i]
  <2>1. \A i \in n + 1 .. size : Content[i] \in Bytes
    BY <1>5, <1>1, ElementOfSeq, Numbers DEF Held
  <2>2. n + 1 \in Int /\ size \in Int /\ Len(Content) = size
    BY <1>5, Numbers DEF Held
  <2> QED BY <2>1, <2>2, SubSeqProperties, Numbers
<1>7. ASSUME NEW i \in 1 .. size - n
      PROVE  Content'[i] = s[i]
  <2>1. Content'[i] = buffer[wrapped(wrapped(read_pos + n) + i - 1)]
    BY <1>1, <1>2, <1>5 DEF Held, wrapped
  <2>2. s[i] = buffer[wrapped(read_pos + n + i - 1)]
    <3>1. n + i \in 1 .. size /\ read_pos + (n + i) - 1 = read_pos + n + i - 1
      BY <1>1, Numbers
    <3> QED BY <3>1, <1>5, <1>6 DEF Held
  <2>3. wrapped(wrapped(read_pos + n) + i - 1) = wrapped(read_pos + n + i - 1)
    BY <1>1, Numbers, SMTT(30) DEF wrapped
  <2> QED BY <2>1, <2>2, <2>3
<1>8. Content' \in Seq(Bytes) /\ Len(Content') = size - n
  BY <1>1, <1>5 DEF Held
<1>9. Content' = s
  BY <1>6, <1>7, <1>8, SeqEqual
<1> QED BY <1>4, <1>9

\* consume takes from the front.
LEMMA ConsumeRefines ==
  ASSUME StreamInv, NEW len \in Nat, consume(len)
  PROVE  StreamInv' /\ Queue!Consume
<1> DEFINE n == least(len, size)
<1>1. n \in 0 .. size
  BY Numbers DEF least
<1>2. Len(Content) = size
  BY ContentHeld DEF Held
<1>3. dropped(n) /\ UNCHANGED <<buffer, write_pos>> /\ result' = result
  BY DEF consume
<1>4. result' \in Seq(Bytes)
  BY <1>3 DEF StreamInv
<1> HIDE DEF n
<1>5. StreamInv' /\ Content' = SubSeq(Content, n + 1, Len(Content))
  BY <1>1, <1>3, <1>4, DroppedLeaves
<1> QED BY <1>1, <1>2, <1>3, <1>5 DEF Queue!Consume

\* Any part of the content is a sequence of bytes.
LEMMA PartSeq ==
  ASSUME StreamInv, NEW from \in 0 .. size, NEW to \in from .. size
  PROVE  SubSeq(Content, from + 1, to) \in Seq(Bytes)
<1>1. \A i \in from + 1 .. to : Content[i] \in Bytes
  BY ContentHeld, ElementOfSeq, Numbers DEF Held
<1>2. from + 1 \in Int /\ to \in Int
  BY Numbers
<1> QED BY <1>1, <1>2, SubSeqProperties

\* read gives the front and takes it.
LEMMA ReadRefines ==
  ASSUME StreamInv, NEW len \in Nat, read(len)
  PROVE  StreamInv' /\ Queue!Read
<1> DEFINE n == least(len, size)
<1>1. n \in 0 .. size /\ 0 \in 0 .. size /\ n \in 0 .. size - 0 /\ n \in Nat
  BY Numbers DEF least
<1>2. Len(Content) = size
  BY ContentHeld DEF Held
<1>3. dropped(n) /\ UNCHANGED <<buffer, write_pos>> /\ result' = copied(0, n)
  BY DEF read
<1> HIDE DEF n
<1>4. result' = SubSeq(Content, 1, n)
  <2>1. copied(0, n) = SubSeq(Content, 0 + 1, 0 + n)
    BY <1>1, CopiedIsContent
  <2> QED BY <2>1, <1>1, <1>3
<1>5. result' \in Seq(Bytes)
  <2>1. n \in 0 .. size /\ SubSeq(Content, 0 + 1, n) \in Seq(Bytes)
    BY <1>1, PartSeq
  <2> QED BY <2>1, <1>4
<1>6. StreamInv' /\ Content' = SubSeq(Content, n + 1, Len(Content))
  BY <1>1, <1>3, <1>5, DroppedLeaves
<1> QED BY <1>1, <1>2, <1>4, <1>6 DEF Queue!Read

\* A look at n bytes from an offset, and nothing else.
LEMMA LookRefines ==
  ASSUME StreamInv, NEW offset \in 0 .. size, NEW n \in 0 .. size - offset,
         result' = copied(offset, n), UNCHANGED <<buffer, read_pos, write_pos, size>>
  PROVE  StreamInv' /\ Queue!Peek
<1>1. result' = SubSeq(Content, offset + 1, offset + n)
  BY CopiedIsContent
<1>2. offset + n \in offset .. size /\ Len(Content) = size
  BY Numbers, ContentHeld DEF Held
<1>3. result' \in Seq(Bytes)
  BY <1>1, <1>2, PartSeq
<1>4. Content' = Content
  BY DEF Content
<1>5. StreamInv'
  BY <1>3 DEF StreamInv, StreamTypeOK, wrapped
<1> QED BY <1>1, <1>2, <1>4, <1>5 DEF Queue!Peek

\* peek_at, and peek, give a part of the content.
LEMMA PeekRefines ==
  ASSUME StreamInv, NEW offset \in Nat, NEW len \in Nat, peek_at(offset, len)
  PROVE  StreamInv' /\ Queue!Peek
<1>1. CASE offset >= size
  <2>1. 0 \in 0 .. size /\ 0 \in 0 .. size - 0
    BY Numbers
  <2>2. copied(0, 0) = <<>>
    <3>1. copied(0, 0) = SubSeq(Content, 0 + 1, 0 + 0)
      BY <2>1, CopiedIsContent
    <3>2. SubSeq(Content, 1, 0) = <<>>
      BY SubSeqEmpty
    <3> QED BY <3>1, <3>2
  <2>3. result' = copied(0, 0) /\ UNCHANGED <<buffer, read_pos, write_pos, size>>
    BY <1>1, <2>2 DEF peek_at
  <2> QED BY <2>1, <2>3, LookRefines
<1>2. CASE ~(offset >= size)
  <2> DEFINE n == least(len, size - offset)
  <2>1. offset \in 0 .. size /\ n \in 0 .. size - offset
    BY <1>2, Numbers DEF least
  <2>2. result' = copied(offset, n) /\ UNCHANGED <<buffer, read_pos, write_pos, size>>
    BY <1>2 DEF peek_at
  <2> HIDE DEF n
  <2> QED BY <2>1, <2>2, LookRefines
<1> QED BY <1>1, <1>2

\* So does peek_contiguous, up to the end of the ring.
LEMMA ContiguousRefines ==
  ASSUME StreamInv, peek_contiguous
  PROVE  StreamInv' /\ Queue!Peek
<1> DEFINE n == least(size, capacity - read_pos)
<1>1. 0 \in 0 .. size /\ n \in 0 .. size - 0
  BY Numbers DEF least
<1>2. result' = copied(0, n) /\ UNCHANGED <<buffer, read_pos, write_pos, size>>
  BY DEF peek_contiguous
<1> HIDE DEF n
<1> QED BY <1>1, <1>2, LookRefines

\* A ring of size 0 holds nothing.
LEMMA EmptyContent == size = 0 => Content = <<>>
BY DEF Content

\* clear leaves nothing.
LEMMA ClearRefines ==
  ASSUME StreamInv, clear_buffer
  PROVE  StreamInv' /\ Queue!Clear
<1>1. read_pos' = 0 /\ write_pos' = 0 /\ size' = 0 /\ UNCHANGED <<buffer, result>>
  BY DEF clear_buffer
<1>2. Content' = <<>>
  BY <1>1 DEF Content
<1>3. StreamInv'
  BY <1>1, CapacityAssumption DEF StreamInv, StreamTypeOK, Slots, wrapped
<1> QED BY <1>1, <1>2, <1>3 DEF Queue!Clear

-----------------------------------------------------------------------------
LEMMA StreamInitRefines == StreamInit => StreamInv /\ Queue!QueueInit
<1> SUFFICES ASSUME StreamInit PROVE StreamInv /\ Queue!QueueInit
  OBVIOUS
<1>1. StreamInv
  BY CapacityAssumption DEF StreamInit, StreamInv, StreamTypeOK, Slots, wrapped
<1>2. Content = <<>>
  BY EmptyContent DEF StreamInit
<1> QED BY <1>1, <1>2 DEF StreamInit, Queue!QueueInit

\* Every call keeps the invariant and is a step of the queue.
LEMMA StreamStepRefines ==
  StreamInv /\ [StreamNext]_streamVars => StreamInv' /\ [Queue!QueueNext]_(Queue!queueVars)
<1> SUFFICES ASSUME StreamInv, [StreamNext]_streamVars
             PROVE  StreamInv' /\ [Queue!QueueNext]_(Queue!queueVars)
  OBVIOUS
<1>n. \A k \in 0 .. MaxCall : k \in Nat
  BY CapacityAssumption
<1>1. ASSUME NEW data \in Data, write(data) \/ commit_write(data)
      PROVE  StreamInv' /\ Queue!QueueNext
  <2>1. write(data)
    BY <1>1 DEF commit_write
  <2> QED BY <2>1, WriteRefines DEF Queue!QueueNext
<1>2. ASSUME NEW offset \in 0 .. MaxCall, NEW len \in 0 .. MaxCall, peek_at(offset, len)
      PROVE  StreamInv' /\ Queue!QueueNext
  BY <1>2, <1>n, PeekRefines DEF Queue!QueueNext
<1>3. ASSUME NEW len \in 0 .. MaxCall, peek(len)
      PROVE  StreamInv' /\ Queue!QueueNext
  <2>1. peek_at(0, len) /\ len \in Nat /\ 0 \in Nat
    BY <1>3, <1>n DEF peek
  <2> QED BY <2>1, PeekRefines DEF Queue!QueueNext
<1>4. ASSUME NEW len \in 0 .. MaxCall, consume(len)
      PROVE  StreamInv' /\ Queue!QueueNext
  BY <1>4, <1>n, ConsumeRefines DEF Queue!QueueNext
<1>5. ASSUME NEW len \in 0 .. MaxCall, read(len)
      PROVE  StreamInv' /\ Queue!QueueNext
  BY <1>5, <1>n, ReadRefines DEF Queue!QueueNext
<1>6. ASSUME peek_contiguous PROVE StreamInv' /\ Queue!QueueNext
  BY <1>6, ContiguousRefines DEF Queue!QueueNext
<1>7. ASSUME clear_buffer PROVE StreamInv' /\ Queue!QueueNext
  BY <1>7, ClearRefines DEF Queue!QueueNext
<1>8. ASSUME UNCHANGED streamVars PROVE StreamInv' /\ UNCHANGED Queue!queueVars
  BY <1>8 DEF streamVars, StreamInv, StreamTypeOK, wrapped, Content, Queue!queueVars
<1> QED BY <1>1, <1>2, <1>3, <1>4, <1>5, <1>6, <1>7, <1>8 DEF StreamNext

\* Whatever its capacity, and in whatever pieces it is written, looked at and
\* consumed, the send buffer gives the bytes as they were written
\* (ring_buffer.hpp:55, 79, 107, 161).
THEOREM BufferImplementsQueue == StreamSpec => ImplementsQueue
BY StreamInitRefines, StreamStepRefines, PTL DEF StreamSpec, ImplementsQueue, Queue!QueueSpec

\* The positions stay in the ring, and what it holds within its capacity
\* (_read_pos, _write_pos and _size, ring_buffer.hpp:186).
THEOREM BufferTyped == StreamSpec => []StreamTypeOK
<1>1. StreamInv => StreamTypeOK
  BY DEF StreamInv
<1> QED BY <1>1, StreamInitRefines, StreamStepRefines, PTL DEF StreamSpec

-----------------------------------------------------------------------------
LEMMA HeldFinite == handed_out \subseteq slots => IsFiniteSet(handed_out)
<1>1. IsFiniteSet(slots)
  BY PoolAssumption, FS_Interval DEF slots
<1> QED BY <1>1, FS_Subset

LEMMA PoolStarts == PoolInit => PoolSound
<1> SUFFICES ASSUME PoolInit PROVE PoolSound
  OBVIOUS
<1> DEFINE list == [i \in 1 .. PoolSize |-> i - 1]
<1>1. PoolSize \in Nat /\ PoolSize > 0
  BY PoolAssumption
<1>2. PoolTypeOK
  BY <1>1 DEF PoolInit, PoolTypeOK, slots, null, object
<1>3. list \in [1 .. PoolSize -> slots]
  BY <1>1 DEF slots
<1>4. FreeList(list, PoolSize, slots)
  <2>1. ASSUME NEW s \in slots PROVE \E i \in 1 .. PoolSize : list[i] = s
    <3>1. s + 1 \in 1 .. PoolSize /\ list[s + 1] = s
      BY <1>1 DEF slots
    <3> QED BY <3>1
  <2>2. ASSUME NEW i \in 1 .. PoolSize, NEW j \in 1 .. PoolSize, list[i] = list[j]
        PROVE  i = j
    BY <1>1, <2>2
  <2>3. Linked(list, PoolSize)
    BY <1>1 DEF PoolInit, Linked, slots, null
  <2> QED BY <2>1, <2>2, <2>3 DEF FreeList
<1>5. PoolSize - in_use_count = PoolSize /\ slots \ handed_out = slots
  BY <1>1 DEF PoolInit
<1>6. in_use_count = Cardinality(handed_out)
  BY FS_EmptySet DEF PoolInit
<1> HIDE DEF list
<1>7. FreeListSound
  BY <1>3, <1>4, <1>5, <1>6 DEF FreeListSound
<1> QED BY <1>2, <1>7 DEF PoolSound

\* What a call finds: the list, its length and the slots it goes through.
LEMMA PoolFound ==
  ASSUME PoolSound
  PROVE  \E length \in Nat : \E free : \E list \in [1 .. length -> free] :
           /\ length = PoolSize - in_use_count /\ free = slots \ handed_out
           /\ FreeList(list, length, free)
<1>1. PoolSize - in_use_count \in Nat
  BY PoolAssumption DEF PoolSound, PoolTypeOK
<1> QED BY <1>1 DEF PoolSound, FreeListSound

\* What is taken is the first of the list.
LEMMA AcquireKeeps ==
  ASSUME PoolSound, acquire
  PROVE  PoolSound'
<1>0. PICK length \in Nat : \E free : \E list \in [1 .. length -> free] :
             /\ length = PoolSize - in_use_count /\ free = slots \ handed_out
             /\ FreeList(list, length, free)
  BY PoolFound
<1>1. PICK free : \E list \in [1 .. length -> free] :
             /\ length = PoolSize - in_use_count /\ free = slots \ handed_out
             /\ FreeList(list, length, free)
  BY <1>0
<1>2. PICK list \in [1 .. length -> free] : FreeList(list, length, free)
  BY <1>1
<1>3. PICK shorter : shorter = [i \in 1 .. length - 1 |-> list[i + 1]]
  OBVIOUS
<1>4. PICK left : left = free \ {free_head}
  OBVIOUS
<1>5. /\ PoolSize \in Nat /\ in_use_count \in Nat /\ in_use_count = PoolSize - length
      /\ in_use_count <= PoolSize
  BY <1>1, PoolAssumption DEF PoolSound, PoolTypeOK
<1>6. /\ length > 0 /\ free_head = list[1] /\ free_head \in free
      /\ free_head \in slots /\ free_head \notin handed_out
  BY <1>1, <1>2 DEF acquire, FreeList, Linked
<1>7. /\ memory \in [slots -> 0 .. object]
      /\ memory' = [memory EXCEPT ![free_head] = object]
      /\ free_head' = memory[free_head]
      /\ in_use_count' = in_use_count + 1
  BY DEF acquire, PoolSound, PoolTypeOK
<1>8. PoolSize - in_use_count' = length - 1 /\ slots \ handed_out' = left
  BY <1>1, <1>4, <1>5, <1>7 DEF acquire
<1>9. in_use_count' = Cardinality(handed_out')
  BY <1>6, HeldFinite, FS_AddElement DEF acquire, PoolSound, PoolTypeOK, FreeListSound
<1>10. \A i \in 1 .. length - 1 : shorter[i] = list[i + 1] /\ shorter[i] \in left
  BY <1>2, <1>3, <1>4, <1>6 DEF FreeList
<1>11. shorter \in [1 .. length - 1 -> left]
  BY <1>3, <1>10
<1>12. FreeList(shorter, length - 1, left)'
  <2>1. ASSUME NEW s \in left PROVE \E i \in 1 .. length - 1 : shorter[i] = s
    <3>1. PICK i \in 1 .. length : list[i] = s
      BY <1>2, <1>4, <2>1 DEF FreeList
    <3>2. i - 1 \in 1 .. length - 1 /\ shorter[i - 1] = s
      BY <1>4, <1>6, <1>10, <3>1
    <3> QED BY <3>2
  <2>2. ASSUME NEW i \in 1 .. length - 1, NEW j \in 1 .. length - 1, shorter[i] = shorter[j]
        PROVE  i = j
    BY <1>2, <1>10, <2>2 DEF FreeList
  <2>3. ASSUME NEW i \in 1 .. length
        PROVE  memory[list[i]] = IF i + 1 \in 1 .. length THEN list[i + 1] ELSE null
    BY <1>2 DEF FreeList, Linked
  <2>4. free_head' = IF 1 \in 1 .. length - 1 THEN shorter[1] ELSE null
    BY <1>6, <1>7, <1>10, <2>3
  <2>5. ASSUME NEW i \in 1 .. length - 1
        PROVE  memory'[shorter[i]] = IF i + 1 \in 1 .. length - 1 THEN shorter[i + 1] ELSE null
    <3>1. shorter[i] = list[i + 1] /\ shorter[i] # free_head /\ shorter[i] \in slots
      BY <1>1, <1>4, <1>10
    <3>2. memory'[shorter[i]] = memory[list[i + 1]]
      BY <1>7, <3>1
    <3> QED BY <1>10, <2>3, <3>2
  <2> QED BY <2>1, <2>2, <2>4, <2>5 DEF FreeList, Linked, null
<1>13. PoolTypeOK'
  <2>1. free_head' \in slots \cup {null}
    BY <1>1, <1>4, <1>10, <1>12 DEF FreeList, Linked, null
  <2>2. in_use_count' \in 0 .. PoolSize
    BY <1>5, <1>6, <1>7
  <2>3. handed_out' \subseteq slots
    BY <1>6 DEF acquire, PoolSound, PoolTypeOK
  <2>4. object \in 0 .. object
    BY <1>5 DEF object
  <2>5. memory' \in [slots -> 0 .. object]
    BY <1>7, <2>4
  <2> QED BY <2>1, <2>2, <2>3, <2>5 DEF PoolTypeOK, object, null, slots
<1>14. FreeListSound'
  BY <1>8, <1>9, <1>11, <1>12 DEF FreeListSound, slots
<1> QED BY <1>13, <1>14 DEF PoolSound

\* What is given back comes first in the list.
LEMMA ReleaseKeeps ==
  ASSUME PoolSound, NEW s \in slots, release(s)
  PROVE  PoolSound'
<1>0. PICK length \in Nat : \E free : \E list \in [1 .. length -> free] :
             /\ length = PoolSize - in_use_count /\ free = slots \ handed_out
             /\ FreeList(list, length, free)
  BY PoolFound
<1>1. PICK free : \E list \in [1 .. length -> free] :
             /\ length = PoolSize - in_use_count /\ free = slots \ handed_out
             /\ FreeList(list, length, free)
  BY <1>0
<1>2. PICK list \in [1 .. length -> free] : FreeList(list, length, free)
  BY <1>1
<1>3. PICK longer : longer = [i \in 1 .. length + 1 |-> IF i = 1 THEN s ELSE list[i - 1]]
  OBVIOUS
<1>4. PICK more : more = free \cup {s}
  OBVIOUS
<1>5. /\ PoolSize \in Nat /\ in_use_count \in Nat /\ in_use_count = PoolSize - length
      /\ in_use_count <= PoolSize
  BY <1>1, PoolAssumption DEF PoolSound, PoolTypeOK
<1>6. s \in handed_out /\ s \notin free
  BY <1>1 DEF release
<1>7. /\ memory \in [slots -> 0 .. object]
      /\ memory' = [memory EXCEPT ![s] = free_head]
      /\ free_head' = s
      /\ in_use_count' = in_use_count - 1
  BY DEF release, PoolSound, PoolTypeOK
<1>8. PoolSize - in_use_count' = length + 1 /\ slots \ handed_out' = more
  BY <1>1, <1>4, <1>5, <1>7 DEF release
<1>9. /\ in_use_count' = Cardinality(handed_out') /\ in_use_count' \in Nat
  <2>1. IsFiniteSet(handed_out) /\ in_use_count = Cardinality(handed_out)
    BY HeldFinite DEF PoolSound, PoolTypeOK, FreeListSound
  <2>2. IsFiniteSet(handed_out') /\ Cardinality(handed_out') = Cardinality(handed_out) - 1
    BY <1>6, <2>1, FS_RemoveElement DEF release
  <2>3. Cardinality(handed_out') \in Nat
    BY <2>2, FS_CardinalityType
  <2> QED BY <1>7, <2>1, <2>2, <2>3
<1>10. /\ longer[1] = s
       /\ \A i \in 1 .. length : longer[i + 1] = list[i] /\ list[i] \in free
       /\ \A i \in 2 .. length + 1 : longer[i] = list[i - 1] /\ i - 1 \in 1 .. length
  BY <1>2, <1>3
<1>11. longer \in [1 .. length + 1 -> more]
  BY <1>2, <1>3, <1>4
<1>12. FreeList(longer, length + 1, more)'
  <2>1. ASSUME NEW t \in more PROVE \E i \in 1 .. length + 1 : longer[i] = t
    <3>1. CASE t = s
      BY <1>10, <3>1
    <3>2. CASE t \in free
      <4>1. PICK i \in 1 .. length : list[i] = t
        BY <1>2, <3>2 DEF FreeList
      <4>2. i + 1 \in 1 .. length + 1 /\ longer[i + 1] = t
        BY <1>10, <4>1
      <4> QED BY <4>2
    <3> QED BY <1>4, <3>1, <3>2
  <2>2. ASSUME NEW i \in 1 .. length + 1, NEW j \in 1 .. length + 1, longer[i] = longer[j]
        PROVE  i = j
    <3>1. CASE i = 1 \/ j = 1
      BY <1>6, <1>10, <2>2, <3>1
    <3>2. CASE i # 1 /\ j # 1
      <4>1. i - 1 \in 1 .. length /\ j - 1 \in 1 .. length /\ list[i - 1] = list[j - 1]
        BY <1>10, <2>2, <3>2
      <4>2. i - 1 = j - 1
        BY <1>2, <4>1 DEF FreeList
      <4> QED BY <4>2
    <3> QED BY <3>1, <3>2
  <2>3. /\ free_head = IF 1 \in 1 .. length THEN list[1] ELSE null
        /\ \A i \in 1 .. length :
             memory[list[i]] = IF i + 1 \in 1 .. length THEN list[i + 1] ELSE null
    BY <1>2 DEF FreeList, Linked
  <2>4. ASSUME NEW i \in 1 .. length + 1
        PROVE  memory'[longer[i]] = IF i + 1 \in 1 .. length + 1 THEN longer[i + 1] ELSE null
    <3>1. CASE i = 1
      <4>1. memory'[s] = free_head
        BY <1>7
      <4> QED BY <1>10, <2>3, <3>1, <4>1
    <3>2. CASE i # 1
      <4>1. PICK k \in 1 .. length : i = k + 1 /\ longer[i] = list[k] /\ list[k] \in free
        BY <1>10, <3>2
      <4>2. list[k] # s /\ list[k] \in slots
        BY <1>1, <1>6, <4>1
      <4>3. memory'[longer[i]] = memory[list[k]]
        BY <1>7, <4>1, <4>2
      <4>4. memory[list[k]] = IF k + 1 \in 1 .. length THEN list[k + 1] ELSE null
        BY <2>3
      <4>5. k + 1 \in 1 .. length => longer[k + 2] = list[k + 1]
        BY <1>10
      <4> QED BY <4>1, <4>3, <4>4, <4>5
    <3> QED BY <3>1, <3>2
  <2> QED BY <1>7, <1>10, <2>1, <2>2, <2>4 DEF FreeList, Linked, null
<1>13. PoolTypeOK'
  <2>1. free_head \in 0 .. object
    BY <1>5 DEF PoolSound, PoolTypeOK, slots, null, object
  <2>2. memory' \in [slots -> 0 .. object]
    BY <1>7, <2>1
  <2> QED BY <1>5, <1>7, <1>9, <2>2
       DEF release, PoolSound, PoolTypeOK, object, null, slots
<1>14. FreeListSound'
  BY <1>8, <1>9, <1>11, <1>12 DEF FreeListSound, slots
<1> QED BY <1>13, <1>14 DEF PoolSound

\* Whatever the size of the pool and the order of the calls, the free slots are
\* linked in one list that ends: no slot has two holders and none is lost
\* (acquire and release, memory_pool.hpp:75 and :114).
THEOREM PoolIsSound == PoolSpec => []PoolSound
<1>1. PoolInit => PoolSound
  BY PoolStarts
<1>2. PoolSound /\ [PoolNext]_poolVars => PoolSound'
  <2> SUFFICES ASSUME PoolSound, [PoolNext]_poolVars PROVE PoolSound'
    OBVIOUS
  <2>1. CASE acquire
    BY <2>1, AcquireKeeps
  <2>2. ASSUME NEW s \in slots, release(s) PROVE PoolSound'
    BY <2>2, ReleaseKeeps
  <2>3. CASE UNCHANGED poolVars
    <3>1. PoolTypeOK'
      BY <2>3 DEF poolVars, PoolSound, PoolTypeOK
    <3>2. FreeListSound'
      <4> DEFINE L(list) == FreeList(list, PoolSize - in_use_count, slots \ handed_out)
      <4>1. \A list : L(list) => L(list)'
        BY <2>3 DEF poolVars, FreeList, Linked
      <4> QED BY <2>3, <4>1 DEF poolVars, PoolSound, FreeListSound
    <3> QED BY <3>1, <3>2 DEF PoolSound
  <2> QED BY <2>1, <2>2, <2>3 DEF PoolNext
<1> QED BY <1>1, <1>2, PTL DEF PoolSpec

-----------------------------------------------------------------------------
\* The observations and the accesses they have made.
Observing ==
  /\ observed \in Seq(Observable) /\ Len(observed) <= MaxObserved
  /\ old_sum \in Seq(Nat \cup {Unread}) /\ Len(old_sum) = Len(observed)
  /\ bucketed \in SUBSET DOMAIN observed /\ counted \in SUBSET DOMAIN observed
  /\ summed \in SUBSET DOMAIN observed

Counting ==
  /\ count \in Nat /\ sum \in Nat /\ buckets \in [1 .. bucket_count -> Nat]
  /\ CountedSoFar /\ IsFiniteSet(Units(DOMAIN observed))

\* What the snapshot has loaded of a bucket lies between the same two as its other
\* fields, so that it does when it is cumulated.
Snapped ==
  /\ taking \in BOOLEAN /\ before \in SUBSET Over
  /\ snap_count \in Nat \cup {Unread} /\ snap_sum \in Nat \cup {Unread}
  /\ loaded \in [1 .. bucket_count -> Nat \cup {Unread}]
  /\ bucket_counts \in Seq(Nat) /\ Len(bucket_counts) <= bucket_count
  /\ \A b \in 1 .. bucket_count : loaded[b] # Unread =>
       loaded[b] \in Cardinality(InBucket(before, b)) .. Cardinality(InBucket(DOMAIN observed, b))
  /\ SnapshotBetween

HistogramInv == Observing /\ Counting /\ Snapped

LEMMA Boundaries == bucket_count \in Nat /\ bucket_count > 1 /\ boundaries \in Seq(Int)
  BY HistogramAssumption DEF bucket_count

\* A nonempty set of natural numbers has a least one.
LEMMA LeastNat ==
  ASSUME NEW T \in SUBSET Nat, T # {}
  PROVE  Min(T) \in T /\ \A y \in T : Min(T) <= y
<1>1. PICK x \in T : \A y \in T : ~(<<y, x>> \in OpToRel(<, Nat))
  BY NatLessThanWellFounded, WFMin
<1>2. ASSUME NEW y \in T PROVE x <= y
  <2>1. x \in Nat /\ y \in Nat
    OBVIOUS
  <2>2. y < x => <<y, x>> \in OpToRel(<, Nat)
    <3>1. y < x => <<y, x>>[1] < <<y, x>>[2]
      OBVIOUS
    <3>2. <<y, x>> \in Nat \X Nat
      BY <2>1
    <3> QED BY <3>1, <3>2, Zenon DEF OpToRel
  <2>3. ~(y < x)
    BY <1>1, <2>2, Zenon
  <2> QED BY <2>1, <2>3
<1>3. \E z \in T : \A y \in T : z <= y
  BY <1>2
<1> QED BY <1>3 DEF Min

LEMMA BucketFound == ASSUME NEW v \in Nat PROVE bucket(v) \in 1 .. bucket_count
<1> DEFINE fits == {b \in 1 .. bucket_count : b = bucket_count \/ v <= boundaries[b]}
<1>1. bucket_count \in fits /\ fits \in SUBSET Nat
  BY Boundaries
<1>2. Min(fits) \in fits
  BY <1>1, LeastNat
<1> QED BY <1>2 DEF bucket

\* The observations are finitely many, and so are any of them.
LEMMA FewObserved ==
  ASSUME Observing, NEW I \in SUBSET DOMAIN observed
  PROVE  /\ IsFiniteSet(I) /\ Cardinality(I) \in Nat
         /\ Cardinality(I) <= Len(observed)
         /\ \A i \in I : observed[i] \in Nat /\ bucket(observed[i]) \in 1 .. bucket_count
<1>1. Len(observed) \in Nat /\ DOMAIN observed = 1 .. Len(observed)
  BY DEF Observing
<1>2. /\ IsFiniteSet(1 .. Len(observed))
      /\ Cardinality(1 .. Len(observed)) = IF 1 > Len(observed) THEN 0 ELSE Len(observed) - 1 + 1
  <2> Len(observed) \in Int
    BY <1>1
  <2> QED BY FS_Interval, 1 \in Int, Len(observed) \in Int
<1>3. Cardinality(1 .. Len(observed)) = Len(observed)
  BY <1>1, <1>2
<1>4. ASSUME NEW i \in I PROVE observed[i] \in Nat /\ bucket(observed[i]) \in 1 .. bucket_count
  <2>1. i \in 1 .. Len(observed) /\ observed \in Seq(Observable)
    BY <1>1 DEF Observing
  <2>2. observed[i] \in Observable
    BY <2>1
  <2>3. observed[i] \in Nat
    BY <2>2, HistogramAssumption
  <2> QED BY <2>3, BucketFound
<1>5. I \in SUBSET (1 .. Len(observed))
  BY <1>1
<1>6. /\ IsFiniteSet(I) /\ Cardinality(I) \in Nat
      /\ Cardinality(I) <= Cardinality(1 .. Len(observed))
  BY <1>2, <1>5, FS_Subset, FS_CardinalityType
<1> QED BY <1>3, <1>4, <1>6

\* One observation more: what the observations add up to grows by its value.
LEMMA UnitsGrow ==
  ASSUME NEW I, NEW i, i \notin I, observed[i] \in Nat, IsFiniteSet(Units(I))
  PROVE  /\ IsFiniteSet(Units(I \cup {i}))
         /\ Cardinality(Units(I \cup {i})) = Cardinality(Units(I)) + observed[i]
<1> DEFINE range == 1 .. observed[i]
           own == {i} \X range
<1>1. Units(I \cup {i}) = Units(I) \cup own
  BY DEF Units
<1>2. Units(I) \cap own = {}
  BY DEF Units
<1>3. /\ IsFiniteSet(range)
      /\ Cardinality(range) = IF 1 > observed[i] THEN 0 ELSE observed[i] - 1 + 1
  <2>1. 1 \in Int /\ observed[i] \in Int
    OBVIOUS
  <2> QED BY <2>1, FS_Interval
<1> HIDE DEF range
<1>4. Cardinality(range) = observed[i]
  BY <1>3
<1>5. IsFiniteSet({i}) /\ Cardinality({i}) = 1
  BY FS_Singleton
<1>6. IsFiniteSet(own) /\ Cardinality(own) = Cardinality({i}) * Cardinality(range)
  BY <1>3, <1>5, FS_Product
<1>7. /\ IsFiniteSet(Units(I) \cup own)
      /\ Cardinality(Units(I) \cup own)
           = Cardinality(Units(I)) + Cardinality(own) - Cardinality(Units(I) \cap own)
  BY <1>6, FS_Union
<1>8. Cardinality(Units(I)) \in Nat /\ Cardinality(Units(I) \cap own) = 0
  BY <1>2, FS_CardinalityType, FS_EmptySet
<1>9. Cardinality(own) = observed[i]
  BY <1>4, <1>5, <1>6
<1> HIDE DEF own
<1>10. Cardinality(Units(I) \cup own) = Cardinality(Units(I)) + observed[i]
  BY <1>7, <1>8, <1>9
<1> QED BY <1>1, <1>7, <1>10, Zenon

\* One observation more in its bucket.
LEMMA BucketGrows ==
  ASSUME Observing, NEW I \in SUBSET DOMAIN observed, NEW i \in DOMAIN observed, i \notin I,
         NEW b
  PROVE  Cardinality(InBucket(I \cup {i}, b))
           = Cardinality(InBucket(I, b)) + IF bucket(observed[i]) = b THEN 1 ELSE 0
<1>1. IsFiniteSet(InBucket(I, b)) /\ Cardinality(InBucket(I, b)) \in Nat
  <2>1. InBucket(I, b) \in SUBSET DOMAIN observed
    BY DEF InBucket
  <2> QED BY <2>1, FewObserved
<1>2. CASE bucket(observed[i]) = b
  <2>1. InBucket(I \cup {i}, b) = InBucket(I, b) \cup {i} /\ i \notin InBucket(I, b)
    BY <1>2 DEF InBucket
  <2> QED BY <1>1, <1>2, <2>1, FS_AddElement
<1>3. CASE bucket(observed[i]) # b
  <2>1. InBucket(I \cup {i}, b) = InBucket(I, b)
    BY <1>3 DEF InBucket
  <2> QED BY <1>1, <1>3, <2>1
<1> QED BY <1>2, <1>3
\* The observations in the first b buckets are those in the first b - 1 and in the
\* last of them.
LEMMA UpToNext ==
  ASSUME Observing, NEW I \in SUBSET DOMAIN observed, NEW b \in 1 .. bucket_count
  PROVE  /\ Cardinality(UpTo(I, b)) \in Nat /\ Cardinality(InBucket(I, b)) \in Nat
         /\ b = 1 => Cardinality(UpTo(I, b)) = Cardinality(InBucket(I, b))
         /\ b # 1 => /\ Cardinality(UpTo(I, b - 1)) \in Nat
                     /\ Cardinality(UpTo(I, b))
                          = Cardinality(UpTo(I, b - 1)) + Cardinality(InBucket(I, b))
<1> DEFINE low == UpTo(I, b - 1)
           high == InBucket(I, b)
<1>1. low \in SUBSET DOMAIN observed /\ high \in SUBSET DOMAIN observed
  BY DEF UpTo, InBucket
<1>2. /\ IsFiniteSet(low) /\ Cardinality(low) \in Nat
      /\ IsFiniteSet(high) /\ Cardinality(high) \in Nat
  BY <1>1, FewObserved
<1>3. bucket_count \in Nat /\ \A i \in I : bucket(observed[i]) \in 1 .. bucket_count
  BY Boundaries, FewObserved
<1>4. UpTo(I, b) = low \cup high /\ low \cap high = {} /\ (b = 1 => low = {})
  BY <1>3 DEF UpTo, InBucket
<1> HIDE DEF low, high
<1>5. Cardinality(low \cup high)
        = Cardinality(low) + Cardinality(high) - Cardinality(low \cap high)
  BY <1>2, FS_Union
<1>6. Cardinality({}) = 0
  BY FS_EmptySet
<1>7. Cardinality(UpTo(I, b)) = Cardinality(low) + Cardinality(high)
  <2>1. Cardinality(low \cap high) = 0
    BY <1>4, <1>6, Zenon
  <2>2. Cardinality(UpTo(I, b)) = Cardinality(low \cup high)
    BY <1>4, Zenon
  <2> QED BY <1>2, <1>5, <2>1, <2>2
<1>8. b = 1 => Cardinality(low) = 0
  BY <1>4, <1>6
<1> QED BY <1>2, <1>7, <1>8 DEF low, high

-----------------------------------------------------------------------------
LEMMA HistogramStarts == HistogramInit => HistogramInv
<1> SUFFICES ASSUME HistogramInit PROVE HistogramInv
  OBVIOUS
<1>1. Observing
  BY HistogramAssumption DEF HistogramInit, Observing
<1>2. Units({}) = {} /\ \A b : InBucket({}, b) = {}
  BY DEF Units, InBucket
<1>3. DOMAIN observed = {}
  BY DEF HistogramInit
<1>4. Counting
  BY <1>2, <1>3, Boundaries, FS_EmptySet DEF HistogramInit, Counting, CountedSoFar
<1>5. Snapped
  <2>1. /\ taking = FALSE /\ before = {} /\ snap_count = Unread /\ snap_sum = Unread
        /\ loaded = [b \in 1 .. bucket_count |-> Unread] /\ bucket_counts = <<>>
    BY DEF HistogramInit
  <2>2. /\ loaded \in [1 .. bucket_count -> Nat \cup {Unread}]
        /\ \A b \in 1 .. bucket_count : loaded[b] = Unread
        /\ bucket_counts \in Seq(Nat) /\ Len(bucket_counts) <= bucket_count
        /\ \A k : k \notin 1 .. Len(bucket_counts)
    BY <2>1, Boundaries
  <2>3. SnapshotBetween
    BY <2>1, <2>2 DEF SnapshotBetween
  <2> QED BY <2>1, <2>2, <2>3 DEF Snapped
<1> QED BY <1>1, <1>4, <1>5 DEF HistogramInv

\* While the values that were there stay, what they add up to and where they lie
\* does, and of more observations it is no less.
LEMMA ValuesStay ==
  ASSUME Observing, Observing', DOMAIN observed \subseteq DOMAIN observed',
         \A i \in DOMAIN observed : observed'[i] = observed[i],
         NEW I \in SUBSET DOMAIN observed, NEW J \in SUBSET DOMAIN observed', I \subseteq J
  PROVE  /\ Units(I)' = Units(I) /\ Units(I) \subseteq Units(J)'
         /\ \A b : InBucket(I, b)' = InBucket(I, b) /\ UpTo(I, b)' = UpTo(I, b)
         /\ \A b : /\ IsFiniteSet(InBucket(J, b)') /\ IsFiniteSet(UpTo(J, b)')
                   /\ InBucket(I, b) \subseteq InBucket(J, b)' /\ UpTo(I, b) \subseteq UpTo(J, b)'
<1>1. \A i \in I : observed'[i] = observed[i]
  OBVIOUS
<1>2. Units(I)' = Units(I) /\ Units(I) \subseteq Units(J)'
  <2>1. \A i \in I : {i} \X (1 .. observed'[i]) = {i} \X (1 .. observed[i])
    BY <1>1
  <2>2. UNION {{i} \X (1 .. observed'[i]) : i \in I} = UNION {{i} \X (1 .. observed[i]) : i \in I}
    BY <2>1
  <2>3. UNION {{i} \X (1 .. observed'[i]) : i \in I}
          \subseteq UNION {{i} \X (1 .. observed'[i]) : i \in J}
    OBVIOUS
  <2> QED BY <2>2, <2>3 DEF Units
<1>3. ASSUME NEW i \in I PROVE bucket(observed[i])' = bucket(observed[i])
  BY <1>1 DEF bucket, bucket_count
<1>4. ASSUME NEW b
      PROVE  InBucket(I, b)' = InBucket(I, b) /\ UpTo(I, b)' = UpTo(I, b)
  BY <1>3, Zenon DEF InBucket, UpTo
<1>5. ASSUME NEW b
      PROVE  InBucket(I, b)' \subseteq InBucket(J, b)' /\ UpTo(I, b)' \subseteq UpTo(J, b)'
  BY DEF InBucket, UpTo
<1>6. IsFiniteSet(J)
  <2>1. DOMAIN observed' = 1 .. Len(observed') /\ Len(observed') \in Nat
    BY DEF Observing
  <2>2. IsFiniteSet(1 .. Len(observed'))
    BY <2>1, FS_Interval, 1 \in Int, Len(observed') \in Int
  <2> QED BY <2>1, <2>2, FS_Subset
<1>7. ASSUME NEW b PROVE IsFiniteSet(InBucket(J, b)') /\ IsFiniteSet(UpTo(J, b)')
  <2>1. InBucket(J, b)' \subseteq J /\ UpTo(J, b)' \subseteq J
    BY DEF InBucket, UpTo
  <2> QED BY <1>6, <2>1, FS_Subset
<1> QED BY <1>2, <1>4, <1>5, <1>7

\* What the snapshot has read stays right while the threads go on.
LEMMA SnappedStays ==
  ASSUME Observing, Snapped, UNCHANGED snapping, Over \subseteq Over',
         Observing', IsFiniteSet(Units(DOMAIN observed)), IsFiniteSet(Units(DOMAIN observed))',
         DOMAIN observed \subseteq DOMAIN observed', \A i \in DOMAIN observed : observed'[i] = observed[i]
  PROVE  Snapped'
<1>1. PICK O \in SUBSET DOMAIN observed : O = before
  BY DEF Snapped, Over, Observing
<1>2. PICK D \in SUBSET DOMAIN observed : D = DOMAIN observed
  OBVIOUS
<1>3. PICK E \in SUBSET DOMAIN observed' : E = DOMAIN observed'
  OBVIOUS
<1>4. before' = O /\ before' \in SUBSET Over' /\ bucket_count' = bucket_count
  BY <1>1 DEF snapping, Snapped, bucket_count
<1>5. /\ Units(O)' = Units(O)
      /\ \A b : InBucket(O, b)' = InBucket(O, b) /\ UpTo(O, b)' = UpTo(O, b)
  BY <1>1, <1>3, ValuesStay
<1>6. /\ Units(D) \subseteq Units(E)'
      /\ \A b : /\ IsFiniteSet(InBucket(E, b)') /\ IsFiniteSet(UpTo(E, b)')
                /\ InBucket(D, b) \subseteq InBucket(E, b)' /\ UpTo(D, b) \subseteq UpTo(E, b)'
  BY <1>2, <1>3, ValuesStay
<1>7. /\ Len(observed) \in Nat /\ Len(observed') \in Nat /\ Len(observed) <= Len(observed')
      /\ IsFiniteSet(O) /\ Cardinality(O) \in Nat
  <2>1. /\ Len(observed) \in Nat /\ Len(observed') \in Nat
        /\ DOMAIN observed = 1 .. Len(observed) /\ DOMAIN observed' = 1 .. Len(observed')
    BY DEF Observing
  <2>2. Len(observed) <= Len(observed')
    <3>1. Len(observed) = 0 \/ Len(observed) \in 1 .. Len(observed')
      BY <2>1
    <3> QED BY <2>1, <3>1
  <2> QED BY <1>1, <2>1, <2>2, FewObserved
<1>8. /\ Units(DOMAIN observed)' = Units(E)'
      /\ \A b : /\ InBucket(DOMAIN observed, b)' = InBucket(E, b)'
                /\ UpTo(DOMAIN observed, b)' = UpTo(E, b)'
                /\ InBucket(before, b)' = InBucket(O, b)' /\ UpTo(before, b)' = UpTo(O, b)'
      /\ Units(before)' = Units(O)'
  BY <1>3, <1>4 DEF Units, InBucket, UpTo
<1>9. ASSUME snap_count' # Unread PROVE snap_count' \in Cardinality(before') .. Len(observed')
  <2>1. snap_count \in Cardinality(O) .. Len(observed) /\ snap_count' = snap_count
    BY <1>1, <1>9 DEF Snapped, SnapshotBetween, snapping, Unread
  <2> QED BY <1>4, <1>7, <2>1
<1>10. ASSUME snap_sum' # Unread
       PROVE  snap_sum' \in Cardinality(Units(before)') .. Cardinality(Units(DOMAIN observed)')
  <2>1. snap_sum \in Cardinality(Units(O)) .. Cardinality(Units(D)) /\ snap_sum' = snap_sum
    BY <1>1, <1>2, <1>10 DEF Snapped, SnapshotBetween, snapping, Unread
  <2>2. /\ Cardinality(Units(D)) <= Cardinality(Units(E)') /\ IsFiniteSet(Units(D))
        /\ Cardinality(Units(D)) \in Nat /\ Cardinality(Units(E)') \in Nat
    BY <1>2, <1>6, <1>8, FS_Subset, FS_CardinalityType
  <2>3. Cardinality(Units(O)) \in Nat
    <3>1. Units(O) \subseteq Units(D)
      BY <1>1, <1>2 DEF Units
    <3> QED BY <2>2, <3>1, FS_Subset, FS_CardinalityType
  <2> QED BY <1>5, <1>8, <2>1, <2>2, <2>3
<1>11. ASSUME NEW k \in 1 .. Len(bucket_counts')
       PROVE  bucket_counts'[k] \in Cardinality(UpTo(before, k)')
                                      .. Cardinality(UpTo(DOMAIN observed, k)')
  <2>1. /\ bucket_counts[k] \in Cardinality(UpTo(O, k)) .. Cardinality(UpTo(D, k))
        /\ bucket_counts' = bucket_counts
    BY <1>1, <1>2, <1>11 DEF Snapped, SnapshotBetween, snapping
  <2>2. /\ UpTo(O, k) \in SUBSET DOMAIN observed /\ UpTo(D, k) \in SUBSET DOMAIN observed
    BY DEF UpTo
  <2>3. /\ Cardinality(UpTo(D, k)) <= Cardinality(UpTo(E, k)')
        /\ Cardinality(UpTo(E, k)') \in Nat
    BY <1>6, FS_Subset, FS_CardinalityType
  <2>4. Cardinality(UpTo(O, k)) \in Nat /\ Cardinality(UpTo(D, k)) \in Nat
    BY <2>2, FewObserved
  <2> QED BY <1>5, <1>8, <2>1, <2>3, <2>4
<1>12. ASSUME NEW b \in 1 .. bucket_count', loaded'[b] # Unread
       PROVE  loaded'[b] \in Cardinality(InBucket(before, b)')
                               .. Cardinality(InBucket(DOMAIN observed, b)')
  <2>1. /\ loaded[b] \in Cardinality(InBucket(O, b)) .. Cardinality(InBucket(D, b))
        /\ loaded' = loaded
    BY <1>1, <1>2, <1>4, <1>12 DEF Snapped, snapping, Unread
  <2>2. /\ InBucket(O, b) \in SUBSET DOMAIN observed /\ InBucket(D, b) \in SUBSET DOMAIN observed
    BY DEF InBucket
  <2>3. /\ Cardinality(InBucket(D, b)) <= Cardinality(InBucket(E, b)')
        /\ Cardinality(InBucket(E, b)') \in Nat
    BY <1>6, FS_Subset, FS_CardinalityType
  <2>4. Cardinality(InBucket(O, b)) \in Nat /\ Cardinality(InBucket(D, b)) \in Nat
    BY <2>2, FewObserved
  <2> QED BY <1>5, <1>8, <2>1, <2>3, <2>4
<1>13. SnapshotBetween'
  BY <1>9, <1>10, <1>11 DEF SnapshotBetween, Unread
<1>14. /\ taking' \in BOOLEAN /\ bucket_counts' \in Seq(Nat) /\ Len(bucket_counts') <= bucket_count'
       /\ loaded' \in [1 .. bucket_count' -> Nat \cup {Unread}]
       /\ snap_count' \in Nat \cup {Unread} /\ snap_sum' \in Nat \cup {Unread}
  BY <1>4 DEF Snapped, snapping, Unread
<1> QED BY <1>4, <1>12, <1>13, <1>14 DEF Snapped, Unread

LEMMA BeginKeeps ==
  ASSUME HistogramInv, NEW v \in Observable, begin(v)
  PROVE  HistogramInv'
<1>1. /\ Observing /\ Counting /\ Snapped
      /\ observed \in Seq(Observable) /\ observed' = Append(observed, v)
      /\ old_sum' = Append(old_sum, Unread) /\ Len(observed) < MaxObserved
      /\ UNCHANGED <<buckets, count, sum, bucketed, counted, summed>> /\ UNCHANGED snapping
  BY DEF HistogramInv, begin, Observing, histogram
<1>2. /\ v \in Nat /\ MaxObserved \in Nat /\ Len(observed) \in Nat
      /\ observed' \in Seq(Observable) /\ Len(observed') = Len(observed) + 1
      /\ DOMAIN observed = 1 .. Len(observed) /\ DOMAIN observed' = 1 .. Len(observed) + 1
      /\ observed'[Len(observed) + 1] = v
      /\ \A i \in DOMAIN observed : observed'[i] = observed[i]
  BY <1>1, HistogramAssumption
<1>3. DOMAIN observed \subseteq DOMAIN observed'
  BY <1>2
<1>4. Observing'
  <2>1. old_sum' \in Seq(Nat \cup {Unread}) /\ Len(old_sum') = Len(observed) + 1
    BY <1>1 DEF Observing
  <2>2. /\ bucketed' \in SUBSET DOMAIN observed' /\ counted' \in SUBSET DOMAIN observed'
        /\ summed' \in SUBSET DOMAIN observed'
    BY <1>1, <1>3 DEF Observing
  <2> QED BY <1>1, <1>2, <2>1, <2>2 DEF Observing, Unread
<1>5. PICK B \in SUBSET DOMAIN observed : B = bucketed
  BY <1>1 DEF Observing
<1>6. PICK S \in SUBSET DOMAIN observed : S = summed
  BY <1>1 DEF Observing
<1>7. PICK D \in SUBSET DOMAIN observed : D = DOMAIN observed
  OBVIOUS
<1>8. /\ Units(S)' = Units(S) /\ \A b : InBucket(B, b)' = InBucket(B, b)
      /\ Units(D)' = Units(D)
  BY <1>1, <1>2, <1>3, <1>4, ValuesStay
<1>9. Units(summed)' = Units(summed) /\ \A b : InBucket(bucketed, b)' = InBucket(bucketed, b)
  <2>1. Units(summed)' = Units(S)' /\ \A b : InBucket(bucketed, b)' = InBucket(B, b)'
    BY <1>1, <1>5, <1>6 DEF Units, InBucket
  <2> QED BY <1>5, <1>6, <1>8, <2>1
<1>10. IsFiniteSet(Units(DOMAIN observed))'
  <2>1. PICK n : n = Len(observed) + 1
    OBVIOUS
  <2>2. Units(DOMAIN observed)' = Units(D)' \cup ({n} \X (1 .. v))
    <3>1. DOMAIN observed' = D \cup {n} /\ observed'[n] = v
      BY <1>2, <1>7, <2>1
    <3> QED BY <3>1 DEF Units
  <2>3. IsFiniteSet(1 .. v) /\ IsFiniteSet({n})
    BY <1>2, FS_Interval, FS_Singleton, 1 \in Int, v \in Int
  <2>4. IsFiniteSet({n} \X (1 .. v))
    BY <2>3, FS_Product
  <2>5. IsFiniteSet(Units(D))
    BY <1>1, <1>7 DEF Counting
  <2>6. IsFiniteSet(Units(D) \cup ({n} \X (1 .. v)))
    BY <2>4, <2>5, FS_Union
  <2>7. Units(DOMAIN observed)' = Units(D) \cup ({n} \X (1 .. v))
    BY <1>8, <2>2
  <2> QED BY <2>6, <2>7, Zenon
<1>11. Counting'
  BY <1>1, <1>9, <1>10 DEF Counting, CountedSoFar, bucket_count
<1>12. Over' = Over
  BY <1>1 DEF Over
<1>13. Snapped'
  BY <1>1, <1>2, <1>3, <1>4, <1>10, <1>12, SnappedStays DEF Counting
<1> QED BY <1>4, <1>11, <1>13 DEF HistogramInv

\* An access of an observation that is under way.
LEMMA GoingOn ==
  ASSUME HistogramInv, Observing', UNCHANGED observed, UNCHANGED snapping,
         bucketed \subseteq bucketed', counted \subseteq counted', summed \subseteq summed'
  PROVE  /\ Snapped' /\ IsFiniteSet(Units(DOMAIN observed))'
         /\ \A I : Units(I)' = Units(I) /\ \A b : InBucket(I, b)' = InBucket(I, b)
<1>1. Observing /\ Counting /\ Snapped
  BY DEF HistogramInv
<1>2. \A I : Units(I)' = Units(I) /\ \A b : InBucket(I, b)' = InBucket(I, b)
  BY DEF Units, InBucket, bucket, bucket_count
<1>3. IsFiniteSet(Units(DOMAIN observed))'
  <2>1. Units(DOMAIN observed)' = Units(DOMAIN observed)
    BY DEF Units
  <2> QED BY <1>1, <2>1 DEF Counting
<1>4. Over \subseteq Over'
  BY DEF Over
<1>5. Snapped'
  BY <1>1, <1>3, <1>4, SnappedStays DEF Counting
<1> QED BY <1>2, <1>3, <1>5

LEMMA BucketKeeps ==
  ASSUME HistogramInv, NEW i \in DOMAIN observed, add_bucket(i)
  PROVE  HistogramInv'
<1>1. /\ Observing /\ Counting
      /\ i \notin bucketed /\ bucketed' = bucketed \cup {i}
      /\ buckets' = [buckets EXCEPT ![bucket(observed[i])] = @ + 1]
      /\ UNCHANGED <<count, sum, observed, counted, summed, old_sum>> /\ UNCHANGED snapping
  BY DEF HistogramInv, add_bucket
<1>2. Observing'
  BY <1>1 DEF Observing, Unread
<1>3. /\ Snapped' /\ IsFiniteSet(Units(DOMAIN observed))'
      /\ \A I : Units(I)' = Units(I) /\ \A b : InBucket(I, b)' = InBucket(I, b)
  BY <1>1, <1>2, GoingOn
<1>4. PICK B \in SUBSET DOMAIN observed : B = bucketed
  BY <1>1 DEF Observing
<1>5. bucket(observed[i]) \in 1 .. bucket_count
  BY <1>1, FewObserved
<1>6. ASSUME NEW b \in 1 .. bucket_count
      PROVE  buckets'[b] = Cardinality(InBucket(bucketed, b))'
  <2>1. buckets[b] = Cardinality(InBucket(B, b))
    BY <1>1, <1>4 DEF Counting, CountedSoFar
  <2>2. buckets'[b] = buckets[b] + IF bucket(observed[i]) = b THEN 1 ELSE 0
    BY <1>1, <1>5 DEF Counting
  <2>3. buckets'[b] = Cardinality(InBucket(B \cup {i}, b))
    BY <1>1, <1>4, <2>1, <2>2, BucketGrows
  <2>4. InBucket(bucketed, b)' = InBucket(B \cup {i}, b)
    BY <1>1, <1>4 DEF InBucket, bucket, bucket_count
  <2> QED BY <2>3, <2>4
<1>7. Units(summed)' = Units(summed)
  BY <1>1 DEF Units
<1>8. buckets' \in [1 .. bucket_count -> Nat]
  BY <1>1, <1>5 DEF Counting
<1>9. Counting'
  BY <1>1, <1>3, <1>6, <1>7, <1>8 DEF Counting, CountedSoFar, bucket_count
<1> QED BY <1>2, <1>3, <1>9 DEF HistogramInv

LEMMA CountKeeps ==
  ASSUME HistogramInv, NEW i \in DOMAIN observed, add_count(i)
  PROVE  HistogramInv'
<1>1. /\ Observing /\ Counting
      /\ i \notin counted /\ counted' = counted \cup {i} /\ count' = count + 1
      /\ UNCHANGED <<buckets, sum, observed, bucketed, summed, old_sum>> /\ UNCHANGED snapping
  BY DEF HistogramInv, add_count
<1>2. Observing'
  BY <1>1 DEF Observing, Unread
<1>3. Snapped' /\ IsFiniteSet(Units(DOMAIN observed))'
  BY <1>1, <1>2, GoingOn
<1>4. count' = Cardinality(counted')
  <2>1. count = Cardinality(counted) /\ IsFiniteSet(counted)
    BY <1>1, FewObserved DEF Counting, CountedSoFar, Observing
  <2> QED BY <1>1, <2>1, FS_AddElement
<1>5. Units(summed)' = Units(summed) /\ \A b : InBucket(bucketed, b)' = InBucket(bucketed, b)
  BY <1>1 DEF Units, InBucket, bucket, bucket_count
<1>6. Counting'
  BY <1>1, <1>3, <1>4, <1>5 DEF Counting, CountedSoFar, bucket_count
<1> QED BY <1>2, <1>3, <1>6 DEF HistogramInv

\* A load only tells the observation what to expect.
LEMMA ReadKeeps ==
  ASSUME HistogramInv, NEW i \in DOMAIN observed, read_sum(i)
  PROVE  HistogramInv'
<1>1. /\ Observing /\ Counting
      /\ \E old \in 0 .. sum : old_sum' = [old_sum EXCEPT ![i] = old]
      /\ UNCHANGED <<buckets, count, sum, observed, bucketed, counted, summed>>
      /\ UNCHANGED snapping
  BY DEF HistogramInv, read_sum, histogram
<1>2. PICK old \in Nat : old_sum' = [old_sum EXCEPT ![i] = old]
  <2>1. PICK old \in 0 .. sum : old_sum' = [old_sum EXCEPT ![i] = old]
    BY <1>1
  <2>2. old \in Nat
    BY <1>1, <2>1 DEF Counting
  <2> QED BY <2>1, <2>2
<1>3. old_sum' \in Seq(Nat \cup {Unread}) /\ Len(old_sum') = Len(observed)
  <2>1. DOMAIN old_sum = DOMAIN observed /\ old_sum \in Seq(Nat \cup {Unread})
    BY <1>1 DEF Observing
  <2>2. PICK n \in Nat : n = Len(old_sum) /\ DOMAIN old_sum = 1 .. n
    BY <2>1
  <2>3. old_sum \in [1 .. n -> Nat \cup {Unread}]
    BY <2>1, <2>2
  <2>4. old_sum' \in [1 .. n -> Nat \cup {Unread}]
    BY <1>2, <2>3
  <2> QED BY <1>1, <2>2, <2>4 DEF Observing
<1>4. Observing'
  BY <1>1, <1>3 DEF Observing, Unread
<1>5. Snapped' /\ IsFiniteSet(Units(DOMAIN observed))'
  BY <1>1, <1>4, GoingOn
<1>6. Units(summed)' = Units(summed) /\ \A b : InBucket(bucketed, b)' = InBucket(bucketed, b)
  BY <1>1 DEF Units, InBucket, bucket, bucket_count
<1>7. Counting'
  BY <1>1, <1>5, <1>6 DEF Counting, CountedSoFar, bucket_count
<1> QED BY <1>4, <1>5, <1>7 DEF HistogramInv

\* The exchange that finds what was loaded adds the observation's own value to what
\* the others have added, and to nothing older.
LEMMA SumKeeps ==
  ASSUME HistogramInv, NEW i \in DOMAIN observed, load_sum(i) \/ exchange(i)
  PROVE  HistogramInv'
<1>1. CASE read_sum(i)
  BY <1>1, ReadKeeps
<1>2. CASE ~read_sum(i)
  <2>1. /\ Observing /\ Counting
        /\ i \notin summed /\ sum' = sum + observed[i] /\ summed' = summed \cup {i}
        /\ UNCHANGED <<buckets, count, observed, bucketed, counted, old_sum>>
        /\ UNCHANGED snapping
    BY <1>2 DEF HistogramInv, load_sum, exchange
  <2>2. Observing'
    BY <2>1 DEF Observing, Unread
  <2>3. Snapped' /\ IsFiniteSet(Units(DOMAIN observed))'
    BY <2>1, <2>2, GoingOn
  <2>4. PICK S \in SUBSET DOMAIN observed : S = summed
    BY <2>1 DEF Observing
  <2>5. sum = Cardinality(Units(S)) /\ IsFiniteSet(Units(S))
    <3>1. Units(S) \subseteq Units(DOMAIN observed)
      BY DEF Units
    <3> QED BY <2>1, <2>4, <3>1, FS_Subset DEF Counting, CountedSoFar
  <2>6. observed[i] \in Nat
    BY <2>1, FewObserved
  <2>7. Cardinality(Units(S \cup {i})) = Cardinality(Units(S)) + observed[i]
    BY <2>1, <2>4, <2>5, <2>6, UnitsGrow
  <2>8. Units(summed)' = Units(S \cup {i})
    BY <2>1, <2>4 DEF Units
  <2>9. \A b : InBucket(bucketed, b)' = InBucket(bucketed, b)
    BY <2>1 DEF InBucket, bucket, bucket_count
  <2>10. sum' = Cardinality(Units(summed))' /\ sum' \in Nat
    BY <2>1, <2>5, <2>6, <2>7, <2>8 DEF Counting
  <2>11. Counting'
    BY <2>1, <2>3, <2>9, <2>10 DEF Counting, CountedSoFar, bucket_count
  <2> QED BY <2>2, <2>3, <2>11 DEF HistogramInv
<1> QED BY <1>1, <1>2

-----------------------------------------------------------------------------
\* The steps of the snapshot change nothing that it reads.
LEMMA SnapshotReads ==
  ASSUME HistogramInv, snapshot
  PROVE  /\ Observing' /\ Counting' /\ UNCHANGED observing /\ Over' = Over
         /\ \A I : Units(I)' = Units(I)
         /\ \A I, b : InBucket(I, b)' = InBucket(I, b) /\ UpTo(I, b)' = UpTo(I, b)
<1>1. UNCHANGED histogram /\ UNCHANGED observing
  BY DEF snapshot, snap_call, snap_load_count, snap_load_sum, snap_load_bucket,
         snap_cumulate, snap_return
<1>2. Observing' /\ Over' = Over
  BY <1>1 DEF HistogramInv, Observing, observing, Over, Unread
<1>3. /\ Units(summed)' = Units(summed) /\ Units(DOMAIN observed)' = Units(DOMAIN observed)
      /\ \A b : InBucket(bucketed, b)' = InBucket(bucketed, b)
  BY <1>1 DEF observing, Units, InBucket, bucket, bucket_count
<1>4. Counting'
  BY <1>1, <1>3 DEF HistogramInv, histogram, observing, Counting, CountedSoFar, bucket_count
<1>5. /\ \A I : Units(I)' = Units(I)
      /\ \A I, b : InBucket(I, b)' = InBucket(I, b) /\ UpTo(I, b)' = UpTo(I, b)
  BY <1>1 DEF observing, Units, InBucket, UpTo, bucket, bucket_count
<1> QED BY <1>1, <1>2, <1>4, <1>5

\* What a load finds at any time of the snapshot: no less than what the
\* observations over before it have added, and no more than all.
LEMMA FoundBetween ==
  ASSUME HistogramInv
  PROVE  /\ count \in Cardinality(before) .. Len(observed)
         /\ sum \in Cardinality(Units(before)) .. Cardinality(Units(DOMAIN observed))
         /\ \A b \in 1 .. bucket_count :
              buckets[b] \in Cardinality(InBucket(before, b)) .. Cardinality(InBucket(DOMAIN observed, b))
<1>1. /\ Observing /\ Counting /\ CountedSoFar
      /\ before \subseteq bucketed /\ before \subseteq counted /\ before \subseteq summed
      /\ bucketed \in SUBSET DOMAIN observed /\ counted \in SUBSET DOMAIN observed
      /\ summed \in SUBSET DOMAIN observed
  BY DEF HistogramInv, Snapped, Counting, Observing, Over
<1>2. before \in SUBSET DOMAIN observed /\ DOMAIN observed \in SUBSET DOMAIN observed
  BY <1>1
<1>3. count \in Cardinality(before) .. Len(observed)
  <2>1. /\ Cardinality(before) \in Nat /\ Cardinality(counted) \in Nat /\ IsFiniteSet(counted)
        /\ Cardinality(counted) <= Len(observed)
    BY <1>1, <1>2, FewObserved
  <2>2. Cardinality(before) <= Cardinality(counted)
    BY <1>1, <2>1, FS_Subset
  <2>3. Len(observed) \in Nat
    BY <1>1 DEF Observing
  <2> QED BY <1>1, <2>1, <2>2, <2>3 DEF CountedSoFar
<1>4. sum \in Cardinality(Units(before)) .. Cardinality(Units(DOMAIN observed))
  <2>1. /\ Units(before) \subseteq Units(summed) /\ Units(summed) \subseteq Units(DOMAIN observed)
        /\ IsFiniteSet(Units(DOMAIN observed))
    BY <1>1 DEF Units, Counting
  <2>2. /\ IsFiniteSet(Units(summed)) /\ Cardinality(Units(summed)) <= Cardinality(Units(DOMAIN observed))
    BY <2>1, FS_Subset
  <2>3. /\ IsFiniteSet(Units(before)) /\ Cardinality(Units(before)) <= Cardinality(Units(summed))
    BY <2>1, <2>2, FS_Subset
  <2>4. /\ Cardinality(Units(before)) \in Nat /\ Cardinality(Units(summed)) \in Nat
        /\ Cardinality(Units(DOMAIN observed)) \in Nat
    BY <2>1, <2>2, <2>3, FS_CardinalityType
  <2> QED BY <1>1, <2>2, <2>3, <2>4 DEF CountedSoFar
<1>5. ASSUME NEW b \in 1 .. bucket_count
      PROVE  buckets[b] \in Cardinality(InBucket(before, b)) .. Cardinality(InBucket(DOMAIN observed, b))
  <2>1. /\ InBucket(before, b) \subseteq InBucket(bucketed, b)
        /\ InBucket(bucketed, b) \subseteq InBucket(DOMAIN observed, b)
        /\ InBucket(DOMAIN observed, b) \in SUBSET DOMAIN observed
    BY <1>1 DEF InBucket
  <2>2. IsFiniteSet(InBucket(DOMAIN observed, b))
    BY <1>1, <2>1, FewObserved
  <2>3. /\ IsFiniteSet(InBucket(bucketed, b))
        /\ Cardinality(InBucket(bucketed, b)) <= Cardinality(InBucket(DOMAIN observed, b))
    BY <2>1, <2>2, FS_Subset
  <2>4. /\ IsFiniteSet(InBucket(before, b))
        /\ Cardinality(InBucket(before, b)) <= Cardinality(InBucket(bucketed, b))
    BY <2>1, <2>3, FS_Subset
  <2>5. /\ Cardinality(InBucket(before, b)) \in Nat /\ Cardinality(InBucket(bucketed, b)) \in Nat
        /\ Cardinality(InBucket(DOMAIN observed, b)) \in Nat
    BY <2>2, <2>3, <2>4, FS_CardinalityType
  <2> QED BY <1>1, <2>3, <2>4, <2>5 DEF CountedSoFar
<1> QED BY <1>3, <1>4, <1>5

LEMMA CallKeeps == ASSUME HistogramInv, snap_call PROVE Snapped'
<1>1. Over' = Over /\ before' = Over
  BY SnapshotReads DEF snapshot, snap_call
<1>2. /\ taking' = TRUE /\ snap_count' = Unread /\ snap_sum' = Unread
      /\ loaded' = [b \in 1 .. bucket_count |-> Unread] /\ bucket_counts' = <<>>
  BY DEF snap_call
<1> QED BY <1>1, <1>2, Boundaries DEF Snapped, SnapshotBetween, Unread, bucket_count

\* One field more is loaded.
LEMMA LoadKeeps ==
  ASSUME HistogramInv,
         \/ snap_load_count \/ snap_load_sum
         \/ \E b \in 1 .. bucket_count : snap_load_bucket(b)
  PROVE  Snapped'
<1>1. /\ Observing /\ Counting /\ Snapped
      /\ UNCHANGED <<taking, bucket_counts, before>> /\ UNCHANGED observing
  BY DEF HistogramInv, snap_load_count, snap_load_sum, snap_load_bucket
<1>2. /\ Over' = Over /\ \A I : Units(I)' = Units(I)
      /\ \A I, b : InBucket(I, b)' = InBucket(I, b) /\ UpTo(I, b)' = UpTo(I, b)
  BY SnapshotReads DEF snapshot
<1>3. /\ Units(before)' = Units(before) /\ Units(DOMAIN observed)' = Units(DOMAIN observed)
      /\ \A b : /\ InBucket(before, b)' = InBucket(before, b)
                /\ InBucket(DOMAIN observed, b)' = InBucket(DOMAIN observed, b)
                /\ UpTo(before, b)' = UpTo(before, b)
                /\ UpTo(DOMAIN observed, b)' = UpTo(DOMAIN observed, b)
  BY <1>1 DEF observing, Units, InBucket, UpTo, bucket, bucket_count
<1>4. /\ snap_count' = snap_count \/ snap_count' = count
      /\ snap_sum' = snap_sum \/ snap_sum' = sum
      /\ loaded' = loaded \/ \E b \in 1 .. bucket_count : loaded' = [loaded EXCEPT ![b] = buckets[b]]
  BY DEF snap_load_count, snap_load_sum, snap_load_bucket
<1>5. /\ count \in Nat /\ sum \in Nat /\ buckets \in [1 .. bucket_count -> Nat]
      /\ snap_count \in Nat \cup {Unread} /\ snap_sum \in Nat \cup {Unread}
      /\ loaded \in [1 .. bucket_count -> Nat \cup {Unread}]
  BY <1>1 DEF Counting, Snapped
<1>6. /\ snap_count' \in Nat \cup {Unread} /\ snap_sum' \in Nat \cup {Unread}
      /\ loaded' \in [1 .. bucket_count -> Nat \cup {Unread}]
  BY <1>4, <1>5
<1>7. snap_count' # Unread => snap_count' \in Cardinality(before) .. Len(observed)
  BY <1>1, <1>4, FoundBetween DEF Snapped, SnapshotBetween
<1>8. snap_sum' # Unread =>
        snap_sum' \in Cardinality(Units(before)) .. Cardinality(Units(DOMAIN observed))
  BY <1>1, <1>4, FoundBetween DEF Snapped, SnapshotBetween
<1>9. ASSUME NEW b \in 1 .. bucket_count, loaded'[b] # Unread
      PROVE  loaded'[b] \in Cardinality(InBucket(before, b)) .. Cardinality(InBucket(DOMAIN observed, b))
  <2>1. CASE loaded'[b] = loaded[b]
    BY <1>1, <1>9, <2>1 DEF Snapped
  <2>2. CASE loaded'[b] # loaded[b]
    <3>1. loaded'[b] = buckets[b]
      BY <1>4, <1>5, <2>2
    <3> QED BY <3>1, FoundBetween
  <2> QED BY <2>1, <2>2
<1>10. SnapshotBetween'
  <2>1. observed' = observed /\ before' = before /\ bucket_counts' = bucket_counts
    BY <1>1 DEF observing
  <2>2. \A k \in 1 .. Len(bucket_counts) :
          bucket_counts[k] \in Cardinality(UpTo(before, k)) .. Cardinality(UpTo(DOMAIN observed, k))
    BY <1>1 DEF Snapped, SnapshotBetween
  <2> QED BY <1>3, <1>7, <1>8, <2>1, <2>2 DEF SnapshotBetween, Unread
<1>11. \A b \in 1 .. bucket_count : loaded'[b] # Unread =>
         loaded'[b] \in Cardinality(InBucket(before, b)') .. Cardinality(InBucket(DOMAIN observed, b)')
  BY <1>3, <1>9
<1> QED BY <1>1, <1>2, <1>6, <1>10, <1>11 DEF Snapped, Unread, bucket_count

LEMMA CumulateKeeps == ASSUME HistogramInv, snap_cumulate PROVE Snapped'
<1>1. PICK b : b = Len(bucket_counts) + 1
  OBVIOUS
<1>2. PICK prev : prev = IF b = 1 THEN 0 ELSE bucket_counts[b - 1]
  OBVIOUS
<1>3. /\ Observing /\ Snapped /\ b <= bucket_count /\ loaded[b] # Unread
      /\ bucket_counts' = Append(bucket_counts, loaded[b] + prev)
      /\ UNCHANGED <<taking, snap_count, snap_sum, loaded, before>> /\ UNCHANGED observing
  BY <1>1, <1>2, Zenon DEF HistogramInv, snap_cumulate
<1>4. bucket_counts \in Seq(Nat) /\ b \in 1 .. bucket_count
  BY <1>1, <1>3, Boundaries DEF Snapped
<1>5. /\ Over' = Over
      /\ Units(before)' = Units(before) /\ Units(DOMAIN observed)' = Units(DOMAIN observed)
      /\ \A k : /\ InBucket(before, k)' = InBucket(before, k)
                /\ InBucket(DOMAIN observed, k)' = InBucket(DOMAIN observed, k)
                /\ UpTo(before, k)' = UpTo(before, k)
                /\ UpTo(DOMAIN observed, k)' = UpTo(DOMAIN observed, k)
  BY <1>3 DEF observing, Over, Units, InBucket, UpTo, bucket, bucket_count
<1>6. before \in SUBSET DOMAIN observed /\ DOMAIN observed \in SUBSET DOMAIN observed
  BY <1>3 DEF Snapped, Observing, Over
<1>7. /\ loaded[b] \in Nat /\ prev \in Nat
      /\ loaded[b] \in Cardinality(InBucket(before, b)) .. Cardinality(InBucket(DOMAIN observed, b))
  BY <1>1, <1>2, <1>3, <1>4 DEF Snapped
<1>8. /\ bucket_counts' \in Seq(Nat) /\ Len(bucket_counts') = b
      /\ bucket_counts'[b] = loaded[b] + prev
      /\ \A k \in 1 .. b - 1 : bucket_counts'[k] = bucket_counts[k]
  BY <1>1, <1>3, <1>4, <1>7
<1>9. /\ Cardinality(UpTo(before, b)) \in Nat /\ Cardinality(InBucket(before, b)) \in Nat
      /\ Cardinality(UpTo(DOMAIN observed, b)) \in Nat
      /\ Cardinality(InBucket(DOMAIN observed, b)) \in Nat
      /\ b = 1 => /\ Cardinality(UpTo(before, b)) = Cardinality(InBucket(before, b))
                  /\ Cardinality(UpTo(DOMAIN observed, b)) = Cardinality(InBucket(DOMAIN observed, b))
      /\ b # 1 => /\ Cardinality(UpTo(before, b - 1)) \in Nat
                  /\ Cardinality(UpTo(before, b))
                       = Cardinality(UpTo(before, b - 1)) + Cardinality(InBucket(before, b))
                  /\ Cardinality(UpTo(DOMAIN observed, b - 1)) \in Nat
                  /\ Cardinality(UpTo(DOMAIN observed, b))
                       = Cardinality(UpTo(DOMAIN observed, b - 1))
                           + Cardinality(InBucket(DOMAIN observed, b))
  BY <1>3, <1>4, <1>6, UpToNext, Zenon
<1>10. b # 1 => prev \in Cardinality(UpTo(before, b - 1)) .. Cardinality(UpTo(DOMAIN observed, b - 1))
  <2>1. b # 1 => b - 1 \in 1 .. Len(bucket_counts)
    BY <1>1, <1>4
  <2> QED BY <1>2, <1>3, <2>1 DEF Snapped, SnapshotBetween
<1>11. loaded[b] + prev \in Cardinality(UpTo(before, b)) .. Cardinality(UpTo(DOMAIN observed, b))
  <2>1. CASE b = 1
    BY <1>2, <1>7, <1>9, <2>1
  <2>2. CASE b # 1
    BY <1>7, <1>9, <1>10, <2>2
  <2> QED BY <2>1, <2>2
<1>12. ASSUME NEW k \in 1 .. Len(bucket_counts')
       PROVE  bucket_counts'[k] \in Cardinality(UpTo(before, k)) .. Cardinality(UpTo(DOMAIN observed, k))
  <2>1. CASE k = b
    BY <1>8, <1>11, <2>1
  <2>2. CASE k # b
    <3>1. k \in 1 .. b - 1 /\ k \in 1 .. Len(bucket_counts)
      BY <1>1, <1>4, <1>8, <2>2
    <3> QED BY <1>3, <1>8, <3>1 DEF Snapped, SnapshotBetween
  <2> QED BY <2>1, <2>2
<1>13. SnapshotBetween'
  <2>1. observed' = observed /\ before' = before
    BY <1>3 DEF observing
  <2> QED BY <1>3, <1>5, <1>12, <2>1 DEF Snapped, SnapshotBetween, Unread
<1>14. \A k \in 1 .. bucket_count : loaded'[k] # Unread =>
         loaded'[k] \in Cardinality(InBucket(before, k)') .. Cardinality(InBucket(DOMAIN observed, k)')
  BY <1>3, <1>5 DEF Snapped
<1> QED BY <1>3, <1>4, <1>5, <1>8, <1>13, <1>14 DEF Snapped, Unread, bucket_count

LEMMA SnapshotKeeps ==
  ASSUME HistogramInv, snapshot
  PROVE  HistogramInv'
<1>1. Observing' /\ Counting'
  BY SnapshotReads
<1>2. ASSUME snap_return PROVE Snapped'
  <2>1. /\ Snapped /\ taking' = FALSE /\ UNCHANGED observing
        /\ UNCHANGED <<snap_count, snap_sum, loaded, bucket_counts, before>>
    BY <1>2 DEF HistogramInv, snap_return
  <2>2. /\ Over' = Over
        /\ Units(before)' = Units(before) /\ Units(DOMAIN observed)' = Units(DOMAIN observed)
        /\ \A k : /\ InBucket(before, k)' = InBucket(before, k)
                  /\ InBucket(DOMAIN observed, k)' = InBucket(DOMAIN observed, k)
                  /\ UpTo(before, k)' = UpTo(before, k)
                  /\ UpTo(DOMAIN observed, k)' = UpTo(DOMAIN observed, k)
    BY <2>1 DEF observing, Over, Units, InBucket, UpTo, bucket, bucket_count
  <2>3. SnapshotBetween'
    BY <2>1, <2>2 DEF observing, Snapped, SnapshotBetween, Unread
  <2> QED BY <2>1, <2>2, <2>3 DEF Snapped, Unread, bucket_count
<1>3. Snapped'
  BY <1>2, CallKeeps, LoadKeeps, CumulateKeeps DEF snapshot
<1> QED BY <1>1, <1>3 DEF HistogramInv

LEMMA HistogramStep == HistogramInv /\ [HistogramNext]_histogramVars => HistogramInv'
<1> SUFFICES ASSUME HistogramInv, [HistogramNext]_histogramVars PROVE HistogramInv'
  OBVIOUS
<1>1. CASE observe
  BY <1>1, BeginKeeps, BucketKeeps, CountKeeps, SumKeeps DEF observe
<1>2. CASE snapshot
  BY <1>2, SnapshotKeeps
<1>3. CASE UNCHANGED histogramVars
  <2>1. /\ UNCHANGED <<buckets, count, sum, observed, bucketed, counted, summed, old_sum>>
        /\ UNCHANGED snapping
    BY <1>3 DEF histogramVars, histogram, observing
  <2>2. Observing'
    BY <2>1 DEF HistogramInv, Observing, Unread
  <2>3. Snapped' /\ IsFiniteSet(Units(DOMAIN observed))'
    BY <2>1, <2>2, GoingOn
  <2>4. Units(summed)' = Units(summed) /\ \A b : InBucket(bucketed, b)' = InBucket(bucketed, b)
    BY <2>1 DEF Units, InBucket, bucket, bucket_count
  <2>5. Counting'
    BY <2>1, <2>3, <2>4 DEF HistogramInv, Counting, CountedSoFar, bucket_count
  <2> QED BY <2>2, <2>3, <2>5 DEF HistogramInv
<1> QED BY <1>1, <1>2, <1>3 DEF HistogramNext

\* The invariant gives what is promised of a histogram.
LEMMA HistogramHolds == HistogramInv => HistogramSound
<1> SUFFICES ASSUME HistogramInv PROVE HistogramSound
  OBVIOUS
<1>1. /\ Observing /\ Counting /\ Snapped /\ CountedSoFar /\ SnapshotBetween
      /\ MaxObserved \in Nat
  BY HistogramAssumption DEF HistogramInv, Counting, Snapped
<1>2. ASSUME NEW I \in SUBSET DOMAIN observed
      PROVE  Cardinality(I) \in 0 .. MaxObserved
  <2>1. Cardinality(I) \in Nat /\ Cardinality(I) <= Len(observed) /\ Len(observed) <= MaxObserved
        /\ Len(observed) \in Nat
    BY <1>1, FewObserved DEF Observing
  <2> QED BY <1>1, <2>1
<1>3. HistogramTypeOK
  <2>1. count \in 0 .. MaxObserved
    BY <1>1, <1>2 DEF Observing, CountedSoFar
  <2>2. ASSUME NEW b \in 1 .. bucket_count PROVE buckets[b] \in 0 .. MaxObserved
    <3>1. InBucket(bucketed, b) \in SUBSET DOMAIN observed
      BY <1>1 DEF Observing, InBucket
    <3> QED BY <1>1, <1>2, <3>1 DEF CountedSoFar
  <2>3. bucketed \cup counted \cup summed \subseteq DOMAIN observed
    BY <1>1 DEF Observing
  <2> QED BY <1>1, <2>1, <2>2, <2>3 DEF HistogramTypeOK, Observing, Snapped
<1>4. NothingLost
  <2> SUFFICES ASSUME Over = DOMAIN observed
               PROVE  /\ count = Len(observed)
                      /\ sum = Cardinality(Units(DOMAIN observed))
                      /\ \A b \in 1 .. bucket_count :
                           buckets[b] = Cardinality(InBucket(DOMAIN observed, b))
    BY DEF NothingLost
  <2>1. /\ bucketed = DOMAIN observed /\ counted = DOMAIN observed /\ summed = DOMAIN observed
    BY <1>1 DEF Observing, Over
  <2>2. Len(observed) \in Nat /\ DOMAIN observed = 1 .. Len(observed)
    BY <1>1 DEF Observing
  <2>3. Cardinality(1 .. Len(observed)) = IF 1 > Len(observed) THEN 0 ELSE Len(observed) - 1 + 1
    <3>1. 1 \in Int /\ Len(observed) \in Int
      BY <2>2
    <3> QED BY <3>1, FS_Interval, Zenon
  <2>4. Cardinality(DOMAIN observed) = Len(observed)
    BY <2>2, <2>3
  <2> QED BY <1>1, <2>1, <2>4 DEF CountedSoFar
<1>5. PercentilesBetween
  <2> SUFFICES ASSUME Len(bucket_counts) = bucket_count,
                      NEW target \in 1 .. MaxObserved, NEW k \in 1 .. bucket_count
               PROVE  /\ target <= Cardinality(UpTo(before, k)) => percentile_bucket(target) \in 1 .. k
                      /\ percentile_bucket(target) = k => target <= Cardinality(UpTo(DOMAIN observed, k))
    BY DEF PercentilesBetween
  <2> DEFINE reaching == {b \in DOMAIN bucket_counts : bucket_counts[b] >= target}
  <2>1. /\ bucket_counts \in Seq(Nat) /\ DOMAIN bucket_counts = 1 .. bucket_count
        /\ bucket_count \in Nat /\ reaching \in SUBSET (1 .. bucket_count)
        /\ k \in 1 .. Len(bucket_counts) /\ bucket_counts[k] \in Nat
    BY <1>1, Boundaries DEF Snapped
  <2>2. bucket_counts[k] \in Cardinality(UpTo(before, k)) .. Cardinality(UpTo(DOMAIN observed, k))
    BY <1>1, <2>1 DEF SnapshotBetween
  <2>3. percentile_bucket(target) = IF reaching = {} THEN 0 ELSE Min(reaching)
    BY DEF percentile_bucket
  <2>4. ASSUME reaching # {}
        PROVE  Min(reaching) \in reaching /\ \A y \in reaching : Min(reaching) <= y
    <3>1. reaching \in SUBSET Nat
      BY <2>1
    <3> HIDE DEF reaching
    <3> QED BY <2>4, <3>1, LeastNat
  <2>5. Cardinality(UpTo(before, k)) \in Nat /\ Cardinality(UpTo(DOMAIN observed, k)) \in Nat
    <3>1. before \in SUBSET DOMAIN observed /\ DOMAIN observed \in SUBSET DOMAIN observed
      BY <1>1 DEF Snapped, Observing, Over
    <3> QED BY <1>1, <3>1, UpToNext
  <2>6. k \in reaching <=> target <= bucket_counts[k]
    BY <2>1
  <2> HIDE DEF reaching
  <2>7. ASSUME target <= Cardinality(UpTo(before, k)) PROVE percentile_bucket(target) \in 1 .. k
    <3>1. k \in reaching
      BY <2>1, <2>2, <2>5, <2>6, <2>7
    <3>2. Min(reaching) \in 1 .. bucket_count /\ Min(reaching) <= k
      BY <2>1, <2>4, <3>1
    <3> QED BY <2>1, <2>3, <3>1, <3>2
  <2>8. ASSUME percentile_bucket(target) = k PROVE target <= Cardinality(UpTo(DOMAIN observed, k))
    <3>1. k \in reaching
      BY <2>3, <2>4, <2>8
    <3> QED BY <2>1, <2>2, <2>5, <2>6, <3>1
  <2> QED BY <2>7, <2>8
<1> QED BY <1>1, <1>3, <1>4, <1>5 DEF HistogramSound

\* Whatever values any threads observe at once, and wherever the loads of a
\* snapshot fall among them: nothing is lost, and every field and percentile of
\* the snapshot lies between those of the observations over before it and those
\* of all begun (observe and snapshot, metric_types.hpp:179 and :257).
THEOREM HistogramIsSound == HistogramSpec => []HistogramSound
<1> QED BY HistogramStarts, HistogramStep, HistogramHolds, PTL DEF HistogramSpec

-----------------------------------------------------------------------------
(* The ring of samples. *)

\* A position is some turns and its slot.
LEMMA TurnAndSlot ==
  ASSUME NEW x \in Nat
  PROVE  x \div N \in Int /\ x % N \in 0 .. N - 1 /\ x = N * (x \div N) + (x % N)
<1>1. N \in Nat /\ N > 0
  BY MetricsAssumption
<1> QED BY <1>1

\* Positions less than a turn apart have different slots.
LEMMA SlotsApart ==
  ASSUME NEW x \in Nat, NEW y \in Nat, x < y, y < x + N
  PROVE  x % N # y % N
<1>1. N \in Nat /\ N > 0
  BY MetricsAssumption
<1> DEFINE d == x \div N
           e == y \div N
           m == x % N
<1>2. d \in Int /\ m \in 0 .. N - 1 /\ x = N * d + m
  BY TurnAndSlot
<1>3. e \in Int /\ y % N \in 0 .. N - 1 /\ y = N * e + (y % N)
  BY TurnAndSlot
<1> SUFFICES ASSUME y % N = m PROVE FALSE
  BY DEF m
<1> HIDE DEF d, e, m
<1>4. x = d * N + m /\ y = e * N + m /\ d * N \in Int /\ e * N \in Int
  BY <1>1, <1>2, <1>3
<1>5. CASE e <= d
  <2>1. e * N <= d * N
    BY <1>1, <1>2, <1>3, <1>5
  <2> QED BY <1>2, <1>4, <2>1
<1>6. CASE d + 1 <= e
  <2>1. (d + 1) * N <= e * N
    BY <1>1, <1>2, <1>3, <1>6
  <2>2. d * N + N <= e * N
    BY <1>1, <1>2, <2>1
  <2> QED BY <1>1, <1>2, <1>4, <2>2
<1> QED BY <1>2, <1>3, <1>5, <1>6

LEMMA SlotIs == \A x \in Nat : x % N \in 0 .. N - 1
  BY MetricsAssumption

\* A nonempty finite set of natural numbers has a greatest one.
LEMMA GreatestNat ==
  ASSUME NEW T \in SUBSET Nat, T # {}, IsFiniteSet(T)
  PROVE  Max(T) \in T /\ \A y \in T : y <= Max(T)
<1> DEFINE above(x) == {y \in T : y > x}
           counts == {Cardinality(above(x)) : x \in T}
<1>1. \A x \in T : IsFiniteSet(above(x)) /\ Cardinality(above(x)) \in Nat
  <2> SUFFICES ASSUME NEW x \in T PROVE IsFiniteSet(above(x)) /\ Cardinality(above(x)) \in Nat
    OBVIOUS
  <2>1. above(x) \in SUBSET T
    OBVIOUS
  <2> HIDE DEF above
  <2> QED BY <2>1, FS_Subset, FS_CardinalityType
<1>2. counts \in SUBSET Nat /\ counts # {}
  BY <1>1
<1>3. Min(counts) \in counts /\ \A c \in counts : Min(counts) <= c
  <2> HIDE DEF counts
  <2> QED BY <1>2, LeastNat
<1>4. PICK x \in T : Cardinality(above(x)) = Min(counts)
  BY <1>3
<1>5. ASSUME NEW y \in T, ~(y <= x) PROVE FALSE
  <2>1. above(y) \in SUBSET above(x) /\ y \in above(x) /\ y \notin above(y)
    <3>1. x \in Int /\ y \in Int /\ \A z \in T : z \in Int
      OBVIOUS
    <3>2. y > x /\ ~(y > y) /\ \A z \in T : z > y => z > x
      BY <1>5, <3>1
    <3> QED BY <3>2, Zenon
  <2>2. Cardinality(above(x)) <= Cardinality(above(y))
    BY <1>3, <1>4
  <2>3. IsFiniteSet(above(x)) /\ Cardinality(above(x)) \in Nat /\ Cardinality(above(y)) \in Nat
    BY <1>1
  <2> HIDE DEF above
  <2>4. Cardinality(above(y)) <= Cardinality(above(x)) /\ Cardinality(above(y)) # Cardinality(above(x))
    BY <2>1, <2>3, FS_Subset
  <2> QED BY <2>2, <2>3, <2>4
<1>6. \A y \in T : x >= y
  BY <1>5
<1>7. Max(T) \in T /\ \A y \in T : Max(T) >= y
  BY <1>6 DEF Max
<1> QED BY <1>7

\* The greatest of the rates, or 0, is one of them, and no other bounds them.
LEMMA Greatest ==
  ASSUME NEW T \in SUBSET Nat, IsFiniteSet(T)
  PROVE  /\ greatest(T) \in {0} \cup T /\ greatest(T) \in Nat
         /\ \A y \in T : y <= greatest(T)
         /\ \A m \in {0} \cup T : (\A y \in T : y <= m) => m = greatest(T)
<1>1. {0} \cup T \in SUBSET Nat /\ {0} \cup T # {} /\ IsFiniteSet({0} \cup T)
  BY FS_AddElement
<1>2. Max({0} \cup T) \in {0} \cup T /\ \A y \in {0} \cup T : y <= Max({0} \cup T)
  BY <1>1, GreatestNat
<1>3. greatest(T) \in {0} \cup T /\ \A y \in {0} \cup T : y <= greatest(T)
  BY <1>2 DEF greatest
<1>4. greatest(T) \in Nat
  BY <1>1, <1>3
<1>5. ASSUME NEW m \in {0} \cup T, \A y \in T : y <= m PROVE m = greatest(T)
  <2>1. m \in Nat
    BY <1>1
  <2>2. greatest(T) <= m
    <3>1. greatest(T) = 0 => greatest(T) <= m
      BY <2>1
    <3>2. greatest(T) \in T => greatest(T) <= m
      BY <1>5
    <3> QED BY <1>3, <3>1, <3>2
  <2>3. m <= greatest(T)
    BY <1>3
  <2> QED BY <1>4, <2>1, <2>2, <2>3
<1> QED BY <1>3, <1>4, <1>5

\* Ascending lists the numbers of a set, in their order.
LEMMA AscendingLists ==
  ASSUME NEW n \in Nat, NEW I \in SUBSET (1 .. n)
  PROVE  /\ Ascending(I) \in Seq(I) /\ DOMAIN Ascending(I) = 1 .. Len(Ascending(I))
         /\ \A i \in I : \E k \in DOMAIN Ascending(I) : Ascending(I)[k] = i
         /\ \A j, k \in DOMAIN Ascending(I) : j < k => Ascending(I)[j] < Ascending(I)[k]
<1> DEFINE upto(i) == {j \in I : j <= i}
           rank == [i \in I |-> Cardinality(upto(i))]
           c == Cardinality(I)
<1>1. IsFiniteSet(I) /\ c \in Nat
  <2>1. IsFiniteSet(1 .. n)
    BY FS_Interval, 1 \in Int, n \in Int
  <2> QED BY <2>1, FS_Subset, FS_CardinalityType
<1>2. \A i \in I : IsFiniteSet(upto(i)) /\ Cardinality(upto(i)) \in 1 .. c
  <2> SUFFICES ASSUME NEW i \in I PROVE IsFiniteSet(upto(i)) /\ Cardinality(upto(i)) \in 1 .. c
    OBVIOUS
  <2>1. upto(i) \in SUBSET I /\ upto(i) # {}
    OBVIOUS
  <2> HIDE DEF upto
  <2>2. IsFiniteSet(upto(i)) /\ Cardinality(upto(i)) <= c
    BY <1>1, <2>1, FS_Subset
  <2>3. Cardinality(upto(i)) \in Nat /\ Cardinality(upto(i)) # 0
    BY <2>1, <2>2, FS_EmptySet, FS_CardinalityType
  <2> QED BY <1>1, <2>2, <2>3
<1>3. ASSUME NEW i \in I, NEW j \in I, i < j PROVE rank[i] < rank[j]
  <2>1. upto(i) \in SUBSET upto(j) /\ j \in upto(j) /\ j \notin upto(i)
    <3>1. i \in Int /\ j \in Int /\ \A m \in I : m \in Int
      OBVIOUS
    <3>2. \A m \in I : m <= i => m <= j
      BY <1>3, <3>1
    <3>3. j <= j /\ ~(j <= i)
      BY <1>3, <3>1
    <3> QED BY <3>2, <3>3, Zenon
  <2>2. /\ IsFiniteSet(upto(j)) /\ Cardinality(upto(i)) \in Nat /\ Cardinality(upto(j)) \in Nat
    BY <1>1, <1>2
  <2> HIDE DEF upto
  <2>3. Cardinality(upto(i)) <= Cardinality(upto(j)) /\ Cardinality(upto(i)) # Cardinality(upto(j))
    BY <2>1, <2>2, FS_Subset
  <2> QED BY <2>2, <2>3
<1>4. rank \in [I -> 1 .. c]
  BY <1>2
<1>5. \A i \in I, j \in I : rank[i] = rank[j] => i = j
  <2> SUFFICES ASSUME NEW i \in I, NEW j \in I, rank[i] = rank[j] PROVE i = j
    OBVIOUS
  <2>1. rank[i] \in Int /\ rank[j] \in Int /\ ~(rank[i] < rank[j]) /\ ~(rank[j] < rank[i])
    BY <1>1, <1>4
  <2> HIDE DEF rank
  <2>2. ~(i < j) /\ ~(j < i)
    BY <1>3, <2>1
  <2> QED BY <2>2
<1>6. \A k \in 1 .. c : \E i \in I : rank[i] = k
  <2>1. IsFiniteSet(1 .. c) /\ Cardinality(1 .. c) = IF 1 > c THEN 0 ELSE c - 1 + 1
    BY <1>1, FS_Interval, 1 \in Int, c \in Int
  <2> HIDE DEF rank
  <2>2. Cardinality(1 .. c) = Cardinality(I)
    BY <1>1, <2>1
  <2>3. rank \in Injection(I, 1 .. c)
    BY <1>4, <1>5 DEF Injection, IsInjective
  <2>4. rank \in Surjection(I, 1 .. c)
    BY <2>1, <2>2, <2>3, FS_Injection
  <2> QED BY <2>4 DEF Surjection
<1> DEFINE at(k) == CHOOSE i \in I : Cardinality(upto(i)) = k
<1>7. \A k \in 1 .. c : at(k) \in I /\ rank[at(k)] = k
  <2> SUFFICES ASSUME NEW k \in 1 .. c PROVE at(k) \in I /\ Cardinality(upto(at(k))) = k
    OBVIOUS
  <2>1. \E i \in I : Cardinality(upto(i)) = k
    BY <1>6
  <2> QED BY <2>1
<1> DEFINE a == Ascending(I)
<1>8. a = [k \in 1 .. c |-> at(k)]
  BY DEF Ascending
<1> HIDE DEF at, rank, c, a
<1>9. a \in Seq(I) /\ Len(a) = c /\ DOMAIN a = 1 .. c
  <2>1. a \in [1 .. c -> I] /\ c \in Nat
    BY <1>1, <1>7, <1>8 DEF c
  <2> QED BY <2>1
<1>10. ASSUME NEW i \in I PROVE \E k \in DOMAIN a : a[k] = i
  <2>1. rank[i] \in 1 .. c /\ at(rank[i]) = i
    BY <1>4, <1>5, <1>7
  <2> QED BY <1>8, <1>9, <2>1
<1>11. ASSUME NEW j \in DOMAIN a, NEW k \in DOMAIN a, j < k PROVE a[j] < a[k]
  <2>1. a[j] \in I /\ a[k] \in I /\ rank[a[j]] = j /\ rank[a[k]] = k
    BY <1>7, <1>8, <1>9
  <2>2. a[j] \in Nat /\ a[k] \in Nat /\ ~(a[k] < a[j]) /\ a[k] # a[j]
    <3>1. j \in Int /\ k \in Int
      BY <1>9
    <3>2. ~(k < j) /\ j # k
      BY <1>11, <3>1
    <3>3. a[j] \in Nat /\ a[k] \in Nat
      <4>1. \A i \in I : i \in Nat
        OBVIOUS
      <4> QED BY <2>1, <4>1, Zenon
    <3>4. a[k] # a[j]
      BY <2>1, <3>2
    <3>5. ~(a[k] < a[j])
      <4>1. a[k] < a[j] => rank[a[k]] < rank[a[j]]
        BY <1>3, <2>1
      <4> QED BY <2>1, <3>2, <4>1
    <3> QED BY <3>3, <3>4, <3>5
  <2> QED BY <2>2
<1> QED BY <1>9, <1>10, <1>11 DEF a

-----------------------------------------------------------------------------
Sample == [n: Int, timestamp_us: Nat, delivery_rate: Nat]

\* The samples that are in the ring: the latest, without the one whose slot is
\* being written.
InRing(n) ==
  /\ n \in Nat /\ n < ring_pos
  /\ n > ring_pos - N \/ (n = ring_pos - N /\ push_pc = "idle")

Pushing ==
  /\ ring_pos \in 0 .. MaxPushed /\ push_pc \in {"idle", "writing", "publish"}
  /\ ring \in [0 .. N - 1 -> Sample] /\ sample \in Sample
  /\ clock \in Nat /\ clock > 0 /\ last_timestamp <= clock
  /\ push_pc # "idle" =>
       ring_pos < MaxPushed /\ sample.n = ring_pos /\ sample.timestamp_us = clock
  /\ push_pc = "publish" => ring[ring_pos % N] = sample

\* They are in their slots, later ones with no lesser timestamps, and those not
\* exported yet with none before the last exported.
InSlot(n) ==
  /\ ring[n % N].n = n
  /\ 0 < ring[n % N].timestamp_us /\ ring[n % N].timestamp_us <= clock
  /\ n >= last_total => last_timestamp <= ring[n % N].timestamp_us

InOrder ==
  \A m, n \in Nat : InRing(m) /\ InRing(n) /\ m <= n =>
    ring[m % N].timestamp_us <= ring[n % N].timestamp_us

Intact == (\A n \in Nat : InRing(n) => InSlot(n)) /\ InOrder

\* What was exported, and that the sample with the last timestamp was.
Exporting ==
  /\ last_total \in Nat /\ last_total <= ring_pos /\ last_timestamp \in Nat
  /\ exported \in Seq(Sample)
  /\ \A k \in DOMAIN exported : exported[k].n < last_total
  /\ last_timestamp = 0 \/ \E k \in DOMAIN exported : exported[k].timestamp_us = last_timestamp
  /\ \A n \in Nat : last_total <= n /\ n < ring_pos - N => n \in missed
  /\ ExportsAll

Reading ==
  /\ reader_pc \in {"count", "recent", "copy"}
  /\ last_read_count \in Nat /\ current_count \in Nat /\ index \in Nat /\ end \in Nat
  /\ last_read_count <= ring_pos /\ current_count <= ring_pos
  /\ index <= end /\ end <= ring_pos
  /\ reader_pc # "count" => last_read_count <= current_count
  /\ samples \in Seq(Sample)
  /\ sample_history \in Seq(Sample) /\ Len(sample_history) <= MAX_HISTORY
  /\ BandwidthOfHistory

MetricsInv == Pushing /\ Intact /\ Exporting /\ Reading

\* None is a sample that no position is of.
LEMMA NoneSample == None \in Sample /\ None.n = -1
BY DEF None, Sample

LEMMA MetricsNumbers == N \in Nat /\ N > 0 /\ READ_MAX \in Nat /\ MAX_HISTORY \in Nat /\ MaxPushed \in Nat
BY MetricsAssumption

\* The rates of a sequence of samples are finitely many.
LEMMA RatesFinite ==
  ASSUME NEW s \in Seq(Sample)
  PROVE  rates(s) \in SUBSET Nat /\ IsFiniteSet(rates(s))
<1>1. Len(s) \in Nat /\ DOMAIN s = 1 .. Len(s) /\ \A k \in DOMAIN s : s[k] \in Sample
  BY LenProperties, ElementOfSeq
<1>2. IsFiniteSet(1 .. Len(s))
  BY <1>1, FS_Interval, 1 \in Int, Len(s) \in Int
<1>3. rates(s) \in SUBSET Nat
  BY <1>1 DEF rates, Sample
<1>4. IsFiniteSet({s[k].delivery_rate : k \in DOMAIN s})
  <2> DEFINE f == [k \in 1 .. Len(s) |-> s[k].delivery_rate]
  <2>1. f \in Surjection(1 .. Len(s), {s[k].delivery_rate : k \in DOMAIN s})
    BY <1>1 DEF Surjection
  <2> HIDE DEF f
  <2> QED BY <1>2, <2>1, FS_Surjection
<1> QED BY <1>3, <1>4 DEF rates

LEMMA MetricsStarts == MetricsInit => MetricsInv
<1> SUFFICES ASSUME MetricsInit PROVE MetricsInv
  OBVIOUS
<1>1. Pushing
  BY NoneSample, MetricsNumbers DEF MetricsInit, Pushing
<1>2. Intact
  BY DEF MetricsInit, Intact, InOrder, InRing
<1>3. Exporting
  <2>1. exported = <<>> /\ last_total = 0 /\ last_timestamp = 0 /\ ring_pos = 0
    BY DEF MetricsInit
  <2>2. ExportsAll
    BY <2>1 DEF ExportsAll
  <2> QED BY <2>1, <2>2, MetricsNumbers DEF Exporting
<1>4. Reading
  <2>1. BandwidthOfHistory
    <3>1. est_bw = 0 /\ sample_history = <<>> /\ rates(<<>>) = {}
      BY DEF MetricsInit, rates
    <3>2. greatest({}) \in {0}
      BY FS_EmptySet, Greatest
    <3> QED BY <3>1, <3>2 DEF BandwidthOfHistory
  <2> QED BY <2>1, MetricsNumbers DEF MetricsInit, Reading
<1> QED BY <1>1, <1>2, <1>3, <1>4 DEF MetricsInv

\* Writing the slot that comes next disturbs no sample of the ring.
LEMMA SlotWritten ==
  ASSUME MetricsInv, NEW v \in Sample, \A n \in 0 .. last_total - 1 : v.n # n,
         ring' = [ring EXCEPT ![ring_pos % N] = v],
         push_pc' # "idle", clock' \in Nat, clock <= clock',
         UNCHANGED <<ring_pos, exporter, missed>>
  PROVE  Intact' /\ Exporting' /\ ring' \in [0 .. N - 1 -> Sample] /\ ring'[ring_pos % N] = v
<1>1. /\ ring_pos \in Nat /\ ring_pos % N \in 0 .. N - 1 /\ ring \in [0 .. N - 1 -> Sample]
      /\ clock \in Nat
  BY SlotIs, MetricsNumbers DEF MetricsInv, Pushing
<1>2. ring' \in [0 .. N - 1 -> Sample] /\ ring'[ring_pos % N] = v
  BY <1>1
<1>3. \A n \in Nat : n % N \in 0 .. N - 1
  BY SlotIs
<1>4. ASSUME NEW n \in Nat, InRing(n)'
      PROVE  InRing(n) /\ ring'[n % N] = ring[n % N]
  <2>1. n < ring_pos /\ n > ring_pos - N
    BY <1>4 DEF InRing
  <2>2. ring_pos < n + N
    BY <1>1, <2>1, MetricsNumbers
  <2>3. n % N # ring_pos % N
    BY <1>1, <2>1, <2>2, SlotsApart
  <2> QED BY <1>1, <1>3, <2>1, <2>3 DEF InRing
<1>5. Intact'
  <2>1. ASSUME NEW n \in Nat, InRing(n)' PROVE InSlot(n)'
    <3>1. InSlot(n) /\ ring'[n % N] = ring[n % N] /\ ring[n % N] \in Sample
      BY <1>1, <1>3, <1>4, <2>1 DEF MetricsInv, Intact
    <3>2. ring[n % N].timestamp_us \in Nat /\ ring[n % N].timestamp_us <= clock
      BY <3>1 DEF InSlot, Sample
    <3>3. ring[n % N].timestamp_us <= clock'
      BY <1>1, <3>2
    <3> QED BY <3>1, <3>3 DEF InSlot, exporter
  <2>2. InOrder'
    BY <1>4 DEF MetricsInv, Intact, InOrder
  <2> QED BY <2>1, <2>2 DEF Intact
<1>6. ExportsAll'
  <2>1. ExportsAll /\ last_total \in Nat
    BY DEF MetricsInv, Exporting
  <2>2. \A n \in 0 .. last_total - 1 : ring'[n % N] = ring[n % N] \/ ring'[n % N].n # n
    <3> SUFFICES ASSUME NEW n \in 0 .. last_total - 1, n % N # ring_pos % N
                 PROVE  ring'[n % N] = ring[n % N]
      BY <1>2
    <3>1. n \in Nat
      BY <2>1
    <3> QED BY <1>1, <1>3, <3>1
  <2>3. exported' = exported /\ last_total' = last_total /\ missed' = missed
    BY DEF exporter
  <2> HIDE DEF exporter
  <2> QED BY <2>1, <2>2, <2>3 DEF ExportsAll
<1>7. Exporting'
  BY <1>6 DEF MetricsInv, Exporting, exporter
<1> QED BY <1>2, <1>5, <1>7

\* What the producer does leaves the other thread where it is.
LEMMA ReaderStays ==
  ASSUME Reading, ring_pos \in Nat, ring_pos' \in Nat, ring_pos <= ring_pos', UNCHANGED reader
  PROVE  Reading'
<1>1. /\ UNCHANGED <<reader_pc, last_read_count, current_count, index, end, samples>>
      /\ UNCHANGED <<sample_history, est_bw>>
  BY DEF reader
<1>2. BandwidthOfHistory'
  BY <1>1 DEF Reading, BandwidthOfHistory, rates
<1> QED BY <1>1, <1>2 DEF Reading

LEMMA PushKeeps == ASSUME MetricsInv, push PROVE MetricsInv'
<1>1. PICK drawn \in Drawn :
        /\ clock' = clock + drawn.later
        /\ sample' = [n |-> ring_pos, timestamp_us |-> clock', delivery_rate |-> drawn.rate]
  BY DEF push
<1>2. drawn.later \in Nat /\ drawn.rate \in Nat /\ clock \in Nat /\ clock > 0 /\ ring_pos \in Nat
  BY MetricsAssumption DEF MetricsInv, Pushing
<1>3. clock' \in Nat /\ clock <= clock' /\ clock' > 0
  BY <1>1, <1>2
<1>4. sample' \in Sample /\ sample'.n = ring_pos /\ sample'.timestamp_us = clock'
  BY <1>1, <1>2, <1>3 DEF Sample
<1>5. /\ ring' = [ring EXCEPT ![ring_pos % N] = None] /\ push_pc' = "writing"
      /\ UNCHANGED <<ring_pos, exporter, missed, reader>>
  BY DEF push
<1>6. \A n \in 0 .. last_total - 1 : None.n # n
  BY NoneSample DEF MetricsInv, Exporting
<1>7. Intact' /\ Exporting' /\ ring' \in [0 .. N - 1 -> Sample]
  BY <1>3, <1>5, <1>6, NoneSample, SlotWritten
<1>8. Pushing'
  <2>1. last_timestamp' = last_timestamp /\ last_timestamp <= clock /\ last_timestamp \in Nat
    BY <1>5 DEF exporter, MetricsInv, Pushing, Exporting
  <2>2. last_timestamp' <= clock'
    BY <1>2, <1>3, <2>1
  <2>3. ring_pos' \in 0 .. MaxPushed /\ ring_pos' < MaxPushed
    BY <1>5 DEF MetricsInv, Pushing, push
  <2> QED BY <1>3, <1>4, <1>5, <1>7, <2>2, <2>3 DEF Pushing
<1> QED BY <1>2, <1>5, <1>7, <1>8, ReaderStays DEF MetricsInv

LEMMA WrittenKeeps == ASSUME MetricsInv, push_written PROVE MetricsInv'
<1>1. /\ ring' = [ring EXCEPT ![ring_pos % N] = sample] /\ push_pc' = "publish"
      /\ UNCHANGED <<ring_pos, sample, clock, exporter, missed, reader>>
  BY DEF push_written
<1>2. /\ sample \in Sample /\ sample.n = ring_pos /\ sample.timestamp_us = clock
      /\ ring_pos \in Nat /\ clock \in Nat /\ clock <= clock
  BY DEF push_written, MetricsInv, Pushing
<1>3. \A n \in 0 .. last_total - 1 : sample.n # n
  BY <1>2 DEF MetricsInv, Exporting
<1>4. /\ Intact' /\ Exporting' /\ ring' \in [0 .. N - 1 -> Sample] /\ ring'[ring_pos % N] = sample
  BY <1>1, <1>2, <1>3, SlotWritten
<1>5. Pushing'
  <2>1. last_timestamp' = last_timestamp
    BY <1>1 DEF exporter
  <2>2. /\ ring_pos \in 0 .. MaxPushed /\ ring_pos < MaxPushed /\ clock > 0
        /\ last_timestamp <= clock
    BY DEF MetricsInv, Pushing, push_written
  <2>3. (ring[ring_pos % N])' = sample'
    BY <1>1, <1>4
  <2> QED BY <1>1, <1>2, <1>4, <2>1, <2>2, <2>3 DEF Pushing
<1> QED BY <1>1, <1>2, <1>4, <1>5, ReaderStays DEF MetricsInv

LEMMA PublishKeeps == ASSUME MetricsInv, push_publish PROVE MetricsInv'
<1>1. /\ push_pc = "publish" /\ ring_pos' = ring_pos + 1 /\ push_pc' = "idle"
      /\ missed' = IF ring_pos - N >= last_total THEN missed \cup {ring_pos - N} ELSE missed
      /\ UNCHANGED <<ring, sample, clock, exporter, reader>>
  BY DEF push_publish
<1>2. /\ ring_pos \in Nat /\ clock \in Nat /\ clock > 0 /\ last_timestamp <= clock
      /\ ring[ring_pos % N] = sample /\ sample.n = ring_pos /\ sample.timestamp_us = clock
      /\ ring \in [0 .. N - 1 -> Sample]
      /\ last_total \in Nat /\ last_total <= ring_pos /\ last_timestamp \in Nat
  BY <1>1 DEF MetricsInv, Pushing, Exporting
<1>3. last_total' = last_total /\ last_timestamp' = last_timestamp /\ exported' = exported
  BY <1>1 DEF exporter
<1>4. ring_pos + 1 \in 0 .. MaxPushed
  BY <1>1, <1>2, MetricsNumbers DEF MetricsInv, Pushing
<1>5. Pushing'
  BY <1>1, <1>2, <1>3, <1>4 DEF MetricsInv, Pushing
<1>6. ASSUME NEW n \in Nat, InRing(n)' PROVE n = ring_pos \/ InRing(n)
  <2>1. n < ring_pos + 1 /\ (n > ring_pos + 1 - N \/ n = ring_pos + 1 - N)
    <3>1. n < ring_pos' /\ (n > ring_pos' - N \/ n = ring_pos' - N)
      BY <1>6 DEF InRing
    <3>2. ring_pos' = ring_pos + 1
      BY <1>1
    <3> QED BY <1>2, <3>1, <3>2, MetricsNumbers
  <2>2. n = ring_pos \/ (n < ring_pos /\ n > ring_pos - N)
    BY <1>2, <2>1, MetricsNumbers
  <2> QED BY <2>2 DEF InRing
<1>7. \A n \in Nat : InRing(n) => InSlot(n) /\ ring[n % N].timestamp_us <= clock
  BY DEF MetricsInv, Intact, InSlot
<1>8. Intact'
  <2>1. ASSUME NEW n \in Nat, InRing(n)' PROVE InSlot(n)'
    <3>1. CASE n = ring_pos
      BY <1>1, <1>2, <1>3, <3>1 DEF InSlot
    <3>2. CASE InRing(n)
      BY <1>1, <1>3, <1>7, <3>2 DEF InSlot
    <3> QED BY <1>6, <2>1, <3>1, <3>2
  <2>2. ASSUME NEW m \in Nat, NEW n \in Nat, InRing(m)', InRing(n)', m <= n
        PROVE  ring[m % N].timestamp_us <= ring[n % N].timestamp_us
    <3>1. CASE InRing(m) /\ InRing(n)
      BY <2>2, <3>1 DEF MetricsInv, Intact, InOrder
    <3>2. CASE n = ring_pos
      <4>1. ring[n % N].timestamp_us = clock
        BY <1>2, <3>2
      <4>2. m = ring_pos \/ InRing(m)
        BY <1>6, <2>2
      <4> QED BY <1>2, <1>7, <3>2, <4>1, <4>2
    <3>3. CASE m = ring_pos /\ InRing(n)
      BY <1>2, <2>2, <3>3 DEF InRing
    <3> QED BY <1>6, <2>2, <3>1, <3>2, <3>3
  <2>3. InOrder'
    BY <1>1, <2>2 DEF InOrder
  <2> QED BY <2>1, <2>3 DEF Intact
<1>9. missed \subseteq missed'
  BY <1>1
<1>10. ASSUME NEW n \in Nat, last_total <= n, n < ring_pos + 1 - N PROVE n \in missed'
  <2>1. n < ring_pos - N \/ n = ring_pos - N
    BY <1>2, <1>10, MetricsNumbers
  <2>2. CASE n < ring_pos - N
    BY <1>9, <1>10, <2>2 DEF MetricsInv, Exporting
  <2>3. CASE n = ring_pos - N
    BY <1>1, <1>2, <1>10, <2>3
  <2> QED BY <2>1, <2>2, <2>3
<1>11. ExportsAll'
  BY <1>1, <1>3, <1>9 DEF MetricsInv, Exporting, ExportsAll
<1>12. Exporting'
  <2>1. ring_pos' = ring_pos + 1 /\ last_total' <= ring_pos'
    BY <1>1, <1>2, <1>3
  <2>2. /\ exported \in Seq(Sample)
        /\ \A k \in DOMAIN exported : exported[k].n < last_total
        /\ last_timestamp = 0 \/ \E k \in DOMAIN exported : exported[k].timestamp_us = last_timestamp
    BY DEF MetricsInv, Exporting
  <2>3. \A n \in Nat : last_total' <= n /\ n < ring_pos' - N => n \in missed'
    <3> SUFFICES ASSUME NEW n \in Nat, last_total' <= n, n < ring_pos' - N PROVE n \in missed'
      OBVIOUS
    <3>1. last_total <= n /\ n < ring_pos + 1 - N
      BY <1>2, <1>3, <2>1, MetricsNumbers
    <3> QED BY <1>10, <3>1
  <2>4. /\ exported' \in Seq(Sample)
        /\ \A k \in DOMAIN exported' : exported'[k].n < last_total'
        /\ last_timestamp' = 0
             \/ \E k \in DOMAIN exported' : exported'[k].timestamp_us = last_timestamp'
    BY <1>3, <2>2
  <2>5. last_total' \in Nat /\ last_timestamp' \in Nat
    BY <1>2, <1>3
  <2> QED BY <1>11, <2>1, <2>3, <2>4, <2>5 DEF Exporting
<1> QED BY <1>1, <1>2, <1>5, <1>8, <1>12, ReaderStays DEF MetricsInv

\* The other thread.  A slot it copies holds a sample, or none.
LEMMA RunLoopKeeps == ASSUME MetricsInv, start_plane \/ stop_plane \/ run_loop PROVE MetricsInv'
<1>1. UNCHANGED <<producer, exporter, missed>>
  BY DEF start_plane, stop_plane, run_loop, total_pushed, recent_range, copy, append_history
<1>2. /\ UNCHANGED <<ring_pos, ring, push_pc, sample, clock, last_total, last_timestamp, exported>>
      /\ missed' = missed
  BY <1>1 DEF producer, exporter
<1>3. Pushing'
  BY <1>2 DEF MetricsInv, Pushing
<1>4. Intact'
  <2>1. (\A n \in Nat : InRing(n) => InSlot(n))'
    BY <1>2 DEF MetricsInv, Intact, InRing, InSlot
  <2>2. InOrder'
    BY <1>2 DEF MetricsInv, Intact, InOrder, InRing
  <2> QED BY <2>1, <2>2 DEF Intact
<1>5. Exporting'
  <2>1. ExportsAll'
    BY <1>2 DEF MetricsInv, Exporting, ExportsAll
  <2> QED BY <1>2, <2>1 DEF MetricsInv, Exporting
<1>6. /\ Reading /\ ring_pos \in Nat /\ ring \in [0 .. N - 1 -> Sample]
  BY DEF MetricsInv, Pushing
<1>7. CASE start_plane
  <2>1. BandwidthOfHistory'
    BY <1>6, <1>7 DEF start_plane, Reading, BandwidthOfHistory, rates
  <2>2. Reading'
    BY <1>2, <1>6, <1>7, <2>1 DEF start_plane, Reading
  <2> QED BY <1>3, <1>4, <1>5, <2>2 DEF MetricsInv
<1>8. CASE stop_plane \/ total_pushed
  <2>1. BandwidthOfHistory'
    BY <1>6, <1>8 DEF stop_plane, total_pushed, Reading, BandwidthOfHistory, rates
  <2>2. Reading'
    BY <1>2, <1>6, <1>8, <2>1 DEF stop_plane, total_pushed, Reading
  <2> QED BY <1>3, <1>4, <1>5, <2>2 DEF MetricsInv
<1>9. CASE recent_range
  <2> DEFINE wanted == fewer(current_count - last_read_count, READ_MAX)
             taken == fewer(wanted, fewer(ring_pos, N))
  <2>1. wanted \in Nat
    BY <1>6, <1>9, MetricsNumbers DEF recent_range, Reading, fewer
  <2> HIDE DEF wanted
  <2>2. taken \in Nat /\ taken <= ring_pos
    BY <1>6, <2>1, MetricsNumbers DEF fewer
  <2>3. index' = ring_pos - taken /\ end' = ring_pos
    BY <1>9 DEF recent_range, recent, wanted
  <2> HIDE DEF taken
  <2>4. index' \in Nat /\ end' \in Nat /\ index' <= end' /\ end' <= ring_pos
    BY <1>6, <2>2, <2>3
  <2>5. BandwidthOfHistory'
    BY <1>6, <1>9 DEF recent_range, Reading, BandwidthOfHistory, rates
  <2>6. /\ samples' = <<>> /\ reader_pc' = "copy" /\ reader_pc = "recent"
        /\ UNCHANGED <<last_read_count, current_count, sample_history>>
    BY <1>9 DEF recent_range
  <2>7. Reading'
    BY <1>2, <1>6, <2>4, <2>5, <2>6 DEF Reading
  <2> QED BY <1>3, <1>4, <1>5, <2>7 DEF MetricsInv
<1>10. CASE copy
  <2>1. /\ index < end /\ samples' = Append(samples, ring[index % N]) /\ index' = index + 1
        /\ UNCHANGED <<reader_pc, last_read_count, current_count, end, sample_history, est_bw>>
    BY <1>10 DEF copy
  <2>2. ring[index % N] \in Sample
    BY <1>6, SlotIs DEF Reading
  <2>3. samples' \in Seq(Sample)
    BY <1>6, <2>1, <2>2, AppendProperties DEF Reading
  <2>4. index' \in Nat /\ index' <= end
    BY <1>6, <2>1 DEF Reading
  <2>5. BandwidthOfHistory'
    BY <1>6, <2>1 DEF Reading, BandwidthOfHistory, rates
  <2>6. Reading'
    BY <1>2, <1>6, <2>1, <2>3, <2>4, <2>5 DEF Reading
  <2> QED BY <1>3, <1>4, <1>5, <2>6 DEF MetricsInv
<1>11. CASE append_history
  <2> DEFINE longer == sample_history \o samples
             excess == Len(longer) - MAX_HISTORY
  <2>1. /\ sample_history' = IF excess > 0 THEN SubSeq(longer, excess + 1, Len(longer)) ELSE longer
        /\ est_bw' = IF excess > 0 THEN greatest(rates(sample_history'))
                     ELSE greatest({est_bw} \cup rates(samples))
        /\ last_read_count' = current_count /\ samples' = <<>> /\ reader_pc' = "count"
        /\ UNCHANGED <<current_count, index, end>>
    BY <1>11 DEF append_history
  <2>2. /\ sample_history \in Seq(Sample) /\ samples \in Seq(Sample)
        /\ est_bw = greatest(rates(sample_history))
    BY <1>6 DEF Reading, BandwidthOfHistory
  <2>3. /\ longer \in Seq(Sample) /\ Len(longer) = Len(sample_history) + Len(samples)
        /\ \A k \in 1 .. Len(longer) :
             longer[k] = IF k <= Len(sample_history) THEN sample_history[k]
                         ELSE samples[k - Len(sample_history)]
    BY <2>2, ConcatProperties
  <2>4. Len(longer) \in Nat /\ Len(sample_history) \in Nat /\ Len(samples) \in Nat
    BY <2>2, <2>3, LenProperties
  <2>5.ASSUME excess > 0
        PROVE  sample_history' \in Seq(Sample) /\ Len(sample_history') <= MAX_HISTORY
               /\ est_bw' = greatest(rates(sample_history'))
    <3> DEFINE first == excess + 1
               last == Len(longer)
    <3>1. /\ first \in 1 .. last + 1 /\ last \in first - 1 .. last /\ first <= last + 1
          /\ last - first + 1 = MAX_HISTORY
      BY <2>4, <2>5, MetricsNumbers
    <3> HIDE DEF longer, first, last
    <3>2. /\ SubSeq(longer, first, last) \in Seq(Sample)
          /\ Len(SubSeq(longer, first, last)) = MAX_HISTORY
      <4>1. last = Len(longer)
        BY DEF last
      <4>2. /\ SubSeq(longer, first, last) \in Seq(Sample)
            /\ Len(SubSeq(longer, first, last)) = IF first <= last THEN last - first + 1 ELSE 0
        BY <2>3, <3>1, <4>1, SubSeqProperties
      <4>3. first \in Int /\ last \in Int
        BY <2>4, MetricsNumbers DEF first, last
      <4> QED BY <3>1, <4>2, <4>3
    <3>3. sample_history' \in Seq(Sample) /\ Len(sample_history') <= MAX_HISTORY
      BY <2>1, <2>5, <3>2, MetricsNumbers DEF first, last
    <3>4. est_bw' = greatest(rates(sample_history'))
      BY <2>1, <2>5
    <3> QED BY <3>3, <3>4
  <2>6.ASSUME ~(excess > 0)
        PROVE  sample_history' \in Seq(Sample) /\ Len(sample_history') <= MAX_HISTORY
               /\ est_bw' = greatest(rates(sample_history'))
    <3>1. sample_history' = longer /\ est_bw' = greatest({est_bw} \cup rates(samples))
      BY <2>1, <2>6
    <3>2. rates(longer) = rates(sample_history) \cup rates(samples)
      <4>1. /\ DOMAIN longer = 1 .. Len(longer) /\ DOMAIN samples = 1 .. Len(samples)
            /\ DOMAIN sample_history = 1 .. Len(sample_history)
        BY <2>2, <2>3, LenProperties
      <4> HIDE DEF longer
      <4>2. \A k \in DOMAIN sample_history : k \in DOMAIN longer /\ longer[k] = sample_history[k]
        BY <2>3, <2>4, <4>1
      <4>3. \A k \in DOMAIN samples :
              Len(sample_history) + k \in DOMAIN longer /\ longer[Len(sample_history) + k] = samples[k]
        BY <2>3, <2>4, <4>1
      <4>4. \A k \in DOMAIN longer :
              \/ k \in DOMAIN sample_history /\ longer[k] = sample_history[k]
              \/ k - Len(sample_history) \in DOMAIN samples
                   /\ longer[k] = samples[k - Len(sample_history)]
        BY <2>3, <2>4, <4>1
      <4> QED BY <4>2, <4>3, <4>4 DEF rates
    <3> HIDE DEF longer
    <3> DEFINE old == rates(sample_history)
               new == rates(samples)
               best == greatest({est_bw} \cup new)
    <3>3. /\ old \in SUBSET Nat /\ IsFiniteSet(old) /\ new \in SUBSET Nat /\ IsFiniteSet(new)
          /\ old \cup new \in SUBSET Nat /\ IsFiniteSet(old \cup new)
      BY <2>2, <2>3, <3>2, RatesFinite
    <3> HIDE DEF old, new
    <3>4. est_bw \in {0} \cup old /\ est_bw \in Nat /\ \A y \in old : y <= est_bw
      BY <2>2, <3>3, Greatest DEF old
    <3>5. {est_bw} \cup new \in SUBSET Nat /\ IsFiniteSet({est_bw} \cup new)
      BY <3>3, <3>4, FS_AddElement
    <3>6. best \in {0} \cup {est_bw} \cup new /\ best \in Nat /\ \A y \in {est_bw} \cup new : y <= best
      BY <3>5, Greatest
    <3> HIDE DEF best
    <3>7. best \in {0} \cup (old \cup new)
      BY <3>4, <3>6
    <3>8. \A y \in old \cup new : y <= best
      BY <3>3, <3>4, <3>6
    <3>9. best = greatest(old \cup new)
      BY <3>3, <3>7, <3>8, Greatest
    <3>10. est_bw' = greatest(rates(sample_history'))
      BY <3>1, <3>2, <3>9 DEF best, old, new
    <3>11. sample_history' \in Seq(Sample) /\ Len(sample_history') <= MAX_HISTORY
      BY <2>3, <2>4, <2>6, <3>1, MetricsNumbers
    <3> QED BY <3>10, <3>11
  <2>7. BandwidthOfHistory'
    BY <2>5, <2>6 DEF BandwidthOfHistory, rates
  <2> HIDE DEF longer
  <2>8. Reading'
    BY <1>2, <1>6, <2>1, <2>5, <2>6, <2>7 DEF Reading
  <2> QED BY <1>3, <1>4, <1>5, <2>8 DEF MetricsInv
<1> QED BY <1>7, <1>8, <1>9, <1>10, <1>11 DEF run_loop

-----------------------------------------------------------------------------
\* What export_new_samples reads, and the rows it writes.
ReadCount == fewer(fewer(ring_pos - last_total, N), fewer(ring_pos, N))
ReadFrom == ring_pos - ReadCount
ReadRows == [k \in 1 .. ReadCount |-> ring[(ReadFrom + k - 1) % N]]
FreshRows ==
  {k \in 1 .. ReadCount :
     /\ ReadRows[k].timestamp_us > last_timestamp
     /\ \A j \in 1 .. k - 1 : ReadRows[j].timestamp_us < ReadRows[k].timestamp_us}
NewRows == [k \in DOMAIN Ascending(FreshRows) |-> ReadRows[Ascending(FreshRows)[k]]]

LEMMA ReadWhere ==
  ASSUME MetricsInv
  PROVE  /\ ring_pos \in Nat /\ last_total \in Nat /\ last_total <= ring_pos
         /\ ReadCount \in Nat /\ ReadFrom \in Nat /\ ReadFrom + ReadCount = ring_pos
         /\ last_total <= ReadFrom /\ ring_pos - N <= ReadFrom
         /\ ReadFrom = last_total \/ ReadFrom = ring_pos - N
<1>1. /\ ring_pos \in Nat /\ last_total \in Nat /\ last_total <= ring_pos
  BY DEF MetricsInv, Pushing, Exporting
<1>2. /\ ReadCount \in Nat /\ ReadCount <= ring_pos
      /\ ReadCount <= ring_pos - last_total /\ ReadCount <= N
      /\ ReadCount = ring_pos - last_total \/ ReadCount = N
  BY <1>1, MetricsNumbers DEF ReadCount, fewer
<1> QED BY <1>1, <1>2, MetricsNumbers DEF ReadFrom

LEMMA ExportIs ==
  ASSUME MetricsInv, export_new_samples
  PROVE  /\ push_pc = "idle" /\ ring_pos # last_total
         /\ exported' = exported \o NewRows
         /\ last_timestamp' = greatest({last_timestamp} \cup
                                       {ReadRows[k].timestamp_us : k \in 1 .. ReadCount})
         /\ last_total' = ring_pos
         /\ UNCHANGED <<producer, missed, reader>>
<1> DEFINE range == recent(fewer(ring_pos - last_total, N), ring_pos)
           looked_at == [k \in 1 .. range[2] - range[1] |-> ring[(range[1] + k - 1) % N]]
           fresh(k) == /\ looked_at[k].timestamp_us > last_timestamp
                       /\ \A j \in 1 .. k - 1 : looked_at[j].timestamp_us < looked_at[k].timestamp_us
           rows == Ascending({k \in DOMAIN looked_at : fresh(k)})
<1>1. /\ push_pc = "idle" /\ ring_pos # last_total
      /\ exported' = exported \o [k \in DOMAIN rows |-> looked_at[rows[k]]]
      /\ last_timestamp' = greatest({last_timestamp} \cup {looked_at[k].timestamp_us : k \in DOMAIN looked_at})
      /\ last_total' = ring_pos
      /\ UNCHANGED <<producer, missed, reader>>
  BY DEF export_new_samples
<1>2. range[1] = ReadFrom /\ range[2] = ring_pos
  BY DEF recent, ReadFrom, ReadCount
<1>3. range[2] - range[1] = ReadCount
  BY <1>2, ReadWhere
<1> HIDE DEF range
<1>4. looked_at = ReadRows /\ DOMAIN looked_at = 1 .. ReadCount
  BY <1>2, <1>3 DEF ReadRows
<1> HIDE DEF looked_at
<1>5. {k \in DOMAIN looked_at : fresh(k)} = FreshRows
  BY <1>4 DEF FreshRows
<1>6. rows = Ascending(FreshRows)
  BY <1>5
<1> HIDE DEF rows, fresh
<1>7. [k \in DOMAIN rows |-> looked_at[rows[k]]] = NewRows
  BY <1>4, <1>6 DEF NewRows
<1> QED BY <1>1, <1>4, <1>7

\* What is read are samples of the ring, in their order.
LEMMA ReadAre ==
  ASSUME MetricsInv, push_pc = "idle"
  PROVE  /\ \A k \in 1 .. ReadCount :
              /\ ReadRows[k] \in Sample /\ ReadRows[k].n = ReadFrom + k - 1
              /\ 0 < ReadRows[k].timestamp_us /\ ReadRows[k].timestamp_us <= clock
              /\ last_timestamp <= ReadRows[k].timestamp_us
         /\ \A j, k \in 1 .. ReadCount :
              j <= k => ReadRows[j].timestamp_us <= ReadRows[k].timestamp_us
<1>1. ASSUME NEW k \in 1 .. ReadCount
      PROVE  /\ ReadFrom + k - 1 \in Nat /\ InRing(ReadFrom + k - 1)
             /\ last_total <= ReadFrom + k - 1
             /\ ReadRows[k] = ring[(ReadFrom + k - 1) % N]
  <2>1. /\ ReadFrom + k - 1 \in Nat /\ ReadFrom + k - 1 < ring_pos
        /\ ReadFrom + k - 1 >= ring_pos - N /\ last_total <= ReadFrom + k - 1
    BY ReadWhere, MetricsNumbers
  <2>2. InRing(ReadFrom + k - 1)
    <3>1. ReadFrom + k - 1 > ring_pos - N \/ ReadFrom + k - 1 = ring_pos - N
      BY <2>1, ReadWhere, MetricsNumbers
    <3> QED BY <2>1, <3>1 DEF InRing
  <2> QED BY <2>1, <2>2 DEF ReadRows
<1>2. ASSUME NEW k \in 1 .. ReadCount
      PROVE  /\ ReadRows[k] \in Sample /\ ReadRows[k].n = ReadFrom + k - 1
             /\ 0 < ReadRows[k].timestamp_us /\ ReadRows[k].timestamp_us <= clock
             /\ last_timestamp <= ReadRows[k].timestamp_us
  <2> DEFINE n == ReadFrom + k - 1
  <2>1. n \in Nat /\ InRing(n) /\ last_total <= n /\ ReadRows[k] = ring[n % N]
    BY <1>1
  <2> HIDE DEF n
  <2>2. InSlot(n) /\ n % N \in 0 .. N - 1 /\ ring \in [0 .. N - 1 -> Sample]
    BY <2>1, SlotIs DEF MetricsInv, Intact, Pushing
  <2>3. ring[n % N] \in Sample
    BY <2>2
  <2> QED BY <2>1, <2>2, <2>3 DEF InSlot, n
<1>3. ASSUME NEW j \in 1 .. ReadCount, NEW k \in 1 .. ReadCount, j <= k
      PROVE  ReadRows[j].timestamp_us <= ReadRows[k].timestamp_us
  <2> DEFINE m == ReadFrom + j - 1
             n == ReadFrom + k - 1
  <2>1. m <= n
    BY <1>3, ReadWhere
  <2>2. /\ m \in Nat /\ InRing(m) /\ ReadRows[j] = ring[m % N]
        /\ n \in Nat /\ InRing(n) /\ ReadRows[k] = ring[n % N]
    BY <1>1
  <2> HIDE DEF m, n
  <2> QED BY <2>1, <2>2 DEF MetricsInv, Intact, InOrder
<1> QED BY <1>2, <1>3

\* The rows written are in order, and no later timestamp is left out.
LEMMA NewRowsAre ==
  ASSUME MetricsInv, push_pc = "idle"
  PROVE  /\ NewRows \in Seq(Sample)
         /\ \A k \in DOMAIN NewRows : last_total <= NewRows[k].n /\ NewRows[k].n < ring_pos
         /\ \A j, k \in DOMAIN NewRows : j < k => NewRows[j].n < NewRows[k].n
         /\ \A k \in 1 .. ReadCount :
              ReadRows[k].timestamp_us > last_timestamp =>
                \E j \in DOMAIN NewRows : NewRows[j].timestamp_us = ReadRows[k].timestamp_us
<1> DEFINE rows == Ascending(FreshRows)
<1>1. /\ rows \in Seq(FreshRows) /\ DOMAIN rows = 1 .. Len(rows)
      /\ \A i \in FreshRows : \E k \in DOMAIN rows : rows[k] = i
      /\ \A j, k \in DOMAIN rows : j < k => rows[j] < rows[k]
  <2>1. ReadCount \in Nat
    BY ReadWhere
  <2>2. FreshRows \in SUBSET (1 .. ReadCount)
    BY DEF FreshRows
  <2> QED BY <2>1, <2>2, AscendingLists
<1>2. NewRows = [k \in DOMAIN rows |-> ReadRows[rows[k]]]
  BY DEF NewRows
<1> HIDE DEF rows
<1>3. \A k \in DOMAIN rows : rows[k] \in FreshRows /\ rows[k] \in 1 .. ReadCount
  <2>1. \A k \in DOMAIN rows : rows[k] \in FreshRows
    BY <1>1, ElementOfSeq
  <2>2. FreshRows \in SUBSET (1 .. ReadCount)
    BY DEF FreshRows
  <2> QED BY <2>1, <2>2
<1>4. NewRows \in Seq(Sample) /\ DOMAIN NewRows = DOMAIN rows
  <2>1. \A k \in DOMAIN rows : ReadRows[rows[k]] \in Sample
    BY <1>3, ReadAre
  <2>2. Len(rows) \in Nat /\ NewRows \in [1 .. Len(rows) -> Sample]
    BY <1>1, <1>2, <2>1, LenProperties
  <2> QED BY <1>2, <2>2
<1>5. \A k \in DOMAIN rows : NewRows[k] = ReadRows[rows[k]] /\ NewRows[k].n = ReadFrom + rows[k] - 1
  BY <1>2, <1>3, ReadAre
<1>6. \A k \in DOMAIN NewRows : last_total <= NewRows[k].n /\ NewRows[k].n < ring_pos
  BY <1>3, <1>4, <1>5, ReadWhere
<1>7. \A j, k \in DOMAIN NewRows : j < k => NewRows[j].n < NewRows[k].n
  <2> SUFFICES ASSUME NEW j \in DOMAIN rows, NEW k \in DOMAIN rows, j < k
               PROVE  NewRows[j].n < NewRows[k].n
    BY <1>4
  <2>1. rows[j] < rows[k] /\ rows[j] \in Nat /\ rows[k] \in Nat
    BY <1>1, <1>3
  <2> QED BY <1>5, <2>1, ReadWhere
<1>8. ASSUME NEW k \in 1 .. ReadCount, ReadRows[k].timestamp_us > last_timestamp
      PROVE  \E j \in DOMAIN NewRows : NewRows[j].timestamp_us = ReadRows[k].timestamp_us
  <2> DEFINE ts(j) == ReadRows[j].timestamp_us
             late == {j \in 1 .. ReadCount : ts(k) <= ts(j)}
             first == Min(late)
  <2>1. \A j \in 1 .. ReadCount : ts(j) \in Nat
    BY ReadAre DEF Sample
  <2>2. \A i, j \in 1 .. ReadCount : i <= j => ts(i) <= ts(j)
    BY ReadAre
  <2> HIDE DEF ts
  <2>3. late \in SUBSET Nat /\ k \in late
    BY <2>1
  <2>4. first \in late /\ \A j \in late : first <= j
    <3> HIDE DEF late
    <3> QED BY <2>3, LeastNat
  <2>5. first \in 1 .. ReadCount /\ first <= k /\ ts(first) = ts(k)
    <3>1. first \in 1 .. ReadCount /\ first <= k /\ ts(k) <= ts(first)
      BY <2>3, <2>4
    <3> HIDE DEF first, late
    <3>2. ts(first) <= ts(k)
      BY <2>2, <3>1
    <3> QED BY <2>1, <3>1, <3>2
  <2>6. \A j \in 1 .. first - 1 : ts(j) < ts(first)
    <3> SUFFICES ASSUME NEW j \in 1 .. first - 1 PROVE ts(j) < ts(k)
      BY <2>5
    <3>1. j \in 1 .. ReadCount /\ ~(first <= j)
      BY <2>5, ReadWhere
    <3>2. ~(ts(k) <= ts(j))
      BY <2>4, <3>1
    <3> QED BY <2>1, <3>1, <3>2
  <2>7. ts(first) > last_timestamp
    BY <1>8, <2>5 DEF ts
  <2> HIDE DEF first, late
  <2>8. first \in FreshRows
    BY <2>5, <2>6, <2>7 DEF FreshRows, ts
  <2>9. PICK i \in DOMAIN rows : rows[i] = first
    BY <1>1, <2>8
  <2> QED BY <1>4, <1>5, <2>5, <2>9 DEF ts
<1> QED BY <1>4, <1>6, <1>7, <1>8

LEMMA ExportKeeps == ASSUME MetricsInv, export_new_samples PROVE MetricsInv'
<1>1. /\ push_pc = "idle" /\ ring_pos # last_total
      /\ exported' = exported \o NewRows
      /\ last_timestamp' = greatest({last_timestamp} \cup
                                    {ReadRows[k].timestamp_us : k \in 1 .. ReadCount})
      /\ last_total' = ring_pos
      /\ UNCHANGED <<producer, missed, reader>>
  BY ExportIs
<1>2. /\ UNCHANGED <<ring_pos, ring, push_pc, sample, clock>> /\ missed' = missed
  BY <1>1 DEF producer
<1>3. /\ ring_pos \in Nat /\ clock \in Nat /\ last_timestamp \in Nat /\ last_timestamp <= clock
      /\ last_total \in Nat /\ last_total <= ring_pos /\ exported \in Seq(Sample)
  BY DEF MetricsInv, Pushing, Exporting
<1>4. /\ NewRows \in Seq(Sample)
      /\ \A k \in DOMAIN NewRows : last_total <= NewRows[k].n /\ NewRows[k].n < ring_pos
      /\ \A j, k \in DOMAIN NewRows : j < k => NewRows[j].n < NewRows[k].n
      /\ \A k \in 1 .. ReadCount :
           ReadRows[k].timestamp_us > last_timestamp =>
             \E j \in DOMAIN NewRows : NewRows[j].timestamp_us = ReadRows[k].timestamp_us
  BY <1>1, NewRowsAre
<1>5. \A k \in 1 .. ReadCount :
        /\ ReadRows[k] \in Sample /\ ReadRows[k].n = ReadFrom + k - 1
        /\ 0 < ReadRows[k].timestamp_us /\ ReadRows[k].timestamp_us <= clock
        /\ last_timestamp <= ReadRows[k].timestamp_us
  BY <1>1, ReadAre
\* The rows that were there stay, and the new ones come behind them.
<1>6. /\ exported' \in Seq(Sample)
      /\ \A k \in DOMAIN exported : k \in DOMAIN exported' /\ exported'[k] = exported[k]
      /\ \A k \in DOMAIN NewRows : \E i \in DOMAIN exported' : exported'[i] = NewRows[k]
      /\ \A k \in DOMAIN exported' :
           \/ k \in DOMAIN exported /\ exported'[k] = exported[k]
           \/ k - Len(exported) \in DOMAIN NewRows /\ k \notin DOMAIN exported
                /\ exported'[k] = NewRows[k - Len(exported)]
  <2> DEFINE new == NewRows
  <2>1. /\ DOMAIN exported = 1 .. Len(exported) /\ DOMAIN new = 1 .. Len(new)
        /\ Len(exported) \in Nat /\ Len(new) \in Nat
    BY <1>3, <1>4, LenProperties
  <2>2. /\ exported \o new \in Seq(Sample) /\ Len(exported \o new) = Len(exported) + Len(new)
        /\ \A k \in 1 .. Len(exported) + Len(new) :
             (exported \o new)[k] = IF k <= Len(exported) THEN exported[k]
                                    ELSE new[k - Len(exported)]
    BY <1>3, <1>4, ConcatProperties
  <2>3. DOMAIN (exported \o new) = 1 .. Len(exported) + Len(new)
    BY <2>2, LenProperties
  <2>4. \A k \in DOMAIN new : (exported \o new)[Len(exported) + k] = new[k]
                              /\ Len(exported) + k \in DOMAIN (exported \o new)
    BY <2>1, <2>2, <2>3
  <2>5. \A k \in DOMAIN exported : k \in DOMAIN (exported \o new) /\ (exported \o new)[k] = exported[k]
    BY <2>1, <2>2, <2>3
  <2>6. \A k \in DOMAIN (exported \o new) :
          \/ k \in DOMAIN exported /\ (exported \o new)[k] = exported[k]
          \/ k - Len(exported) \in DOMAIN new /\ k \notin DOMAIN exported
               /\ (exported \o new)[k] = new[k - Len(exported)]
    BY <2>1, <2>2, <2>3
  <2> HIDE DEF new
  <2> QED BY <1>1, <2>2, <2>4, <2>5, <2>6 DEF new
<1>7. /\ last_timestamp' \in Nat /\ last_timestamp' <= clock
      /\ last_timestamp' = 0 \/ \E k \in DOMAIN exported' : exported'[k].timestamp_us = last_timestamp'
  <2> DEFINE times == {last_timestamp} \cup {ReadRows[k].timestamp_us : k \in 1 .. ReadCount}
  <2>1. times \in SUBSET Nat
    BY <1>3, <1>5 DEF Sample
  <2>2. IsFiniteSet(times)
    <3>1. ReadRows \in Seq(Sample)
      BY <1>5, ReadWhere DEF ReadRows
    <3> DEFINE f == [k \in 1 .. ReadCount |-> ReadRows[k].timestamp_us]
    <3>2. f \in Surjection(1 .. ReadCount, {ReadRows[k].timestamp_us : k \in 1 .. ReadCount})
      BY DEF Surjection
    <3>3. ReadCount \in Nat /\ IsFiniteSet(1 .. ReadCount)
      BY ReadWhere, FS_Interval, 1 \in Int
    <3> HIDE DEF f
    <3>4. IsFiniteSet({ReadRows[k].timestamp_us : k \in 1 .. ReadCount})
      BY <3>2, <3>3, FS_Surjection
    <3> QED BY <3>4, FS_AddElement
  <2>3. last_timestamp \in times /\ \A y \in times : y = last_timestamp \/ \E k \in 1 .. ReadCount : y = ReadRows[k].timestamp_us
    OBVIOUS
  <2>4. last_timestamp' = greatest(times)
    BY <1>1
  <2> HIDE DEF times
  <2>5. last_timestamp' \in {0} \cup times /\ last_timestamp' \in Nat /\ last_timestamp <= last_timestamp'
    BY <2>1, <2>2, <2>3, <2>4, Greatest
  <2>6. last_timestamp' <= clock
    BY <1>3, <1>5, <2>3, <2>5
  <2>7. ASSUME last_timestamp' = last_timestamp, last_timestamp' # 0
        PROVE  \E i \in DOMAIN exported' : exported'[i].timestamp_us = last_timestamp'
    <3>1. PICK i \in DOMAIN exported : exported[i].timestamp_us = last_timestamp
      BY <2>7 DEF MetricsInv, Exporting
    <3> QED BY <1>6, <2>7, <3>1
  <2>8. ASSUME NEW k \in 1 .. ReadCount, last_timestamp' = ReadRows[k].timestamp_us,
               last_timestamp' # last_timestamp
        PROVE  \E i \in DOMAIN exported' : exported'[i].timestamp_us = last_timestamp'
    <3>1. ReadRows[k].timestamp_us > last_timestamp
      BY <1>3, <2>5, <2>8
    <3>2. PICK j \in DOMAIN NewRows : NewRows[j].timestamp_us = ReadRows[k].timestamp_us
      BY <1>4, <3>1
    <3> QED BY <1>6, <2>8, <3>2
  <2>9. \/ last_timestamp' = 0 \/ last_timestamp' = last_timestamp
        \/ \E k \in 1 .. ReadCount : last_timestamp' = ReadRows[k].timestamp_us
    BY <2>3, <2>5
  <2>10. \/ last_timestamp' = 0
         \/ \E i \in DOMAIN exported' : exported'[i].timestamp_us = last_timestamp'
    BY <2>7, <2>8, <2>9
  <2> QED BY <2>5, <2>6, <2>10
<1>8. Pushing'
  BY <1>2, <1>7 DEF MetricsInv, Pushing
<1>9. Intact'
  <2>1. ASSUME NEW n \in Nat, InRing(n)' PROVE InSlot(n)'
    <3>1. InRing(n) /\ n < ring_pos
      BY <1>2, <2>1 DEF InRing
    <3>2. InSlot(n)
      BY <3>1 DEF MetricsInv, Intact
    <3>3. ~(n >= last_total')
      BY <1>1, <1>3, <3>1
    <3> QED BY <1>2, <3>2, <3>3 DEF InSlot
  <2>2. InOrder'
    BY <1>2 DEF MetricsInv, Intact, InOrder, InRing
  <2> QED BY <2>1, <2>2 DEF Intact
<1>10. \A k \in DOMAIN exported : exported[k].n < last_total /\ exported[k].n \in Int
  <2>1. \A k \in DOMAIN exported : exported[k] \in Sample
    BY <1>3, ElementOfSeq
  <2> QED BY <2>1 DEF MetricsInv, Exporting, Sample
<1>11. \A k \in DOMAIN NewRows : NewRows[k].n \in Int
  <2>1. \A k \in DOMAIN NewRows : NewRows[k] \in Sample
    BY <1>4, ElementOfSeq
  <2> QED BY <2>1 DEF Sample
<1>12. \A k \in DOMAIN exported' : exported'[k].n < ring_pos
  BY <1>3, <1>4, <1>6, <1>10
<1>13. ASSUME NEW j \in DOMAIN exported', NEW k \in DOMAIN exported', j < k
       PROVE  exported'[j].n < exported'[k].n
  <2>1. DOMAIN exported = 1 .. Len(exported) /\ Len(exported) \in Nat /\ j \in Nat /\ k \in Nat /\ 0 < j
    BY <1>3, <1>6, LenProperties
  <2>2. CASE k \in DOMAIN exported
    <3>1. j \in DOMAIN exported
      BY <1>13, <2>1, <2>2
    <3> QED BY <1>6, <1>13, <2>2, <3>1 DEF MetricsInv, Exporting, ExportsAll
  <2>3. CASE k \notin DOMAIN exported
    <3> DEFINE i == k - Len(exported)
    <3>1. i \in DOMAIN NewRows /\ exported'[k] = NewRows[i]
      BY <1>6, <2>3
    <3>2. CASE j \in DOMAIN exported
      BY <1>3, <1>4, <1>6, <1>10, <1>11, <3>1, <3>2
    <3>3. CASE j \notin DOMAIN exported
      <4>1. j - Len(exported) \in DOMAIN NewRows /\ exported'[j] = NewRows[j - Len(exported)]
        BY <1>6, <3>3
      <4>2. j - Len(exported) < i
        BY <1>13, <2>1
      <4> QED BY <1>4, <3>1, <4>1, <4>2
    <3> QED BY <3>2, <3>3
  <2> QED BY <2>2, <2>3
<1>14. ASSUME NEW n \in 0 .. ring_pos - 1, n \notin missed, ring[n % N].n = n
       PROVE  \/ \E k \in DOMAIN exported' : exported'[k].n = n
              \/ \E k \in DOMAIN exported' : exported'[k].timestamp_us = ring[n % N].timestamp_us
  <2>1. CASE n < last_total
    <3>1. n \in 0 .. last_total - 1
      BY <1>3, <2>1
    <3>2. \/ \E k \in DOMAIN exported : exported[k].n = n
          \/ \E k \in DOMAIN exported : exported[k].timestamp_us = ring[n % N].timestamp_us
      BY <1>14, <3>1 DEF MetricsInv, Exporting, ExportsAll
    <3> QED BY <1>6, <3>2
  <2>2. CASE ~(n < last_total)
    <3> DEFINE k == n - ReadFrom + 1
    <3>1. n \in Nat /\ last_total <= n
      BY <1>3, <2>2
    <3>2. ~(n < ring_pos - N)
      BY <1>14, <3>1 DEF MetricsInv, Exporting
    <3>3. ReadFrom <= n
      BY <1>3, <3>1, <3>2, ReadWhere, MetricsNumbers
    <3>4. k \in 1 .. ReadCount /\ ReadFrom + k - 1 = n
      BY <1>3, <3>1, <3>3, ReadWhere
    <3> HIDE DEF k
    <3>5. ReadRows[k] = ring[n % N]
      BY <3>4 DEF ReadRows
    <3>6. CASE ReadRows[k].timestamp_us > last_timestamp
      <4>1. PICK j \in DOMAIN NewRows : NewRows[j].timestamp_us = ReadRows[k].timestamp_us
        BY <1>4, <3>4, <3>6
      <4> QED BY <1>6, <3>5, <4>1
    <3>7. CASE ~(ReadRows[k].timestamp_us > last_timestamp)
      <4>1. ReadRows[k].timestamp_us \in Nat
        BY <1>5, <3>4 DEF Sample
      <4>2. ReadRows[k].timestamp_us = last_timestamp /\ last_timestamp # 0
        BY <1>3, <1>5, <3>4, <3>7, <4>1
      <4>3. PICK i \in DOMAIN exported : exported[i].timestamp_us = last_timestamp
        BY <4>2 DEF MetricsInv, Exporting
      <4> QED BY <1>6, <3>5, <4>2, <4>3
    <3> QED BY <3>6, <3>7
  <2> QED BY <2>1, <2>2
<1>15. ExportsAll'
  BY <1>1, <1>2, <1>13, <1>14 DEF ExportsAll
<1>16. Exporting'
  <2>1. ASSUME NEW n \in Nat, last_total' <= n, n < ring_pos' - N PROVE n \in missed'
    BY <1>1, <1>2, <1>3, <2>1, MetricsNumbers
  <2>2. /\ last_total' \in Nat /\ last_total' <= ring_pos'
        /\ \A k \in DOMAIN exported' : exported'[k].n < last_total'
    BY <1>1, <1>2, <1>3, <1>12
  <2> QED BY <1>6, <1>7, <1>15, <2>1, <2>2 DEF Exporting
<1> QED BY <1>1, <1>2, <1>3, <1>8, <1>9, <1>16, ReaderStays DEF MetricsInv

LEMMA MetricsStep == MetricsInv /\ [MetricsNext]_metricsVars => MetricsInv'
<1> SUFFICES ASSUME MetricsInv, [MetricsNext]_metricsVars PROVE MetricsInv'
  OBVIOUS
<1>1. CASE UNCHANGED metricsVars
  <2>1. UNCHANGED <<producer, exporter, missed, reader>>
    BY <1>1 DEF metricsVars
  <2>2. /\ UNCHANGED <<ring_pos, ring, push_pc, sample, clock, last_total, last_timestamp, exported>>
        /\ missed' = missed
    BY <2>1 DEF producer, exporter
  <2>3. Pushing'
    BY <2>2 DEF MetricsInv, Pushing
  <2>4. Intact'
    <3>1. (\A n \in Nat : InRing(n) => InSlot(n))'
      BY <2>2 DEF MetricsInv, Intact, InRing, InSlot
    <3>2. InOrder'
      BY <2>2 DEF MetricsInv, Intact, InOrder, InRing
    <3> QED BY <3>1, <3>2 DEF Intact
  <2>5. Exporting'
    <3>1. ExportsAll'
      BY <2>2 DEF MetricsInv, Exporting, ExportsAll
    <3> QED BY <2>2, <3>1 DEF MetricsInv, Exporting
  <2>6. ring_pos \in Nat /\ ring_pos <= ring_pos
    BY DEF MetricsInv, Pushing
  <2> QED BY <2>1, <2>2, <2>3, <2>4, <2>5, <2>6, ReaderStays DEF MetricsInv
<1> QED BY <1>1, PushKeeps, WrittenKeeps, PublishKeeps, ExportKeeps, RunLoopKeeps DEF MetricsNext

\* The samples the other thread copies are those it means to, unless the
\* producer has come round; the estimate is of the history; and the exporter
\* leaves out no timestamp: for every ring, history and reading length
\* (ring_buffer.hpp:241, sample_exporter.hpp:42, intelligence_plane.cpp:104).
THEOREM SamplesAreIntact == MetricsSpec => []SamplesIntact
<1>1. MetricsInv => SamplesIntact
  <2> SUFFICES ASSUME MetricsInv PROVE SamplesIntact
    OBVIOUS
  <2>1. CopiesWhatIsMeant
    <3> SUFFICES ASSUME index < end, ~(ring_pos >= index + N) PROVE ring[index % N].n = index
      BY DEF CopiesWhatIsMeant
    <3>1. index \in Nat /\ end \in Nat /\ end <= ring_pos /\ ring_pos \in Nat
      BY DEF MetricsInv, Reading, Pushing
    <3>2. index < ring_pos /\ index > ring_pos - N
      BY <3>1, MetricsNumbers
    <3>3. InRing(index)
      BY <3>1, <3>2 DEF InRing
    <3> QED BY <3>1, <3>3 DEF MetricsInv, Intact, InSlot
  <2> QED BY <2>1 DEF MetricsInv, Reading, Exporting, SamplesIntact
<1> QED BY <1>1, MetricsStarts, MetricsStep, PTL DEF MetricsSpec

\* The positions of the two threads and the history stay in their ranges.
THEOREM MetricsTyped == MetricsSpec => []MetricsTypeOK
<1>1. MetricsInv => MetricsTypeOK
  BY DEF MetricsInv, Pushing, Reading, MetricsTypeOK
<1> QED BY <1>1, MetricsStarts, MetricsStep, PTL DEF MetricsSpec
=============================================================================

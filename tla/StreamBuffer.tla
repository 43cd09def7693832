---------------------------- MODULE StreamBuffer ----------------------------
(* StreamBuffer of ring_buffer.hpp, the send buffer of a TCP connection: a ring *)
(* of bytes used by one thread, read and written in two pieces when it wraps.   *)
(* One constructed with capacity 0, as a TCB gets on entering TIME_WAIT, stays  *)
(* empty: write and peek return at once, and nothing consumes it.               *)
EXTENDS Integers, Sequences

CONSTANTS Bytes, capacity,
          MaxCall         \* bound: bytes asked of one call

ASSUME CapacityAssumption == capacity \in Nat \ {0} /\ MaxCall \in Nat

VARIABLES buffer, read_pos, write_pos, size,
          result          \* the bytes the last write took, or the last peek or read gave

streamVars == <<buffer, read_pos, write_pos, size, result>>

Slots == 0 .. capacity - 1
Data == UNION {[1 .. n -> Bytes] : n \in 0 .. MaxCall}

\* What a vector of bytes holds at first, 0, is any of Bytes.
StreamInit ==
  /\ buffer \in [Slots -> Bytes]
  /\ read_pos = 0 /\ write_pos = 0 /\ size = 0 /\ result = <<>>

least(a, b) == IF a < b THEN a ELSE b
available == capacity - size

\* (mutant) the second piece starts with the first byte again
stored_again(data, n) ==
  LET first_chunk == least(n, capacity - write_pos) IN
  [p \in Slots |->
     IF p \in write_pos .. write_pos + first_chunk - 1 THEN data[p - write_pos + 1]
     ELSE IF p < n - first_chunk THEN data[p + 1]
     ELSE buffer[p]]

\* The copy of n bytes to write_pos, and from the start of the ring when they
\* reach beyond its end.
stored(data, n) ==
  LET first_chunk == least(n, capacity - write_pos) IN
  [p \in Slots |->
     IF p \in write_pos .. write_pos + first_chunk - 1 THEN data[p - write_pos + 1]
     ELSE IF p < n - first_chunk THEN data[first_chunk + p + 1]
     ELSE buffer[p]]

\* write; and write_contiguous, filled and committed, when no more is written
\* than the piece it gives.
write(data) ==
  LET n == least(Len(data), available) IN
  /\ buffer' = stored(data, n)
  /\ write_pos' = (write_pos + n) % capacity
  /\ size' = size + n
  /\ result' = SubSeq(data, 1, n)
  /\ UNCHANGED read_pos

contiguous_room == least(available, capacity - write_pos)
commit_write(data) == Len(data) <= contiguous_room /\ write(data)

\* The n bytes from offset on, in two pieces.
copied(offset, n) ==
  LET actual_pos == (read_pos + offset) % capacity
      first_chunk == least(n, capacity - actual_pos) IN
  [i \in 1 .. n |-> IF i <= first_chunk THEN buffer[actual_pos + i - 1]
                    ELSE buffer[i - first_chunk - 1]]

peek_at(offset, len) ==
  /\ result' = IF offset >= size THEN <<>> ELSE copied(offset, least(len, size - offset))
  /\ UNCHANGED <<buffer, read_pos, write_pos, size>>

peek(len) == peek_at(0, len)

\* Where the bytes can be read without a copy; they are sent and then consumed.
peek_contiguous ==
  /\ result' = copied(0, least(size, capacity - read_pos))
  /\ UNCHANGED <<buffer, read_pos, write_pos, size>>

dropped(n) == read_pos' = (read_pos + n) % capacity /\ size' = size - n

consume(len) == dropped(least(len, size)) /\ UNCHANGED <<buffer, write_pos, result>>

read(len) ==
  /\ result' = copied(0, least(len, size))
  /\ dropped(least(len, size))
  /\ UNCHANGED <<buffer, write_pos>>

clear_buffer == read_pos' = 0 /\ write_pos' = 0 /\ size' = 0 /\ UNCHANGED <<buffer, result>>

StreamNext ==
  \/ \E data \in Data : write(data) \/ commit_write(data)
  \/ \E offset, len \in 0 .. MaxCall : peek_at(offset, len)
  \/ \E len \in 0 .. MaxCall : peek(len) \/ consume(len) \/ read(len)
  \/ peek_contiguous
  \/ clear_buffer

StreamSpec == StreamInit /\ [][StreamNext]_streamVars

-----------------------------------------------------------------------------
StreamTypeOK ==
  /\ buffer \in [Slots -> Bytes] /\ read_pos \in Slots /\ write_pos \in Slots
  /\ size \in 0 .. capacity

\* What the ring holds, in the order it was written.
Content == [i \in 1 .. size |-> buffer[(read_pos + i - 1) % capacity]]

\* Whatever pieces it is written, peeked at and consumed in, and wherever it
\* wraps, the ring is a queue of bytes: the order of a connection's data rests
\* on it (send_buffered_data, tcp_connection.cpp:1493).
Queue == INSTANCE ByteQueue WITH content <- Content
ImplementsQueue == Queue!QueueSpec
=============================================================================

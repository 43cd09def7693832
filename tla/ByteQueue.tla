------------------------------ MODULE ByteQueue ------------------------------
(* The promise of StreamBuffer (ring_buffer.hpp), and what the TCP modules      *)
(* take a send buffer for: a queue of at most capacity bytes, of which writes   *)
(* add at one end what fits, and reads take at the other.                       *)
EXTENDS Naturals, Sequences

CONSTANTS Bytes, capacity

VARIABLES content,   \* the bytes written and not yet consumed, oldest first
          result     \* the bytes the last write took, or the last peek or read gave

queueVars == <<content, result>>

QueueInit == content = <<>> /\ result = <<>>

Write ==
  \E n \in 0 .. capacity - Len(content) : \E data \in [1 .. n -> Bytes] :
    content' = content \o data /\ result' = data

Consume ==
  \E n \in 0 .. Len(content) :
    content' = SubSeq(content, n + 1, Len(content)) /\ UNCHANGED result

Read ==
  \E n \in 0 .. Len(content) :
    /\ result' = SubSeq(content, 1, n)
    /\ content' = SubSeq(content, n + 1, Len(content))

Peek ==
  \E from \in 0 .. Len(content) : \E to \in from .. Len(content) :
    result' = SubSeq(content, from + 1, to) /\ UNCHANGED content

Clear == content' = <<>> /\ UNCHANGED result

QueueNext == Write \/ Consume \/ Read \/ Peek \/ Clear

QueueSpec == QueueInit /\ [][QueueNext]_queueVars
=============================================================================

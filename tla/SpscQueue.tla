----------------------------- MODULE SpscQueue -----------------------------
(* SPSCQueue (src/include/neustack/common/spsc_queue.hpp): a ring of N slots    *)
(* between one producer thread and one consumer thread, without locks.  Each   *)
(* thread reads the other's index once per call and publishes its own at the   *)
(* end, so a call is three steps: load the indices and decide, touch the slot, *)
(* store the index.  Release on the stores and acquire on the loads make what  *)
(* was written to a slot visible with the index; the slot itself is not        *)
(* atomic, so both threads in one slot at once would be a data race.           *)
(*                                                                             *)
(* The indices are size_t and are never reduced: IndexSpace stands for 2^64,   *)
(* a multiple of N because the code demands that N be a power of two.          *)
EXTENDS Integers, Sequences

CONSTANTS Values, N, IndexSpace

ASSUME SpscAssumption ==
    /\ N \in Nat \ {0}
    /\ IndexSpace \in Nat
    /\ \E k \in 2 .. IndexSpace : IndexSpace = k * N

None == [none |-> TRUE]

VARIABLES
    buffer,       \* _buffer
    read_pos,     \* _read_pos, stored by the consumer only
    write_pos,    \* _write_pos, stored by the producer only
    push_pc,      \* where the producer is in try_push: "idle", "write", "publish"
    push_item,    \* its argument
    push_result,  \* what it returned last
    pop_pc,       \* where the consumer is in try_pop: "idle", "copy", "release"
    pop_item,     \* the item it has copied
    pop_result    \* what it handed out last, None when the queue was empty

producer == <<push_pc, push_item, push_result>>
consumer == <<pop_pc, pop_item, pop_result>>
queueVars == <<buffer, read_pos, write_pos, producer, consumer>>

Slot(pos) == pos % N                     \* pos & (N - 1)
size == (write_pos - read_pos) % IndexSpace
advance(pos) == (pos + 1) % IndexSpace

QueueInit ==
    /\ buffer \in [0 .. N - 1 -> Values]   \* trivially copyable, never initialised
    /\ read_pos = 0 /\ write_pos = 0
    /\ push_pc = "idle" /\ push_item = None /\ push_result = TRUE
    /\ pop_pc = "idle" /\ pop_item = None /\ pop_result = None

(* ---- producer ---- *)

(* Mutant: one too many, write - read > N.                                     *)
try_push_over(v) ==
    /\ push_pc = "idle"
    /\ IF size > N
         THEN push_result' = FALSE /\ UNCHANGED <<push_pc, push_item>>
         ELSE push_pc' = "write" /\ push_item' = v /\ UNCHANGED push_result
    /\ UNCHANGED <<buffer, read_pos, write_pos, consumer>>

try_push(v) ==
    /\ push_pc = "idle"
    /\ IF size >= N
         THEN push_result' = FALSE /\ UNCHANGED <<push_pc, push_item>>
         ELSE push_pc' = "write" /\ push_item' = v /\ UNCHANGED push_result
    /\ UNCHANGED <<buffer, read_pos, write_pos, consumer>>

push_write ==
    /\ push_pc = "write"
    /\ buffer' = [buffer EXCEPT ![Slot(write_pos)] = push_item]
    /\ push_pc' = "publish"
    /\ UNCHANGED <<read_pos, write_pos, push_item, push_result, consumer>>

push_publish ==
    /\ push_pc = "publish"
    /\ write_pos' = advance(write_pos)
    /\ push_pc' = "idle" /\ push_result' = TRUE
    /\ UNCHANGED <<buffer, read_pos, push_item, consumer>>

(* ---- consumer ---- *)

(* Mutant: the indices compared as if they never wrapped.                      *)
try_pop_ordered ==
    /\ pop_pc = "idle"
    /\ IF read_pos >= write_pos
         THEN pop_result' = None /\ UNCHANGED pop_pc
         ELSE pop_pc' = "copy" /\ UNCHANGED pop_result
    /\ UNCHANGED <<buffer, read_pos, write_pos, producer, pop_item>>

try_pop ==
    /\ pop_pc = "idle"
    /\ IF read_pos = write_pos
         THEN pop_result' = None /\ UNCHANGED pop_pc
         ELSE pop_pc' = "copy" /\ UNCHANGED pop_result
    /\ UNCHANGED <<buffer, read_pos, write_pos, producer, pop_item>>

pop_copy ==
    /\ pop_pc = "copy"
    /\ pop_item' = buffer[Slot(read_pos)]
    /\ pop_pc' = "release"
    /\ UNCHANGED <<buffer, read_pos, write_pos, producer, pop_result>>

pop_release ==
    /\ pop_pc = "release"
    /\ read_pos' = advance(read_pos)
    /\ pop_pc' = "idle" /\ pop_result' = pop_item
    /\ UNCHANGED <<buffer, write_pos, producer, pop_item>>

QueueNext ==
    \/ \E v \in Values : try_push(v)
    \/ push_write \/ push_publish
    \/ try_pop \/ pop_copy \/ pop_release

QueueSpec == QueueInit /\ [][QueueNext]_queueVars

(* ---- properties ---- *)

QueueTypeOK ==
    /\ buffer \in [0 .. N - 1 -> Values]
    /\ read_pos \in 0 .. IndexSpace - 1
    /\ write_pos \in 0 .. IndexSpace - 1
    /\ push_pc \in {"idle", "write", "publish"}
    /\ push_item \in Values \cup {None}
    /\ push_result \in BOOLEAN
    /\ pop_pc \in {"idle", "copy", "release"}
    /\ pop_item \in Values \cup {None}
    /\ pop_result \in Values \cup {None}
    /\ size \in 0 .. N

(* The two threads are never inside the same slot, the one writing it and the  *)
(* other copying it: _buffer is not atomic, so that would be a data race (the  *)
(* assignment in try_push, line 31, against the one in try_pop, line 46).      *)
NoDataRace ==
    push_pc = "write" /\ pop_pc = "copy" => Slot(write_pos) # Slot(read_pos)

(* What the ring holds: the slots from read_pos up to write_pos.               *)
content == [i \in 1 .. size |-> buffer[Slot(read_pos + i - 1)]]

(* The queue of two threads and a ring of slots is a FIFO of N items in which  *)
(* pushes and pops are instantaneous: no item is lost, repeated or overtaken,  *)
(* false means full or empty at that moment, also when the indices wrap.       *)
Fifo == INSTANCE BoundedFifo
ImplementsFifo == Fifo!Spec
=============================================================================

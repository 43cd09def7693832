------------------------------ MODULE FixedPool ------------------------------
(* FixedPool of memory_pool.hpp, from which the firewall takes its events and   *)
(* decisions: the free slots are linked through their own memory, where an      *)
(* object overwrites the link.                                                  *)
EXTENDS Integers, FiniteSets

CONSTANT PoolSize         \* the N of the template

ASSUME PoolAssumption == PoolSize \in Nat \ {0}

null == PoolSize
slots == 0 .. PoolSize - 1

VARIABLES memory,         \* of each slot: the link to the next free one, or an object
          free_head, in_use_count,
          handed_out      \* the slots whose objects the callers hold

poolVars == <<memory, free_head, in_use_count, handed_out>>

object == PoolSize + 1

\* reset links all the slots, the first one at the head.
PoolInit ==
  /\ memory = [s \in slots |-> s + 1]
  /\ free_head = 0
  /\ in_use_count = 0 /\ handed_out = {}

\* Null when there is none left; the link is read before the object is made.
acquire ==
  /\ free_head # null
  /\ free_head' = memory[free_head]
  /\ memory' = [memory EXCEPT ![free_head] = object]
  /\ in_use_count' = in_use_count + 1
  /\ handed_out' = handed_out \cup {free_head}

\* (mutant) the slot becomes the head before it is linked to what was the head
release_first(s) ==
  /\ s \in handed_out
  /\ memory' = [memory EXCEPT ![s] = s]
  /\ free_head' = s
  /\ in_use_count' = in_use_count - 1
  /\ handed_out' = handed_out \ {s}

\* By the deleter of the smart pointer.
release(s) ==
  /\ s \in handed_out
  /\ memory' = [memory EXCEPT ![s] = free_head]
  /\ free_head' = s
  /\ in_use_count' = in_use_count - 1
  /\ handed_out' = handed_out \ {s}

PoolNext == acquire \/ \E s \in slots : release(s)

PoolSpec == PoolInit /\ [][PoolNext]_poolVars

-----------------------------------------------------------------------------
PoolTypeOK ==
  /\ memory \in [slots -> 0 .. object] /\ free_head \in slots \cup {null}
  /\ in_use_count \in 0 .. PoolSize /\ handed_out \subseteq slots

\* From the head on the slots of the list are linked in their order, to the end.
Linked(list, length) ==
  LET at(i) == IF i \in 1 .. length THEN list[i] ELSE null IN
  free_head = at(1) /\ \A i \in 1 .. length : memory[list[i]] = at(i + 1)

\* It goes once through the slots that are free.
FreeList(list, length, free) ==
  /\ \A s \in free : \E i \in 1 .. length : list[i] = s
  /\ \A i, j \in 1 .. length : list[i] = list[j] => i = j
  /\ Linked(list, length)

\* However objects are taken and given back, there is one list through the slots
\* that nobody holds: no slot is given to two holders, and none is lost
\* (inspect, firewall_engine.cpp:45).
FreeListSound ==
  LET free == slots \ handed_out
      length == PoolSize - in_use_count IN
  /\ in_use_count = Cardinality(handed_out)
  /\ \E list \in [1 .. length -> free] : FreeList(list, length, free)

PoolSound == PoolTypeOK /\ FreeListSound
=============================================================================

---------------------------- MODULE BoundedFifo ----------------------------
(* The promise of SPSCQueue (src/include/neustack/common/spsc_queue.hpp): a    *)
(* first-in first-out queue of at most N items.  Pushing and popping happen at *)
(* one instant each; a push is refused only when the queue is full, a pop only *)
(* when it is empty.                                                           *)
EXTENDS Naturals, Sequences

CONSTANTS Values, N

None == [none |-> TRUE]          \* what a pop that found nothing returns

VARIABLES
    content,      \* the items pushed and not yet popped, oldest first
    push_result,  \* what the last completed try_push returned
    pop_result    \* the item the last completed try_pop returned, or None

fifo_vars == <<content, push_result, pop_result>>

Init == content = <<>> /\ push_result = TRUE /\ pop_result = None

Push(v) ==
    /\ Len(content) < N
    /\ content' = Append(content, v)
    /\ push_result' = TRUE
    /\ UNCHANGED pop_result

Refuse ==
    /\ Len(content) = N
    /\ push_result' = FALSE
    /\ UNCHANGED <<content, pop_result>>

Pop ==
    /\ content # <<>>
    /\ content' = Tail(content)
    /\ pop_result' = Head(content)
    /\ UNCHANGED push_result

FindEmpty ==
    /\ content = <<>>
    /\ pop_result' = None
    /\ UNCHANGED <<content, push_result>>

Next == (\E v \in Values : Push(v)) \/ Refuse \/ Pop \/ FindEmpty

Spec == Init /\ [][Next]_fifo_vars
=============================================================================

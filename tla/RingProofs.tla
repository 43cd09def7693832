----------------------------- MODULE RingProofs -----------------------------
(***************************************************************************)
(* The two structures built on rings of slots: the frames of the AF_XDP    *)
(* device, which move between four rings and the kernel, and the queue     *)
(* between two threads.  They share no state.                              *)
(*                                                                         *)
(* Frames: for any number of frames, ring sizes and batch size, RingsFit   *)
(* is inductive next to the types.  OneOwner and ReceptionFed are not:     *)
(* they rest on where the buffers are inside a round (Fed).  A packet poll *)
(* has seen is still there when it is read; the packets dropped have left  *)
(* their frames in the free list when they are made up for; a ring without *)
(* a vacant slot is itself a buffer for the kernel; and a batch is never   *)
(* read over one that has not been released.                               *)
(*                                                                         *)
(* Queue: SPSCQueue is a FIFO, and its two threads never meet in a slot,   *)
(* for every ring size, every set of items and every index width that is a *)
(* multiple of the ring size.                                              *)
(***************************************************************************)
EXTENDS AfxdpFrames, SpscQueue, FiniteSetTheorems, SequenceTheorems, TLAPS

Fed ==
  /\ pc \in {"idle", "refill_after_release"} => fill \cup nic \cup rx # {}
  /\ pc \in {"refill", "peek"} => rx # {}
  /\ pc = "top_up" => free # {} /\ dropped # 0
  /\ pc = "stack" => held # {}
  /\ pc \notin {"top_up", "stack"} => held = {}

IInv == TypeOK /\ OneOwner /\ RingsFit /\ Fed

-----------------------------------------------------------------------------
(* Cardinalities of sets of frames.                                        *)

\* A part of a set of frames is no larger than the set.
LEMMA Part ==
  ASSUME NEW B \in SUBSET Frames, NEW A \in SUBSET B
  PROVE  /\ Cardinality(A) \in Nat /\ Cardinality(B) \in Nat
         /\ Cardinality(A) =< Cardinality(B)
         /\ Cardinality(A) = 0 <=> A = {}
<1>1. IsFiniteSet(B)
  BY FramesAssumption, FS_Subset
<1>2. IsFiniteSet(A)
  BY <1>1, FS_Subset
<1>3. Cardinality(A) \in Nat /\ Cardinality(B) \in Nat
  BY <1>1, <1>2, FS_CardinalityType
<1>4. Cardinality(A) =< Cardinality(B)
  BY <1>1, FS_Subset
<1>5. Cardinality(A) = 0 <=> A = {}
  BY <1>2, FS_EmptySet
<1> QED
  BY <1>3, <1>4, <1>5

\* Joining two sets of frames adds at most their sizes.
LEMMA Join ==
  ASSUME NEW A \in SUBSET Frames, NEW B \in SUBSET Frames
  PROVE  Cardinality(A \cup B) =< Cardinality(A) + Cardinality(B)
<1>1. IsFiniteSet(A) /\ IsFiniteSet(B)
  BY FramesAssumption, FS_Subset
<1>2. Cardinality(A \cup B) = Cardinality(A) + Cardinality(B) - Cardinality(A \cap B)
  BY <1>1, FS_Union
<1>3. Cardinality(A \cap B) \in Nat /\ Cardinality(A) \in Nat /\ Cardinality(B) \in Nat
  BY Part, A \cap B \in SUBSET A
<1> QED
  BY <1>2, <1>3

\* One frame in, one frame out.
LEMMA Move ==
  ASSUME NEW A \in SUBSET Frames, NEW f \in A
  PROVE  Cardinality(A \ {f}) = Cardinality(A) - 1
<1>1. IsFiniteSet(A)
  BY FramesAssumption, FS_Subset
<1> QED
  BY <1>1, FS_RemoveElement

LEMMA Arrive ==
  ASSUME NEW A \in SUBSET Frames, NEW f \in Frames
  PROVE  Cardinality(A \cup {f}) =< Cardinality(A) + 1
<1>1. IsFiniteSet(A)
  BY FramesAssumption, FS_Subset
<1>2. Cardinality(A) \in Nat
  BY Part, A \in SUBSET A
<1>3. Cardinality(A \cup {f}) = IF f \in A THEN Cardinality(A) ELSE Cardinality(A) + 1
  BY <1>1, FS_AddElement
<1> QED
  BY <1>2, <1>3

\* What an access to a ring of at most n entries takes from a set of frames.
LEMMA SomeOf ==
  ASSUME NEW n \in Nat, NEW S \in SUBSET Frames, NEW A \in Some(n, S)
  PROVE  /\ A \subseteq S
         /\ Cardinality(A) \in Nat /\ Cardinality(A) =< n
         /\ n # 0 /\ S # {} => A # {}
<1>1. A \subseteq S /\ Cardinality(A) = Least(n, Cardinality(S))
  BY DEF Some
<1>2. Cardinality(A) \in Nat /\ Cardinality(S) \in Nat
  BY <1>1, Part
<1>3. (Cardinality(A) = 0 <=> A = {}) /\ (Cardinality(S) = 0 <=> S = {})
  BY <1>1, Part
<1> QED
  BY <1>1, <1>2, <1>3 DEF Least

\* reserve answers no more than was asked for and than there is room for, and
\* answers nothing only if nothing was asked for or the ring has entries.
LEMMA Reserved ==
  ASSUME NEW count \in Nat, NEW ring \in SUBSET Frames, NEW entries \in Nat \ {0},
         Cardinality(ring) =< entries
  PROVE  /\ reserve(count, ring, entries) \in Nat
         /\ reserve(count, ring, entries) =< count
         /\ Cardinality(ring) + reserve(count, ring, entries) =< entries
         /\ count # 0 /\ ring = {} => reserve(count, ring, entries) # 0
<1>1. Cardinality(ring) \in Nat /\ (Cardinality(ring) = 0 <=> ring = {})
  BY Part
<1> QED
  BY <1>1 DEF reserve, Least

\* The number of frames refill_fill_ring asks for fits the fill ring.
LEMMA RefillFits ==
  ASSUME TypeOK, RingsFit
  PROVE  RefillCount \in Nat /\ Cardinality(fill) + RefillCount =< FillSize
<1>1. /\ fill \in SUBSET Frames /\ Cardinality(fill) =< FillSize
      /\ FillSize \in Nat \ {0}
  BY FramesAssumption DEF TypeOK, RingsFit
<1>2. /\ Cardinality(fill) \in Nat /\ reserve(0, fill, FillSize) = 0
  BY <1>1, Part, Reserved
<1>3. FillSize \div 2 - 0 \in Nat
  BY <1>1
<1> QED
  BY <1>1, <1>2, <1>3, Reserved DEF RefillCount

-----------------------------------------------------------------------------
(* The steps.                                                              *)

\* Frames offered to the kernel come from the free list and fit the ring.
LEMMA Offered ==
  ASSUME TypeOK, NEW n \in Nat, Cardinality(fill) + n =< FillSize, Offer(n)
  PROVE  \E A \in SUBSET free :
           /\ fill' = fill \cup A /\ free' = free \ A
           /\ Cardinality(fill') =< FillSize
           /\ n # 0 /\ free # {} => A # {}
<1>1. PICK A \in Some(n, free) : fill' = fill \cup A /\ free' = free \ A
  BY DEF Offer
<1>2. /\ A \subseteq free /\ Cardinality(A) \in Nat /\ Cardinality(A) =< n
      /\ n # 0 /\ free # {} => A # {}
  BY <1>1, SomeOf DEF TypeOK
<1>3. Cardinality(fill \cup A) =< Cardinality(fill) + Cardinality(A)
  BY <1>2, Join DEF TypeOK
<1>4. /\ Cardinality(fill) \in Nat /\ Cardinality(fill \cup A) \in Nat
      /\ FillSize \in Nat
  BY <1>2, Part, FramesAssumption DEF TypeOK
<1>5. Cardinality(fill') =< FillSize
  BY <1>1, <1>2, <1>3, <1>4
<1> QED
  BY <1>1, <1>2, <1>5

\* In its initial states the kernel has a buffer and the free list the rest.
LEMMA InitHolds == Init => IInv
<1> SUFFICES ASSUME Init PROVE IInv
  OBVIOUS
<1> DEFINE n == reserve(Cardinality(Frames) \div 2, {}, FillSize)
<1>1. /\ Cardinality({}) = 0 /\ {} \in SUBSET Frames
      /\ Cardinality(Frames) \in Nat /\ Cardinality(Frames) >= 2
  BY FramesAssumption, FS_EmptySet, FS_CardinalityType
<1>2. n \in Nat /\ n =< FillSize /\ n # 0
  <2>1. Cardinality(Frames) \div 2 \in Nat \ {0}
    BY <1>1
  <2>2. FillSize \in Nat \ {0}
    BY FramesAssumption
  <2> HIDE DEF n
  <2> QED
    BY <1>1, <2>1, <2>2, Reserved DEF n
<1> HIDE DEF n
<1>3. PICK A \in Some(n, Frames) : fill = A /\ free = Frames \ A
  BY DEF Init, n
<1>4. A \subseteq Frames /\ Cardinality(A) \in Nat /\ Cardinality(A) =< n
  BY <1>2, <1>3, SomeOf
<1>5. A # {}
  <2>1. Frames # {}
    BY <1>1
  <2> QED
    BY <1>2, <1>3, <2>1, SomeOf
<1>6. TypeOK
  BY <1>1, <1>3, <1>4, FramesAssumption DEF Init, TypeOK
<1>7. OneOwner
  BY <1>3, <1>4 DEF Init, OneOwner, Disjoint
<1>8. RingsFit
  BY <1>1, <1>2, <1>3, <1>4, FramesAssumption DEF Init, RingsFit
<1>9. Fed
  BY <1>3, <1>5 DEF Init, Fed
<1> QED
  BY <1>6, <1>7, <1>8, <1>9 DEF IInv

\* Every step of the run loop, of a sender and of the kernel preserves the
\* invariant.
LEMMA StepHolds == IInv /\ [Next]_vars => IInv'
<1> SUFFICES ASSUME IInv, [Next]_vars PROVE IInv'
  OBVIOUS
<1> USE DEF IInv
<1>0. /\ FillSize \in Nat \ {0} /\ CompSize \in Nat \ {0} /\ RxSize \in Nat \ {0}
      /\ TxSize \in Nat \ {0} /\ BatchSize \in Nat \ {0}
  BY FramesAssumption
<1>1. CASE reclaim_completion_ring
  <2>1. PICK done \in Some(BatchSize, comp) : comp' = comp \ done /\ free' = free \cup done
    BY <1>1 DEF reclaim_completion_ring
  <2>2. done \subseteq comp
    BY <2>1 DEF Some
  <2>3. UNCHANGED <<fill, nic, rx, held, owned, tx, sending, dropped>> /\ pc' = "refill"
    BY <1>1 DEF reclaim_completion_ring
  <2>4. TypeOK'
    BY <2>1, <2>2, <2>3 DEF TypeOK
  <2>5. OneOwner'
    BY <2>1, <2>2, <2>3 DEF OneOwner, Disjoint
  <2>6. RingsFit'
    <3>1. Cardinality(comp') =< Cardinality(comp)
      BY <2>1, Part DEF TypeOK
    <3>2. Cardinality(comp) \in Nat /\ Cardinality(comp') \in Nat /\ Cardinality(sending) \in Nat
      BY <2>1, Part DEF TypeOK
    <3> QED
      BY <1>0, <2>3, <3>1, <3>2 DEF RingsFit
  <2>7. Fed'
    BY <1>1 DEF reclaim_completion_ring, Fed
  <2> QED
    BY <2>4, <2>5, <2>6, <2>7
<1>2. CASE refill
  <2>1. RefillCount \in Nat /\ Cardinality(fill) + RefillCount =< FillSize
    BY RefillFits
  <2>2. PICK A \in SUBSET free :
          fill' = fill \cup A /\ free' = free \ A /\ Cardinality(fill') =< FillSize
    BY <1>2, <2>1, Offered DEF refill, refill_fill_ring
  <2>3. /\ UNCHANGED <<nic, rx, held, owned, tx, sending, comp, dropped>>
        /\ pc' = IF pc = "refill" THEN "peek" ELSE "idle"
        /\ pc \in {"refill", "refill_after_release"}
    BY <1>2 DEF refill
  <2>4. TypeOK'
    BY <2>2, <2>3 DEF TypeOK
  <2>5. OneOwner'
    BY <2>2, <2>3 DEF OneOwner, Disjoint
  <2>6. RingsFit'
    BY <2>2, <2>3 DEF RingsFit
  <2>7. Fed'
    BY <2>2, <2>3 DEF Fed
  <2> QED
    BY <2>4, <2>5, <2>6, <2>7
<1>3. ASSUME NEW max_count \in {1, BatchSize}, recv_batch(max_count) PROVE IInv'
  <2>1. max_count \in Nat \ {0} /\ max_count =< BatchSize
    BY <1>0, <1>3
  <2>2. PICK read \in Some(max_count, rx) : \E out \in SUBSET read :
          /\ rx' = rx \ read /\ held' = out /\ free' = free \cup (read \ out)
          /\ dropped' = Cardinality(read \ out)
          /\ pc' = IF read # out THEN "top_up" ELSE "stack"
    BY <1>3 DEF recv_batch
  <2>3. PICK out \in SUBSET read :
          /\ rx' = rx \ read /\ held' = out /\ free' = free \cup (read \ out)
          /\ dropped' = Cardinality(read \ out)
          /\ pc' = IF read # out THEN "top_up" ELSE "stack"
    BY <2>2
  <2>4. UNCHANGED <<fill, nic, owned, tx, sending, comp>> /\ pc = "peek"
    BY <1>3 DEF recv_batch
  <2>5. /\ read \subseteq rx /\ read \subseteq Frames
        /\ Cardinality(read) \in Nat /\ Cardinality(read) =< max_count
        /\ rx # {} => read # {}
    BY <2>1, <2>2, SomeOf DEF TypeOK
  <2>6. /\ Cardinality(out) \in Nat /\ Cardinality(out) =< Cardinality(read)
        /\ Cardinality(read \ out) \in Nat /\ Cardinality(read \ out) =< Cardinality(read)
        /\ Cardinality(read \ out) = 0 <=> read \ out = {}
    BY <2>5, Part, read \ out \in SUBSET read
  <2>7. held = {}
    BY <2>4 DEF Fed
  <2>8. TypeOK'
    <3>1. Cardinality(held') =< BatchSize /\ dropped' \in 0..BatchSize
      BY <1>0, <2>1, <2>3, <2>5, <2>6
    <3> QED
      BY <2>3, <2>4, <2>5, <3>1 DEF TypeOK
  <2>9. OneOwner'
    BY <2>3, <2>4, <2>5, <2>7 DEF OneOwner, Disjoint
  <2>10. RingsFit'
    <3>1. Cardinality(rx') \in Nat /\ Cardinality(rx') =< Cardinality(rx) /\ Cardinality(rx) \in Nat
      BY <2>3, Part DEF TypeOK
    <3> QED
      BY <1>0, <2>4, <3>1 DEF RingsFit
  <2>11. Fed'
    BY <2>3, <2>4, <2>5, <2>6 DEF Fed
  <2> QED
    BY <2>8, <2>9, <2>10, <2>11
<1>4. CASE top_up
  <2>1. /\ Offer(reserve(dropped, fill, FillSize)) /\ pc = "top_up" /\ dropped' = 0
        /\ pc' = IF held = {} THEN "idle" ELSE "stack"
        /\ UNCHANGED <<nic, rx, held, owned, tx, sending, comp>>
    BY <1>4 DEF top_up
  <2> DEFINE n == reserve(dropped, fill, FillSize)
  <2>2. n \in Nat /\ Cardinality(fill) + n =< FillSize /\ (fill = {} => n # 0)
    BY <1>0, <2>1, Reserved DEF TypeOK, RingsFit, Fed
  <2> HIDE DEF n
  <2>3. PICK A \in SUBSET free :
          /\ fill' = fill \cup A /\ free' = free \ A /\ Cardinality(fill') =< FillSize
          /\ n # 0 /\ free # {} => A # {}
    BY <2>1, <2>2, Offered DEF n
  <2>4. TypeOK'
    BY <1>0, <2>1, <2>3 DEF TypeOK
  <2>5. OneOwner'
    BY <2>1, <2>3 DEF OneOwner, Disjoint
  <2>6. RingsFit'
    BY <2>1, <2>3 DEF RingsFit
  <2>7. Fed'
    BY <2>1, <2>2, <2>3 DEF Fed
  <2> QED
    BY <2>4, <2>5, <2>6, <2>7
<1>5. CASE release_rx
  <2> DEFINE n == reserve(Cardinality(held), fill, FillSize)
  <2>1. PICK back \in Some(n, held) : fill' = fill \cup back /\ free' = free \cup (held \ back)
    BY <1>5 DEF release_rx
  <2>2. /\ held' = {} /\ pc = "stack" /\ pc' = "refill_after_release"
        /\ UNCHANGED <<nic, rx, owned, tx, sending, comp, dropped>>
    BY <1>5 DEF release_rx
  <2>3. Cardinality(held) \in Nat \ {0}
    BY <2>2, Part, held \in SUBSET held DEF TypeOK, Fed
  <2>4. n \in Nat /\ Cardinality(fill) + n =< FillSize /\ (fill = {} => n # 0)
    BY <1>0, <2>3, Reserved DEF TypeOK, RingsFit
  <2> HIDE DEF n
  <2>5. /\ back \subseteq held /\ Cardinality(back) \in Nat /\ Cardinality(back) =< n
        /\ n # 0 => back # {}
    BY <2>1, <2>2, <2>4, SomeOf DEF TypeOK, Fed
  <2>6. TypeOK'
    <3>1. Cardinality(held') =< BatchSize
      BY <1>0, <2>2, FS_EmptySet
    <3> QED
      BY <2>1, <2>2, <2>5, <3>1 DEF TypeOK
  <2>7. OneOwner'
    BY <2>1, <2>2, <2>5 DEF OneOwner, Disjoint
  <2>8. RingsFit'
    <3>1. Cardinality(fill') =< Cardinality(fill) + Cardinality(back)
      BY <2>1, <2>5, Join DEF TypeOK
    <3>2. Cardinality(fill) \in Nat /\ Cardinality(fill') \in Nat
      BY <2>1, <2>5, Part DEF TypeOK
    <3>3. Cardinality(fill') =< FillSize
      BY <1>0, <2>4, <2>5, <3>1, <3>2
    <3> QED
      BY <2>2, <3>3 DEF RingsFit
  <2>9. Fed'
    BY <2>1, <2>2, <2>4, <2>5 DEF Fed
  <2> QED
    BY <2>6, <2>7, <2>8, <2>9
<1>6. ASSUME NEW count \in 1..BatchSize, send_batch(count) PROVE IInv'
  <2> DEFINE n == reserve(count, tx, TxSize)
  <2>1. PICK zerocopy \in SUBSET owned, copy \in SUBSET free :
          /\ Cardinality(zerocopy) + Cardinality(copy) \in 1..n
          /\ tx' = tx \cup zerocopy \cup copy
          /\ owned' = owned \ zerocopy /\ free' = free \ copy
    BY <1>6 DEF send_batch
  <2>2. UNCHANGED <<fill, nic, rx, held, sending, comp, pc, dropped>> /\ pc \in {"idle", "stack"}
    BY <1>6 DEF send_batch
  <2>3. n \in Nat /\ Cardinality(tx) + n =< TxSize
    BY <1>0, Reserved DEF TypeOK, RingsFit
  <2> HIDE DEF n
  <2>4. TypeOK'
    BY <2>1, <2>2 DEF TypeOK
  <2>5. OneOwner'
    BY <2>1, <2>2 DEF OneOwner, Disjoint
  <2>6. RingsFit'
    <3>1. /\ Cardinality(tx \cup zerocopy) =< Cardinality(tx) + Cardinality(zerocopy)
          /\ tx \cup zerocopy \in SUBSET Frames
      BY Join DEF TypeOK
    <3>2. Cardinality(tx') =< Cardinality(tx \cup zerocopy) + Cardinality(copy)
      BY <2>1, <3>1, Join DEF TypeOK
    <3>3. /\ Cardinality(tx) \in Nat /\ Cardinality(zerocopy) \in Nat /\ Cardinality(copy) \in Nat
          /\ Cardinality(tx \cup zerocopy) \in Nat /\ Cardinality(tx') \in Nat
      BY <2>1, <3>1, Part DEF TypeOK
    <3>4. Cardinality(tx') =< TxSize
      BY <1>0, <2>1, <2>3, <3>1, <3>2, <3>3
    <3> QED
      BY <2>2, <3>4 DEF RingsFit
  <2>7. Fed'
    BY <2>2 DEF Fed
  <2> QED
    BY <2>4, <2>5, <2>6, <2>7
<1>7. CASE alloc_frame
  <2>1. TypeOK'
    BY <1>7 DEF alloc_frame, TypeOK
  <2>2. OneOwner'
    BY <1>7 DEF alloc_frame, OneOwner, Disjoint
  <2>3. RingsFit' /\ Fed'
    BY <1>7 DEF alloc_frame, RingsFit, Fed
  <2> QED
    BY <2>1, <2>2, <2>3
<1>8. CASE free_frame
  <2>1. TypeOK'
    BY <1>8 DEF free_frame, TypeOK
  <2>2. OneOwner'
    BY <1>8 DEF free_frame, OneOwner, Disjoint
  <2>3. RingsFit' /\ Fed'
    BY <1>8 DEF free_frame, RingsFit, Fed
  <2> QED
    BY <2>1, <2>2, <2>3
<1>9. CASE kernel_take
  <2>1. PICK f \in fill : fill' = fill \ {f} /\ nic' = nic \cup {f}
    BY <1>9 DEF kernel_take
  <2>2. UNCHANGED <<free, rx, held, owned, tx, sending, comp, pc, dropped>>
    BY <1>9 DEF kernel_take
  <2>3. TypeOK'
    BY <2>1, <2>2 DEF TypeOK
  <2>4. OneOwner'
    BY <2>1, <2>2 DEF OneOwner, Disjoint
  <2>5. RingsFit'
    <3>1. Cardinality(fill') =< Cardinality(fill) /\ Cardinality(fill) \in Nat /\ Cardinality(fill') \in Nat
      BY <2>1, Part DEF TypeOK
    <3> QED
      BY <1>0, <2>2, <3>1 DEF RingsFit
  <2>6. Fed'
    BY <2>1, <2>2 DEF Fed
  <2> QED
    BY <2>3, <2>4, <2>5, <2>6
<1>10. CASE kernel_receive
  <2>1. PICK f \in nic : nic' = nic \ {f} /\ rx' = rx \cup {f}
    BY <1>10 DEF kernel_receive
  <2>2. /\ UNCHANGED <<free, fill, held, owned, tx, sending, comp, pc, dropped>>
        /\ Cardinality(rx) < RxSize
    BY <1>10 DEF kernel_receive
  <2>3. TypeOK'
    BY <2>1, <2>2 DEF TypeOK
  <2>4. OneOwner'
    BY <2>1, <2>2 DEF OneOwner, Disjoint
  <2>5. RingsFit'
    <3>1. /\ Cardinality(rx') =< Cardinality(rx) + 1
          /\ Cardinality(rx) \in Nat /\ Cardinality(rx') \in Nat
      BY <2>1, Arrive, Part DEF TypeOK
    <3> QED
      BY <1>0, <2>2, <3>1 DEF RingsFit
  <2>6. Fed'
    BY <2>1, <2>2 DEF Fed
  <2> QED
    BY <2>3, <2>4, <2>5, <2>6
<1>11. CASE kernel_transmit
  <2>1. PICK f \in tx : tx' = tx \ {f} /\ sending' = sending \cup {f}
    BY <1>11 DEF kernel_transmit
  <2>2. /\ UNCHANGED <<free, fill, nic, rx, held, owned, comp, pc, dropped>>
        /\ Cardinality(comp) + Cardinality(sending) < CompSize
    BY <1>11 DEF kernel_transmit
  <2>3. TypeOK'
    BY <2>1, <2>2 DEF TypeOK
  <2>4. OneOwner'
    BY <2>1, <2>2 DEF OneOwner, Disjoint
  <2>5. RingsFit'
    <3>1. /\ Cardinality(tx') =< Cardinality(tx)
          /\ Cardinality(sending') =< Cardinality(sending) + 1
      BY <2>1, Arrive, Part DEF TypeOK
    <3>2. /\ Cardinality(tx) \in Nat /\ Cardinality(tx') \in Nat /\ Cardinality(comp) \in Nat
          /\ Cardinality(sending) \in Nat /\ Cardinality(sending') \in Nat
      BY <2>1, <2>2, <2>3, Part DEF TypeOK
    <3> QED
      BY <1>0, <2>2, <3>1, <3>2 DEF RingsFit
  <2>6. Fed'
    BY <2>2 DEF Fed
  <2> QED
    BY <2>3, <2>4, <2>5, <2>6
<1>12. CASE kernel_complete
  <2>1. PICK f \in sending : sending' = sending \ {f} /\ comp' = comp \cup {f}
    BY <1>12 DEF kernel_complete
  <2>2. UNCHANGED <<free, fill, nic, rx, held, owned, tx, pc, dropped>>
    BY <1>12 DEF kernel_complete
  <2>3. TypeOK'
    BY <2>1, <2>2 DEF TypeOK
  <2>4. OneOwner'
    BY <2>1, <2>2 DEF OneOwner, Disjoint
  <2>5. RingsFit'
    <3>1. /\ Cardinality(sending') = Cardinality(sending) - 1
          /\ Cardinality(comp') =< Cardinality(comp) + 1
      BY <2>1, Arrive, Move DEF TypeOK
    <3>2. /\ Cardinality(comp) \in Nat /\ Cardinality(comp') \in Nat
          /\ Cardinality(sending) \in Nat /\ Cardinality(sending') \in Nat
      BY <2>1, <2>2, <2>3, Part DEF TypeOK
    <3> QED
      BY <1>0, <2>2, <3>1, <3>2 DEF RingsFit
  <2>6. Fed'
    BY <2>2 DEF Fed
  <2> QED
    BY <2>3, <2>4, <2>5, <2>6
<1>13. CASE UNCHANGED vars
  BY <1>13 DEF vars, TypeOK, OneOwner, Disjoint, RingsFit, Fed
<1> QED
  BY <1>1, <1>2, <1>3, <1>4, <1>5, <1>6, <1>7, <1>8, <1>9, <1>10, <1>11, <1>12, <1>13
     DEF Next, run

-----------------------------------------------------------------------------
(* The theorems.                                                           *)

LEMMA SpecInv == Spec => []IInv
  BY InitHolds, StepHolds, PTL DEF Spec

\* The frames' sets and the batch stay in range: recv_batch never writes past
\* the run loop's array.
THEOREM TypeCorrect == Spec => []TypeOK
  BY SpecInv, PTL DEF IInv

\* No frame is lost, freed twice or given to two owners.
THEOREM EveryFrameOwnedOnce == Spec => []OneOwner
  BY SpecInv, PTL DEF IInv

\* No ring is ever overrun.
THEOREM RingsNeverOverrun == Spec => []RingsFit
  BY SpecInv, PTL DEF IInv

\* The run loop never leaves the kernel without a buffer and without a packet
\* to report: reception cannot die of frames lost to filtering or to sending.
THEOREM ReceptionNeverStarves == Spec => []ReceptionFed
<1>1. IInv => ReceptionFed
  BY DEF IInv, Fed, ReceptionFed
<1> QED
  BY <1>1, SpecInv, PTL

-----------------------------------------------------------------------------
(* The queue.                                                              *)

(* ---- remainders ---- *)

LEMMA Remainder ==
  ASSUME NEW S \in Nat \ {0}, NEW x \in Int
  PROVE  /\ x \in 0..(S - 1) => x % S = x
         /\ x \in S..(2 * S - 1) => x % S = x - S
         /\ x \in (-S)..(-1) => x % S = x + S
<1>1. ASSUME x \in 0..(S - 1) PROVE x % S = x
  BY <1>1
<1>2. ASSUME x \in S..(2 * S - 1) PROVE x % S = x - S
  BY <1>2
<1>3. ASSUME x \in (-S)..(-1) PROVE x % S = x + S
  BY <1>3
<1>4. QED
  BY <1>1, <1>2, <1>3

\* The space is at least two turns of the ring.
LEMMA Space ==
  /\ N \in Nat \ {0}
  /\ IndexSpace \in Nat \ {0}
  /\ IndexSpace > N
<1>1. PICK k \in 2 .. IndexSpace : IndexSpace = k * N
  BY SpscAssumption
<1>2. N \in Nat /\ N > 0 /\ IndexSpace \in Nat
  BY SpscAssumption
<1>3. k \in Nat /\ k >= 2
  BY <1>1, <1>2
<1>4. k * N >= 2 * N
  BY <1>2, <1>3, SMT
<1>5. QED
  BY <1>1, <1>2, <1>4

LEMMA SlotType ==
  ASSUME NEW x \in Nat
  PROVE  Slot(x) \in 0 .. N - 1
BY Space DEF Slot

\* A number is one multiple of N and a remainder in only one way.
LEMMA UniqueRemainder ==
  ASSUME NEW q \in Int, NEW r \in 0 .. N - 1
  PROVE  (q * N + r) % N = r
<1> DEFINE x == q * N + r
<1>1. N \in Nat /\ N > 0 /\ r \in Nat /\ r < N
  BY Space
<1>2. q * N \in Int
  BY <1>1
<1>3. x \in Int
  BY <1>1, <1>2
<1> DEFINE d == x \div N
           m == x % N
<1>4. d \in Int /\ m \in 0 .. N - 1 /\ x = N * d + m
  BY <1>1, <1>3
<1> HIDE DEF d, m
<1>5. q * N + r = d * N + m
  BY <1>4, <1>1 DEF x
<1>6. CASE q = d
  BY <1>5, <1>6, <1>1, <1>4 DEF m
<1>7. CASE q < d
  <2>1. q + 1 <= d
    BY <1>7, <1>4
  <2>2. (q + 1) * N <= d * N
    BY <2>1, <1>1, <1>4
  <2>3. q * N + N <= d * N
    BY <2>2, <1>1
  <2>4. QED
    BY <2>3, <1>5, <1>1, <1>2, <1>4
<1>8. CASE q > d
  <2>1. d + 1 <= q
    BY <1>8, <1>4
  <2>2. (d + 1) * N <= q * N
    BY <2>1, <1>1, <1>4
  <2>3. d * N + N <= q * N
    BY <2>2, <1>1, <1>4
  <2>4. QED
    BY <2>3, <1>5, <1>1, <1>2, <1>4
<1>9. QED
  BY <1>4, <1>6, <1>7, <1>8

\* Wrapping the index does not change its slot: the ring divides the space.
LEMMA SlotWraps ==
  ASSUME NEW x \in Nat, x >= IndexSpace
  PROVE  Slot(x - IndexSpace) = Slot(x)
<1>1. PICK k \in 2 .. IndexSpace : IndexSpace = k * N
  BY SpscAssumption
<1>2. N \in Nat /\ N > 0 /\ k \in Nat /\ IndexSpace \in Nat
  BY <1>1, Space
<1> DEFINE y == x - IndexSpace
           d == y \div N
           m == y % N
<1>3. y \in Nat /\ x = y + IndexSpace
  BY <1>2
<1>4. d \in Int /\ m \in 0 .. N - 1 /\ y = N * d + m
  BY <1>2, <1>3
<1> HIDE DEF d, m
<1>5. x = (d + k) * N + m
  <2>1. (d + k) * N = N * d + k * N
    BY <1>2, <1>4
  <2>2. QED
    BY <2>1, <1>1, <1>2, <1>3, <1>4
<1>6. ((d + k) * N + m) % N = m
  <2>1. d + k \in Int
    BY <1>2, <1>4
  <2>2. QED
    BY <2>1, <1>4, UniqueRemainder
<1>7. QED
  BY <1>5, <1>6 DEF Slot, m

\* Positions less than a turn apart have different slots.
LEMMA SlotsDiffer ==
  ASSUME NEW x \in Nat, NEW k \in 1 .. N - 1
  PROVE  Slot(x + k) # Slot(x)
<1>1. N \in Nat /\ N > 0 /\ k \in Nat /\ k > 0 /\ k < N
  BY Space
<1> DEFINE d == x \div N
           m == x % N
<1>2. d \in Int /\ m \in 0 .. N - 1 /\ x = N * d + m
  BY <1>1
<1>m. Slot(x) = m
  BY DEF Slot
<1> HIDE DEF d, m
<1>3. x = d * N + m /\ x + k = d * N + (m + k)
  BY <1>1, <1>2
<1>4. CASE m + k < N
  <2>1. m + k \in 0 .. N - 1
    BY <1>1, <1>2, <1>4
  <2>2. (d * N + (m + k)) % N = m + k
    BY <1>2, <2>1, UniqueRemainder
  <2>3. Slot(x + k) = m + k
    BY <2>2, <1>3 DEF Slot
  <2>4. QED
    BY <2>3, <1>m, <1>1, <1>2
<1>5. CASE m + k >= N
  <2>1. x + k = (d + 1) * N + (m + k - N)
    BY <1>1, <1>2, <1>3
  <2>2. m + k - N \in 0 .. N - 1 /\ d + 1 \in Int
    BY <1>1, <1>2, <1>5
  <2>3. ((d + 1) * N + (m + k - N)) % N = m + k - N
    BY <2>2, UniqueRemainder
  <2>4. Slot(x + k) = m + k - N
    BY <2>1, <2>3 DEF Slot
  <2>5. QED
    BY <2>4, <1>m, <1>1, <1>2
<1>6. QED
  BY <1>1, <1>2, <1>4, <1>5

(* ---- indices ---- *)

\* The positions one index may take.
Pos == 0 .. IndexSpace - 1

LEMMA Advance ==
  ASSUME NEW p \in Pos
  PROVE  /\ advance(p) \in Pos
         /\ advance(p) = IF p + 1 < IndexSpace THEN p + 1 ELSE p + 1 - IndexSpace
<1>1. IndexSpace \in Nat \ {0} /\ p + 1 \in Int /\ p + 1 \in 0 .. IndexSpace
  BY Space DEF Pos
<1> DEFINE x == p + 1
<1> HIDE DEF x
<1>2. /\ x \in 0 .. (IndexSpace - 1) => x % IndexSpace = x
      /\ x \in IndexSpace .. (2 * IndexSpace - 1) => x % IndexSpace = x - IndexSpace
  BY <1>1, Remainder DEF x
<1>3. advance(p) = x % IndexSpace
  BY DEF advance, x
<1>4. QED
  BY <1>1, <1>2, <1>3 DEF x, Pos

\* The unsigned difference of two indices.
LEMMA Distance ==
  ASSUME NEW w \in Pos, NEW r \in Pos
  PROVE  (w - r) % IndexSpace = IF w >= r THEN w - r ELSE w - r + IndexSpace
<1>1. IndexSpace \in Nat \ {0} /\ w - r \in Int
  BY Space DEF Pos
<1> DEFINE x == w - r
<1> HIDE DEF x
<1>2. /\ x \in 0 .. (IndexSpace - 1) => x % IndexSpace = x
      /\ x \in (-IndexSpace) .. (-1) => x % IndexSpace = x + IndexSpace
  BY <1>1, Remainder DEF x
<1>3. w \in Int /\ r \in Int /\ 0 <= w /\ 0 <= r /\ w < IndexSpace /\ r < IndexSpace
  BY <1>1 DEF Pos
<1>4. x % IndexSpace = IF x >= 0 THEN x ELSE x + IndexSpace
  BY <1>1, <1>2, <1>3 DEF x
<1>5. QED
  BY <1>3, <1>4 DEF x

\* One more item moves the writer one further, one less the reader, and the slot
\* to be written is the one after the last item.
LEMMA Steps ==
  ASSUME NEW w \in Pos, NEW r \in Pos, NEW n \in 0 .. N, n = (w - r) % IndexSpace
  PROVE  /\ n < N => (advance(w) - r) % IndexSpace = n + 1
         /\ n > 0 => (w - advance(r)) % IndexSpace = n - 1
         /\ Slot(w) = Slot(r + n)
         /\ r = w <=> n = 0
<1>1. /\ IndexSpace \in Nat /\ N \in Nat /\ N < IndexSpace /\ N > 0
      /\ w \in Nat /\ r \in Nat /\ n \in Nat
      /\ w < IndexSpace /\ r < IndexSpace /\ n <= N
  BY Space DEF Pos
<1>2. n = IF w >= r THEN w - r ELSE w - r + IndexSpace
  BY Distance
<1>3. n < N => (advance(w) - r) % IndexSpace = n + 1
  <2>1. advance(w) \in Pos
    BY Advance
  <2>2. advance(w) = IF w + 1 < IndexSpace THEN w + 1 ELSE w + 1 - IndexSpace
    BY Advance
  <2>3. (advance(w) - r) % IndexSpace
          = IF advance(w) >= r THEN advance(w) - r ELSE advance(w) - r + IndexSpace
    BY <2>1, Distance
  <2>4. QED
    BY <1>1, <1>2, <2>2, <2>3
<1>4. n > 0 => (w - advance(r)) % IndexSpace = n - 1
  <2>1. advance(r) \in Pos
    BY Advance
  <2>2. advance(r) = IF r + 1 < IndexSpace THEN r + 1 ELSE r + 1 - IndexSpace
    BY Advance
  <2>3. (w - advance(r)) % IndexSpace
          = IF w >= advance(r) THEN w - advance(r) ELSE w - advance(r) + IndexSpace
    BY <2>1, Distance
  <2>4. QED
    BY <1>1, <1>2, <2>2, <2>3
<1>5. Slot(w) = Slot(r + n)
  <2>1. CASE w >= r
    <3>1. r + n = w
      BY <1>1, <1>2, <2>1
    <3>2. QED
      BY <3>1
  <2>2. CASE w < r
    <3> DEFINE x == r + n
    <3>1. x \in Nat /\ x >= IndexSpace /\ w = x - IndexSpace
      BY <1>1, <1>2, <2>2
    <3> HIDE DEF x
    <3>2. Slot(x - IndexSpace) = Slot(x)
      BY <3>1, SlotWraps
    <3>3. QED
      BY <3>1, <3>2 DEF x
  <2>3. QED
    BY <1>1, <2>1, <2>2
<1>6. r = w <=> n = 0
  BY <1>1, <1>2
<1>7. QED
  BY <1>3, <1>4, <1>5, <1>6

(* ---- the invariant ---- *)

\* What a call in progress may rely on: the room or the item it found is still
\* there, whatever the other thread has done since.
Busy ==
  /\ push_pc # "idle" => size < N /\ push_item \in Values
  /\ push_pc = "publish" => buffer[Slot(write_pos)] = push_item
  /\ pop_pc # "idle" => size > 0
  /\ pop_pc = "release" => pop_item = buffer[Slot(read_pos)]

QueueInv == QueueTypeOK /\ Busy

LEMMA InitInv == QueueInit => QueueInv
<1> SUFFICES ASSUME QueueInit PROVE QueueInv
  OBVIOUS
<1>1. IndexSpace \in Nat /\ N \in Nat /\ N < IndexSpace /\ N > 0
  BY Space
<1>2. 0 \in Pos
  BY <1>1 DEF Pos
<1>3. size = 0
  BY <1>1, <1>2, Distance DEF QueueInit, size
<1>4. QueueTypeOK
  BY <1>1, <1>3 DEF QueueInit, QueueTypeOK
<1>5. QED
  BY <1>4 DEF QueueInit, QueueInv, Busy

\* What the lemmas on indices say of the present state.
LEMMA StateFacts ==
  ASSUME QueueTypeOK
  PROVE  /\ size \in Nat /\ N \in Nat \ {0} /\ size <= N
         /\ read_pos \in Pos /\ write_pos \in Pos
         /\ Slot(read_pos) \in 0 .. N - 1 /\ Slot(write_pos) \in 0 .. N - 1
         /\ Slot(write_pos) = Slot(read_pos + size)
         /\ read_pos = write_pos <=> size = 0
<1>1. read_pos \in Pos /\ write_pos \in Pos /\ size \in 0 .. N
  BY DEF QueueTypeOK, Pos
<1>2. read_pos \in Nat /\ write_pos \in Nat /\ N \in Nat \ {0}
  BY <1>1, Space DEF Pos
<1>3. /\ Slot(write_pos) = Slot(read_pos + size)
      /\ read_pos = write_pos <=> size = 0
  BY <1>1, Steps DEF size
<1>4. QED
  BY <1>1, <1>2, <1>3, SlotType

\* The slot being written is none of those that hold an item.
LEMMA FreeSlot ==
  ASSUME QueueTypeOK, size < N, NEW i \in 1 .. size
  PROVE  Slot(read_pos + i - 1) # Slot(write_pos)
<1>1. /\ size \in Nat /\ N \in Nat /\ read_pos \in Nat
      /\ Slot(write_pos) = Slot(read_pos + size)
  BY StateFacts, Space DEF Pos
<1> DEFINE x == read_pos + i - 1
           k == size - i + 1
<1>2. x \in Nat /\ k \in 1 .. N - 1 /\ x + k = read_pos + size
  BY <1>1
<1> HIDE DEF x, k
<1>3. Slot(x + k) # Slot(x)
  BY <1>2, SlotsDiffer
<1>4. QED
  BY <1>1, <1>2, <1>3 DEF x

LEMMA NextInv == QueueInv /\ [QueueNext]_queueVars => QueueInv'
<1> SUFFICES ASSUME QueueInv, [QueueNext]_queueVars PROVE QueueInv'
  OBVIOUS
<1>0. QueueTypeOK /\ Busy
  BY DEF QueueInv
<1>f. /\ size \in Nat /\ N \in Nat \ {0} /\ size <= N /\ size \in 0 .. N
      /\ read_pos \in Pos /\ write_pos \in Pos
      /\ Slot(read_pos) \in 0 .. N - 1 /\ Slot(write_pos) \in 0 .. N - 1
      /\ read_pos = write_pos <=> size = 0
  BY <1>0, StateFacts
<1>1. ASSUME NEW v \in Values, try_push(v) PROVE QueueInv'
  <2>1. size' = size /\ (size < N \/ push_pc' = "idle")
    BY <1>0, <1>1, <1>f DEF try_push, size, QueueTypeOK
  <2>2. QueueTypeOK'
    BY <1>0, <1>1, <2>1 DEF try_push, QueueTypeOK, consumer
  <2>3. Busy'
    BY <1>0, <1>1, <2>1 DEF try_push, QueueTypeOK, Busy, consumer
  <2>4. QED
    BY <2>2, <2>3 DEF QueueInv
<1>2. ASSUME push_write PROVE QueueInv'
  <2>1. size' = size
    BY <1>2 DEF push_write, size
  <2>2. push_item \in Values /\ size < N
    BY <1>0, <1>2 DEF push_write, Busy
  <2>3. QueueTypeOK'
    BY <1>0, <1>2, <2>1, <2>2, <1>f DEF push_write, QueueTypeOK, consumer
  <2>4. buffer'[Slot(write_pos)] = push_item
    BY <1>0, <1>2, <1>f DEF push_write, QueueTypeOK
  <2>5. pop_pc = "release" => buffer'[Slot(read_pos)] = buffer[Slot(read_pos)]
    <3> HAVE pop_pc = "release"
    <3>1. size > 0
      BY <1>0 DEF Busy
    <3>2. 1 \in 1 .. size /\ read_pos + 1 - 1 = read_pos
      BY <3>1, <1>f, Space DEF Pos
    <3>3. Slot(read_pos) # Slot(write_pos)
      BY <1>0, <2>2, <3>2, FreeSlot
    <3>4. QED
      BY <1>0, <1>2, <3>3, <1>f DEF push_write, QueueTypeOK
  <2>6. Busy'
    BY <1>0, <1>2, <2>1, <2>2, <2>4, <2>5 DEF push_write, Busy, consumer
  <2>7. QED
    BY <2>3, <2>6 DEF QueueInv
<1>3. ASSUME push_publish PROVE QueueInv'
  <2>1. size < N
    BY <1>0, <1>3 DEF push_publish, Busy
  <2>2. size' = size + 1 /\ write_pos' \in Pos
    BY <1>3, <1>f, <2>1, Steps, Advance DEF push_publish, size
  <2>3. QueueTypeOK'
    BY <1>0, <1>3, <1>f, <2>1, <2>2 DEF push_publish, QueueTypeOK, consumer, Pos
  <2>4. Busy'
    BY <1>0, <1>3, <1>f, <2>2 DEF push_publish, Busy, consumer
  <2>5. QED
    BY <2>3, <2>4 DEF QueueInv
<1>4. ASSUME try_pop PROVE QueueInv'
  <2>1. size' = size /\ (size > 0 \/ pop_pc' = "idle")
    BY <1>0, <1>4, <1>f DEF try_pop, size
  <2>2. QueueTypeOK'
    BY <1>0, <1>4, <2>1 DEF try_pop, QueueTypeOK, producer
  <2>3. Busy'
    BY <1>0, <1>4, <2>1 DEF try_pop, Busy, producer
  <2>4. QED
    BY <2>2, <2>3 DEF QueueInv
<1>5. ASSUME pop_copy PROVE QueueInv'
  <2>1. size' = size
    BY <1>5 DEF pop_copy, size
  <2>2. QueueTypeOK'
    BY <1>0, <1>5, <1>f, <2>1 DEF pop_copy, QueueTypeOK, producer
  <2>3. Busy'
    BY <1>0, <1>5, <2>1 DEF pop_copy, Busy, producer
  <2>4. QED
    BY <2>2, <2>3 DEF QueueInv
<1>6. ASSUME pop_release PROVE QueueInv'
  <2>1. size > 0
    BY <1>0, <1>6 DEF pop_release, Busy
  <2>2. size' = size - 1 /\ read_pos' \in Pos
    BY <1>6, <1>f, <2>1, Steps, Advance DEF pop_release, size
  <2>3. QueueTypeOK'
    BY <1>0, <1>6, <1>f, <2>1, <2>2 DEF pop_release, QueueTypeOK, producer, Pos
  <2>4. Busy'
    BY <1>0, <1>6, <1>f, <2>2 DEF pop_release, Busy, producer
  <2>5. QED
    BY <2>3, <2>4 DEF QueueInv
<1>7. ASSUME UNCHANGED queueVars PROVE QueueInv'
  <2>1. size' = size
    BY <1>7 DEF queueVars, size
  <2>2. QED
    BY <1>0, <1>7, <2>1 DEF queueVars, producer, consumer, QueueInv, QueueTypeOK, Busy
<1>8. QED
  BY <1>1, <1>2, <1>3, <1>4, <1>5, <1>6, <1>7 DEF QueueNext

LEMMA Invariance == QueueSpec => []QueueInv
BY InitInv, NextInv, PTL DEF QueueSpec

(* QueueTypeOK, with the bound of N on the distance of the indices (the tests of    *)
(* lines 29 and 44 of spsc_queue.hpp), for every ring and every index width.   *)
THEOREM QueueTypeCorrect == QueueSpec => []QueueTypeOK
BY Invariance, PTL DEF QueueInv

(* The producer's assignment to a slot (line 31) never meets the consumer's    *)
(* copy out of it (line 46).                                                   *)
THEOREM SlotsNeverShared == QueueSpec => []NoDataRace
<1>1. QueueInv => NoDataRace
  <2> SUFFICES ASSUME QueueInv, push_pc = "write", pop_pc = "copy"
               PROVE  Slot(write_pos) # Slot(read_pos)
    BY DEF NoDataRace
  <2>1. QueueTypeOK /\ size < N /\ size > 0
    BY DEF QueueInv, Busy
  <2>2. 1 \in 1 .. size /\ read_pos + 1 - 1 = read_pos
    BY <2>1, StateFacts, Space DEF Pos
  <2>3. QED
    BY <2>1, <2>2, FreeSlot
<1>2. QED
  BY <1>1, Invariance, PTL

(* ---- refinement ---- *)

LEMMA ContentSeq ==
  QueueTypeOK => /\ content \in Seq(Values)
            /\ Len(content) = size
            /\ \A i \in 1 .. size : content[i] = buffer[Slot(read_pos + i - 1)]
<1> SUFFICES ASSUME QueueTypeOK
             PROVE  /\ content \in Seq(Values)
                    /\ Len(content) = size
                    /\ \A i \in 1 .. size : content[i] = buffer[Slot(read_pos + i - 1)]
  OBVIOUS
<1>1. size \in Nat /\ read_pos \in Nat /\ buffer \in [0 .. N - 1 -> Values]
  BY StateFacts, Space DEF QueueTypeOK, Pos
<1>2. \A i \in 1 .. size : buffer[Slot(read_pos + i - 1)] \in Values
  <2> TAKE i \in 1 .. size
  <2>1. read_pos + i - 1 \in Nat
    BY <1>1
  <2> DEFINE x == read_pos + i - 1
  <2> HIDE DEF x
  <2>2. Slot(x) \in 0 .. N - 1
    BY <2>1, SlotType DEF x
  <2>3. QED
    BY <1>1, <2>2 DEF x
<1>3. content \in [1 .. size -> Values]
  BY <1>2 DEF content
<1>4. content \in Seq(Values) /\ Len(content) = size
  BY <1>1, <1>3
<1>5. \A i \in 1 .. size : content[i] = buffer[Slot(read_pos + i - 1)]
  BY DEF content
<1>6. QED
  BY <1>4, <1>5

\* The copied item is the oldest one.
LEMMA Oldest ==
  ASSUME QueueInv, pop_pc = "release"
  PROVE  content # <<>> /\ Head(content) = pop_item
<1>1. /\ size > 0 /\ size \in Nat /\ read_pos \in Nat
      /\ pop_item = buffer[Slot(read_pos)]
  BY StateFacts, Space DEF QueueInv, Busy, Pos
<1>2. /\ content \in Seq(Values) /\ Len(content) = size
      /\ content[1] = buffer[Slot(read_pos + 1 - 1)]
  BY <1>1, ContentSeq DEF QueueInv
<1>3. QED
  BY <1>1, <1>2

\* Writing the free slot leaves the items alone.
LEMMA WriteHidden == QueueInv /\ QueueInv' /\ push_write => content' = content
<1> SUFFICES ASSUME QueueInv, QueueInv', push_write PROVE content' = content
  OBVIOUS
<1>1. QueueTypeOK /\ QueueTypeOK' /\ size < N
  BY DEF QueueInv, Busy, push_write
<1>2. size' = size /\ read_pos' = read_pos
  BY DEF push_write, size
<1>3. \A i \in 1 .. size : buffer'[Slot(read_pos + i - 1)] = buffer[Slot(read_pos + i - 1)]
  <2> TAKE i \in 1 .. size
  <2>1. size \in Nat /\ read_pos \in Nat
    BY <1>1, StateFacts, Space DEF Pos
  <2> DEFINE x == read_pos + i - 1
  <2>2. x \in Nat /\ Slot(x) # Slot(write_pos)
    BY <1>1, <2>1, FreeSlot
  <2> HIDE DEF x
  <2>3. Slot(x) \in 0 .. N - 1
    BY <2>2, SlotType
  <2>4. QED
    BY <1>1, <2>2, <2>3 DEF push_write, QueueTypeOK, x
<1>4. QED
  BY <1>2, <1>3 DEF content

\* Publishing appends the item.
LEMMA PublishPushes == QueueInv /\ QueueInv' /\ push_publish => Fifo!Push(push_item)
<1> SUFFICES ASSUME QueueInv, QueueInv', push_publish PROVE Fifo!Push(push_item)
  OBVIOUS
<1>1. /\ QueueTypeOK /\ QueueTypeOK' /\ size < N /\ push_item \in Values
      /\ buffer[Slot(write_pos)] = push_item
  BY DEF QueueInv, Busy, push_publish
<1>2. /\ size \in Nat /\ N \in Nat /\ read_pos \in Nat
      /\ Slot(write_pos) = Slot(read_pos + size)
  BY <1>1, StateFacts, Space DEF Pos
<1>3. size' = size + 1
  BY <1>1, StateFacts, Steps DEF push_publish, size, QueueTypeOK
<1>4. /\ content \in Seq(Values) /\ Len(content) = size
      /\ \A i \in 1 .. size : content[i] = buffer[Slot(read_pos + i - 1)]
  BY <1>1, ContentSeq
<1>5. /\ content' \in Seq(Values) /\ Len(content') = size + 1
      /\ \A i \in 1 .. size + 1 : content'[i] = buffer[Slot(read_pos + i - 1)]
  <2>1. /\ content' \in Seq(Values) /\ Len(content') = size'
        /\ \A i \in 1 .. size' : content'[i] = buffer'[Slot(read_pos' + i - 1)]
    <3>1. (QueueTypeOK => /\ content \in Seq(Values)
                     /\ Len(content) = size
                     /\ \A i \in 1 .. size : content[i] = buffer[Slot(read_pos + i - 1)])'
      BY ContentSeq, PTL
    <3>2. QED
      BY <1>1, <3>1
  <2>2. QED
    BY <2>1, <1>3 DEF push_publish
<1>6. content'[size + 1] = push_item
  <2>1. size + 1 \in 1 .. size + 1 /\ read_pos + (size + 1) - 1 = read_pos + size
    BY <1>2
  <2>2. QED
    BY <1>1, <1>2, <1>5, <2>1
<1>7. content' = Append(content, push_item)
  <2>1. Append(content, push_item) \in Seq(Values) /\ Len(Append(content, push_item)) = size + 1
    BY <1>1, <1>4
  <2>2. \A i \in 1 .. size + 1 : content'[i] = Append(content, push_item)[i]
    BY <1>1, <1>2, <1>4, <1>5, <1>6
  <2>3. QED
    BY <1>5, <2>1, <2>2, SeqEqual
<1>8. QED
  BY <1>1, <1>4, <1>7 DEF push_publish, Fifo!Push, consumer

\* Releasing removes the oldest item and hands it out.
LEMMA ReleasePops == QueueInv /\ QueueInv' /\ pop_release => Fifo!Pop
<1> SUFFICES ASSUME QueueInv, QueueInv', pop_release PROVE Fifo!Pop
  OBVIOUS
<1>1. QueueTypeOK /\ QueueTypeOK' /\ size > 0
  BY DEF QueueInv, Busy, pop_release
<1>2. /\ size \in Nat /\ N \in Nat /\ read_pos \in Pos /\ read_pos \in Nat
      /\ IndexSpace \in Nat
  BY <1>1, StateFacts, Space DEF Pos
<1>3. size' = size - 1
  <2>1. /\ write_pos \in Pos /\ size \in 0 .. N /\ size > 0
        /\ size = (write_pos - read_pos) % IndexSpace
    BY <1>1, StateFacts DEF size, QueueTypeOK
  <2>2. (write_pos - advance(read_pos)) % IndexSpace = size - 1
    BY <1>2, <2>1, Steps
  <2>3. write_pos' = write_pos /\ read_pos' = advance(read_pos)
    BY DEF pop_release
  <2> QED BY <2>2, <2>3 DEF size
<1>4. /\ content \in Seq(Values) /\ Len(content) = size
      /\ \A i \in 1 .. size : content[i] = buffer[Slot(read_pos + i - 1)]
  BY <1>1, ContentSeq
<1>5. /\ content' \in Seq(Values) /\ Len(content') = size - 1
      /\ \A i \in 1 .. size - 1 : content'[i] = buffer[Slot(read_pos' + i - 1)]
  <2>1. /\ content' \in Seq(Values) /\ Len(content') = size'
        /\ \A i \in 1 .. size' : content'[i] = buffer'[Slot(read_pos' + i - 1)]
    <3>1. (QueueTypeOK => /\ content \in Seq(Values)
                     /\ Len(content) = size
                     /\ \A i \in 1 .. size : content[i] = buffer[Slot(read_pos + i - 1)])'
      BY ContentSeq, PTL
    <3>2. QED
      BY <1>1, <3>1
  <2>2. QED
    BY <2>1, <1>3 DEF pop_release
<1>6. \A i \in 1 .. size - 1 : content'[i] = content[i + 1]
  <2> TAKE i \in 1 .. size - 1
  <2>1. i + 1 \in 1 .. size /\ read_pos + (i + 1) - 1 = read_pos + i
    BY <1>2
  <2>2. content[i + 1] = buffer[Slot(read_pos + i)]
    BY <1>4, <2>1
  <2>3. read_pos' = IF read_pos + 1 < IndexSpace THEN read_pos + 1
                                                 ELSE read_pos + 1 - IndexSpace
    BY <1>2, Advance DEF pop_release
  <2>4. Slot(read_pos' + i - 1) = Slot(read_pos + i)
    <3>1. CASE read_pos + 1 < IndexSpace
      <4>1. read_pos' + i - 1 = read_pos + i
        BY <1>2, <2>3, <3>1
      <4>2. QED
        BY <4>1
    <3>2. CASE read_pos + 1 >= IndexSpace
      <4> DEFINE x == read_pos + i
      <4>1. read_pos' + i - 1 = x - IndexSpace /\ x \in Nat /\ x >= IndexSpace
        BY <1>2, <2>3, <3>2
      <4> HIDE DEF x
      <4>2. Slot(x - IndexSpace) = Slot(x)
        BY <4>1, SlotWraps
      <4>3. QED
        BY <4>1, <4>2 DEF x
    <3>3. QED
      BY <1>2, <3>1, <3>2
  <2>5. QED
    BY <1>5, <2>2, <2>4
<1>7. content # <<>> /\ Head(content) = pop_item
  BY Oldest DEF pop_release
<1>8. content' = Tail(content)
  <2>1. /\ Tail(content) \in Seq(Values) /\ Len(Tail(content)) = size - 1
        /\ \A i \in 1 .. size - 1 : Tail(content)[i] = content[i + 1]
    BY <1>4, <1>7, HeadTailProperties
  <2>2. QED
    BY <1>5, <1>6, <2>1, SeqEqual
<1>9. QED
  BY <1>7, <1>8 DEF pop_release, Fifo!Pop, producer

LEMMA InitRefines == QueueInit => Fifo!Init
<1> SUFFICES ASSUME QueueInit PROVE Fifo!Init
  OBVIOUS
<1>1. QueueTypeOK /\ size = 0
  <2>1. QueueInv
    BY InitInv
  <2>2. QueueTypeOK /\ read_pos = write_pos
    BY <2>1 DEF QueueInv, QueueInit
  <2>3. QED
    BY <2>2, StateFacts
<1>2. content = <<>>
  BY <1>1, ContentSeq, EmptySeq
<1>3. QED
  BY <1>2 DEF QueueInit, Fifo!Init, None, Fifo!None

LEMMA StepRefines == QueueInv /\ QueueInv' /\ [QueueNext]_queueVars => [Fifo!Next]_(Fifo!fifo_vars)
<1> SUFFICES ASSUME QueueInv, QueueInv', [QueueNext]_queueVars PROVE Fifo!Next \/ UNCHANGED Fifo!fifo_vars
  OBVIOUS
<1>0. QueueTypeOK /\ Busy
  BY DEF QueueInv
<1>f. /\ size \in Nat /\ N \in Nat /\ size <= N
      /\ read_pos = write_pos <=> size = 0
      /\ content \in Seq(Values) /\ Len(content) = size
  BY <1>0, StateFacts, ContentSeq
<1>1. ASSUME NEW v \in Values, try_push(v)
      PROVE  Fifo!Next \/ UNCHANGED Fifo!fifo_vars
  <2>1. content' = content /\ pop_result' = pop_result
    BY <1>1 DEF try_push, content, size, consumer
  <2>2. CASE size >= N
    BY <1>1, <1>f, <2>1, <2>2 DEF try_push, Fifo!Next, Fifo!Refuse
  <2>3. CASE size < N
    BY <1>1, <1>f, <2>1, <2>3 DEF try_push, Fifo!fifo_vars
  <2>4. QED
    BY <1>f, <2>2, <2>3
<1>2. ASSUME push_write PROVE UNCHANGED Fifo!fifo_vars
  <2>1. content' = content
    BY <1>2, WriteHidden
  <2>2. QED
    BY <1>2, <2>1 DEF push_write, Fifo!fifo_vars, consumer
<1>3. ASSUME push_publish PROVE Fifo!Next
  <2>1. push_item \in Values
    BY <1>0, <1>3 DEF push_publish, Busy
  <2>2. QED
    BY <1>3, <2>1, PublishPushes DEF Fifo!Next
<1>4. ASSUME try_pop PROVE Fifo!Next \/ UNCHANGED Fifo!fifo_vars
  <2>1. content' = content /\ push_result' = push_result
    BY <1>4 DEF try_pop, content, size, producer
  <2>2. CASE read_pos = write_pos
    <3>1. content = <<>>
      BY <1>f, <2>2, EmptySeq
    <3>2. QED
      BY <1>4, <2>1, <2>2, <3>1 DEF try_pop, Fifo!Next, Fifo!FindEmpty, None, Fifo!None
  <2>3. CASE read_pos # write_pos
    BY <1>4, <2>1, <2>3 DEF try_pop, Fifo!fifo_vars
  <2>4. QED
    BY <2>2, <2>3
<1>5. ASSUME pop_copy PROVE UNCHANGED Fifo!fifo_vars
  BY <1>5 DEF pop_copy, content, size, producer, Fifo!fifo_vars
<1>6. ASSUME pop_release PROVE Fifo!Next
  BY <1>6, ReleasePops DEF Fifo!Next
<1>7. ASSUME UNCHANGED queueVars PROVE UNCHANGED Fifo!fifo_vars
  BY <1>7 DEF queueVars, producer, consumer, content, size, Fifo!fifo_vars
<1>8. QED
  BY <1>1, <1>2, <1>3, <1>4, <1>5, <1>6, <1>7 DEF QueueNext

(* try_push and try_pop in two threads behave as one bounded FIFO: every item  *)
(* published is handed out once, in order; false means full, or empty, at one  *)
(* moment of the call.                                                         *)
THEOREM QueueIsFifo == QueueSpec => ImplementsFifo
BY Invariance, InitRefines, StepRefines, PTL DEF ImplementsFifo, QueueSpec, Fifo!Spec
=============================================================================

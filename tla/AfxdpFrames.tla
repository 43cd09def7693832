---------------------------- MODULE AfxdpFrames ----------------------------
(***************************************************************************)
(* The UMEM frames of the AF_XDP device (src/hal/hal_linux_afxdp.cpp):     *)
(* who owns each frame as it goes round the free list, the fill ring, the  *)
(* kernel, the RX ring, the stack, the TX ring and the completion ring.    *)
(*                                                                         *)
(* The stack is one thread, the run loop of src/neustack.cpp; the kernel   *)
(* runs at any time.  Each producer or consumer index of a ring has one    *)
(* writer (xdp_ring.hpp), so between the load of the other side's index    *)
(* and the store of one's own the other side can only make more room or    *)
(* more entries: reserve..submit and peek..release are each one step, and  *)
(* kernel steps fall between the ring accesses of a handler.               *)
(*                                                                         *)
(* A frame is its chunk of the UMEM, whatever the offset in it; a ring is  *)
(* the set of the frames it holds, and its oldest entries are any of them. *)
(***************************************************************************)
EXTENDS Integers, FiniteSets

CONSTANTS Frames,                            \* the UMEM's frames
          FillSize, CompSize, RxSize, TxSize,\* the four rings' sizes
          BatchSize                          \* batch_size, and the run loop's

ASSUME FramesAssumption ==
  /\ IsFiniteSet(Frames) /\ Cardinality(Frames) >= 2
  /\ FillSize \in Nat \ {0} /\ CompSize \in Nat \ {0}
  /\ RxSize \in Nat \ {0} /\ TxSize \in Nat \ {0}
  /\ BatchSize \in Nat \ {0}

VARIABLES
  free,      \* UmemFrameAllocator: _free_list
  fill,      \* _fill_ring: buffers offered to the kernel
  nic,       \* taken from _fill_ring by the driver, waiting for a packet
  rx,        \* _rx_ring: received packets
  held,      \* the run loop's rx_descs: packets the stack is processing
  owned,     \* allocated through umem() by a zero-copy sender
  tx,        \* _tx_ring
  sending,   \* taken from _tx_ring, on the wire
  comp,      \* _comp_ring: transmitted
  pc,        \* the ring access at which the run loop is
  dropped    \* recv_batch: n - out, the packets that were not IPv4

rings == <<fill, rx, tx, comp>>
vars == <<free, fill, nic, rx, held, owned, tx, sending, comp, pc, dropped>>

Least(a, b) == IF a =< b THEN a ELSE b

\* What XdpRing's reserve answers: as many of count slots as are vacant.
reserve(count, ring, size) == Least(count, size - Cardinality(ring))

\* The sets of n entries, or of all when there are fewer.
Some(n, S) == {A \in SUBSET S : Cardinality(A) = Least(n, Cardinality(S))}

Init ==
  /\ \E A \in Some(reserve(Cardinality(Frames) \div 2, {}, FillSize), Frames) :
       fill = A /\ free = Frames \ A
  /\ nic = {} /\ rx = {} /\ held = {} /\ owned = {}
  /\ tx = {} /\ sending = {} /\ comp = {}
  /\ pc = "idle"
  /\ dropped = 0

-----------------------------------------------------------------------------
(* Handlers of the device, in the run loop's thread.                       *)

\* Move frames from the free list to the fill ring until n slots are filled
\* or alloc_frame returns INVALID_ADDR.
Offer(n) ==
  \E A \in Some(n, free) : fill' = fill \cup A /\ free' = free \ A

\* The number of free slots refill_fill_ring sees comes from reserve(0).
RefillCount ==
  LET avail == reserve(0, fill, FillSize)
  IN  IF avail >= FillSize \div 4 THEN 0
      ELSE reserve(FillSize \div 2 - avail, fill, FillSize)

refill_fill_ring == Offer(RefillCount)

\* Mutant: the entries are read, the ring is not released.
reclaim_completion_ring_unreleased ==
  /\ pc = "idle" /\ rx # {}
  /\ pc' = "refill"
  /\ UNCHANGED <<free, fill, nic, rx, held, owned, tx, sending, comp, dropped>>

\* recv_batch, when poll has reported a packet: reclaim_completion_ring.
reclaim_completion_ring ==
  /\ pc = "idle" /\ rx # {}
  /\ \E done \in Some(BatchSize, comp) :
       comp' = comp \ done /\ free' = free \cup done
  /\ pc' = "refill"
  /\ UNCHANGED <<fill, nic, rx, held, owned, tx, sending, dropped>>

refill ==
  /\ pc \in {"refill", "refill_after_release"}
  /\ refill_fill_ring
  /\ pc' = IF pc = "refill" THEN "peek" ELSE "idle"
  /\ UNCHANGED <<nic, rx, held, owned, tx, sending, comp, dropped>>

\* recv_batch's loop: the packets read that are IPv4 go to the caller, the
\* frames of the others to the free list.
recv_batch(max_count) ==
  /\ pc = "peek"
  /\ \E read \in Some(max_count, rx) : \E out \in SUBSET read :
       /\ rx' = rx \ read
       /\ held' = out
       /\ free' = free \cup (read \ out)
       /\ dropped' = Cardinality(read \ out)
       /\ pc' = IF read # out THEN "top_up" ELSE "stack"
  /\ UNCHANGED <<fill, nic, owned, tx, sending, comp>>

\* Mutant: the dropped packets' frames are left to the next refill.
top_up_none ==
  /\ pc = "top_up"
  /\ dropped' = 0
  /\ pc' = IF held = {} THEN "idle" ELSE "stack"
  /\ UNCHANGED <<free, fill, nic, rx, held, owned, tx, sending, comp>>

\* recv_batch's end: the packets dropped are made up for in the fill ring.
\* With nothing for the caller, the run loop skips release_rx.
top_up ==
  /\ pc = "top_up"
  /\ Offer(reserve(dropped, fill, FillSize))
  /\ dropped' = 0
  /\ pc' = IF held = {} THEN "idle" ELSE "stack"
  /\ UNCHANGED <<nic, rx, held, owned, tx, sending, comp>>

\* Mutant: the overflow loop starts at 0 instead of n.
release_rx_all_freed ==
  /\ pc = "stack"
  /\ \E back \in Some(reserve(Cardinality(held), fill, FillSize), held) :
       /\ fill' = fill \cup back
       /\ free' = free \cup held
  /\ held' = {}
  /\ pc' = "refill_after_release"
  /\ UNCHANGED <<nic, rx, owned, tx, sending, comp, dropped>>

\* Mutant: every frame is put in the fill ring, vacant slots or not.
release_rx_unreserved ==
  /\ pc = "stack"
  /\ fill' = fill \cup held
  /\ free' = free
  /\ held' = {}
  /\ pc' = "refill_after_release"
  /\ UNCHANGED <<nic, rx, owned, tx, sending, comp, dropped>>

\* The stack is done with the batch: its frames go back to the fill ring, those
\* that find no slot to the free list.
release_rx ==
  /\ pc = "stack"
  /\ \E back \in Some(reserve(Cardinality(held), fill, FillSize), held) :
       /\ fill' = fill \cup back
       /\ free' = free \cup (held \ back)
  /\ held' = {}
  /\ pc' = "refill_after_release"
  /\ UNCHANGED <<nic, rx, owned, tx, sending, comp, dropped>>

\* send and send_batch: from the run loop's timers or from the stack while it
\* processes a batch.  Descriptors are either zero-copy, of a frame the caller
\* owns, or copied to a new frame; the first for which the free list is empty
\* ends the batch.
send_batch(count) ==
  /\ pc \in {"idle", "stack"}
  /\ \E zerocopy \in SUBSET owned, copy \in SUBSET free :
       LET n == reserve(count, tx, TxSize)
           sent == Cardinality(zerocopy) + Cardinality(copy)
       IN  /\ sent \in 1..n
           /\ sent < n => copy = free
           /\ tx' = tx \cup zerocopy \cup copy
           /\ owned' = owned \ zerocopy
           /\ free' = free \ copy
  /\ UNCHANGED <<fill, nic, rx, held, sending, comp, pc, dropped>>

\* A zero-copy sender allocates a frame, or changes its mind.
alloc_frame ==
  /\ pc \in {"idle", "stack"}
  /\ \E f \in free : free' = free \ {f} /\ owned' = owned \cup {f}
  /\ UNCHANGED <<fill, nic, rx, held, tx, sending, comp, pc, dropped>>

free_frame ==
  /\ pc \in {"idle", "stack"}
  /\ \E f \in owned : owned' = owned \ {f} /\ free' = free \cup {f}
  /\ UNCHANGED <<fill, nic, rx, held, tx, sending, comp, pc, dropped>>

-----------------------------------------------------------------------------
(* The kernel.                                                             *)

\* The driver takes a buffer from the fill ring.
kernel_take ==
  /\ \E f \in fill : fill' = fill \ {f} /\ nic' = nic \cup {f}
  /\ UNCHANGED <<free, rx, held, owned, tx, sending, comp, pc, dropped>>

\* A packet arrives in one of them; with no vacant RX slot it is lost.
kernel_receive ==
  /\ Cardinality(rx) < RxSize
  /\ \E f \in nic : nic' = nic \ {f} /\ rx' = rx \cup {f}
  /\ UNCHANGED <<free, fill, held, owned, tx, sending, comp, pc, dropped>>

\* The kernel takes a packet to send once it has a completion slot for it.
kernel_transmit ==
  /\ Cardinality(comp) + Cardinality(sending) < CompSize
  /\ \E f \in tx : tx' = tx \ {f} /\ sending' = sending \cup {f}
  /\ UNCHANGED <<free, fill, nic, rx, held, owned, comp, pc, dropped>>

kernel_complete ==
  /\ \E f \in sending : sending' = sending \ {f} /\ comp' = comp \cup {f}
  /\ UNCHANGED <<free, fill, nic, rx, held, owned, tx, pc, dropped>>

run == \/ reclaim_completion_ring \/ refill
       \/ \E max_count \in {1, BatchSize} : recv_batch(max_count)
       \/ top_up \/ release_rx

Next ==
  \/ run
  \/ \E count \in 1..BatchSize : send_batch(count)
  \/ alloc_frame \/ free_frame
  \/ kernel_take \/ kernel_receive \/ kernel_transmit \/ kernel_complete

Spec == Init /\ [][Next]_vars

\* The run loop and the kernel do not stop; nothing makes packets arrive.
FairSpec ==
  /\ Spec
  /\ WF_vars(run)
  /\ WF_vars(kernel_take) /\ WF_vars(kernel_transmit) /\ WF_vars(kernel_complete)

-----------------------------------------------------------------------------
(* Properties.                                                             *)

\* The variables' types.  The batch fits the run loop's array rx_descs.
TypeOK ==
  /\ free \subseteq Frames /\ fill \subseteq Frames /\ nic \subseteq Frames
  /\ rx \subseteq Frames /\ held \subseteq Frames /\ owned \subseteq Frames
  /\ tx \subseteq Frames /\ sending \subseteq Frames /\ comp \subseteq Frames
  /\ pc \in {"idle", "refill", "peek", "top_up", "stack", "refill_after_release"}
  /\ dropped \in 0..BatchSize
  /\ Cardinality(held) =< BatchSize

Disjoint(A, B) == A \cap B = {}

\* Every frame has one owner at any time: none is lost, none is both free and
\* in flight or twice in flight (alloc_frame, free_frame and every ring access).
OneOwner ==
  /\ Frames = free \cup fill \cup nic \cup rx \cup held \cup owned \cup tx \cup sending \cup comp
  /\ Disjoint(free, fill \cup nic \cup rx \cup held \cup owned \cup tx \cup sending \cup comp)
  /\ Disjoint(fill, nic \cup rx \cup held \cup owned \cup tx \cup sending \cup comp)
  /\ Disjoint(nic, rx \cup held \cup owned \cup tx \cup sending \cup comp)
  /\ Disjoint(rx, held \cup owned \cup tx \cup sending \cup comp)
  /\ Disjoint(held, owned \cup tx \cup sending \cup comp)
  /\ Disjoint(owned, tx \cup sending \cup comp)
  /\ Disjoint(tx, sending \cup comp)
  /\ Disjoint(sending, comp)

\* No ring ever holds more than its slots, so no entry is overwritten before
\* the other side has read it (XdpRing: submit =< reserve).
RingsFit ==
  /\ Cardinality(fill) =< FillSize
  /\ Cardinality(rx) =< RxSize
  /\ Cardinality(tx) =< TxSize
  /\ Cardinality(comp) + Cardinality(sending) =< CompSize

\* Between two rounds of the run loop the kernel has a buffer to receive in, or
\* a packet for the next round: however many packets are filtered out or sent,
\* reception cannot run out of frames for good.  The run loop calls recv_batch,
\* hence refill_fill_ring, only when poll reports a packet.
ReceptionFed == pc = "idle" => fill \cup nic \cup rx # {}

\* Again and again the driver has a buffer for the next packet.
ReceptionLives == []<>(nic # {})

\* As long as packets keep arriving, those that wait in the TX ring are sent:
\* the completion ring, which only recv_batch reclaims, does not block them.
TxDrains ==
  []<><<kernel_receive>>_vars =>
    []<>(tx = {}) \/ []<><<kernel_transmit>>_vars

\* Packets are received and sent for ever (recv_batch is the only place where
\* frames come back from either).
FramesKeepMoving == ReceptionLives /\ TxDrains

\* The comment of refill_fill_ring: it fills the ring up to half of its size.
\* A refill that adds frames leaves at most half of the slots taken.
RefillsToHalf ==
  [][refill => (fill' = fill \/ 2 * Cardinality(fill') =< FillSize)]_vars
=============================================================================

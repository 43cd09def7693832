------------------------------ MODULE Metrics ------------------------------
(* MetricsBuffer: the data plane's thread writes samples into a ring that      *)
(* forgets the oldest; SampleExporter reads it on the same thread, the         *)
(* intelligence plane on its own, slot by slot, while samples keep coming.     *)
EXTENDS Integers, Sequences, FiniteSets, FiniteSetsExt

CONSTANTS N,              \* slots of the ring
          READ_MAX,       \* samples the intelligence plane reads at once
          MAX_HISTORY,    \* samples it keeps
          Drawn,          \* samples tried: [rate, later], later than the one before or not
          MaxPushed       \* bound: samples pushed

ASSUME MetricsAssumption ==
  /\ N \in Nat \ {0} /\ {READ_MAX, MAX_HISTORY, MaxPushed} \subseteq Nat
  /\ Drawn \subseteq [rate: Nat, later: Nat]

VARIABLES ring_pos, ring,           \* _write_pos and _buffer
          push_pc, sample,          \* the producer: "idle", "writing", "publish"
          clock,                    \* the timestamp of the latest sample
          last_total, last_timestamp, exported, missed,   \* SampleExporter; missed is a ghost
          reading, reader_pc, last_read_count, current_count, index, end, samples,  \* the other thread
          sample_history, est_bw

producer == <<ring_pos, ring, push_pc, sample, clock>>
exporter == <<last_total, last_timestamp, exported>>
reader == <<reading, reader_pc, last_read_count, current_count, index, end, samples,
            sample_history, est_bw>>
metricsVars == <<producer, exporter, missed, reader>>

\* TCPSample: a timestamp and a rate; n, the how manieth it is, is a ghost.
None == [n |-> -1, timestamp_us |-> 0, delivery_rate |-> 0]

MetricsInit ==
  /\ ring_pos = 0 /\ ring = [slot \in 0 .. N - 1 |-> None]
  /\ push_pc = "idle" /\ sample = None /\ clock = 1
  /\ last_total = 0 /\ last_timestamp = 0 /\ exported = <<>> /\ missed = {}
  /\ reading = FALSE /\ reader_pc = "count" /\ last_read_count = 0 /\ current_count = 0
  /\ index = 0 /\ end = 0 /\ samples = <<>> /\ sample_history = <<>> /\ est_bw = 0

fewer(a, b) == IF a < b THEN a ELSE b
greatest(rates) == Max({0} \cup rates)

-----------------------------------------------------------------------------
\* push: the sample is copied into its slot, which holds neither the old nor the
\* new one meanwhile, and then published.
push ==
  /\ push_pc = "idle" /\ ring_pos < MaxPushed
  /\ \E drawn \in Drawn :
       /\ clock' = clock + drawn.later
       /\ sample' = [n |-> ring_pos, timestamp_us |-> clock', delivery_rate |-> drawn.rate]
  /\ ring' = [ring EXCEPT ![ring_pos % N] = None]
  /\ push_pc' = "writing"
  /\ UNCHANGED <<ring_pos, exporter, missed, reader>>

push_written ==
  /\ push_pc = "writing"
  /\ ring' = [ring EXCEPT ![ring_pos % N] = sample]
  /\ push_pc' = "publish"
  /\ UNCHANGED <<ring_pos, sample, clock, exporter, missed, reader>>

push_publish ==
  /\ push_pc = "publish"
  /\ ring_pos' = ring_pos + 1 /\ push_pc' = "idle"
  /\ missed' = IF ring_pos - N >= last_total THEN missed \cup {ring_pos - N} ELSE missed
  /\ UNCHANGED <<ring, sample, clock, exporter, reader>>

\* recent: from which position to which it copies.
recent(wanted, total) == LET count == fewer(wanted, fewer(total, N)) IN <<total - count, total>>

-----------------------------------------------------------------------------
\* Numbers in their order.
Ascending(S) ==
  [k \in 1 .. Cardinality(S) |-> CHOOSE i \in S : Cardinality({j \in S : j <= i}) = k]

\* export_new_samples, on the producer's thread.  Samples with the timestamp of
\* one already exported are taken for it.
export_new_samples ==
  LET range == recent(fewer(ring_pos - last_total, N), ring_pos)
      read == [k \in 1 .. range[2] - range[1] |-> ring[(range[1] + k - 1) % N]]
      fresh(k) == /\ read[k].timestamp_us > last_timestamp
                  /\ \A j \in 1 .. k - 1 : read[j].timestamp_us < read[k].timestamp_us
      rows == Ascending({k \in DOMAIN read : fresh(k)}) IN
  /\ push_pc = "idle" /\ ring_pos # last_total
  /\ exported' = exported \o [k \in DOMAIN rows |-> read[rows[k]]]
  /\ last_timestamp' = greatest({last_timestamp} \cup {read[k].timestamp_us : k \in DOMAIN read})
  /\ last_total' = ring_pos
  /\ UNCHANGED <<producer, missed, reader>>

-----------------------------------------------------------------------------
\* run_loop of the intelligence plane, which starts from nothing each time but
\* keeps its history.
start_plane ==
  /\ ~reading /\ reading' = TRUE
  /\ reader_pc' = "count" /\ last_read_count' = 0
  /\ UNCHANGED <<producer, exporter, missed, current_count, index, end, samples,
                 sample_history, est_bw>>

stop_plane ==
  /\ reading /\ reader_pc = "count" /\ reading' = FALSE
  /\ UNCHANGED <<producer, exporter, missed, reader_pc, last_read_count, current_count,
                 index, end, samples, sample_history, est_bw>>

total_pushed ==
  /\ reading /\ reader_pc = "count" /\ ring_pos > last_read_count
  /\ current_count' = ring_pos /\ reader_pc' = "recent"
  /\ UNCHANGED <<producer, exporter, missed, reading, last_read_count, index, end, samples,
                 sample_history, est_bw>>

\* The position is read again: what is copied may be newer than what was counted.
recent_range ==
  LET range == recent(fewer(current_count - last_read_count, READ_MAX), ring_pos) IN
  /\ reading /\ reader_pc = "recent"
  /\ index' = range[1] /\ end' = range[2] /\ samples' = <<>> /\ reader_pc' = "copy"
  /\ UNCHANGED <<producer, exporter, missed, reading, last_read_count, current_count,
                 sample_history, est_bw>>

copy ==
  /\ reading /\ reader_pc = "copy" /\ index < end
  /\ samples' = Append(samples, ring[index % N]) /\ index' = index + 1
  /\ UNCHANGED <<producer, exporter, missed, reading, reader_pc, last_read_count,
                 current_count, end, sample_history, est_bw>>

\* The history is cut to its length, and the bandwidth estimated anew if it is.
rates(history) == {history[k].delivery_rate : k \in DOMAIN history}

\* (mutant) the samples pushed while these were copied count as read
append_history_recounted ==
  LET longer == sample_history \o samples
      excess == Len(longer) - MAX_HISTORY IN
  /\ reading /\ reader_pc = "copy" /\ index = end
  /\ sample_history' = IF excess > 0 THEN SubSeq(longer, excess + 1, Len(longer)) ELSE longer
  /\ est_bw' = IF excess > 0 THEN greatest(rates(sample_history'))
               ELSE greatest({est_bw} \cup rates(samples))
  /\ last_read_count' = ring_pos /\ samples' = <<>> /\ reader_pc' = "count"
  /\ UNCHANGED <<producer, exporter, missed, reading, current_count, index, end>>

\* (mutant) the estimate keeps a maximum that has left the history
append_history_kept ==
  LET longer == sample_history \o samples
      excess == Len(longer) - MAX_HISTORY IN
  /\ reading /\ reader_pc = "copy" /\ index = end
  /\ sample_history' = IF excess > 0 THEN SubSeq(longer, excess + 1, Len(longer)) ELSE longer
  /\ est_bw' = greatest({est_bw} \cup rates(samples))
  /\ last_read_count' = current_count /\ samples' = <<>> /\ reader_pc' = "count"
  /\ UNCHANGED <<producer, exporter, missed, reading, current_count, index, end>>

append_history ==
  LET longer == sample_history \o samples
      excess == Len(longer) - MAX_HISTORY IN
  /\ reading /\ reader_pc = "copy" /\ index = end
  /\ sample_history' = IF excess > 0 THEN SubSeq(longer, excess + 1, Len(longer)) ELSE longer
  /\ est_bw' = IF excess > 0 THEN greatest(rates(sample_history'))
               ELSE greatest({est_bw} \cup rates(samples))
  /\ last_read_count' = current_count /\ samples' = <<>> /\ reader_pc' = "count"
  /\ UNCHANGED <<producer, exporter, missed, reading, current_count, index, end>>

run_loop == total_pushed \/ recent_range \/ copy \/ append_history

MetricsNext ==
  \/ push \/ push_written \/ push_publish \/ export_new_samples
  \/ start_plane \/ stop_plane \/ run_loop

MetricsSpec ==
  /\ MetricsInit /\ [][MetricsNext]_metricsVars
  /\ WF_metricsVars(run_loop) /\ WF_metricsVars(push_written \/ push_publish)

-----------------------------------------------------------------------------
MetricsTypeOK ==
  /\ ring_pos \in 0 .. MaxPushed /\ push_pc \in {"idle", "writing", "publish"}
  /\ reader_pc \in {"count", "recent", "copy"} /\ index <= end /\ end <= ring_pos
  /\ last_read_count <= ring_pos /\ Len(sample_history) <= MAX_HISTORY

\* The slot about to be copied holds the sample meant, unless the producer has
\* come round the whole ring since; it is never the one being written before.
CopiesWhatIsMeant ==
  reader_pc = "copy" /\ index < end => ring[index % N].n = index \/ ring_pos >= index + N

\* The estimated bandwidth is the largest in the history.
BandwidthOfHistory == est_bw = greatest(rates(sample_history))

\* What is exported is in the order it was pushed, once; what was pushed before
\* the last export is in it, unless it was overwritten first or has the
\* timestamp of a sample that is.
ExportsAll ==
  /\ \A j, k \in DOMAIN exported : j < k => exported[j].n < exported[k].n
  /\ \A n \in (0 .. last_total - 1) \ missed :
       LET slot == ring[n % N] IN
       \/ \E k \in DOMAIN exported : exported[k].n = n
       \/ slot.n = n => \E k \in DOMAIN exported : exported[k].timestamp_us = slot.timestamp_us

\* Whatever the other thread is in the middle of, both readers see the samples
\* that were pushed (ring_buffer.hpp:241).
SamplesIntact == CopiesWhatIsMeant /\ BandwidthOfHistory /\ ExportsAll

\* When the producer pauses, a running intelligence plane comes to know its
\* latest sample (last_read_count, intelligence_plane.cpp:112).
NewestSeen ==
  (<>[]reading /\ <>[][FALSE]_ring_pos) =>
    <>[](ring_pos > 0 => sample_history # <<>> /\ sample_history[Len(sample_history)].n = ring_pos - 1)
=============================================================================

----------------------------- MODULE Histogram -----------------------------
(* The Histogram of metric_types.hpp: threads observe values with one atomic   *)
(* access at a time while another takes a snapshot, field by field, and        *)
(* computes percentiles from it.  Every access is memory_order_relaxed, so that *)
(* accesses to different atomics are in no order, neither those of an          *)
(* observation, nor those of a thread's successive ones, nor the snapshot's:   *)
(* each is a step of its own, made at any time once the call has begun.        *)
EXTENDS Integers, Sequences, FiniteSets, FiniteSetsExt

CONSTANTS boundaries,      \* the upper ends of the buckets but the last, increasing
          Observable,      \* the values observed
          MaxObserved      \* bound: values observed

\* The constructor asserts that there is a boundary and that they increase.
ASSUME HistogramAssumption ==
  /\ boundaries \in Seq(Int) /\ boundaries # <<>>
  /\ \A i, j \in 1 .. Len(boundaries) : i < j => boundaries[i] < boundaries[j]
  /\ Observable \subseteq Nat /\ MaxObserved \in Nat

VARIABLES buckets, count, sum,           \* the atomics
          observed,                      \* history: the values, as their observations began
          bucketed, counted, summed,     \* the observations that have added to each atomic
          old_sum,                       \* of each observation: the sum it read last
          taking, snap_count, snap_sum, loaded, bucket_counts,   \* of the snapshot
          before                         \* history: the observations over as it was called

histogram == <<buckets, count, sum>>
observing == <<observed, bucketed, counted, summed, old_sum>>
snapping == <<taking, snap_count, snap_sum, loaded, bucket_counts, before>>
histogramVars == <<histogram, observing, snapping>>

bucket_count == Len(boundaries) + 1

\* A field that was not loaded yet.
Unread == -1

HistogramInit ==
  /\ buckets = [b \in 1 .. bucket_count |-> 0] /\ count = 0 /\ sum = 0
  /\ observed = <<>> /\ old_sum = <<>>
  /\ bucketed = {} /\ counted = {} /\ summed = {}
  /\ taking = FALSE /\ snap_count = Unread /\ snap_sum = Unread
  /\ loaded = [b \in 1 .. bucket_count |-> Unread] /\ bucket_counts = <<>> /\ before = {}

-----------------------------------------------------------------------------
\* observe: the bucket, the count, and the sum with a compare-and-exchange that
\* starts over from what it finds, and may fail for no reason.
bucket(v) == Min({b \in 1 .. bucket_count : b = bucket_count \/ v <= boundaries[b]})

begin(v) ==
  /\ Len(observed) < MaxObserved
  /\ observed' = Append(observed, v) /\ old_sum' = Append(old_sum, Unread)
  /\ UNCHANGED <<histogram, bucketed, counted, summed, snapping>>

add_bucket(i) ==
  /\ i \notin bucketed /\ bucketed' = bucketed \cup {i}
  /\ buckets' = [buckets EXCEPT ![bucket(observed[i])] = @ + 1]
  /\ UNCHANGED <<count, sum, observed, counted, summed, old_sum, snapping>>

add_count(i) ==
  /\ i \notin counted /\ counted' = counted \cup {i}
  /\ count' = count + 1
  /\ UNCHANGED <<buckets, sum, observed, bucketed, summed, old_sum, snapping>>

\* What a relaxed load finds: the sum, or one that it was before.
read_sum(i) ==
  /\ \E old \in 0 .. sum : old_sum' = [old_sum EXCEPT ![i] = old]
  /\ UNCHANGED <<histogram, observed, bucketed, counted, summed, snapping>>

load_sum(i) == i \notin summed /\ old_sum[i] = Unread /\ read_sum(i)

\* (mutant) a store in the place of the exchange
exchange_stored(i) ==
  /\ i \notin summed /\ old_sum[i] # Unread
  /\ sum' = old_sum[i] + observed[i] /\ summed' = summed \cup {i}
  /\ UNCHANGED <<buckets, count, observed, bucketed, counted, old_sum, snapping>>

exchange(i) ==
  /\ i \notin summed /\ old_sum[i] # Unread
  /\ \/ /\ sum = old_sum[i] /\ sum' = sum + observed[i] /\ summed' = summed \cup {i}
        /\ UNCHANGED <<buckets, count, observed, bucketed, counted, old_sum, snapping>>
     \/ read_sum(i)

observe == \/ \E v \in Observable : begin(v)
           \/ \E i \in DOMAIN observed :
                add_bucket(i) \/ add_count(i) \/ load_sum(i) \/ exchange(i)

-----------------------------------------------------------------------------
\* The observations that are over: the snapshot of a thread that knows of their
\* end finds all they added.
Over == bucketed \cap counted \cap summed

\* snapshot: the count, the sum and each of the buckets, loaded in any order; the
\* buckets are cumulated in theirs.
snap_call ==
  /\ ~taking /\ taking' = TRUE /\ before' = Over
  /\ snap_count' = Unread /\ snap_sum' = Unread
  /\ loaded' = [b \in 1 .. bucket_count |-> Unread] /\ bucket_counts' = <<>>
  /\ UNCHANGED <<histogram, observing>>

snap_load_count ==
  /\ taking /\ snap_count = Unread /\ snap_count' = count
  /\ UNCHANGED <<histogram, observing, taking, snap_sum, loaded, bucket_counts, before>>

snap_load_sum ==
  /\ taking /\ snap_sum = Unread /\ snap_sum' = sum
  /\ UNCHANGED <<histogram, observing, taking, snap_count, loaded, bucket_counts, before>>

snap_load_bucket(b) ==
  /\ taking /\ loaded[b] = Unread /\ loaded' = [loaded EXCEPT ![b] = buckets[b]]
  /\ UNCHANGED <<histogram, observing, taking, snap_count, snap_sum, bucket_counts, before>>

\* (mutant) the buckets are not cumulated
snap_cumulate_alone ==
  LET b == Len(bucket_counts) + 1 IN
  /\ taking /\ b <= bucket_count /\ loaded[b] # Unread
  /\ bucket_counts' = Append(bucket_counts, loaded[b])
  /\ UNCHANGED <<histogram, observing, taking, snap_count, snap_sum, loaded, before>>

snap_cumulate ==
  LET b == Len(bucket_counts) + 1 IN
  /\ taking /\ b <= bucket_count /\ loaded[b] # Unread
  /\ bucket_counts' = Append(bucket_counts, loaded[b] + IF b = 1 THEN 0 ELSE bucket_counts[b - 1])
  /\ UNCHANGED <<histogram, observing, taking, snap_count, snap_sum, loaded, before>>

snap_return ==
  /\ taking /\ taking' = FALSE
  /\ snap_count # Unread /\ snap_sum # Unread /\ Len(bucket_counts) = bucket_count
  /\ UNCHANGED <<histogram, observing, snap_count, snap_sum, loaded, bucket_counts, before>>

snapshot == \/ snap_call \/ snap_load_count \/ snap_load_sum
            \/ \E b \in 1 .. bucket_count : snap_load_bucket(b)
            \/ snap_cumulate \/ snap_return

HistogramNext == observe \/ snapshot
HistogramSpec == HistogramInit /\ [][HistogramNext]_histogramVars

\* percentile: the bucket in which the target-th value lies, 0 if it is beyond
\* them all (the last boundary is the answer then).
percentile_bucket(target) ==
  LET reaching == {b \in DOMAIN bucket_counts : bucket_counts[b] >= target} IN
  IF reaching = {} THEN 0 ELSE Min(reaching)

-----------------------------------------------------------------------------
HistogramTypeOK ==
  /\ count \in 0 .. MaxObserved /\ \A b \in 1 .. bucket_count : buckets[b] \in 0 .. MaxObserved
  /\ taking \in BOOLEAN /\ bucketed \cup counted \cup summed \subseteq DOMAIN observed
  /\ Len(old_sum) = Len(observed) /\ Len(bucket_counts) <= bucket_count

\* Of the observations of I those in bucket b, and those in the first k buckets.
InBucket(I, b) == {i \in I : bucket(observed[i]) = b}
UpTo(I, k) == {i \in I : bucket(observed[i]) <= k}

\* What the observations of I add up to, counted out.
Units(I) == UNION {{i} \X (1 .. observed[i]) : i \in I}

\* When every observation is over nothing of any is lost: the threads that
\* observe at once count each of their values once.
NothingLost ==
  Over = DOMAIN observed =>
    /\ count = Len(observed)
    /\ sum = Cardinality(Units(DOMAIN observed))
    /\ \A b \in 1 .. bucket_count : buckets[b] = Cardinality(InBucket(DOMAIN observed, b))

\* What is counted at any time: those observations that have made the access.
CountedSoFar ==
  /\ count = Cardinality(counted)
  /\ sum = Cardinality(Units(summed))
  /\ \A b \in 1 .. bucket_count : buckets[b] = Cardinality(InBucket(bucketed, b))

\* A snapshot need not be of one moment, but each of its fields lies between what
\* the observations over when it was called make it and what all those begun do;
\* when these are the same it is exact.
SnapshotBetween ==
  /\ snap_count # Unread => snap_count \in Cardinality(before) .. Len(observed)
  /\ snap_sum # Unread =>
       snap_sum \in Cardinality(Units(before)) .. Cardinality(Units(DOMAIN observed))
  /\ \A k \in 1 .. Len(bucket_counts) :
       bucket_counts[k] \in Cardinality(UpTo(before, k)) .. Cardinality(UpTo(DOMAIN observed, k))

\* So is a percentile: its bucket is no higher than for the values over when the
\* snapshot was called (as many as these are it finds a bucket), and no lower than
\* for all begun.
PercentilesBetween ==
  Len(bucket_counts) = bucket_count =>
    \A target \in 1 .. MaxObserved, k \in 1 .. bucket_count :
      /\ target <= Cardinality(UpTo(before, k)) => percentile_bucket(target) \in 1 .. k
      /\ percentile_bucket(target) = k => target <= Cardinality(UpTo(DOMAIN observed, k))

HistogramSound == /\ HistogramTypeOK /\ NothingLost /\ CountedSoFar
                  /\ SnapshotBetween /\ PercentilesBetween
=============================================================================

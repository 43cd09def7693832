----------------------------- MODULE RateLimiter -----------------------------
(* The token buckets of rate_limiter.hpp, one per source address, and the LRU  *)
(* list that decides which go when too many are tracked.  Time is the age of   *)
(* each bucket's last update: a check adds whole tokens for it and sets it to  *)
(* zero, so the fraction of a token that had accrued is lost.                  *)
EXTENDS Naturals, Sequences, SequencesExt

CONSTANTS Ips,             \* source addresses
          SECOND,          \* units of time in a second
          MaxRate,         \* packets_per_second is 1 .. MaxRate
          MaxBurst,        \* burst_size is 1 .. MaxBurst
          MAX_TRACKED_IPS

ASSUME LimiterAssumption ==
  SECOND \in Nat \ {0} /\ MaxRate \in Nat /\ MaxBurst \in Nat /\ MAX_TRACKED_IPS \in Nat \ {0}

VARIABLES limit,    \* _config: [enabled, rate, burst]
          buckets,  \* _buckets: address -> [tokens, age]
          lru,      \* the addresses, from the least to the most recently seen
          ideal,    \* history: address -> what an exact bucket holds, in 1/SECOND tokens
          starved   \* history: a packet was refused a token's time after the last

limiterVars == <<limit, buckets, lru, ideal, starved>>

\* An age beyond which any bucket is full (a bound on the ages kept apart).
Long == MaxBurst * SECOND

LimiterInit ==
  /\ limit \in [enabled: BOOLEAN, rate: 1 .. MaxRate, burst: 1 .. MaxBurst]
  /\ buckets = <<>> /\ lru = <<>> /\ ideal = <<>>
  /\ starved = FALSE

smaller(a, b) == IF a < b THEN a ELSE b
restricted(f, S) == [x \in S |-> f[x]]

-----------------------------------------------------------------------------
\* evict_lru: a quarter of the buckets, at least one, from the head of the list.
evicted == LET quarter == Len(lru) \div 4 IN IF quarter = 0 THEN 1 ELSE quarter

kept == IF Len(lru) >= MAX_TRACKED_IPS THEN SubSeq(lru, evicted + 1, Len(lru)) ELSE lru

\* lru_remove: a bucket is linked into the list, so that it is found at once.
removed(ip) == RemoveAt(lru, CHOOSE i \in DOMAIN lru : lru[i] = ip)

\* get_or_create_bucket and lru_move_to_tail: the list before and after ip.
others(ip) == IF ip \in DOMAIN buckets THEN removed(ip) ELSE kept
touched(ip) == Append(others(ip), ip)

\* The bucket before the check: an existing one, or a new one that is full.
bucket(ip) ==
  IF ip \in DOMAIN buckets THEN buckets[ip] ELSE [tokens |-> limit.burst, age |-> 0]

earned(age) == (age * limit.rate) \div SECOND

\* (mutant) a refill is not limited to the burst
refilled_over(ip) == bucket(ip).tokens + earned(bucket(ip).age)

refilled(ip) == smaller(bucket(ip).tokens + earned(bucket(ip).age), limit.burst)

exact(ip) ==
  smaller((IF ip \in DOMAIN ideal THEN ideal[ip] ELSE limit.burst * SECOND)
            + bucket(ip).age * limit.rate, limit.burst * SECOND)

\* check, with limiting enabled.
allowed(ip) == refilled(ip) > 0

check(ip) ==
  LET ips == Range(touched(ip))
      left == IF allowed(ip) THEN refilled(ip) - 1 ELSE 0 IN
  /\ limit.enabled
  /\ lru' = touched(ip)
  /\ buckets' = [x \in ips |-> IF x = ip THEN [tokens |-> left, age |-> 0] ELSE buckets[x]]
  /\ ideal' = [x \in ips |->
       IF x # ip THEN ideal[x]
       ELSE IF allowed(ip) THEN exact(ip) - SECOND ELSE exact(ip)]
  /\ starved' = (starved \/ (bucket(ip).age * limit.rate >= SECOND /\ ~allowed(ip)))
  /\ UNCHANGED limit

reset(ip) ==
  /\ ip \in DOMAIN buckets
  /\ lru' = removed(ip)
  /\ buckets' = restricted(buckets, DOMAIN buckets \ {ip})
  /\ ideal' = restricted(ideal, DOMAIN buckets \ {ip})
  /\ UNCHANGED <<limit, starved>>

clear == lru' = <<>> /\ buckets' = <<>> /\ ideal' = <<>> /\ UNCHANGED <<limit, starved>>

set_enabled(on) == limit' = [limit EXCEPT !.enabled = on]
                   /\ UNCHANGED <<buckets, lru, ideal, starved>>

set_rate(rate, burst) == limit' = [limit EXCEPT !.rate = rate, !.burst = burst]
                         /\ UNCHANGED <<buckets, lru, ideal, starved>>

\* The clock.
limiter_elapse ==
  /\ buckets' = [ip \in DOMAIN buckets |->
                   [buckets[ip] EXCEPT !.age = smaller(@ + 1, Long)]]
  /\ UNCHANGED <<limit, lru, ideal, starved>>

LimiterNext ==
  \/ \E ip \in Ips : check(ip) \/ reset(ip)
  \/ clear
  \/ \E on \in BOOLEAN : set_enabled(on)
  \/ \E rate \in 1 .. MaxRate, burst \in 1 .. MaxBurst : set_rate(rate, burst)
  \/ limiter_elapse

LimiterSpec == LimiterInit /\ [][LimiterNext]_limiterVars

-----------------------------------------------------------------------------
LimiterTypeOK ==
  /\ limit \in [enabled: BOOLEAN, rate: 1 .. MaxRate, burst: 1 .. MaxBurst]
  /\ DOMAIN buckets \subseteq Ips /\ DOMAIN ideal = DOMAIN buckets
  /\ \A ip \in DOMAIN buckets :
       /\ buckets[ip] \in [tokens: 0 .. MaxBurst, age: 0 .. Long]
       /\ ideal[ip] \in 0 .. MaxBurst * SECOND
  /\ starved \in BOOLEAN

\* The list holds each tracked address once, oldest first, so that the one
\* evicted is the one not seen for longest; the table never outgrows its limit
\* (get_or_create_bucket, rate_limiter.hpp:214).
LruTracksBuckets ==
  /\ Range(lru) = DOMAIN buckets /\ IsInjective(lru)
  /\ Len(lru) <= MAX_TRACKED_IPS
  /\ \A i, j \in DOMAIN lru : i < j => buckets[lru[i]].age >= buckets[lru[j]].age

\* Whatever fraction of a token the integer arithmetic loses, whatever the rate
\* is changed to, a bucket never holds more than an exact one would: no source
\* gets more than its burst and its rate.  And it is never starved for good: a
\* packet one token's time after the last is let through (rate_limiter.hpp:104).
NeverOverIdeal ==
  /\ \A ip \in DOMAIN buckets : buckets[ip].tokens * SECOND <= ideal[ip]
  /\ ~starved

\* All that is checked and proved of the limiter.
LimiterSound == LimiterTypeOK /\ NeverOverIdeal /\ LruTracksBuckets
=============================================================================

--------------------------- MODULE FirewallProofs ---------------------------
(* The rate limiter keeps its promises for every set of addresses, limit and   *)
(* clock: no bucket holds more than an exact one, and the LRU list is exactly  *)
(* the table's, oldest first.  The second is needed for the first: a check     *)
(* keeps the buckets of the addresses that the list still holds.               *)
(* The firewall around it decides by its rules in the order of priority, and   *)
(* the AI changes its mode for as many equal results as it was told to wait    *)
(* for: its counters never count more than the run of such results is long,    *)
(* and what is left of the cooldown is the rest of the time since a change.    *)
EXTENDS Firewall, FiniteSetTheorems, NaturalsInduction, WellFoundedInduction, TLAPS

\* The order of the list, element by element.
Ordered(s) ==
  \A i, j \in 1 .. Len(s) :
    i < j => s[i] # s[j] /\ buckets[s[i]].age >= buckets[s[j]].age

LruKept ==
  /\ lru \in Seq(Ips) /\ Len(lru) <= MAX_TRACKED_IPS
  /\ \A i \in 1 .. Len(lru) : lru[i] \in DOMAIN buckets
  /\ \A ip \in DOMAIN buckets : \E i \in 1 .. Len(lru) : lru[i] = ip
  /\ Ordered(lru)

LimiterInv == LimiterTypeOK /\ NeverOverIdeal /\ LruKept

-----------------------------------------------------------------------------
\* What is left when one element goes.
LEMMA RemoveOne ==
  ASSUME NEW S, NEW s \in Seq(S), NEW at \in 1 .. Len(s)
  PROVE  /\ RemoveAt(s, at) \in Seq(S)
         /\ Len(RemoveAt(s, at)) = Len(s) - 1
         /\ \A i \in 1 .. Len(s) - 1 :
              RemoveAt(s, at)[i] = s[IF i < at THEN i ELSE i + 1]
<1> DEFINE front == SubSeq(s, 1, at - 1)
           back == SubSeq(s, at + 1, Len(s))
<1>1. /\ front \in Seq(S) /\ Len(front) = at - 1
      /\ \A i \in 1 .. at - 1 : front[i] = s[i]
  OBVIOUS
<1>2. /\ back \in Seq(S) /\ Len(back) = Len(s) - at
      /\ \A i \in 1 .. Len(s) - at : back[i] = s[at + i]
  OBVIOUS
<1>3. RemoveAt(s, at) = front \o back
  BY DEF RemoveAt
<1> HIDE DEF front, back
<1>4. /\ front \o back \in Seq(S)
      /\ Len(front \o back) = Len(s) - 1
  BY <1>1, <1>2
<1>5. ASSUME NEW i \in 1 .. Len(s) - 1
      PROVE  (front \o back)[i] = s[IF i < at THEN i ELSE i + 1]
  <2>1. CASE i < at
    BY <1>1, <1>2, <2>1
  <2>2. CASE ~(i < at)
    <3>1. (front \o back)[i] = back[i - (at - 1)]
      BY <1>1, <1>2, <2>2
    <3>2. i - (at - 1) \in 1 .. Len(s) - at /\ at + (i - (at - 1)) = i + 1
      BY <2>2
    <3> QED BY <1>2, <2>2, <3>1, <3>2
  <2> QED BY <2>1, <2>2
<1> QED BY <1>3, <1>4, <1>5

\* What is left of the list when the address goes: the others, in their order.
LEMMA RemovedOrdered ==
  ASSUME LruKept, NEW ip \in DOMAIN buckets
  PROVE  /\ removed(ip) \in Seq(Ips) /\ Len(removed(ip)) = Len(lru) - 1
         /\ \A i \in 1 .. Len(removed(ip)) : removed(ip)[i] \in DOMAIN buckets \ {ip}
         /\ \A x \in DOMAIN buckets \ {ip} : \E i \in 1 .. Len(removed(ip)) : removed(ip)[i] = x
         /\ Ordered(removed(ip))
<1> DEFINE at == CHOOSE i \in DOMAIN lru : lru[i] = ip
           r == removed(ip)
<1>1. lru \in Seq(Ips) /\ DOMAIN lru = 1 .. Len(lru) /\ Len(lru) \in Nat
  BY DEF LruKept
<1>2. at \in 1 .. Len(lru) /\ lru[at] = ip
  BY <1>1 DEF LruKept
<1>3. r = RemoveAt(lru, at)
  BY DEF removed
<1> HIDE DEF at, r
<1>4. /\ r \in Seq(Ips) /\ Len(r) = Len(lru) - 1
      /\ \A i \in 1 .. Len(lru) - 1 : r[i] = lru[IF i < at THEN i ELSE i + 1]
  BY <1>1, <1>2, <1>3, RemoveOne
<1>5. ASSUME NEW i \in 1 .. Len(r) PROVE r[i] \in DOMAIN buckets \ {ip}
  <2>1. PICK k \in 1 .. Len(lru) : k # at /\ r[i] = lru[k]
    BY <1>1, <1>2, <1>4, SMTT(30)
  <2>2. lru[k] # lru[at]
    BY <1>1, <1>2, <2>1 DEF LruKept, Ordered
  <2> QED BY <1>2, <2>1, <2>2 DEF LruKept
<1>6. ASSUME NEW x \in DOMAIN buckets \ {ip} PROVE \E i \in 1 .. Len(r) : r[i] = x
  <2>1. PICK k \in 1 .. Len(lru) : lru[k] = x
    BY DEF LruKept
  <2>2. CASE k < at
    <3>1. k \in 1 .. Len(r) /\ r[k] = x
      BY <1>1, <1>2, <1>4, <2>1, <2>2
    <3> QED BY <3>1
  <2>3. CASE k > at
    <3>1. k - 1 \in 1 .. Len(r) /\ r[k - 1] = x
      BY <1>1, <1>2, <1>4, <2>1, <2>3
    <3> QED BY <3>1
  <2> QED BY <1>1, <1>2, <2>1, <2>2, <2>3
<1>7. Ordered(r)
  <2> SUFFICES ASSUME NEW i \in 1 .. Len(r), NEW j \in 1 .. Len(r), i < j
               PROVE  r[i] # r[j] /\ buckets[r[i]].age >= buckets[r[j]].age
    BY DEF Ordered
  <2> DEFINE p == IF i < at THEN i ELSE i + 1
             q == IF j < at THEN j ELSE j + 1
  <2>1. r[i] = lru[p] /\ r[j] = lru[q]
    BY <1>4
  <2>2. p \in 1 .. Len(lru) /\ q \in 1 .. Len(lru) /\ p < q
    BY <1>1, <1>2, <1>4
  <2> HIDE DEF p, q
  <2> QED BY <2>1, <2>2 DEF LruKept, Ordered
<1> QED BY <1>4, <1>5, <1>6, <1>7 DEF r

\* What is left of the list when the oldest quarter makes room.
LEMMA KeptOrdered ==
  ASSUME LruKept
  PROVE  /\ kept \in Seq(Ips) /\ Len(kept) < MAX_TRACKED_IPS
         /\ \A i \in 1 .. Len(kept) : kept[i] \in DOMAIN buckets
         /\ Ordered(kept)
<1> DEFINE n == Len(lru)
<1>1. lru \in Seq(Ips) /\ n \in Nat /\ n =< MAX_TRACKED_IPS /\ MAX_TRACKED_IPS \in Nat \ {0}
  BY LimiterAssumption DEF LruKept
<1>2. CASE n >= MAX_TRACKED_IPS
  <2>1. evicted \in 1 .. n
    BY <1>1, <1>2 DEF evicted
  <2>2. kept = SubSeq(lru, evicted + 1, n)
    BY <1>2 DEF kept
  <2> DEFINE e == evicted
             r == SubSeq(lru, e + 1, n)
  <2> HIDE DEF e
  <2>3. e \in 1 .. n
    BY <2>1 DEF e
  <2>4. /\ r \in Seq(Ips) /\ Len(r) = n - e
        /\ \A i \in 1 .. n - e : r[i] = lru[e + i] /\ e + i \in 1 .. n
    BY <1>1, <2>3
  <2> HIDE DEF r, n
  <2>5. \A i \in 1 .. Len(r) : r[i] \in DOMAIN buckets
    BY <2>4 DEF LruKept, n
  <2>6. Ordered(r)
    <3> SUFFICES ASSUME NEW i \in 1 .. Len(r), NEW j \in 1 .. Len(r), i < j
                 PROVE  r[i] # r[j] /\ buckets[r[i]].age >= buckets[r[j]].age
      BY DEF Ordered
    <3>1. /\ r[i] = lru[e + i] /\ r[j] = lru[e + j] /\ e + i < e + j
          /\ e + i \in 1 .. n /\ e + j \in 1 .. n
      BY <1>1, <2>3, <2>4
    <3> QED BY <3>1 DEF LruKept, Ordered, n
  <2>7. Len(r) < MAX_TRACKED_IPS
    BY <1>1, <2>3, <2>4
  <2> QED BY <2>2, <2>4, <2>5, <2>6, <2>7 DEF r, e
<1>3. CASE ~(n >= MAX_TRACKED_IPS)
  <2>1. kept = lru
    BY <1>3 DEF kept
  <2> QED BY <1>1, <1>3, <2>1 DEF LruKept
<1> QED BY <1>2, <1>3

\* Either way: the other addresses, all of them tracked, oldest first.
LEMMA OthersOrdered ==
  ASSUME LruKept, NEW ip \in Ips
  PROVE  /\ others(ip) \in Seq(Ips) /\ Len(others(ip)) < MAX_TRACKED_IPS
         /\ \A i \in 1 .. Len(others(ip)) : others(ip)[i] \in DOMAIN buckets \ {ip}
         /\ Ordered(others(ip))
<1>1. CASE ip \in DOMAIN buckets
  <2>1. others(ip) = removed(ip)
    BY <1>1 DEF others
  <2>2. Len(lru) \in Nat /\ Len(lru) =< MAX_TRACKED_IPS /\ MAX_TRACKED_IPS \in Nat
    BY LimiterAssumption DEF LruKept
  <2>3. Len(removed(ip)) < MAX_TRACKED_IPS
    BY <1>1, <2>2, RemovedOrdered
  <2> QED BY <1>1, <2>1, <2>3, RemovedOrdered
<1>2. CASE ip \notin DOMAIN buckets
  <2>1. others(ip) = kept
    BY <1>2 DEF others
  <2> QED BY <1>2, <2>1, KeptOrdered
<1> QED BY <1>1, <1>2

-----------------------------------------------------------------------------
\* Products.
LEMMA Grows ==
  ASSUME NEW c \in Nat, NEW d \in Nat, NEW m \in Nat, c =< d
  PROVE  c * m \in Nat /\ d * m \in Nat /\ c * m =< d * m
  BY SMT

LEMMA Adds ==
  ASSUME NEW c \in Nat, NEW d \in Nat, NEW m \in Nat
  PROVE  (c + d) * m = c * m + d * m
  BY SMT

\* Whole tokens: what the division gives is no more than what accrued, and at
\* least one once a token's time has passed.
LEMMA Quotient ==
  ASSUME NEW y \in Nat, NEW s \in Nat \ {0}
  PROVE  y \div s \in Nat /\ (y \div s) * s =< y /\ (y >= s => y \div s >= 1)
<1> DEFINE q == y \div s
<1>1. q \in Int /\ q * s =< y /\ y < (q + 1) * s
  BY SMT
<1>2. q >= 0
  <2>1. SUFFICES ASSUME q + 1 =< 0 PROVE FALSE
    BY <1>1
  <2>2. (q + 1) * s =< 0
    BY <1>1, <2>1, SMT
  <2> QED BY <1>1, <2>1, <2>2
<1>3. ASSUME y >= s PROVE q >= 1
  <2>1. SUFFICES ASSUME q = 0 PROVE FALSE
    BY <1>1, <1>2
  <2> QED BY <1>1, <1>3, <2>1
<1> QED BY <1>1, <1>2, <1>3

\* A refill in whole tokens gives no more than the exact one.
LEMMA RefillNotOver ==
  ASSUME LimiterTypeOK, NeverOverIdeal, NEW ip \in Ips
  PROVE  /\ refilled(ip) \in 0 .. MaxBurst
         /\ exact(ip) \in 0 .. MaxBurst * SECOND
         /\ refilled(ip) * SECOND =< exact(ip)
         /\ bucket(ip).age * limit.rate >= SECOND => allowed(ip)
<1> DEFINE S == SECOND
           rate == limit.rate
           burst == limit.burst
           tokens == bucket(ip).tokens
           age == bucket(ip).age
           due == IF ip \in DOMAIN ideal THEN ideal[ip] ELSE limit.burst * SECOND
           e == earned(age)
<1>1. S \in Nat \ {0} /\ MaxBurst \in Nat
  BY LimiterAssumption
<1>2. rate \in Nat /\ burst \in Nat \ {0} /\ burst =< MaxBurst
  BY LimiterAssumption DEF LimiterTypeOK
<1>3. burst * S \in Nat /\ burst * S =< MaxBurst * S
  BY <1>1, <1>2, Grows
<1>4. tokens \in Nat /\ age \in Nat /\ due \in Nat /\ tokens * S =< due
  <2>1. CASE ip \in DOMAIN buckets
    <3>1. buckets[ip] \in [tokens : 0 .. MaxBurst, age : 0 .. Long]
      BY <2>1 DEF LimiterTypeOK
    <3>2. bucket(ip) = buckets[ip] /\ due = ideal[ip]
      BY <2>1 DEF bucket, LimiterTypeOK
    <3>3. ideal[ip] \in 0 .. MaxBurst * SECOND
      BY <2>1 DEF LimiterTypeOK
    <3>4. MaxBurst * SECOND \in Nat
      BY <1>1, Grows
    <3>5. buckets[ip].tokens * SECOND =< ideal[ip]
      BY <2>1 DEF NeverOverIdeal
    <3>6. buckets[ip].tokens \in Nat /\ buckets[ip].age \in Nat
      BY <3>1
    <3>7. ideal[ip] \in Nat
      BY <3>3, <3>4
    <3> QED BY <3>2, <3>5, <3>6, <3>7
  <2>2. CASE ip \notin DOMAIN buckets
    <3>1. tokens = burst /\ age = 0 /\ due = burst * S
      BY <2>2 DEF bucket, LimiterTypeOK
    <3> QED BY <1>2, <1>3, <3>1
  <2> QED BY <2>1, <2>2
<1> HIDE DEF tokens, age, due
<1>5. age * rate \in Nat
  BY <1>2, <1>4, Grows
<1>6. e \in Nat /\ e * S =< age * rate /\ (age * rate >= S => e >= 1)
  BY <1>1, <1>5, Quotient DEF earned
<1>7. refilled(ip) = smaller(tokens + e, burst)
      /\ exact(ip) = smaller(due + age * rate, burst * S)
  BY DEF refilled, exact, tokens, age, due
<1>8. (allowed(ip) <=> refilled(ip) > 0)
      /\ (bucket(ip).age * limit.rate >= SECOND <=> age * rate >= S)
  BY DEF allowed, age
<1> HIDE DEF S, rate, burst, e
<1>9. (tokens + e) * S = tokens * S + e * S /\ tokens * S \in Nat /\ e * S \in Nat
  BY <1>1, <1>4, <1>6, Adds, Grows
<1>10. refilled(ip) \in 0 .. MaxBurst /\ refilled(ip) =< burst /\ refilled(ip) =< tokens + e
  BY <1>1, <1>2, <1>4, <1>6, <1>7 DEF smaller
<1>11. refilled(ip) * S =< burst * S /\ refilled(ip) * S =< (tokens + e) * S
       /\ refilled(ip) * S \in Nat
  <2>1. refilled(ip) \in Nat /\ tokens + e \in Nat /\ S \in Nat
    BY <1>1, <1>4, <1>6, <1>10
  <2> QED BY <1>2, <1>10, <2>1, Grows
<1>12. exact(ip) \in 0 .. MaxBurst * S
  BY <1>1, <1>3, <1>4, <1>5, <1>7, Grows DEF smaller
<1>13. refilled(ip) * S =< exact(ip)
  BY <1>3, <1>4, <1>5, <1>6, <1>7, <1>9, <1>11 DEF smaller
<1>14. age * rate >= S => refilled(ip) > 0
  BY <1>2, <1>4, <1>6, <1>7 DEF smaller
<1> QED BY <1>8, <1>10, <1>12, <1>13, <1>14 DEF S, rate

-----------------------------------------------------------------------------
\* Each operation keeps the invariant.

\* check: the buckets of the others stay, the one of the address is new or
\* renewed, and it is the youngest.
LEMMA CheckKeeps ==
  ASSUME LimiterInv, NEW ip \in Ips, check(ip)
  PROVE  LimiterInv'
<1> DEFINE r == others(ip)
           left == IF allowed(ip) THEN refilled(ip) - 1 ELSE 0
           due == IF allowed(ip) THEN exact(ip) - SECOND ELSE exact(ip)
           ips == Range(touched(ip))
<1>1. /\ r \in Seq(Ips) /\ Len(r) < MAX_TRACKED_IPS
      /\ \A i \in 1 .. Len(r) : r[i] \in DOMAIN buckets \ {ip}
      /\ Ordered(r)
  BY OthersOrdered DEF LimiterInv
<1>2. SECOND \in Nat \ {0} /\ MaxBurst \in Nat /\ MAX_TRACKED_IPS \in Nat
      /\ MaxBurst * SECOND \in Nat
  BY LimiterAssumption, Grows
<1>3. /\ refilled(ip) \in 0 .. MaxBurst /\ exact(ip) \in 0 .. MaxBurst * SECOND
      /\ refilled(ip) * SECOND =< exact(ip)
      /\ bucket(ip).age * limit.rate >= SECOND => allowed(ip)
  BY RefillNotOver DEF LimiterInv
<1>4. /\ lru' = touched(ip)
      /\ buckets' = [x \in ips |-> IF x = ip THEN [tokens |-> left, age |-> 0] ELSE buckets[x]]
      /\ ideal' = [x \in ips |-> IF x # ip THEN ideal[x] ELSE due]
      /\ starved' = (starved \/ (bucket(ip).age * limit.rate >= SECOND /\ ~allowed(ip)))
      /\ limit' = limit
  BY DEF check
<1>5. touched(ip) = Append(r, ip)
  BY DEF touched
<1>6. left \in 0 .. MaxBurst /\ due \in 0 .. MaxBurst * SECOND /\ left * SECOND =< due
  <2>1. CASE allowed(ip)
    <3>1. refilled(ip) - 1 \in Nat /\ refilled(ip) = (refilled(ip) - 1) + 1
      BY <1>3, <2>1 DEF allowed
    <3>2. refilled(ip) * SECOND = (refilled(ip) - 1) * SECOND + 1 * SECOND
      BY <1>2, <3>1, Adds
    <3>3. (refilled(ip) - 1) * SECOND \in Nat
      BY <1>2, <3>1, Grows
    <3> QED BY <1>2, <1>3, <2>1, <3>1, <3>2, <3>3
  <2>2. CASE ~allowed(ip)
    BY <1>2, <1>3, <2>2
  <2> QED BY <2>1, <2>2
<1> HIDE DEF r, left, due, ips
<1>7. /\ lru' \in Seq(Ips) /\ Len(lru') = Len(r) + 1 /\ Len(r) \in Nat
      /\ \A i \in 1 .. Len(r) : lru'[i] = r[i]
      /\ lru'[Len(r) + 1] = ip
  BY <1>1, <1>4, <1>5
<1>8. ips = {lru'[i] : i \in 1 .. Len(r) + 1}
  <2>1. DOMAIN (lru') = 1 .. Len(r) + 1
    BY <1>7
  <2> QED BY <1>4, <2>1 DEF ips, Range
<1>9. ips \subseteq DOMAIN buckets \cup {ip} /\ ip \in ips /\ ips \subseteq Ips
  <2>1. DOMAIN buckets \subseteq Ips
    BY DEF LimiterInv, LimiterTypeOK
  <2>2. ASSUME NEW i \in 1 .. Len(r) + 1 PROVE lru'[i] \in DOMAIN buckets \cup {ip}
    BY <1>1, <1>7
  <2>3. Len(r) + 1 \in 1 .. Len(r) + 1
    BY <1>7
  <2> QED BY <1>7, <1>8, <2>1, <2>2, <2>3
<1>10. DOMAIN (buckets') = ips /\ DOMAIN (ideal') = ips
  BY <1>4
<1>11. buckets'[ip] = [tokens |-> left, age |-> 0] /\ ideal'[ip] = due
  BY <1>4, <1>9
<1>12. \A x \in ips \ {ip} : buckets'[x] = buckets[x] /\ ideal'[x] = ideal[x] /\ x \in DOMAIN buckets
  BY <1>4, <1>9
<1>13. LimiterTypeOK'
  <2>1. ASSUME NEW x \in ips
        PROVE  buckets'[x] \in [tokens : 0 .. MaxBurst, age : 0 .. Long]
               /\ ideal'[x] \in 0 .. MaxBurst * SECOND
    <3>1. CASE x = ip
      <4>1. 0 \in 0 .. Long
        BY <1>2 DEF Long
      <4> QED BY <1>6, <1>11, <3>1, <4>1
    <3>2. CASE x # ip
      BY <1>12, <3>2 DEF LimiterInv, LimiterTypeOK
    <3> QED BY <3>1, <3>2
  <2>2. limit' \in [enabled : BOOLEAN, rate : 1 .. MaxRate, burst : 1 .. MaxBurst]
    BY <1>4 DEF LimiterInv, LimiterTypeOK
  <2>3. starved' \in BOOLEAN
    BY <1>4, Zenon DEF LimiterInv, LimiterTypeOK
  <2> QED BY <1>9, <1>10, <2>1, <2>2, <2>3, Zenon DEF LimiterTypeOK, Long
<1>14. NeverOverIdeal'
  <2>1. ASSUME NEW x \in ips PROVE buckets'[x].tokens * SECOND =< ideal'[x]
    <3>1. CASE x = ip
      BY <1>6, <1>11, <3>1
    <3>2. CASE x # ip
      BY <1>12, <3>2 DEF LimiterInv, NeverOverIdeal
    <3> QED BY <3>1, <3>2
  <2>2. ~starved'
    BY <1>3, <1>4, Zenon DEF LimiterInv, NeverOverIdeal
  <2> QED BY <1>10, <2>1, <2>2, Zenon DEF NeverOverIdeal
<1>15. LruKept'
  <2>1. Len(lru') =< MAX_TRACKED_IPS
    BY <1>1, <1>2, <1>7
  <2>2. \A i \in 1 .. Len(lru') : lru'[i] \in DOMAIN (buckets')
    BY <1>7, <1>8, <1>10
  <2>3. \A x \in DOMAIN (buckets') : \E i \in 1 .. Len(lru') : lru'[i] = x
    BY <1>7, <1>8, <1>10
  <2>4. ASSUME NEW i \in 1 .. Len(lru'), NEW j \in 1 .. Len(lru'), i < j
        PROVE  lru'[i] # lru'[j] /\ buckets'[lru'[i]].age >= buckets'[lru'[j]].age
    <3>1. i \in 1 .. Len(r) /\ lru'[i] = r[i] /\ r[i] \in DOMAIN buckets \ {ip}
      BY <1>1, <1>7, <2>4
    <3>2. r[i] \in ips \ {ip}
      BY <1>7, <1>8, <3>1
    <3>3. buckets'[r[i]] = buckets[r[i]]
      BY <1>12, <3>2
    <3>4. CASE j \in 1 .. Len(r)
      <4>1. lru'[j] = r[j] /\ r[j] \in ips \ {ip} /\ buckets'[r[j]] = buckets[r[j]]
        BY <1>1, <1>7, <1>8, <1>12, <3>4
      <4>2. r[i] # r[j] /\ buckets[r[i]].age >= buckets[r[j]].age
        BY <1>1, <2>4, <3>1, <3>4 DEF Ordered
      <4> QED BY <3>1, <3>3, <4>1, <4>2
    <3>5. CASE j = Len(r) + 1
      <4>1. lru'[j] = ip /\ buckets'[ip].age = 0
        BY <1>7, <1>11, <3>5
      <4>2. buckets[r[i]] \in [tokens : 0 .. MaxBurst, age : 0 .. Long]
        BY <3>1 DEF LimiterInv, LimiterTypeOK
      <4>3. buckets[r[i]].age >= 0
        BY <4>2
      <4> QED BY <3>1, <3>3, <4>1, <4>3
    <3> QED BY <1>7, <3>4, <3>5
  <2> QED BY <1>7, <2>1, <2>2, <2>3, <2>4 DEF LruKept, Ordered
<1> QED BY <1>13, <1>14, <1>15 DEF LimiterInv

\* reset: one address goes, from the table and from the list.
LEMMA ResetKeeps ==
  ASSUME LimiterInv, NEW ip \in Ips, reset(ip)
  PROVE  LimiterInv'
<1> DEFINE left == DOMAIN buckets \ {ip}
<1>1. /\ lru' = removed(ip) /\ limit' = limit /\ starved' = starved
      /\ buckets' = [x \in left |-> buckets[x]] /\ ideal' = [x \in left |-> ideal[x]]
      /\ ip \in DOMAIN buckets
  BY DEF reset, restricted
<1>2. /\ removed(ip) \in Seq(Ips) /\ Len(removed(ip)) = Len(lru) - 1
      /\ \A i \in 1 .. Len(removed(ip)) : removed(ip)[i] \in left
      /\ \A x \in left : \E i \in 1 .. Len(removed(ip)) : removed(ip)[i] = x
      /\ Ordered(removed(ip))
  BY <1>1, RemovedOrdered DEF LimiterInv
<1>3. DOMAIN (buckets') = left /\ DOMAIN (ideal') = left
      /\ \A x \in left : buckets'[x] = buckets[x] /\ ideal'[x] = ideal[x]
  BY <1>1
<1>4. LimiterTypeOK'
  <2>1. /\ limit' \in [enabled : BOOLEAN, rate : 1 .. MaxRate, burst : 1 .. MaxBurst]
        /\ starved' \in BOOLEAN
    BY <1>1, Zenon DEF LimiterInv, LimiterTypeOK
  <2>2. left \subseteq Ips
        /\ \A x \in left : buckets'[x] \in [tokens : 0 .. MaxBurst, age : 0 .. Long]
                            /\ ideal'[x] \in 0 .. MaxBurst * SECOND
    BY <1>3, Zenon DEF LimiterInv, LimiterTypeOK
  <2> QED BY <1>3, <2>1, <2>2, Zenon DEF LimiterTypeOK, Long
<1>5. NeverOverIdeal'
  BY <1>1, <1>3, Zenon DEF LimiterInv, NeverOverIdeal
<1>6. LruKept'
  <2>1. Len(lru') =< MAX_TRACKED_IPS
    BY <1>1, <1>2, LimiterAssumption DEF LimiterInv, LruKept
  <2> HIDE DEF left
  <2>2. Ordered(lru)'
    <3> DEFINE r == removed(ip)
    <3>1. /\ lru' = r /\ Len(r) \in Nat
          /\ \A i \in 1 .. Len(r) : buckets'[r[i]] = buckets[r[i]]
      BY <1>1, <1>2, <1>3
    <3>2. Ordered(r)
      BY <1>2
    <3> HIDE DEF r
    <3> QED BY <3>1, <3>2 DEF Ordered
  <2> QED BY <1>1, <1>2, <1>3, <2>1, <2>2 DEF LruKept
<1> QED BY <1>4, <1>5, <1>6 DEF LimiterInv

\* An empty table, and that it is as it should be.
Emptied ==
  /\ lru = <<>> /\ buckets = <<>> /\ ideal = <<>>
  /\ limit \in [enabled : BOOLEAN, rate : 1 .. MaxRate, burst : 1 .. MaxBurst]
  /\ starved = FALSE

LEMMA EmptyKept == Emptied => LimiterInv
<1> SUFFICES ASSUME Emptied PROVE LimiterInv
  OBVIOUS
<1> USE DEF Emptied
<1>1. DOMAIN buckets = {} /\ DOMAIN ideal = {} /\ Len(lru) = 0 /\ lru \in Seq(Ips)
  OBVIOUS
<1>2. LimiterTypeOK
  BY <1>1, Zenon DEF LimiterTypeOK
<1>3. NeverOverIdeal
  BY <1>1, Zenon DEF NeverOverIdeal
<1>4. LruKept
  BY <1>1, LimiterAssumption DEF LruKept, Ordered
<1> QED BY <1>2, <1>3, <1>4 DEF LimiterInv

\* The clock: all buckets age alike.
LEMMA ElapseKeeps ==
  ASSUME LimiterInv, limiter_elapse
  PROVE  LimiterInv'
<1>1. /\ DOMAIN (buckets') = DOMAIN buckets /\ lru' = lru /\ limit' = limit
      /\ ideal' = ideal /\ starved' = starved
  BY DEF limiter_elapse
<1>2. Long \in Nat
  BY LimiterAssumption, Grows DEF Long
<1>3. ASSUME NEW x \in DOMAIN buckets
      PROVE  /\ buckets'[x] \in [tokens : 0 .. MaxBurst, age : 0 .. Long]
             /\ buckets'[x].tokens = buckets[x].tokens
             /\ buckets'[x].age = smaller(buckets[x].age + 1, Long)
             /\ buckets[x].age \in 0 .. Long
  <2>1. buckets[x] \in [tokens : 0 .. MaxBurst, age : 0 .. Long]
    BY DEF LimiterInv, LimiterTypeOK
  <2>2. buckets'[x] = [buckets[x] EXCEPT !.age = smaller(@ + 1, Long)]
    BY DEF limiter_elapse
  <2>3. smaller(buckets[x].age + 1, Long) \in 0 .. Long
    BY <1>2, <2>1 DEF smaller
  <2> QED BY <2>1, <2>2, <2>3
<1>4. LimiterTypeOK'
  <2>1. \A x \in DOMAIN buckets : buckets'[x] \in [tokens : 0 .. MaxBurst, age : 0 .. Long]
    BY <1>3
  <2> QED BY <1>1, <2>1, Zenon DEF LimiterInv, LimiterTypeOK, Long
<1>5. NeverOverIdeal'
  <2>1. \A x \in DOMAIN buckets : buckets'[x].tokens = buckets[x].tokens
    BY <1>3
  <2> QED BY <1>1, <2>1, Zenon DEF LimiterInv, NeverOverIdeal
<1>6. Ordered(lru)'
  <2> SUFFICES ASSUME NEW i \in 1 .. Len(lru), NEW j \in 1 .. Len(lru), i < j
               PROVE  lru[i] # lru[j] /\ buckets'[lru[i]].age >= buckets'[lru[j]].age
    BY <1>1 DEF Ordered
  <2>1. lru[i] \in DOMAIN buckets /\ lru[j] \in DOMAIN buckets
    BY DEF LimiterInv, LruKept
  <2>2. lru[i] # lru[j] /\ buckets[lru[i]].age >= buckets[lru[j]].age
    BY DEF LimiterInv, LruKept, Ordered
  <2>3. /\ buckets'[lru[i]].age = smaller(buckets[lru[i]].age + 1, Long)
        /\ buckets[lru[i]].age \in 0 .. Long
    BY <1>3, <2>1
  <2>4. /\ buckets'[lru[j]].age = smaller(buckets[lru[j]].age + 1, Long)
        /\ buckets[lru[j]].age \in 0 .. Long
    BY <1>3, <2>1
  <2>5. \A a, b \in 0 .. Long : a >= b => smaller(a + 1, Long) >= smaller(b + 1, Long)
    BY <1>2 DEF smaller
  <2>6. smaller(buckets[lru[i]].age + 1, Long) >= smaller(buckets[lru[j]].age + 1, Long)
    BY <2>2, <2>3, <2>4, <2>5
  <2> QED BY <2>2, <2>3, <2>4, <2>6
<1>7. LruKept'
  BY <1>1, <1>6 DEF LimiterInv, LruKept
<1> QED BY <1>4, <1>5, <1>7 DEF LimiterInv

\* A new configuration touches no bucket.
LEMMA ConfigKeeps ==
  ASSUME LimiterInv, UNCHANGED <<buckets, lru, ideal, starved>>,
         limit' \in [enabled : BOOLEAN, rate : 1 .. MaxRate, burst : 1 .. MaxBurst]
  PROVE  LimiterInv'
<1>1. LimiterTypeOK'
  BY Zenon DEF LimiterInv, LimiterTypeOK, Long
<1>2. NeverOverIdeal'
  BY Zenon DEF LimiterInv, NeverOverIdeal
<1>3. LruKept'
  BY Zenon DEF LimiterInv, LruKept, Ordered
<1> QED BY <1>1, <1>2, <1>3 DEF LimiterInv

LEMMA LimiterStepKeeps == LimiterInv /\ [LimiterNext]_limiterVars => LimiterInv'
<1> SUFFICES ASSUME LimiterInv, [LimiterNext]_limiterVars PROVE LimiterInv'
  OBVIOUS
<1>1. limit \in [enabled : BOOLEAN, rate : 1 .. MaxRate, burst : 1 .. MaxBurst]
      /\ ~starved
  BY DEF LimiterInv, LimiterTypeOK, NeverOverIdeal
<1>2. ASSUME NEW ip \in Ips, check(ip) PROVE LimiterInv'
  BY <1>2, CheckKeeps
<1>3. ASSUME NEW ip \in Ips, reset(ip) PROVE LimiterInv'
  BY <1>3, ResetKeeps
<1>4. CASE clear
  <2>1. /\ lru' = <<>> /\ buckets' = <<>> /\ ideal' = <<>>
        /\ limit' \in [enabled : BOOLEAN, rate : 1 .. MaxRate, burst : 1 .. MaxBurst]
    BY <1>1, <1>4 DEF clear
  <2>2. starved' = FALSE
    <3>1. starved' = starved
      BY <1>4 DEF clear
    <3>2. starved \in BOOLEAN
      BY DEF LimiterInv, LimiterTypeOK
    <3> QED BY <1>1, <3>1, <3>2, Zenon
  <2>3. Emptied'
    BY <2>1, <2>2 DEF Emptied
  <2> QED BY <2>3, EmptyKept, PTL
<1>5. ASSUME NEW on \in BOOLEAN, set_enabled(on) PROVE LimiterInv'
  <2>1. limit' \in [enabled : BOOLEAN, rate : 1 .. MaxRate, burst : 1 .. MaxBurst]
    BY <1>1, <1>5 DEF set_enabled
  <2> QED BY <1>5, <2>1, ConfigKeeps DEF set_enabled
<1>6. ASSUME NEW rate \in 1 .. MaxRate, NEW burst \in 1 .. MaxBurst, set_rate(rate, burst)
      PROVE  LimiterInv'
  <2>1. limit' \in [enabled : BOOLEAN, rate : 1 .. MaxRate, burst : 1 .. MaxBurst]
    BY <1>1, <1>6 DEF set_rate
  <2> QED BY <1>6, <2>1, ConfigKeeps DEF set_rate
<1>7. CASE limiter_elapse
  BY <1>7, ElapseKeeps
<1>8. CASE UNCHANGED limiterVars
  BY <1>1, <1>8, ConfigKeeps DEF limiterVars
<1> QED BY <1>2, <1>3, <1>4, <1>5, <1>6, <1>7, <1>8 DEF LimiterNext

\* What LruKept says element by element is what the list promises.
LEMMA LruOfKept == LruKept => LruTracksBuckets
<1> SUFFICES ASSUME LruKept PROVE LruTracksBuckets
  OBVIOUS
<1>1. lru \in Seq(Ips) /\ DOMAIN lru = 1 .. Len(lru) /\ Len(lru) \in Nat
  BY DEF LruKept
<1>2. Range(lru) = DOMAIN buckets
  BY <1>1 DEF LruKept, Range
<1>3. IsInjective(lru)
  <2> SUFFICES ASSUME NEW i \in 1 .. Len(lru), NEW j \in 1 .. Len(lru), lru[i] = lru[j]
               PROVE  i = j
    BY <1>1 DEF IsInjective
  <2>1. ~(i < j) /\ ~(j < i)
    BY DEF LruKept, Ordered
  <2> QED BY <2>1
<1> QED BY <1>1, <1>2, <1>3 DEF LruTracksBuckets, LruKept, Ordered

\* No source gets more than an exact bucket would give it, none is starved for
\* good, and the LRU list is the table's, oldest first (rate_limiter.hpp:92).
THEOREM LimiterIsSound == LimiterSpec => []LimiterSound
<1>1. LimiterInit => LimiterInv
  BY EmptyKept, Zenon DEF LimiterInit, Emptied
<1>2. LimiterInv => LimiterTypeOK /\ NeverOverIdeal /\ LruTracksBuckets
  BY LruOfKept DEF LimiterInv
<1> QED BY <1>1, <1>2, LimiterStepKeeps, PTL DEF LimiterSpec, LimiterSound

-----------------------------------------------------------------------------
\* The firewall.  Its steps are the limiter's, or leave it alone.
LEMMA LimiterSteps == [Next]_vars => [LimiterNext]_limiterVars
<1> SUFFICES ASSUME [Next]_vars PROVE [LimiterNext]_limiterVars
  OBVIOUS
<1>1. ASSUME NEW ip \in Ips, inspect(ip) PROVE [LimiterNext]_limiterVars
  BY <1>1 DEF inspect, LimiterNext
<1>2. CASE elapse
  BY <1>2 DEF elapse, LimiterNext
<1>3. ASSUME \/ configure \/ inspect_malformed \/ enable_ai \/ set_ai \/ disable_ai
             \/ \E on \in BOOLEAN : ai_set_shadow_mode(on)
             \/ infer
      PROVE  [LimiterNext]_limiterVars
  BY <1>3 DEF configure, inspect_malformed, enable_ai, set_ai, disable_ai, replace_ai,
              ai_set_shadow_mode, infer, on_timer
<1>4. CASE UNCHANGED vars
  BY <1>4 DEF vars
<1> QED BY <1>1, <1>2, <1>3, <1>4 DEF Next

\* The rules are in the order of their priorities.
RulesInv ==
  /\ rules \in Seq(Rule) /\ Len(rules) <= MAX_RULES /\ sorted(rules)
  /\ whitelist \subseteq Ips /\ blacklist \subseteq Ips
  /\ engine \in [enabled: BOOLEAN, shadow: BOOLEAN] /\ setup \in Setups

LEMMA AddSorted ==
  ASSUME RulesInv, NEW rule \in Rules, add_rule(rule), UNCHANGED setup
  PROVE  RulesInv'
<1> DEFINE longer == Append(rules, rule)
<1>1. /\ rule \in Rule /\ rules \in Seq(Rule) /\ Len(rules) < MAX_RULES /\ MAX_RULES \in Nat
  BY FirewallAssumption DEF RulesInv, add_rule
<1>2. longer \in Seq(Rule) /\ Len(longer) = Len(rules) + 1 /\ DOMAIN longer = 1 .. Len(rules) + 1
  BY <1>1
<1> HIDE DEF longer
<1>3. PICK places \in [DOMAIN longer -> DOMAIN longer] :
        sorted(taken(longer, places)) /\ rules' = taken(longer, places)
  BY DEF add_rule, orders, longer
<1>4. rules' = [k \in 1 .. Len(rules) + 1 |-> longer[places[k]]]
  BY <1>2, <1>3 DEF taken
<1>5. \A k \in 1 .. Len(rules) + 1 : longer[places[k]] \in Rule
  BY <1>2, <1>3
<1>6. rules' \in Seq(Rule) /\ Len(rules') = Len(rules) + 1
  BY <1>1, <1>4, <1>5
<1> QED BY <1>1, <1>3, <1>6 DEF RulesInv, add_rule

\* Those that stay keep their order.
LEMMA RemoveSorted ==
  ASSUME RulesInv, NEW id, remove_rule(id), UNCHANGED setup
  PROVE  RulesInv'
<1> DEFINE staying == {i \in DOMAIN rules : rules[i].id # id}
           c == Cardinality(staying)
<1>1. rules \in Seq(Rule) /\ Len(rules) \in Nat /\ DOMAIN rules = 1 .. Len(rules)
  BY DEF RulesInv
<1>2. c \in Nat /\ c <= Len(rules)
  <2>1. IsFiniteSet(1 .. Len(rules)) /\ Cardinality(1 .. Len(rules)) = IF 1 > Len(rules) THEN 0
                                                                    ELSE Len(rules) - 1 + 1
    BY <1>1, FS_Interval, 1 \in Int, Len(rules) \in Int
  <2>2. staying \in SUBSET (1 .. Len(rules))
    BY <1>1
  <2> HIDE DEF staying
  <2>3. c \in Nat /\ c <= Cardinality(1 .. Len(rules))
    BY <2>1, <2>2, FS_Subset, FS_CardinalityType
  <2> HIDE DEF c
  <2> QED BY <1>1, <2>1, <2>3
<1>3. PICK places \in [1 .. c -> staying] :
        /\ \A i, j \in 1 .. c : i < j => places[i] < places[j]
        /\ rules' = taken(rules, places)
  BY DEF remove_rule
<1>4. \A k \in 1 .. c : places[k] \in 1 .. Len(rules)
  BY <1>1, <1>3
<1> HIDE DEF staying, c
<1>5. rules' = [k \in 1 .. c |-> rules[places[k]]]
  BY <1>3 DEF taken
<1>6. rules' \in Seq(Rule) /\ Len(rules') = c /\ DOMAIN rules' = 1 .. c
  <2>1. \A k \in 1 .. c : rules[places[k]] \in Rule
    BY <1>1, <1>4
  <2> QED BY <1>2, <1>5, <2>1
<1>7. ASSUME NEW i \in 1 .. c, NEW j \in 1 .. c, i < j
      PROVE  rules'[i].priority <= rules'[j].priority
  <2>1. places[i] < places[j] /\ places[i] \in DOMAIN rules /\ places[j] \in DOMAIN rules
    BY <1>1, <1>3, <1>4, <1>7
  <2>2. rules[places[i]].priority <= rules[places[j]].priority
    BY <2>1 DEF RulesInv, sorted
  <2> QED BY <1>5, <2>2
<1>8. Len(rules') <= MAX_RULES
  BY <1>1, <1>2, <1>6, FirewallAssumption DEF RulesInv
<1> QED BY <1>6, <1>7, <1>8 DEF RulesInv, remove_rule, sorted

\* A switch leaves the priorities alone.
LEMMA SwitchSorted ==
  ASSUME RulesInv, NEW id, NEW on \in BOOLEAN, set_rule_enabled(id, on), UNCHANGED setup
  PROVE  RulesInv'
<1>1. PICK i : rules' = [rules EXCEPT ![i].enabled = on]
  BY DEF set_rule_enabled
<1>2. /\ rules \in Seq(Rule) /\ \A k \in 1 .. Len(rules) : rules[k] \in Rule
  BY DEF RulesInv
<1>3. /\ \A k \in 1 .. Len(rules) :
           rules'[k] = IF k = i THEN [rules[k] EXCEPT !.enabled = on] ELSE rules[k]
      /\ DOMAIN rules' = DOMAIN rules
  BY <1>1, <1>2
<1>4. \A k \in 1 .. Len(rules) : rules'[k] \in Rule /\ rules'[k].priority = rules[k].priority
  BY <1>2, <1>3 DEF Rule
<1>5. rules' \in Seq(Rule) /\ Len(rules') = Len(rules)
  <2>1. rules \in [1 .. Len(rules) -> Rule] /\ Len(rules) \in Nat
    BY <1>2
  <2>2. rules' \in [1 .. Len(rules) -> Rule]
    BY <1>1, <1>4, <2>1
  <2> QED BY <2>1, <2>2
<1>6. sorted(rules')
  BY <1>2, <1>3, <1>4 DEF RulesInv, sorted
<1> QED BY <1>5, <1>6 DEF RulesInv, set_rule_enabled, sorted

LEMMA RulesStep == RulesInv /\ [Next]_vars => RulesInv'
<1> SUFFICES ASSUME RulesInv, [Next]_vars PROVE RulesInv'
  OBVIOUS
<1>1. ASSUME configure PROVE RulesInv'
  <2>1. setup' = setup
    BY <1>1 DEF configure
  <2>2. ASSUME NEW rule \in Rules, add_rule(rule) \/ remove_rule(rule.id) PROVE RulesInv'
    BY <2>1, <2>2, AddSorted, RemoveSorted
  <2>3. ASSUME NEW rule \in Rules, NEW on \in BOOLEAN, set_rule_enabled(rule.id, on)
        PROVE  RulesInv'
    BY <2>1, <2>3, SwitchSorted
  <2>4. ASSUME NEW ip \in Ips, list_ip(ip) \/ unlist_ip(ip) PROVE RulesInv'
    BY <2>1, <2>4 DEF RulesInv, list_ip, unlist_ip, sorted
  <2>5. ASSUME NEW on \in BOOLEAN, engine_set_enabled(on) \/ set_shadow_mode(on) PROVE RulesInv'
    BY <2>1, <2>5 DEF RulesInv, engine_set_enabled, set_shadow_mode, sorted
  <2> QED BY <1>1, <2>2, <2>3, <2>4, <2>5 DEF configure
<1>2. ASSUME UNCHANGED setup, UNCHANGED policy PROVE RulesInv'
  BY <1>2 DEF RulesInv, policy, sorted
<1>3. ASSUME \/ \E ip \in Ips : inspect(ip)
             \/ inspect_malformed \/ enable_ai \/ set_ai \/ disable_ai
             \/ \E on \in BOOLEAN : ai_set_shadow_mode(on)
             \/ infer \/ elapse
      PROVE  UNCHANGED setup /\ UNCHANGED policy
  BY <1>3 DEF inspect, inspect_malformed, enable_ai, set_ai, disable_ai, replace_ai,
              ai_set_shadow_mode, infer, on_timer, elapse
<1>4. CASE UNCHANGED vars
  BY <1>2, <1>4 DEF vars
<1> QED BY <1>1, <1>2, <1>3, <1>4 DEF Next

-----------------------------------------------------------------------------
\* The counters count no more than the run of equal results is long.
Justified(a, r) ==
  /\ a.anomalies <= IF r.kind = "anomaly" THEN r.length ELSE 0
  /\ a.normals <= IF r.kind = "normal" THEN r.length ELSE 0

Runs == [kind: {"none", "normal", "anomaly"}, length: Nat]

AIInv ==
  /\ ai \in FirewallAI /\ run \in Runs
  /\ since_change \in 0 .. COOLDOWN /\ ai.cooling + since_change = COOLDOWN
  /\ Justified(ai, run)
  /\ ai.loaded => (ai.cached <=> latest = "anomaly")

LEMMA Thresholds ==
  ESCALATE \in Nat /\ DEESCALATE \in Nat /\ COOLDOWN \in Nat
  BY FirewallAssumption

\* The flags other than the mode stay.
SameAI(new, a) == new.loaded = a.loaded /\ new.escalates = a.escalates /\ new.present = a.present

\* What an inference that came to kind makes of an AI that changes its mode.
Moved(a, r, new, kind) ==
  /\ new \in FirewallAI /\ SameAI(new, a)
  /\ new.shadow = a.shadow =>
       Justified(new, lengthened(r, kind)) /\ new.cooling = a.cooling
  /\ new.shadow # a.shadow =>
       /\ new.anomalies = 0 /\ new.normals = 0 /\ a.cooling = 0 /\ new.cooling = COOLDOWN
       /\ IF a.shadow THEN kind = "anomaly" /\ r.length + 1 >= ESCALATE
                            /\ (r.kind = "anomaly" \/ ESCALATE <= 1)
          ELSE kind = "normal" /\ r.length + 1 >= DEESCALATE
               /\ (r.kind = "normal" \/ DEESCALATE <= 1)

\* One field at a time.
LEMMA FieldSet ==
  ASSUME NEW a \in FirewallAI
  PROVE  /\ \A n \in 0 .. ESCALATE : [a EXCEPT !.anomalies = n] \in FirewallAI
         /\ \A n \in 0 .. DEESCALATE : [a EXCEPT !.normals = n] \in FirewallAI
         /\ \A n \in 0 .. COOLDOWN : [a EXCEPT !.cooling = n] \in FirewallAI
         /\ \A on \in BOOLEAN : [a EXCEPT !.shadow = on] \in FirewallAI
         /\ \A on \in BOOLEAN : [a EXCEPT !.cached = on] \in FirewallAI
<1>1. \A n \in 0 .. ESCALATE : [a EXCEPT !.anomalies = n] \in FirewallAI
  BY DEF FirewallAI
<1>2. \A n \in 0 .. DEESCALATE : [a EXCEPT !.normals = n] \in FirewallAI
  BY DEF FirewallAI
<1>3. \A n \in 0 .. COOLDOWN : [a EXCEPT !.cooling = n] \in FirewallAI
  BY DEF FirewallAI
<1>4. \A on \in BOOLEAN : [a EXCEPT !.shadow = on] \in FirewallAI
  BY DEF FirewallAI
<1>5. \A on \in BOOLEAN : [a EXCEPT !.cached = on] \in FirewallAI
  BY DEF FirewallAI
<1> QED BY <1>1, <1>2, <1>3, <1>4, <1>5

LEMMA AnomalyMoves ==
  ASSUME NEW a \in FirewallAI, NEW r \in Runs, Justified(a, r), a.escalates
  PROVE  /\ Moved(a, r, auto_escalate(a, TRUE), "anomaly")
         /\ auto_escalate(a, TRUE).cached = a.cached
<1> DEFINE counted_up == smaller(a.anomalies + 1, ESCALATE)
           a1 == [a EXCEPT !.anomalies = counted_up]
           b == [a EXCEPT !.anomalies = counted_up, !.normals = 0]
           b1 == [b EXCEPT !.shadow = FALSE]
           b2 == [b1 EXCEPT !.anomalies = 0]
           c == [b EXCEPT !.shadow = FALSE, !.anomalies = 0, !.cooling = COOLDOWN]
           moves == a.shadow /\ a.cooling = 0 /\ counted_up >= ESCALATE
<1>1. /\ a.anomalies \in 0 .. ESCALATE /\ a.normals \in 0 .. DEESCALATE
      /\ a.cooling \in 0 .. COOLDOWN /\ r.length \in Nat
      /\ a.anomalies <= IF r.kind = "anomaly" THEN r.length ELSE 0
  BY DEF FirewallAI, Runs, Justified
<1>2. counted_up \in 0 .. ESCALATE /\ counted_up <= a.anomalies + 1
  BY <1>1, Thresholds DEF smaller
<1> HIDE DEF counted_up
<1>3. b \in FirewallAI /\ b.normals = 0 /\ b.anomalies = counted_up
      /\ SameAI(b, a) /\ b.cached = a.cached /\ b.shadow = a.shadow /\ b.cooling = a.cooling
  <2>1. b \in FirewallAI
    <3>1. a1 \in FirewallAI
      BY <1>2, FieldSet
    <3>2. b = [a1 EXCEPT !.normals = 0] /\ 0 \in 0 .. ESCALATE /\ 0 \in 0 .. DEESCALATE
      BY Thresholds
    <3> HIDE DEF a1, b
    <3> QED BY <3>1, <3>2, FieldSet
  <2>2. b.normals = 0 /\ b.anomalies = counted_up /\ b.cooling = a.cooling
    BY DEF FirewallAI
  <2>3. SameAI(b, a) /\ b.cached = a.cached /\ b.shadow = a.shadow
    BY DEF FirewallAI, SameAI
  <2> QED BY <2>1, <2>2, <2>3
<1>4. c \in FirewallAI /\ c.normals = 0 /\ c.anomalies = 0 /\ c.cooling = COOLDOWN
      /\ SameAI(c, a) /\ c.cached = a.cached /\ c.shadow = FALSE
  <2> HIDE DEF b
  <2>1. c \in FirewallAI
    <3>1. b1 \in FirewallAI
      BY <1>3, FieldSet
    <3> HIDE DEF b1
    <3>2. b2 \in FirewallAI
      BY <3>1, Thresholds, FieldSet
    <3>3. c = [b2 EXCEPT !.cooling = COOLDOWN] /\ COOLDOWN \in 0 .. COOLDOWN
      BY Thresholds DEF b1
    <3> HIDE DEF b2, c
    <3> QED BY <3>2, <3>3, FieldSet
  <2>2. c.normals = 0 /\ c.anomalies = 0 /\ c.cooling = COOLDOWN
    BY <1>3 DEF FirewallAI
  <2>3. SameAI(c, b) /\ c.cached = b.cached /\ c.shadow = FALSE
    BY <1>3 DEF FirewallAI, SameAI
  <2> QED BY <1>3, <2>1, <2>2, <2>3 DEF SameAI
<1>5. auto_escalate(a, TRUE) = IF moves THEN c ELSE b
  <2>1. auto_escalate(a, TRUE) = escalated(b)
    BY DEF auto_escalate, counted_up
  <2>2. escalated(b) = IF b.shadow /\ b.cooling = 0 /\ b.anomalies >= ESCALATE THEN c ELSE b
    BY DEF escalated
  <2> QED BY <1>3, <2>1, <2>2
<1> HIDE DEF b, c, counted_up
<1>6. CASE moves
  <2>1. a.anomalies + 1 >= ESCALATE
    BY <1>1, <1>2, <1>6, Thresholds
  <2>2. r.length + 1 >= ESCALATE /\ (r.kind = "anomaly" \/ ESCALATE <= 1)
    BY <1>1, <2>1, Thresholds
  <2> QED BY <1>4, <1>5, <1>6, <2>2 DEF Moved
<1>7. CASE ~moves
  <2>1. /\ lengthened(r, "anomaly").kind = "anomaly"
        /\ lengthened(r, "anomaly").length
             = IF r.kind = "anomaly" THEN smaller(r.length + 1, ESCALATE + DEESCALATE) ELSE 1
    BY DEF lengthened
  <2>2. counted_up <= lengthened(r, "anomaly").length
    BY <1>1, <1>2, <2>1, Thresholds DEF smaller
  <2>3. Justified(b, lengthened(r, "anomaly"))
    BY <1>3, <2>1, <2>2 DEF Justified
  <2> QED BY <1>3, <1>5, <1>7, <2>3 DEF Moved
<1> QED BY <1>6, <1>7

LEMMA NormalMoves ==
  ASSUME NEW a \in FirewallAI, NEW r \in Runs, Justified(a, r), a.escalates
  PROVE  /\ Moved(a, r, auto_escalate(a, FALSE), "normal")
         /\ auto_escalate(a, FALSE).cached = a.cached
<1> DEFINE counted_up == smaller(a.normals + 1, DEESCALATE)
           a1 == [a EXCEPT !.normals = counted_up]
           b == [a EXCEPT !.normals = counted_up, !.anomalies = 0]
           b1 == [b EXCEPT !.shadow = TRUE]
           b2 == [b1 EXCEPT !.normals = 0]
           c == [b EXCEPT !.shadow = TRUE, !.normals = 0, !.cooling = COOLDOWN]
           moves == ~a.shadow /\ a.cooling = 0 /\ counted_up >= DEESCALATE
<1>1. /\ a.anomalies \in 0 .. ESCALATE /\ a.normals \in 0 .. DEESCALATE
      /\ a.cooling \in 0 .. COOLDOWN /\ r.length \in Nat
      /\ a.normals <= IF r.kind = "normal" THEN r.length ELSE 0
  BY DEF FirewallAI, Runs, Justified
<1>2. counted_up \in 0 .. DEESCALATE /\ counted_up <= a.normals + 1
  BY <1>1, Thresholds DEF smaller
<1> HIDE DEF counted_up
<1>3. b \in FirewallAI /\ b.anomalies = 0 /\ b.normals = counted_up
      /\ SameAI(b, a) /\ b.cached = a.cached /\ b.shadow = a.shadow /\ b.cooling = a.cooling
  <2>1. b \in FirewallAI
    <3>1. a1 \in FirewallAI
      BY <1>2, FieldSet
    <3>2. b = [a1 EXCEPT !.anomalies = 0] /\ 0 \in 0 .. ESCALATE /\ 0 \in 0 .. DEESCALATE
      BY Thresholds
    <3> HIDE DEF a1, b
    <3> QED BY <3>1, <3>2, FieldSet
  <2>2. b.anomalies = 0 /\ b.normals = counted_up /\ b.cooling = a.cooling
    BY DEF FirewallAI
  <2>3. SameAI(b, a) /\ b.cached = a.cached /\ b.shadow = a.shadow
    BY DEF FirewallAI, SameAI
  <2> QED BY <2>1, <2>2, <2>3
<1>4. c \in FirewallAI /\ c.normals = 0 /\ c.anomalies = 0 /\ c.cooling = COOLDOWN
      /\ SameAI(c, a) /\ c.cached = a.cached /\ c.shadow = TRUE
  <2> HIDE DEF b
  <2>1. c \in FirewallAI
    <3>1. b1 \in FirewallAI
      BY <1>3, FieldSet
    <3> HIDE DEF b1
    <3>2. b2 \in FirewallAI
      BY <3>1, Thresholds, FieldSet
    <3>3. c = [b2 EXCEPT !.cooling = COOLDOWN] /\ COOLDOWN \in 0 .. COOLDOWN
      BY Thresholds DEF b1
    <3> HIDE DEF b2, c
    <3> QED BY <3>2, <3>3, FieldSet
  <2>2. c.normals = 0 /\ c.anomalies = 0 /\ c.cooling = COOLDOWN
    BY <1>3 DEF FirewallAI
  <2>3. SameAI(c, b) /\ c.cached = b.cached /\ c.shadow = TRUE
    BY <1>3 DEF FirewallAI, SameAI
  <2> QED BY <1>3, <2>1, <2>2, <2>3 DEF SameAI
<1>5. auto_escalate(a, FALSE) = IF moves THEN c ELSE b
  <2>1. auto_escalate(a, FALSE) = deescalated(b)
    BY DEF auto_escalate, counted_up
  <2>2. deescalated(b) = IF ~b.shadow /\ b.cooling = 0 /\ b.normals >= DEESCALATE THEN c ELSE b
    BY DEF deescalated
  <2> QED BY <1>3, <2>1, <2>2
<1> HIDE DEF b, c, counted_up
<1>6. CASE moves
  <2>1. a.normals + 1 >= DEESCALATE
    BY <1>1, <1>2, <1>6, Thresholds
  <2>2. r.length + 1 >= DEESCALATE /\ (r.kind = "normal" \/ DEESCALATE <= 1)
    BY <1>1, <2>1, Thresholds
  <2> QED BY <1>4, <1>5, <1>6, <2>2 DEF Moved
<1>7. CASE ~moves
  <2>1. /\ lengthened(r, "normal").kind = "normal"
        /\ lengthened(r, "normal").length
             = IF r.kind = "normal" THEN smaller(r.length + 1, ESCALATE + DEESCALATE) ELSE 1
    BY DEF lengthened
  <2>2. counted_up <= lengthened(r, "normal").length
    BY <1>1, <1>2, <2>1, Thresholds DEF smaller
  <2>3. Justified(b, lengthened(r, "normal"))
    BY <1>3, <2>1, <2>2 DEF Justified
  <2> QED BY <1>3, <1>5, <1>7, <2>3 DEF Moved
<1> QED BY <1>6, <1>7

\* What ModeChange asks of a step that changes the mode.
ChangeJustified ==
  ai'.shadow # ai.shadow =>
    /\ since_change >= COOLDOWN
    /\ IF ai.shadow THEN latest' = "anomaly" /\ run.length + 1 >= ESCALATE
                         /\ (run.kind = "anomaly" \/ ESCALATE <= 1)
       ELSE latest' = "normal" /\ run.length + 1 >= DEESCALATE
            /\ (run.kind = "normal" \/ DEESCALATE <= 1)

\* An inference that works.
LEMMA ResultMoves ==
  ASSUME AIInv, NEW kind \in {"normal", "anomaly"}, NEW new, ai.loaded,
         new = auto_escalate([ai EXCEPT !.cached = kind = "anomaly"], kind = "anomaly"),
         ai' = new, latest' = kind,
         run' = IF ~ai.escalates THEN run
                ELSE IF new.shadow # ai.shadow THEN NoRun ELSE lengthened(run, kind),
         since_change' = IF new.shadow # ai.shadow THEN 0 ELSE since_change
  PROVE  AIInv' /\ ChangeJustified
<1>1. ai \in FirewallAI /\ run \in Runs /\ Justified(ai, run)
  BY DEF AIInv
<1>2. PICK flag \in BOOLEAN : flag = (kind = "anomaly")
  OBVIOUS
<1>3. PICK a : a = [ai EXCEPT !.cached = flag]
  OBVIOUS
<1>4. a \in FirewallAI
  BY <1>1, <1>3, FieldSet
<1>5. a.shadow = ai.shadow /\ a.escalates = ai.escalates /\ a.loaded = ai.loaded
  BY <1>1, <1>3 DEF FirewallAI
<1>6. a.cooling = ai.cooling /\ a.anomalies = ai.anomalies /\ a.normals = ai.normals
  BY <1>1, <1>3 DEF FirewallAI
<1>7. a.cached <=> kind = "anomaly"
  <2>1. a.cached = flag
    BY <1>1, <1>3 DEF FirewallAI
  <2> QED BY <1>2, <2>1
<1>8. new = auto_escalate(a, flag)
  BY <1>2, <1>3
<1>9. Justified(a, run)
  BY <1>1, <1>6 DEF Justified
<1>10. CASE ~ai.escalates
  <2>1. new = a
    BY <1>5, <1>8, <1>10 DEF auto_escalate
  <2>2. new.shadow = ai.shadow
    BY <1>5, <2>1
  <2>3. run' = run /\ since_change' = since_change
    BY <1>10, <2>2
  <2> QED BY <1>4, <1>5, <1>6, <1>7, <1>9, <2>1, <2>2, <2>3 DEF AIInv, ChangeJustified
<1>11. CASE ai.escalates
  <2>1. Moved(a, run, new, kind) /\ new.cached = a.cached
    <3>1. CASE kind = "anomaly"
      <4>1. new = auto_escalate(a, TRUE)
        BY <1>2, <1>8, <3>1
      <4> QED BY <1>1, <1>4, <1>5, <1>9, <1>11, <3>1, <4>1, AnomalyMoves
    <3>2. CASE kind = "normal"
      <4>1. new = auto_escalate(a, FALSE)
        BY <1>2, <1>8, <3>2
      <4> QED BY <1>1, <1>4, <1>5, <1>9, <1>11, <3>2, <4>1, NormalMoves
    <3> QED BY <3>1, <3>2
  <2>2. ai' \in FirewallAI /\ (ai'.loaded => (ai'.cached <=> latest' = "anomaly"))
    BY <1>7, <2>1 DEF Moved
  <2>3. CASE new.shadow = ai.shadow
    <3>1. run' = lengthened(run, kind) /\ since_change' = since_change
      BY <1>11, <2>3
    <3>2. Justified(new, lengthened(run, kind)) /\ new.cooling = ai.cooling
      BY <1>5, <1>6, <2>1, <2>3 DEF Moved
    <3>3. lengthened(run, kind) \in Runs
      BY <1>1, Thresholds DEF Runs, lengthened, smaller
    <3>4. ~(ai'.shadow # ai.shadow)
      BY <2>3
    <3> QED BY <2>2, <3>1, <3>2, <3>3, <3>4 DEF AIInv, ChangeJustified
  <2>4. CASE new.shadow # ai.shadow
    <3>1. run' = NoRun /\ since_change' = 0
      BY <1>11, <2>4
    <3>2. /\ new.anomalies = 0 /\ new.normals = 0 /\ a.cooling = 0 /\ new.cooling = COOLDOWN
          /\ IF a.shadow THEN kind = "anomaly" /\ run.length + 1 >= ESCALATE
                              /\ (run.kind = "anomaly" \/ ESCALATE <= 1)
             ELSE kind = "normal" /\ run.length + 1 >= DEESCALATE
                  /\ (run.kind = "normal" \/ DEESCALATE <= 1)
      BY <1>5, <2>1, <2>4 DEF Moved
    <3>3. NoRun \in Runs /\ NoRun.length = 0 /\ NoRun.kind = "none"
      BY DEF NoRun, Runs
    <3>4. Justified(new, NoRun)
      BY <3>2, <3>3 DEF Justified
    <3>5. since_change >= COOLDOWN
      BY <1>6, <3>2, Thresholds DEF AIInv
    <3>6. ChangeJustified
      BY <1>5, <3>2, <3>5 DEF ChangeJustified
    <3>7. since_change' \in 0 .. COOLDOWN /\ ai'.cooling + since_change' = COOLDOWN
      BY <3>1, <3>2, Thresholds
    <3> QED BY <2>2, <3>1, <3>3, <3>4, <3>6, <3>7 DEF AIInv
  <2> QED BY <2>3, <2>4
<1> QED BY <1>10, <1>11

LEMMA TimerMoves ==
  ASSUME AIInv, NEW r \in {"normal", "anomaly", "failed"}, on_timer(r)
  PROVE  AIInv' /\ ChangeJustified
<1> DEFINE ticks == ai.present /\ since_tick >= TICK_INTERVAL
           w == IF ticks THEN ticked(window, current) ELSE window
           n == IF ticks THEN 0 ELSE current
           infers == ai.loaded /\ since_inference >= INFERENCE_INTERVAL
           new == IF infers THEN inferred(ai, w, n, r) ELSE ai
           came_to == IF busy(w, n) THEN r ELSE "idle"
<1>1. /\ ai' = new
      /\ latest' = IF infers /\ came_to # "failed" THEN came_to ELSE latest
      /\ run' = IF ~(infers /\ ai.escalates /\ came_to \in {"normal", "anomaly"}) THEN run
                ELSE IF new.shadow # ai.shadow THEN NoRun
                ELSE lengthened(run, came_to)
      /\ since_change' = IF new.shadow # ai.shadow THEN 0 ELSE since_change
  BY DEF on_timer
<1> HIDE DEF w, n
<1>2. new = IF ~infers THEN ai
            ELSE IF ~busy(w, n) THEN [ai EXCEPT !.cached = FALSE]
            ELSE IF r = "failed" THEN ai
            ELSE auto_escalate([ai EXCEPT !.cached = r = "anomaly"], r = "anomaly")
  BY DEF inferred
<1> HIDE DEF infers, new
<1>3. ASSUME new = ai, latest' = latest, run' = run
      PROVE  AIInv' /\ ChangeJustified
  BY <1>1, <1>3 DEF AIInv, ChangeJustified
<1>4. CASE ~infers \/ came_to = "failed"
  <2>1. new = ai
    BY <1>2, <1>4
  <2> QED BY <1>1, <1>3, <1>4, <2>1
<1>5. CASE infers /\ ~busy(w, n)
  <2>1. ai \in FirewallAI /\ new = [ai EXCEPT !.cached = FALSE]
    BY <1>2, <1>5 DEF AIInv
  <2>2. new \in FirewallAI
    BY <2>1, FieldSet
  <2>3. new.cached = FALSE /\ new.shadow = ai.shadow
    BY <2>1 DEF FirewallAI
  <2>4. new.cooling = ai.cooling /\ new.anomalies = ai.anomalies /\ new.normals = ai.normals
    BY <2>1 DEF FirewallAI
  <2>5. latest' = "idle" /\ run' = run /\ since_change' = since_change
    BY <1>1, <1>5, <2>3
  <2>6. Justified(new, run)
    BY <2>4 DEF AIInv, Justified
  <2> QED BY <1>1, <2>2, <2>3, <2>4, <2>5, <2>6 DEF AIInv, ChangeJustified
<1>6. CASE infers /\ busy(w, n) /\ r # "failed"
  <2>1. r \in {"normal", "anomaly"} /\ came_to = r /\ ai.loaded
    BY <1>6 DEF infers
  <2>2. new = auto_escalate([ai EXCEPT !.cached = r = "anomaly"], r = "anomaly")
    BY <1>2, <1>6
  <2>3. /\ ai' = new /\ latest' = r
        /\ run' = IF ~ai.escalates THEN run
                  ELSE IF new.shadow # ai.shadow THEN NoRun ELSE lengthened(run, r)
        /\ since_change' = IF new.shadow # ai.shadow THEN 0 ELSE since_change
    BY <1>1, <1>6, <2>1
  <2> QED BY <2>1, <2>2, <2>3, ResultMoves
<1> QED BY <1>4, <1>5, <1>6

\* An AI that was never asked has nothing to show.
Fresh(a) ==
  /\ a \in FirewallAI /\ a.cached = FALSE
  /\ a.anomalies = 0 /\ a.normals = 0 /\ a.cooling = 0

LEMMA FlagsFresh ==
  ASSUME NEW a, Fresh(a), NEW on \in BOOLEAN
  PROVE  /\ Fresh([a EXCEPT !.loaded = on]) /\ Fresh([a EXCEPT !.present = on])
         /\ Fresh([a EXCEPT !.shadow = on]) /\ Fresh([a EXCEPT !.escalates = on])
<1>1. Fresh([a EXCEPT !.loaded = on])
  BY DEF Fresh, FirewallAI
<1>2. Fresh([a EXCEPT !.present = on])
  BY DEF Fresh, FirewallAI
<1>3. Fresh([a EXCEPT !.shadow = on])
  BY DEF Fresh, FirewallAI
<1>4. Fresh([a EXCEPT !.escalates = on])
  BY DEF Fresh, FirewallAI
<1> QED BY <1>1, <1>2, <1>3, <1>4

LEMMA FreshAI ==
  /\ Fresh(NoAI)
  /\ \A loaded, shadow, escalates \in BOOLEAN : Fresh(NewAI(loaded, shadow, escalates))
<1>1. Fresh(NoAI)
  BY Thresholds DEF Fresh, NoAI, FirewallAI
<1>2. ASSUME NEW loaded \in BOOLEAN, NEW shadow \in BOOLEAN, NEW escalates \in BOOLEAN
      PROVE  Fresh(NewAI(loaded, shadow, escalates))
  <2>1. PICK a : a = [NoAI EXCEPT !.loaded = loaded]
    OBVIOUS
  <2>2. PICK b : b = [a EXCEPT !.present = TRUE]
    OBVIOUS
  <2>3. PICK c : c = [b EXCEPT !.shadow = shadow]
    OBVIOUS
  <2>4. NewAI(loaded, shadow, escalates) = [c EXCEPT !.escalates = escalates]
    BY <2>1, <2>2, <2>3, Zenon DEF NewAI
  <2>5. Fresh(a)
    BY <1>1, <2>1, FlagsFresh
  <2>6. Fresh(b)
    BY <2>2, <2>5, FlagsFresh
  <2>7. Fresh(c)
    BY <2>3, <2>6, FlagsFresh
  <2>8. Fresh([c EXCEPT !.escalates = escalates])
    BY <2>7, FlagsFresh
  <2> QED BY <2>4, <2>8, Zenon
<1> QED BY <1>1, <1>2

LEMMA FreshKept ==
  ASSUME Fresh(ai)', run' = NoRun, since_change' = COOLDOWN, latest' = "none"
  PROVE  AIInv'
<1>1. NoRun \in Runs /\ NoRun.length = 0 /\ NoRun.kind = "none"
  BY DEF NoRun, Runs
<1> QED BY <1>1, Thresholds DEF Fresh, AIInv, Justified

LEMMA AIStep == AIInv /\ RulesInv /\ [Next]_vars => AIInv'
<1> SUFFICES ASSUME AIInv, RulesInv, [Next]_vars PROVE AIInv'
  OBVIOUS
<1>1. ASSUME NEW new, Fresh(new), replace_ai(new) PROVE AIInv'
  <2>1. ai' = new /\ run' = NoRun /\ since_change' = COOLDOWN /\ latest' = "none"
    BY <1>1 DEF replace_ai
  <2>2. Fresh(ai)'
    BY <1>1, <2>1 DEF Fresh, FirewallAI
  <2> QED BY <2>1, <2>2, FreshKept
<1>2. ASSUME enable_ai \/ set_ai \/ disable_ai PROVE AIInv'
  <2>1. engine.shadow \in BOOLEAN
    BY DEF RulesInv
  <2>2. /\ Fresh(NoAI) /\ Fresh(NewAI(TRUE, engine.shadow, FALSE))
        /\ Fresh(NewAI(FALSE, TRUE, FALSE)) /\ Fresh(NewAI(TRUE, TRUE, TRUE))
    BY <2>1, FreshAI
  <2> QED BY <1>1, <1>2, <2>2 DEF enable_ai, set_ai, disable_ai
<1>3. ASSUME NEW on \in BOOLEAN, ai_set_shadow_mode(on) PROVE AIInv'
  <2>1. /\ ai \in FirewallAI /\ ai' = [ai EXCEPT !.shadow = on]
        /\ UNCHANGED <<run, since_change, latest>>
    BY <1>3 DEF AIInv, ai_set_shadow_mode, history
  <2>2. ai' \in FirewallAI
    BY <2>1, FieldSet
  <2>3. ai'.cooling = ai.cooling /\ ai'.anomalies = ai.anomalies /\ ai'.normals = ai.normals
    BY <2>1 DEF FirewallAI
  <2>4. ai'.loaded = ai.loaded /\ ai'.cached = ai.cached
    BY <2>1 DEF FirewallAI
  <2>5. Justified(ai, run)'
    BY <2>1, <2>3 DEF AIInv, Justified
  <2> QED BY <2>1, <2>2, <2>3, <2>4, <2>5 DEF AIInv
<1>4. ASSUME infer PROVE AIInv'
  BY <1>4, TimerMoves DEF infer
<1>5. CASE elapse
  <2>1. PICK left : left = IF ai.cooling = 0 THEN 0 ELSE ai.cooling - 1
    OBVIOUS
  <2>2. /\ ai \in FirewallAI /\ ai' = [ai EXCEPT !.cooling = left]
        /\ UNCHANGED <<run, latest>> /\ since_change' = smaller(since_change + 1, COOLDOWN)
    BY <1>5, <2>1 DEF AIInv, elapse
  <2>3. ai.cooling \in 0 .. COOLDOWN
    BY <2>2 DEF FirewallAI
  <2>4. left \in 0 .. COOLDOWN
    BY <2>1, <2>3, Thresholds
  <2>5. ai' \in FirewallAI
    BY <2>2, <2>4, FieldSet
  <2>6. ai'.cooling = left /\ ai'.anomalies = ai.anomalies /\ ai'.normals = ai.normals
    BY <2>2 DEF FirewallAI
  <2>7. ai'.loaded = ai.loaded /\ ai'.cached = ai.cached
    BY <2>2 DEF FirewallAI
  <2>8. since_change' \in 0 .. COOLDOWN /\ left + since_change' = COOLDOWN
    BY <2>1, <2>2, <2>3, Thresholds DEF AIInv, smaller
  <2>9. Justified(ai, run)'
    BY <2>2, <2>6 DEF AIInv, Justified
  <2> QED BY <2>2, <2>5, <2>6, <2>7, <2>8, <2>9 DEF AIInv
<1>6. ASSUME \/ configure \/ inspect_malformed \/ \E ip \in Ips : inspect(ip)
             \/ UNCHANGED vars
      PROVE  AIInv'
  <2>1. UNCHANGED <<ai, run, since_change, latest>>
    BY <1>6 DEF configure, inspect_malformed, inspect, vars, history
  <2> QED BY <2>1 DEF AIInv, Justified
<1> QED BY <1>2, <1>3, <1>4, <1>5, <1>6 DEF Next

-----------------------------------------------------------------------------
\* The other counters, and the verdict.
CountsInv ==
  /\ current \in 0 .. MaxCount
  /\ window \in Seq(0 .. MaxCount) /\ Len(window) <= WINDOW_SIZE
  /\ since_tick \in 0 .. TICK_INTERVAL /\ since_inference \in 0 .. INFERENCE_INTERVAL
  /\ verdict \in Actions

Bounds ==
  /\ MaxCount \in Nat /\ WINDOW_SIZE \in Nat
  /\ TICK_INTERVAL \in Nat /\ INFERENCE_INTERVAL \in Nat

LEMMA BoundsHold == Bounds
  BY FirewallAssumption DEF Bounds

\* A nonempty set of natural numbers has a least one.
LEMMA LeastNat ==
  ASSUME NEW T \in SUBSET Nat, T # {}
  PROVE  \E x \in T : \A y \in T : x <= y
<1>1. PICK x \in T : \A y \in T : ~(<<y, x>> \in OpToRel(<, Nat))
  BY NatLessThanWellFounded, WFMin
<1>2. ASSUME NEW y \in T PROVE x <= y
  <2>1. x \in Nat /\ y \in Nat
    OBVIOUS
  <2>2. y < x => <<y, x>> \in OpToRel(<, Nat)
    <3>1. y < x => <<y, x>>[1] < <<y, x>>[2]
      OBVIOUS
    <3>2. <<y, x>> \in Nat \X Nat
      BY <2>1
    <3> QED BY <3>1, <3>2, Zenon DEF OpToRel
  <2>3. ~(y < x)
    BY <1>1, <2>2, Zenon
  <2> QED BY <2>1, <2>3
<1> QED BY <1>2

LEMMA RulesAreRules ==
  ASSUME RulesInv
  PROVE  /\ DOMAIN rules = 1 .. Len(rules) /\ Len(rules) \in Nat
         /\ \A i \in DOMAIN rules : rules[i].priority \in Nat /\ rules[i].action \in Actions
<1>1. rules \in Seq(Rule)
  BY DEF RulesInv
<1>2. DOMAIN rules = 1 .. Len(rules) /\ Len(rules) \in Nat /\ \A i \in DOMAIN rules : rules[i] \in Rule
  BY <1>1
<1>3. \A rule \in Rule : rule.priority \in Nat /\ rule.action \in Actions
  BY DEF Rule
<1> QED BY <1>2, <1>3

\* The rule that decides is the first that matches, and so of the least priority.
LEMMA FirstDecides ==
  ASSUME RulesInv, NEW ip, deciding(ip) # 0
  PROVE  /\ deciding(ip) \in DOMAIN rules
         /\ \A i \in DOMAIN rules :
              matches(rules[i], ip) => rules[deciding(ip)].priority <= rules[i].priority
<1> DEFINE hits == {i \in DOMAIN rules : matches(rules[i], ip)}
<1>1. /\ DOMAIN rules = 1 .. Len(rules) /\ Len(rules) \in Nat
      /\ \A i \in 1 .. Len(rules) : rules[i].priority \in Nat
  BY RulesAreRules
<1>2. hits \in SUBSET Nat /\ hits # {}
  BY <1>1 DEF deciding
<1>3. deciding(ip) = CHOOSE i \in hits : \A j \in hits : i <= j
  BY <1>2 DEF deciding
<1>4. \E i \in hits : \A j \in hits : i <= j
  BY <1>2, LeastNat
<1>5. deciding(ip) \in hits /\ \A j \in hits : deciding(ip) <= j
  BY <1>3, <1>4
<1>6. ASSUME NEW i \in DOMAIN rules, matches(rules[i], ip)
      PROVE  rules[deciding(ip)].priority <= rules[i].priority
  <2>1. deciding(ip) \in DOMAIN rules /\ deciding(ip) <= i
    BY <1>5, <1>6
  <2> HIDE DEF hits
  <2>2. CASE deciding(ip) = i
    BY <1>1, <2>2
  <2>3. CASE deciding(ip) < i
    BY <2>1, <2>3 DEF RulesInv, sorted
  <2> QED BY <1>1, <2>1, <2>2, <2>3
<1> QED BY <1>5, <1>6

LEMMA DecidedAction ==
  ASSUME RulesInv, NEW ip, NEW through
  PROVE  decided(ip, through).action \in Actions
<1>1. deciding(ip) # 0 => rules[deciding(ip)].action \in Actions
  <2>1. \A i \in DOMAIN rules : rules[i].action \in Actions
    BY RulesAreRules
  <2> QED BY <2>1, FirstDecides
<1>2. ruled(ip, through).action \in Actions
  BY <1>1 DEF ruled, first_match, Actions
<1> QED BY <1>2 DEF decided, Actions

LEMMA Prefix ==
  ASSUME NEW S, NEW s \in Seq(S), NEW n \in Nat, n <= Len(s)
  PROVE  SubSeq(s, 1, n) \in Seq(S) /\ Len(SubSeq(s, 1, n)) = n
  OBVIOUS

\* The sliding window takes the count of this second and forgets the oldest.
LEMMA WindowTicks ==
  ASSUME CountsInv
  PROVE  /\ ticked(window, current) \in Seq(0 .. MaxCount)
         /\ Len(ticked(window, current)) <= WINDOW_SIZE
<1>1. /\ current \in 0 .. MaxCount /\ window \in Seq(0 .. MaxCount)
      /\ Len(window) \in Nat /\ Len(window) <= WINDOW_SIZE /\ WINDOW_SIZE \in Nat
  BY BoundsHold DEF CountsInv, Bounds
<1>2. PICK longer : longer = <<current>> \o window
  OBVIOUS
<1>3. longer \in Seq(0 .. MaxCount) /\ Len(longer) = Len(window) + 1
  BY <1>1, <1>2
<1>4. PICK left : left = smaller(Len(window) + 1, WINDOW_SIZE)
  OBVIOUS
<1>5. left \in Nat /\ left <= Len(longer) /\ left <= WINDOW_SIZE
  BY <1>1, <1>3, <1>4 DEF smaller
<1>6. SubSeq(longer, 1, left) \in Seq(0 .. MaxCount) /\ Len(SubSeq(longer, 1, left)) = left
  BY <1>3, <1>5, Prefix
<1>7. ticked(window, current) = SubSeq(longer, 1, left)
  BY <1>2, <1>4 DEF ticked
<1> QED BY <1>5, <1>6, <1>7

LEMMA CountsStep == CountsInv /\ RulesInv /\ [Next]_vars => CountsInv'
<1> SUFFICES ASSUME CountsInv, RulesInv, [Next]_vars PROVE CountsInv'
  OBVIOUS
<1>1. ASSUME UNCHANGED <<current, window, since_tick, since_inference, verdict>>
      PROVE  CountsInv'
  BY <1>1 DEF CountsInv
<1>2. ASSUME \/ configure \/ \E on \in BOOLEAN : ai_set_shadow_mode(on) \/ UNCHANGED vars
      PROVE  CountsInv'
  BY <1>1, <1>2 DEF configure, ai_set_shadow_mode, vars
<1>3. ASSUME NEW ip \in Ips, inspect(ip) PROVE CountsInv'
  <2>1. counted \in 0 .. MaxCount
    BY BoundsHold DEF CountsInv, Bounds, counted, smaller
  <2>2. verdict' \in Actions
    <3>1. PICK through : verdict' = IF engine.enabled THEN decided(ip, through).action
                                    ELSE "pass"
      BY <1>3 DEF inspect
    <3>2. decided(ip, through).action \in Actions
      BY DecidedAction
    <3> QED BY <3>1, <3>2 DEF Actions
  <2> QED BY <1>3, <2>1, <2>2 DEF CountsInv, inspect
<1>4. CASE inspect_malformed
  BY <1>4 DEF CountsInv, inspect_malformed, Actions
<1>5. CASE enable_ai \/ set_ai \/ disable_ai
  <2>1. PICK new : replace_ai(new)
    BY <1>5 DEF enable_ai, set_ai, disable_ai
  <2>2. 0 \in 0 .. MaxCount /\ <<>> \in Seq(0 .. MaxCount) /\ Len(<<>>) <= WINDOW_SIZE
    BY BoundsHold DEF Bounds
  <2> QED BY <2>1, <2>2 DEF CountsInv, replace_ai
<1>6. ASSUME NEW r \in {"normal", "anomaly", "failed"}, on_timer(r) PROVE CountsInv'
  <2>1. /\ current' \in {0, current} /\ window' \in {window, ticked(window, current)}
        /\ since_tick' \in {0, since_tick} /\ since_inference' \in {0, since_inference}
        /\ verdict' = verdict
    BY <1>6 DEF on_timer
  <2>2. /\ 0 \in 0 .. MaxCount /\ 0 \in 0 .. TICK_INTERVAL /\ 0 \in 0 .. INFERENCE_INTERVAL
    BY BoundsHold DEF Bounds
  <2> QED BY <2>1, <2>2, WindowTicks DEF CountsInv
<1>7. CASE elapse
  BY <1>7, BoundsHold DEF CountsInv, Bounds, elapse, smaller
<1> QED BY <1>2, <1>3, <1>4, <1>5, <1>6, <1>7 DEF Next, infer

-----------------------------------------------------------------------------
FirewallInv == LimiterInv /\ RulesInv /\ AIInv /\ CountsInv

LEMMA FirewallStarts == Init => FirewallInv
<1> SUFFICES ASSUME Init PROVE FirewallInv
  OBVIOUS
<1>1. LimiterInv
  BY EmptyKept, Zenon DEF Init, LimiterInit, Emptied
<1>2. RulesInv
  BY FirewallAssumption DEF Init, RulesInv, sorted
<1>3. AIInv
  <2>1. ai = NoAI /\ run = NoRun /\ since_change = COOLDOWN /\ latest = "none"
    BY DEF Init
  <2>2. Fresh(ai)
    BY <2>1, FreshAI
  <2>3. NoRun \in Runs /\ NoRun.length = 0 /\ NoRun.kind = "none"
    BY DEF NoRun, Runs
  <2> QED BY <2>1, <2>2, <2>3, Thresholds DEF Fresh, AIInv, Justified
<1>4. CountsInv
  BY BoundsHold DEF Init, CountsInv, Bounds, Actions
<1> QED BY <1>1, <1>2, <1>3, <1>4 DEF FirewallInv

LEMMA FirewallSteps == FirewallInv /\ [Next]_vars => FirewallInv'
  BY LimiterSteps, LimiterStepKeeps, RulesStep, AIStep, CountsStep DEF FirewallInv

LEMMA FirewallHolds == FirewallInv => FirewallSound
<1> SUFFICES ASSUME FirewallInv PROVE FirewallSound
  OBVIOUS
<1>1. TypeOK
  BY DEF FirewallInv, LimiterInv, RulesInv, AIInv, CountsInv, TypeOK
<1>2. ASSUME NEW ip \in Ips, deciding(ip) # 0, NEW i \in DOMAIN rules, matches(rules[i], ip)
      PROVE  rules[deciding(ip)].priority <= rules[i].priority
  BY <1>2, FirstDecides DEF FirewallInv
<1>3. ASSUME NEW ip \in Ips, NEW through \in BOOLEAN
      PROVE  /\ ip \in blacklist \ whitelist => decided(ip, through).action = "drop"
             /\ ip \in whitelist /\ ~(ai.loaded /\ ai.cached) => decided(ip, through).action = "pass"
  BY DEF decided, ruled
<1>4. ai.loaded => (ai.cached <=> latest = "anomaly")
  BY DEF FirewallInv, AIInv
<1> QED BY <1>1, <1>2, <1>3, <1>4 DEF FirewallSound, PolicyHolds

\* The policy, for every set of rules, every threshold and every order of calls:
\* the rule that decides has the least priority of those that match, whatever
\* rules were added, removed and switched before (rule_engine.hpp:196), a list
\* decides before them, and the AI's alarm is what the last inference that worked
\* came to (firewall_ai.cpp:95).
THEOREM FirewallIsSound == Spec => []FirewallSound
<1> QED BY FirewallStarts, FirewallSteps, FirewallHolds, PTL DEF Spec

\* The AI changes its mode by itself only after as many equal results in a row as
\* the thresholds ask for, counted since it last did, and never within the cooldown
\* (firewall_ai.cpp:189).
THEOREM ModeChangesJustified == Spec => ModeChanges
<1>1. FirewallInv /\ [Next]_vars => [ModeChange]_vars
  <2> SUFFICES ASSUME FirewallInv, infer PROVE ModeChange
    BY DEF ModeChange
  <2>1. ChangeJustified
    BY TimerMoves DEF FirewallInv, infer
  <2> QED BY <2>1, Zenon DEF ModeChange, ChangeJustified
<1> QED BY <1>1, FirewallStarts, FirewallSteps, PTL DEF Spec, ModeChanges
=============================================================================

---------------------------- MODULE ServiceProofs ----------------------------
(* The services above the transport, for every value of the constants.         *)
(* The DNS client: the requests are numbered as they are made, so the          *)
(* identifier of a request is its number modulo IdSpace, and a query under an  *)
(* identifier is of the last request that took it.  That makes pending a       *)
(* function of the request as well, which CallbacksSound alone does not say;   *)
(* what a message holds is traced back to the request it was sent for.         *)
(* The HTTP exchange: what a connection still owes its client is the rest of   *)
(* its last response, the pieces on their way are of requests not taken yet,   *)
(* in the order they were sent, and a client that waits for each response has  *)
(* had every request taken, or all but the one that is on its way.             *)
EXTENDS DnsClient, HttpExchange, FiniteSetTheorems, SequenceTheorems, NaturalsInduction,
        WellFoundedInduction, TLAPS

\* The identifier of a request.
IdOf(r) == r % IdSpace

\* How many requests there were.
AskedCount == Cardinality(Asked)

AskedInOrder ==
  /\ AskedCount \in 0 .. MaxResolved
  /\ Asked = 1 .. AskedCount
  /\ next_id = IdOf(AskedCount + 1)

\* What is pending waits for its first call.
WaitingUncalled ==
  \A i \in DOMAIN pending :
    /\ pending[i].request \in Asked
    /\ IdOf(pending[i].request) = i
    /\ called[pending[i].request] = 0

CalledOnce ==
  \A r \in Requests :
    /\ called[r] \in {0, 1}
    /\ r \notin Asked => called[r] = 0 /\ answer[r] = None

\* A message is of a request that was made.
OfRequest(m) == \E r \in Asked : m.id = IdOf(r) /\ m.name = name[r]
MessagesTraced == \A m \in queries \cup answers : OfRequest(m)

NoneForgotten ==
  ~Wrapped => \A r \in Asked :
                /\ called[r] = 1 \/ Waiting(r)
                /\ answer[r] # None => answer[r] = name[r]

DnsInv ==
  /\ DnsTypeOK /\ AskedInOrder /\ WaitingUncalled /\ CalledOnce
  /\ MessagesTraced /\ NoneForgotten
-----------------------------------------------------------------------------
LEMMA DnsNumbers ==
  /\ IdSpace \in Nat /\ IdSpace > 0 /\ UdpPortSpace \in Nat /\ UdpPortSpace > 0
  /\ EPHEMERAL_PORT_MIN \in UdpPorts
  /\ MAX_RETRIES \in Nat /\ RETRY_TICKS \in Nat /\ MaxResolved \in Nat
BY DnsAssumption DEF UdpPorts

\* Numbering from 1 to n, in the set the model writes.
LEMMA Numbered ==
  ASSUME NEW n \in Nat
  PROVE  IsFiniteSet(1 .. n) /\ Cardinality(1 .. n) = n
<1>1. 1 \in Int /\ n \in Int
  OBVIOUS
<1>2. Cardinality(1 .. n) = (IF 1 > n THEN 0 ELSE n - 1 + 1) /\ IsFiniteSet(1 .. n)
  BY <1>1, FS_Interval
<1> QED BY <1>2

\* The remainder of a number that is below twice the modulus.
LEMMA IdRemainder ==
  ASSUME NEW r \in Nat
  PROVE  /\ IdOf(r) \in QueryIds
         /\ r < IdSpace => IdOf(r) = r
         /\ r = IdSpace => IdOf(r) = 0
<1> USE DnsNumbers
<1>1. r % IdSpace \in 0 .. IdSpace - 1
  OBVIOUS
<1>2. r < IdSpace => r % IdSpace = r
  OBVIOUS
<1>3. r = IdSpace => r % IdSpace = 0
  OBVIOUS
<1> QED BY <1>1, <1>2, <1>3 DEF IdOf, QueryIds

\* Identifiers that have not come round stand for one request each.
LEMMA IdsDistinct ==
  ASSUME NEW r \in Nat \ {0}, NEW s \in Nat \ {0}, r <= IdSpace, s <= IdSpace,
         IdOf(r) = IdOf(s)
  PROVE  r = s
<1>1. /\ r < IdSpace => IdOf(r) = r
      /\ s < IdSpace => IdOf(s) = s
      /\ r = IdSpace => IdOf(r) = 0
      /\ s = IdSpace => IdOf(s) = 0
  BY IdRemainder
<1> QED BY <1>1, DnsNumbers

\* The identifier after that of a request is the next request's.
LEMMA IdAfter ==
  ASSUME NEW r \in Nat
  PROVE  (IdOf(r) + 1) % IdSpace = IdOf(r + 1)
<1> DEFINE M == IdSpace
           d == r \div M
           m == r % M
<1>1. M \in Nat /\ M > 0
  BY DnsNumbers
<1> HIDE DEF M
<1>2. d \in Int /\ m \in 0 .. M - 1 /\ r = M * d + m
  BY <1>1
<1> HIDE DEF d, m
<1> DEFINE e == (r + 1) \div M
           k == (r + 1) % M
<1>3. e \in Int /\ k \in 0 .. M - 1 /\ r + 1 = M * e + k
  BY <1>1
<1> HIDE DEF e, k
<1>4. M * e - M * d = m + 1 - k /\ M * e \in Int /\ M * d \in Int
  BY <1>1, <1>2, <1>3
<1>5. M * (e - d) = m + 1 - k
  BY <1>1, <1>2, <1>3, <1>4
<1>6. e = d \/ e = d + 1
  <2>1. M * (e - d) < 2 * M /\ M * (e - d) > - M
    BY <1>1, <1>2, <1>3, <1>5
  <2> DEFINE g == e - d
  <2>2. g \in Int
    BY <1>2, <1>3
  <2> HIDE DEF g
  <2>3. M * g < 2 * M /\ M * g > - M
    BY <2>1 DEF g
  <2>4. ASSUME g >= 2 PROVE FALSE
    <3>1. M * g >= M * 2
      BY <2>2, <2>4, <1>1, SMTT(20)
    <3> QED BY <3>1, <2>3, <1>1, <2>2
  <2>5. ASSUME g <= -1 PROVE FALSE
    <3>1. M * g <= M * (-1)
      BY <2>2, <2>5, <1>1, SMTT(20)
    <3> QED BY <3>1, <2>3, <1>1, <2>2
  <2>6. g = 0 \/ g = 1
    BY <2>2, <2>4, <2>5
  <2> QED BY <2>6, <1>2, <1>3 DEF g
<1>7. ASSUME e = d PROVE (m + 1) % M = k
  <2>1. M * (e - d) = 0
    BY <1>7, <1>1, <1>2
  <2>2. k = m + 1
    BY <2>1, <1>5, <1>2, <1>3
  <2> QED BY <2>2, <1>3, <1>1
<1>8. ASSUME e = d + 1 PROVE (m + 1) % M = k
  <2>1. M * (e - d) = M
    BY <1>8, <1>1, <1>2
  <2>2. m + 1 = M /\ k = 0
    BY <2>1, <1>5, <1>2, <1>3, <1>1
  <2> QED BY <2>2, <1>1
<1>9. (m + 1) % M = k
  BY <1>6, <1>7, <1>8
<1> QED BY <1>9 DEF m, k, M, IdOf

-----------------------------------------------------------------------------
LEMMA DnsStarts == DnsInit => DnsInv
<1> SUFFICES ASSUME DnsInit PROVE DnsInv
  OBVIOUS
<1>1. Asked = {} /\ AskedCount = 0 /\ DOMAIN pending = {} /\ DOMAIN sockets = {}
  BY FS_EmptySet DEF DnsInit, Asked, AskedCount
<1>2. 1 .. 0 = {}
  OBVIOUS
<1>3. IdOf(1) \in QueryIds
  BY IdRemainder
<1>4. 0 \in UdpPorts /\ EPHEMERAL_PORT_MIN \in UdpPorts
  BY DnsNumbers DEF UdpPorts
<1>5. DnsTypeOK
  BY <1>1, <1>3, <1>4 DEF DnsInit, DnsTypeOK, IdOf
<1>6. AskedInOrder
  BY <1>1, <1>2, DnsNumbers DEF DnsInit, AskedInOrder, IdOf
<1> QED BY <1>1, <1>5, <1>6 DEF DnsInit, DnsInv, WaitingUncalled, CalledOnce, MessagesTraced,
           NoneForgotten

\* A callback asks for nothing, or for the next request.
LEMMA MoreCases ==
  ASSUME DnsInv, NEW more \in NewRequests(Names)
  PROVE  \/ more = {}
         \/ AskedCount < MaxResolved /\ \E nm \in Names : more = {<<AskedCount + 1, nm>>}
BY DEF NewRequests, AskedCount

\* What a request that is made changes, and what it leaves alone.
Made(more) ==
  /\ IF more = {} THEN Asked' = Asked /\ AskedCount' = AskedCount
     ELSE /\ Asked' = Asked \cup {AskedCount + 1} /\ AskedCount' = AskedCount + 1
          /\ AskedCount + 1 \in Requests /\ AskedCount + 1 \notin Asked
  /\ Asked' \subseteq Requests
  /\ next_id' \in QueryIds
  /\ \A r \in Asked' : name'[r] \in Names
  /\ \A r \in Asked : name'[r] = name[r]
  /\ queries' \subseteq Message

LEMMA RequestMade ==
  ASSUME DnsInv, NEW more \in NewRequests(Names), NEW resent \in SUBSET Message,
         \A m \in resent : OfRequest(m), issue(more, resent), answers' = answers
  PROVE  Made(more) /\ AskedInOrder' /\ MessagesTraced'
<1> DEFINE k == AskedCount
<1>1. /\ k \in Nat /\ k <= MaxResolved /\ Asked = 1 .. k /\ next_id = IdOf(k + 1)
      /\ next_id \in QueryIds
  BY DnsNumbers DEF DnsInv, AskedInOrder, DnsTypeOK
<1>2. queries \subseteq Message /\ \A r \in Asked : r \in Requests /\ name[r] \in Names
  BY DEF DnsInv, DnsTypeOK
<1>3. \A m \in queries \cup answers \cup resent : OfRequest(m)
  BY DEF DnsInv, MessagesTraced
<1> HIDE DEF k
<1>4. CASE more = {}
  <2>1. /\ name' = [r \in Asked |-> name[r]] /\ next_id' = next_id
        /\ queries' \subseteq queries \cup resent
    BY <1>4 DEF issue, sent
  <2>2. Asked' = Asked /\ \A r \in Asked : name'[r] = name[r]
    BY <2>1 DEF Asked
  <2>3. AskedCount' = AskedCount
    BY <2>2 DEF AskedCount
  <2>4. Made(more)
    BY <1>1, <1>2, <1>4, <2>1, <2>2, <2>3 DEF Made
  <2>5. AskedInOrder'
    BY <2>1, <2>2, <2>3 DEF DnsInv, AskedInOrder, IdOf
  <2>6. MessagesTraced'
    <3> SUFFICES ASSUME NEW m \in queries' \cup answers' PROVE OfRequest(m)'
      BY DEF MessagesTraced
    <3>1. PICK r \in Asked : m.id = IdOf(r) /\ m.name = name[r]
      BY <1>3, <2>1 DEF OfRequest
    <3> QED BY <3>1, <2>2 DEF OfRequest, IdOf
  <2> QED BY <2>4, <2>5, <2>6
<1>5. ASSUME more # {} PROVE Made(more) /\ AskedInOrder' /\ MessagesTraced'
  <2>1. PICK nm \in Names : more = {<<k + 1, nm>>} /\ k < MaxResolved
    BY <1>5, MoreCases DEF k
  <2>2. {m[1] : m \in more} = {k + 1}
    BY <2>1
  <2>3. (CHOOSE m \in more : TRUE)[2] = nm
    <3> DEFINE c == CHOOSE m \in more : TRUE
    <3>1. \E m \in more : TRUE
      BY <1>5
    <3>2. c \in more
      BY <3>1, Zenon
    <3> HIDE DEF c
    <3>3. c = <<k + 1, nm>>
      BY <3>2, <2>1
    <3>4. c[2] = nm
      BY <3>3
    <3> QED BY <3>4, Zenon DEF c
  <2>4. /\ name' = [r \in Asked \cup {k + 1} |-> IF r \in Asked THEN name[r] ELSE nm]
        /\ next_id' = (next_id + 1) % IdSpace
    BY <1>5, <2>2, <2>3 DEF issue
  <2>5. queries' \subseteq queries \cup resent \cup {[id |-> next_id, name |-> nm]}
    BY <2>1 DEF issue, sent
  <2>6. Asked' = Asked \cup {k + 1}
    BY <2>4 DEF Asked
  <2>7. k + 1 \notin Asked /\ k + 1 \in Requests /\ 1 .. k + 1 = Asked \cup {k + 1}
    BY <1>1, <2>1, DnsNumbers DEF Requests
  <2>8. AskedCount' = k + 1
    <3>1. k + 1 \in Nat /\ Asked' = 1 .. k + 1
      BY <1>1, <2>6, <2>7
    <3>2. Cardinality(1 .. k + 1) = k + 1
      BY <3>1, Numbered
    <3> QED BY <3>1, <3>2 DEF AskedCount
  <2>9. next_id' = IdOf(k + 2)
    <3>1. (IdOf(k + 1) + 1) % IdSpace = IdOf((k + 1) + 1)
      BY <1>1, IdAfter
    <3>2. (k + 1) + 1 = k + 2
      BY <1>1
    <3> QED BY <3>1, <3>2, <2>4, <1>1
  <2>10. \A r \in Asked : name'[r] = name[r]
    BY <2>4
  <2>11. name'[k + 1] = nm
    BY <2>4, <2>7
  <2>12. IdOf(k + 2) \in QueryIds
    BY <1>1, IdRemainder
  <2>13. [id |-> next_id, name |-> nm] \in Message
    BY <1>1 DEF Message
  <2>14. Made(more)
    <3>1. Asked' \subseteq Requests /\ \A r \in Asked' : name'[r] \in Names
      BY <1>2, <2>6, <2>7, <2>10, <2>11
    <3>2. queries' \subseteq Message
      BY <1>2, <2>5, <2>13
    <3>3. next_id' \in QueryIds
      BY <2>9, <2>12
    <3> QED BY <1>5, <2>6, <2>7, <2>8, <2>10, <3>1, <3>2, <3>3 DEF Made, k
  <2>15. AskedInOrder'
    <3>1. k + 1 \in 0 .. MaxResolved /\ (k + 1) + 1 = k + 2
      BY <1>1, <2>1, DnsNumbers
    <3>2. Asked' = 1 .. k + 1
      BY <2>6, <2>7
    <3> QED BY <3>1, <3>2, <2>8, <2>9 DEF AskedInOrder, IdOf
  <2>16. MessagesTraced'
    <3> SUFFICES ASSUME NEW m \in queries' \cup answers' PROVE OfRequest(m)'
      BY DEF MessagesTraced
    <3>1. CASE m \in queries \cup answers \cup resent
      <4>1. PICK r \in Asked : m.id = IdOf(r) /\ m.name = name[r]
        BY <1>3, <3>1 DEF OfRequest
      <4> QED BY <4>1, <2>6, <2>10 DEF OfRequest, IdOf
    <3>2. CASE m = [id |-> next_id, name |-> nm]
      BY <3>2, <1>1, <2>6, <2>11 DEF OfRequest, IdOf
    <3> QED BY <3>1, <3>2, <2>5
  <2> QED BY <2>14, <2>15, <2>16
<1> QED BY <1>4, <1>5
\* A round of the table: those under ids are called back and leave, and a new
\* query goes in under the next identifier.
Round(ids, p, more) ==
  /\ DOMAIN p = DOMAIN pending
  /\ \A i \in DOMAIN pending : p[i] \in Query /\ p[i].request = pending[i].request
  /\ pending' = erased(with_new(p, more), ids)
  /\ called' \in [Requests -> Nat]
  /\ \A r \in Requests :
       called'[r] = IF \E i \in ids : pending[i].request = r THEN called[r] + 1
                    ELSE called[r]

\* What that does to what waits, and to who was called.
LEMMA TableRound ==
  ASSUME DnsInv, NEW more \in NewRequests(Names), Made(more),
         NEW ids \in SUBSET DOMAIN pending, NEW p, Round(ids, p, more)
  PROVE  /\ DOMAIN pending' \subseteq QueryIds /\ \A i \in DOMAIN pending' : pending'[i] \in Query
         /\ WaitingUncalled'
         /\ \A r \in Requests : /\ called'[r] \in {0, 1}
                                /\ r \notin Asked' => called'[r] = 0
         /\ ~Wrapped' => ~Wrapped /\ \A r \in Asked' : called'[r] = 1 \/ Waiting(r)'
<1> USE DEF Round
<1> DEFINE k == AskedCount
           new == [request |-> k + 1, age |-> 0, retries |-> 0]
<1>1. /\ k \in Nat /\ k <= MaxResolved /\ Asked = 1 .. k /\ next_id = IdOf(k + 1)
      /\ next_id \in QueryIds
  BY DnsNumbers DEF DnsInv, AskedInOrder, DnsTypeOK
<1>2. /\ DOMAIN pending \subseteq QueryIds /\ Asked \subseteq Requests
      /\ called \in [Requests -> Nat]
  BY DEF DnsInv, DnsTypeOK
<1>3. \A i \in DOMAIN pending : /\ pending[i].request \in Asked
                                /\ IdOf(pending[i].request) = i
                                /\ called[pending[i].request] = 0
  BY DEF DnsInv, WaitingUncalled
<1>4. \A r \in Requests : called[r] \in {0, 1} /\ (r \notin Asked => called[r] = 0)
  BY DEF DnsInv, CalledOnce
<1>5. /\ more = {} => Asked' = Asked
      /\ more # {} => Asked' = Asked \cup {k + 1} /\ k + 1 \in Requests /\ k + 1 \notin Asked
      /\ Asked \subseteq Asked'
  BY DEF Made
<1>6. AskedCount' = IF more = {} THEN k ELSE k + 1
  BY DEF Made
<1> HIDE DEF k
<1>7. /\ more = {} => with_new(p, more) = p
      /\ more # {} => with_new(p, more) =
           [x \in DOMAIN pending \cup {next_id} |-> IF x = next_id THEN new ELSE p[x]]
  BY DEF with_new, put, k, AskedCount
<1>8. new \in Query \/ more = {}
  BY <1>5, DnsNumbers DEF Query
<1>9. /\ DOMAIN pending' = DOMAIN with_new(p, more) \ ids
      /\ \A i \in DOMAIN pending' : pending'[i] = with_new(p, more)[i]
  BY DEF erased
<1>10. \A i \in DOMAIN pending' :
         /\ i \notin ids
         /\ \/ i \in DOMAIN pending /\ pending'[i] = p[i]
            \/ more # {} /\ i = next_id /\ pending'[i] = new
  <2>1. CASE more = {}
    BY <2>1, <1>7, <1>9
  <2>2. CASE more # {}
    <3> SUFFICES ASSUME NEW i \in DOMAIN pending'
                 PROVE  /\ i \notin ids
                        /\ \/ i \in DOMAIN pending /\ pending'[i] = p[i]
                           \/ more # {} /\ i = next_id /\ pending'[i] = new
      OBVIOUS
    <3> HIDE DEF new
    <3>1. i \in DOMAIN pending \cup {next_id} /\ i \notin ids
      BY <2>2, <1>7, <1>9
    <3>2. pending'[i] = IF i = next_id THEN new ELSE p[i]
      BY <2>2, <1>7, <1>9, <3>1
    <3> QED BY <2>2, <3>1, <3>2
  <2> QED BY <2>1, <2>2
<1>11. DOMAIN pending' \subseteq QueryIds /\ \A i \in DOMAIN pending' : pending'[i] \in Query
  BY <1>1, <1>2, <1>8, <1>10
<1>12. \A i, j \in DOMAIN pending : pending[i].request = pending[j].request => i = j
  BY <1>3
<1>13. \A r \in Requests : /\ called'[r] \in {0, 1}
                           /\ r \notin Asked' => called'[r] = 0
  <2> SUFFICES ASSUME NEW r \in Requests
               PROVE  called'[r] \in {0, 1} /\ (r \notin Asked' => called'[r] = 0)
    OBVIOUS
  <2>1. CASE \E i \in ids : pending[i].request = r
    BY <2>1, <1>3, <1>5
  <2>2. CASE ~ \E i \in ids : pending[i].request = r
    BY <2>2, <1>4, <1>5
  <2> QED BY <2>1, <2>2
<1>14. WaitingUncalled'
  <2> SUFFICES ASSUME NEW i \in DOMAIN pending'
               PROVE  /\ pending'[i].request \in Asked'
                      /\ pending'[i].request % IdSpace = i
                      /\ called'[pending'[i].request] = 0
    BY DEF WaitingUncalled, IdOf
  <2>1. CASE i \in DOMAIN pending /\ pending'[i] = p[i]
    <3>1. pending'[i].request = pending[i].request /\ i \notin ids
      BY <2>1, <1>10
    <3>2. ~ \E j \in ids : pending[j].request = pending[i].request
      BY <2>1, <3>1, <1>12
    <3> QED BY <2>1, <3>1, <3>2, <1>2, <1>3, <1>5 DEF IdOf
  <2>2. CASE more # {} /\ i = next_id /\ pending'[i] = new
    <3>1. pending'[i].request = k + 1
      BY <2>2
    <3>2. ~ \E j \in ids : pending[j].request = k + 1
      BY <2>2, <1>3, <1>5
    <3> QED BY <2>2, <3>1, <3>2, <1>1, <1>4, <1>5 DEF IdOf
  <2> QED BY <2>1, <2>2, <1>10
<1>15. ASSUME ~Wrapped' PROVE ~Wrapped /\ \A r \in Asked' : called'[r] = 1 \/ Waiting(r)'
  <2>1. k <= IdSpace /\ (more # {} => k + 1 <= IdSpace)
    BY <1>1, <1>6, <1>15, DnsNumbers DEF Wrapped, AskedCount, k
  <2>2. ~Wrapped
    BY <2>1, <1>1, DnsNumbers DEF Wrapped, AskedCount, k
  <2>3. more # {} => next_id \notin DOMAIN pending
    <3> SUFFICES ASSUME more # {}, next_id \in DOMAIN pending PROVE FALSE
      OBVIOUS
    <3> DEFINE r == pending[next_id].request
    <3>1. r \in Asked /\ IdOf(r) = IdOf(k + 1)
      BY <1>1, <1>3
    <3> HIDE DEF r
    <3>2. r \in Nat \ {0} /\ r <= k /\ k + 1 \in Nat \ {0}
      BY <3>1, <1>1
    <3>3. r = k + 1
      BY <3>1, <3>2, <2>1, <1>1, DnsNumbers, IdsDistinct
    <3> QED BY <3>2, <3>3, <1>1
  <2>4. ASSUME NEW r \in Asked' PROVE called'[r] = 1 \/ Waiting(r)'
    <3>1. CASE r \in Asked
      <4>1. CASE called[r] = 1
        <5>1. r \in Requests
          BY <3>1, <1>2
        <5>2. called'[r] \in {0, 1} /\ (called'[r] = 1 \/ called'[r] = 2)
          BY <4>1, <5>1, <1>13
        <5> QED BY <5>2
      <4>2. CASE called[r] # 1
        <5>1. Waiting(r)
          BY <2>2, <3>1, <4>2 DEF DnsInv, NoneForgotten
        <5>2. PICK i \in DOMAIN pending : pending[i].request = r
          BY <5>1 DEF Waiting
        <5>3. CASE i \in ids
          BY <5>2, <5>3, <1>3, <1>2, <3>1
        <5>4. CASE i \notin ids
          <6>1. i \in DOMAIN pending' /\ pending'[i] = p[i]
            BY <5>2, <5>4, <1>7, <1>9, <2>3
          <6> QED BY <6>1, <5>2 DEF Waiting
        <5> QED BY <5>3, <5>4
      <4> QED BY <4>1, <4>2
    <3>2. CASE r \notin Asked
      <4>1. more # {} /\ r = k + 1
        BY <2>4, <3>2, <1>5
      <4>2. next_id \in DOMAIN pending' /\ pending'[next_id] = new
        BY <4>1, <2>3, <1>7, <1>9
      <4> QED BY <4>1, <4>2 DEF Waiting
    <3> QED BY <3>1, <3>2
  <2> QED BY <2>2, <2>4
<1> QED BY <1>11, <1>13, <1>14, <1>15
-----------------------------------------------------------------------------
\* A nonempty set of natural numbers has a least one.
LEMMA LeastNat ==
  ASSUME NEW T \in SUBSET Nat, T # {}
  PROVE  \E x \in T : \A y \in T : x <= y
<1>1. PICK x \in T : \A y \in T : ~(<<y, x>> \in OpToRel(<, Nat))
  BY NatLessThanWellFounded, WFMin
<1>2. ASSUME NEW y \in T PROVE x <= y
  <2>1. x \in Nat /\ y \in Nat
    OBVIOUS
  <2>2. y < x => <<y, x>> \in OpToRel(<, Nat)
    <3>1. y < x => <<y, x>>[1] < <<y, x>>[2]
      OBVIOUS
    <3>2. <<y, x>> \in Nat \X Nat
      BY <2>1
    <3> QED BY <3>1, <3>2, Zenon DEF OpToRel
  <2>3. ~(y < x)
    BY <1>1, <2>2, Zenon
  <2> QED BY <2>1, <2>3
<1> QED BY <1>2

LEMMA AllocatedPort ==
  ASSUME udp_next_port \in UdpPorts
  PROVE  allocated.port \in UdpPorts /\ allocated.next \in UdpPorts
<1>1. CASE free_tries = {}
  BY <1>1, DnsNumbers DEF allocated, UdpPorts
<1>2. CASE free_tries # {}
  <2> DEFINE i == CHOOSE i \in free_tries : \A j \in free_tries : i <= j
  <2>1. free_tries \in SUBSET Nat
    BY DnsNumbers DEF free_tries
  <2>2. \E x \in free_tries : \A y \in free_tries : x <= y
    BY <1>2, <2>1, LeastNat
  <2>3. i \in free_tries
    BY <2>2, Zenon
  <2>4. allocated = [port |-> tried(i), next |-> tried(i + 1)]
    BY <1>2, Zenon DEF allocated
  <2> HIDE DEF i
  <2>5. i \in Nat /\ udp_next_port \in Nat
    BY <2>1, <2>3, DnsNumbers DEF UdpPorts
  <2>6. tried(i) \in UdpPorts /\ tried(i + 1) \in UdpPorts
    BY <2>5, DnsNumbers DEF tried, UdpPorts
  <2> QED BY <2>4, <2>6
<1> QED BY <1>1, <1>2

\* Sockets come and go.
LEMMA SocketsKept ==
  ASSUME DnsInv, NEW port \in UdpPorts, bind(port) \/ unbind(port) \/ init(port)
  PROVE  DnsInv'
<1>1. UNCHANGED resolving /\ UNCHANGED visiting
  BY DEF bind, unbind, init, idle
<1>2. UNCHANGED <<next_id, pending, name, called, answer, queries, answers, visiting>>
  BY <1>1 DEF resolving
<1> DEFINE Bound(s) == /\ DOMAIN s \subseteq UdpPorts \ {0}
                       /\ \A p \in DOMAIN s : s[p] \in {"dns", "app"}
<1>3. Bound(sockets) /\ udp_next_port \in UdpPorts /\ local_port \in UdpPorts
  BY DEF DnsInv, DnsTypeOK
<1>4. ASSUME NEW p \in UdpPorts, p # 0, NEW v \in {"dns", "app"} PROVE Bound(put(sockets, p, v))
  BY <1>3, <1>4 DEF put
<1>5. Bound(erased(sockets, {port}))
  BY <1>3 DEF erased
<1> HIDE DEF Bound
<1>6. Bound(sockets') /\ udp_next_port' \in UdpPorts /\ local_port' \in UdpPorts
  <2>1. CASE bind(port)
    <3> DEFINE got == IF port = 0 THEN allocated ELSE [port |-> port, next |-> udp_next_port]
    <3>1. got.port \in UdpPorts /\ got.next \in UdpPorts
      BY <1>3, AllocatedPort
    <3>2. /\ udp_next_port' = got.next /\ local_port' = local_port
          /\ sockets' = sockets \/ (got.port # 0 /\ sockets' = put(sockets, got.port, "app"))
      BY <2>1 DEF bind
    <3> HIDE DEF got
    <3> QED BY <3>1, <3>2, <1>3, <1>4
  <2>2. CASE unbind(port)
    BY <2>2, <1>3, <1>5 DEF unbind
  <2>3. CASE init(port)
    BY <2>3, <1>3, <1>4 DEF init
  <2> QED BY <2>1, <2>2, <2>3
<1>7. DnsTypeOK'
  BY <1>2, <1>6 DEF DnsInv, DnsTypeOK, Asked, Bound
<1> QED BY <1>2, <1>7 DEF DnsInv, AskedInOrder, AskedCount, WaitingUncalled, CalledOnce,
           MessagesTraced, OfRequest, NoneForgotten, Wrapped, Waiting, Asked, IdOf

LEMMA RepliesKept ==
  ASSUME DnsInv, NEW q \in queries, reply(q)
  PROVE  DnsInv'
<1>1. /\ UNCHANGED <<sockets, udp_next_port, local_port, next_id, pending, name, called,
                     answer, queries, visiting>>
      /\ answers' = answers \cup {q}
  BY DEF reply, idle
<1>2. DnsTypeOK'
  BY <1>1 DEF DnsInv, DnsTypeOK, Asked
<1>3. MessagesTraced'
  BY <1>1 DEF DnsInv, MessagesTraced, OfRequest, Asked, IdOf
<1> QED BY <1>1, <1>2, <1>3 DEF DnsInv, AskedInOrder, AskedCount, WaitingUncalled, CalledOnce,
           NoneForgotten, Wrapped, Waiting, Asked, IdOf

\* What the actions that touch the table of queries have in common.
LEMMA RoundKept ==
  ASSUME DnsInv, NEW more \in NewRequests(Names), NEW resent \in SUBSET Message,
         \A m \in resent : OfRequest(m), issue(more, resent),
         UNCHANGED <<sockets, udp_next_port, local_port, answers>>,
         NEW ids \in SUBSET DOMAIN pending, NEW p, DOMAIN p = DOMAIN pending,
         \A i \in DOMAIN pending : p[i] \in Query /\ p[i].request = pending[i].request,
         pending' = erased(with_new(p, more), ids),
         called' \in [Requests -> Nat],
         \A r \in Requests :
           called'[r] = IF \E i \in ids : pending[i].request = r THEN called[r] + 1
                        ELSE called[r],
         answer' \in [Requests -> Names \cup {None}],
         \A r \in Requests \ Asked : answer'[r] = None,
         ~Wrapped => \A r \in Asked : answer'[r] # None => answer'[r] = name[r],
         visiting' \subseteq DOMAIN pending'
  PROVE  DnsInv'
<1>1. Made(more) /\ AskedInOrder' /\ MessagesTraced'
  BY RequestMade
<1>2. /\ DOMAIN pending' \subseteq QueryIds /\ \A i \in DOMAIN pending' : pending'[i] \in Query
      /\ WaitingUncalled'
      /\ \A r \in Requests : /\ called'[r] \in {0, 1}
                             /\ r \notin Asked' => called'[r] = 0
      /\ ~Wrapped' => ~Wrapped /\ \A r \in Asked' : called'[r] = 1 \/ Waiting(r)'
  <2>1. Round(ids, p, more)
    BY DEF Round
  <2> QED BY <1>1, <2>1, TableRound
<1>3. DnsTypeOK'
  BY <1>1, <1>2 DEF DnsInv, DnsTypeOK, Made
<1>4. Asked \subseteq Asked' /\ Asked' \subseteq Requests /\ \A r \in Asked : name'[r] = name[r]
  BY <1>1 DEF Made
<1>5. CalledOnce'
  <2>1. \A r \in Requests : r \notin Asked' => answer'[r] = None
    BY <1>4
  <2> QED BY <1>2, <2>1 DEF CalledOnce, Requests
<1>6. NoneForgotten'
  <2> SUFFICES ASSUME ~Wrapped', NEW r \in Asked'
               PROVE  /\ called'[r] = 1 \/ Waiting(r)'
                      /\ answer'[r] # None => answer'[r] = name'[r]
    BY DEF NoneForgotten
  <2> QED BY <1>2, <1>4
<1> QED BY <1>1, <1>2, <1>3, <1>5, <1>6 DEF DnsInv

LEMMA ResolveKept ==
  ASSUME DnsInv, NEW more \in NewRequests(Names), resolve_async(more)
  PROVE  DnsInv'
<1>1. /\ pending' = with_new(pending, more) /\ issue(more, {}) /\ called' = called
      /\ answer' = answer /\ UNCHANGED <<sockets, udp_next_port, local_port, answers>>
      /\ visiting' = {}
  BY DEF resolve_async, idle
<1>2. with_new(pending, more) = erased(with_new(pending, more), {})
  BY DEF with_new, put, erased, DnsInv, DnsTypeOK, resolve_async
<1>3. \A i \in DOMAIN pending : pending[i] \in Query
  BY DEF DnsInv, DnsTypeOK
<1>4. /\ called \in [Requests -> Nat] /\ answer \in [Requests -> Names \cup {None}]
      /\ \A r \in Requests \ Asked : answer[r] = None
      /\ ~Wrapped => \A r \in Asked : answer[r] # None => answer[r] = name[r]
  BY DEF DnsInv, DnsTypeOK, CalledOnce, NoneForgotten
<1>5. \A r \in Requests : called'[r] = IF \E i \in {} : pending[i].request = r
                                       THEN called[r] + 1 ELSE called[r]
  BY <1>1
<1>6. {} \in SUBSET Message /\ {} \in SUBSET DOMAIN pending /\ \A m \in {} : OfRequest(m)
  OBVIOUS
<1> QED BY <1>1, <1>2, <1>3, <1>4, <1>5, <1>6, RoundKept

LEMMA ReceiveKept ==
  ASSUME DnsInv, NEW a \in answers, NEW more \in NewRequests(Names), dns_on_receive(a, more)
  PROVE  DnsInv'
<1> DEFINE r == pending[a.id].request
<1>1. /\ a.id \in DOMAIN pending
      /\ called' = [called EXCEPT ![r] = @ + 1] /\ answer' = [answer EXCEPT ![r] = a.name]
      /\ pending' = erased(with_new(pending, more), {a.id}) /\ issue(more, {})
      /\ UNCHANGED <<sockets, udp_next_port, local_port, answers>>
      /\ visiting' = {}
  BY DEF dns_on_receive, idle
<1>2. \A i \in DOMAIN pending : pending[i] \in Query
  BY DEF DnsInv, DnsTypeOK
<1>3. /\ called \in [Requests -> Nat] /\ answer \in [Requests -> Names \cup {None}]
      /\ \A s \in Requests \ Asked : answer[s] = None
      /\ ~Wrapped => \A s \in Asked : answer[s] # None => answer[s] = name[s]
  BY DEF DnsInv, DnsTypeOK, CalledOnce, NoneForgotten
<1>4. r \in Asked /\ IdOf(r) = a.id
  BY <1>1 DEF DnsInv, WaitingUncalled
<1>5. Asked \subseteq Requests /\ a.name \in Names
  BY DEF DnsInv, DnsTypeOK, Message
<1>6. ~Wrapped => a.name = name[r]
  <2> SUFFICES ASSUME ~Wrapped PROVE a.name = name[r]
    OBVIOUS
  <2>1. PICK s \in Asked : a.id = IdOf(s) /\ a.name = name[s]
    BY DEF DnsInv, MessagesTraced, OfRequest
  <2> HIDE DEF r
  <2>2. /\ r \in Nat \ {0} /\ s \in Nat \ {0} /\ r <= AskedCount /\ s <= AskedCount
        /\ AskedCount \in Nat /\ AskedCount <= IdSpace
    BY <1>4, <2>1, DnsNumbers DEF DnsInv, AskedInOrder, Wrapped, AskedCount
  <2>3. r = s
    BY <2>1, <2>2, <1>4, IdsDistinct, DnsNumbers
  <2> QED BY <2>1, <2>3
<1>7. \A s \in Requests : called'[s] = IF \E i \in {a.id} : pending[i].request = s
                                       THEN called[s] + 1 ELSE called[s]
  BY <1>1, <1>3, <1>4, <1>5
<1>8. called' \in [Requests -> Nat]
  BY <1>1, <1>3, <1>4, <1>5
<1>9. answer' \in [Requests -> Names \cup {None}] /\ \A s \in Requests \ Asked : answer'[s] = None
  BY <1>1, <1>3, <1>4, <1>5
<1>10. ~Wrapped => \A s \in Asked : answer'[s] # None => answer'[s] = name[s]
  BY <1>1, <1>3, <1>4, <1>5, <1>6
<1>11. {} \in SUBSET Message /\ {a.id} \in SUBSET DOMAIN pending /\ \A m \in {} : OfRequest(m)
  BY <1>1
<1> HIDE DEF r
<1> QED BY <1>1, <1>2, <1>7, <1>8, <1>9, <1>10, <1>11, RoundKept

\* The timer makes every query older, and changes nothing else of it.
LEMMA TimerKept ==
  ASSUME DnsInv, dns_on_timer
  PROVE  DnsInv'
<1> DEFINE aged == [i \in DOMAIN pending |-> older(pending[i])]
<1>1. /\ pending' = aged
      /\ visiting' = {i \in DOMAIN pending : Due(older(pending[i]))}
      /\ UNCHANGED <<sockets, udp_next_port, local_port, next_id, name, called, answer,
                     queries, answers>>
  BY DEF dns_on_timer
<1>2. ASSUME NEW q \in Query PROVE older(q) \in Query /\ older(q).request = q.request
  <2>1. q.age \in 0 .. RETRY_TICKS + 1
    BY DEF Query
  <2>2. CASE Due(q)
    BY <2>2 DEF older, Query
  <2>3. CASE ~Due(q)
    <3>1. q.age + 1 \in 0 .. RETRY_TICKS + 1
      BY <2>1, <2>3, DnsNumbers DEF Due
    <3>2. older(q) = [q EXCEPT !.age = q.age + 1]
      BY <2>3 DEF older
    <3> QED BY <3>1, <3>2 DEF Query
  <2> QED BY <2>2, <2>3
<1>3. \A i \in DOMAIN pending : pending[i] \in Query
  BY DEF DnsInv, DnsTypeOK
<1>4. /\ DOMAIN pending' = DOMAIN pending
      /\ \A i \in DOMAIN pending : /\ pending'[i] \in Query
                                   /\ pending'[i].request = pending[i].request
  BY <1>1, <1>2, <1>3
<1>5. visiting' \subseteq DOMAIN pending'
  BY <1>1, <1>4
<1> HIDE DEF aged
<1>6. DnsTypeOK'
  BY <1>1, <1>4, <1>5 DEF DnsInv, DnsTypeOK, Asked
<1>7. WaitingUncalled'
  BY <1>1, <1>4 DEF DnsInv, WaitingUncalled, Asked, IdOf
<1>8. \A r : Waiting(r)' <=> Waiting(r)
  BY <1>4 DEF Waiting
<1>9. NoneForgotten'
  BY <1>1, <1>8 DEF DnsInv, NoneForgotten, Wrapped, Asked
<1> QED BY <1>1, <1>6, <1>7, <1>9 DEF DnsInv, AskedInOrder, AskedCount, CalledOnce,
           MessagesTraced, OfRequest, Asked, IdOf

LEMMA RetryKept ==
  ASSUME DnsInv, NEW i \in visiting, retry(i)
  PROVE  DnsInv'
<1> DEFINE p == [pending EXCEPT ![i].age = 0, ![i].retries = @ + 1]
           resent == {[id |-> i, name |-> name[pending[i].request]]}
<1>1. /\ pending[i].retries < MAX_RETRIES
      /\ pending' = p /\ issue({}, resent) /\ visiting' = visiting \ {i}
      /\ called' = called /\ answer' = answer
      /\ UNCHANGED <<sockets, udp_next_port, local_port, answers>>
  BY DEF retry
<1>2. /\ DOMAIN pending \subseteq QueryIds /\ visiting \subseteq DOMAIN pending
      /\ \A j \in DOMAIN pending :
           /\ pending[j] \in Query /\ pending[j].request \in Asked
           /\ IdOf(pending[j].request) = j /\ name[pending[j].request] \in Names
  BY DEF DnsInv, DnsTypeOK, WaitingUncalled
<1>3. DOMAIN p = DOMAIN pending
  OBVIOUS
<1>4. ASSUME NEW j \in DOMAIN pending
      PROVE  p[j] \in Query /\ p[j].request = pending[j].request
  <2>1. CASE j # i
    BY <2>1, <1>2
  <2>2. CASE j = i
    <3>1. p[j] = [pending[j] EXCEPT !.age = 0, !.retries = pending[j].retries + 1]
      BY <2>2
    <3>2. pending[j] \in Query /\ pending[j].retries \in 0 .. MAX_RETRIES
      BY <1>2 DEF Query
    <3>3. pending[j].retries + 1 \in 0 .. MAX_RETRIES /\ 0 \in 0 .. RETRY_TICKS + 1
      BY <3>2, <2>2, <1>1, DnsNumbers
    <3> HIDE DEF p
    <3> QED BY <3>1, <3>2, <3>3 DEF Query
  <2> QED BY <2>1, <2>2
<1>5. resent \in SUBSET Message /\ \A m \in resent : OfRequest(m)
  BY <1>2 DEF Message, OfRequest
<1>6. /\ with_new(p, {}) = p
      /\ erased(p, {}) = [j \in DOMAIN p |-> p[j]]
  BY DEF with_new, erased
<1>7. p = [j \in DOMAIN p |-> p[j]]
  OBVIOUS
<1>8. /\ called \in [Requests -> Nat] /\ answer \in [Requests -> Names \cup {None}]
      /\ \A r \in Requests \ Asked : answer[r] = None
      /\ ~Wrapped => \A r \in Asked : answer[r] # None => answer[r] = name[r]
  BY DEF DnsInv, DnsTypeOK, CalledOnce, NoneForgotten
<1>9. {} \in NewRequests(Names) /\ {} \in SUBSET DOMAIN pending
  BY DEF NewRequests
<1>10. \A r \in Requests : called'[r] = IF \E j \in {} : pending[j].request = r
                                        THEN called[r] + 1 ELSE called[r]
  BY <1>1
<1>11. visiting' \subseteq DOMAIN pending'
  BY <1>1, <1>2, <1>3
<1> HIDE DEF p, resent
<1>12. pending' = erased(with_new(p, {}), {})
  BY <1>1, <1>6, <1>7
<1> QED BY <1>1, <1>3, <1>4, <1>5, <1>8, <1>9, <1>10, <1>11, <1>12, RoundKept

LEMMA GiveUpKept ==
  ASSUME DnsInv, NEW i \in visiting, NEW more \in NewRequests(Names), give_up(i, more)
  PROVE  DnsInv'
<1> DEFINE r == pending[i].request
<1>1. /\ called' = [called EXCEPT ![r] = @ + 1] /\ answer' = answer
      /\ pending' = erased(with_new(pending, more), {i}) /\ issue(more, {})
      /\ visiting' \in SUBSET (visiting \ {i})
      /\ UNCHANGED <<sockets, udp_next_port, local_port, answers>>
  BY DEF give_up
<1>2. visiting \subseteq DOMAIN pending /\ \A j \in DOMAIN pending : pending[j] \in Query
  BY DEF DnsInv, DnsTypeOK
<1>3. /\ called \in [Requests -> Nat] /\ answer \in [Requests -> Names \cup {None}]
      /\ \A s \in Requests \ Asked : answer[s] = None
      /\ ~Wrapped => \A s \in Asked : answer[s] # None => answer[s] = name[s]
  BY DEF DnsInv, DnsTypeOK, CalledOnce, NoneForgotten
<1>4. r \in Asked /\ Asked \subseteq Requests
  BY <1>2 DEF DnsInv, DnsTypeOK, WaitingUncalled
<1>5. \A s \in Requests : called'[s] = IF \E j \in {i} : pending[j].request = s
                                       THEN called[s] + 1 ELSE called[s]
  BY <1>1, <1>3, <1>4
<1>6. called' \in [Requests -> Nat]
  BY <1>1, <1>3, <1>4
<1>7. {} \in SUBSET Message /\ {i} \in SUBSET DOMAIN pending /\ \A m \in {} : OfRequest(m)
  BY <1>2
<1>8. visiting' \subseteq DOMAIN pending'
  <2>1. DOMAIN pending' = DOMAIN with_new(pending, more) \ {i}
    BY <1>1 DEF erased
  <2>2. DOMAIN pending \subseteq DOMAIN with_new(pending, more)
    BY DEF with_new, put
  <2> QED BY <1>1, <1>2, <2>1, <2>2
<1> HIDE DEF r
<1> QED BY <1>1, <1>2, <1>3, <1>5, <1>6, <1>7, <1>8, RoundKept

LEMMA NotDueKept ==
  ASSUME DnsInv, NEW i \in visiting, not_due(i)
  PROVE  DnsInv'
<1>1. /\ visiting' \subseteq visiting
      /\ UNCHANGED <<sockets, udp_next_port, local_port, next_id, pending, name, called,
                     answer, queries, answers>>
  BY DEF not_due, resolving
<1>2. DnsTypeOK'
  BY <1>1 DEF DnsInv, DnsTypeOK, Asked
<1> QED BY <1>1, <1>2 DEF DnsInv, AskedInOrder, AskedCount, WaitingUncalled, CalledOnce,
           MessagesTraced, OfRequest, NoneForgotten, Wrapped, Waiting, Asked, IdOf

LEMMA DnsStep == DnsInv /\ [DnsNext]_dnsVars => DnsInv'
<1> SUFFICES ASSUME DnsInv, [DnsNext]_dnsVars PROVE DnsInv'
  OBVIOUS
<1>1. CASE \E port \in UdpPorts : bind(port) \/ unbind(port) \/ init(port)
  BY <1>1, SocketsKept
<1>2. CASE \E more \in NewRequests(Names) : resolve_async(more)
  BY <1>2, ResolveKept
<1>3. CASE \E q \in queries : reply(q)
  BY <1>3, RepliesKept
<1>4. CASE \E a \in answers, more \in NewRequests(Names) : dns_on_receive(a, more)
  BY <1>4, ReceiveKept
<1>5. CASE Timer
  <2>1. CASE dns_on_timer
    BY <2>1, TimerKept
  <2>2. ASSUME NEW i \in visiting, Visit(i) PROVE DnsInv'
    BY <2>2, RetryKept, GiveUpKept, NotDueKept DEF Visit
  <2> QED BY <1>5, <2>1, <2>2 DEF Timer
<1>6. CASE UNCHANGED dnsVars
  BY <1>6 DEF dnsVars, resolving, DnsInv, DnsTypeOK, AskedInOrder, AskedCount, WaitingUncalled,
     CalledOnce, MessagesTraced, OfRequest, NoneForgotten, Wrapped, Waiting, Asked, IdOf
<1> QED BY <1>1, <1>2, <1>3, <1>4, <1>5, <1>6 DEF DnsNext

LEMMA DnsHolds == DnsInv => DnsSound
<1> SUFFICES ASSUME DnsInv PROVE DnsSound
  OBVIOUS
<1>1. \A i, j \in DOMAIN pending : pending[i].request = pending[j].request => i = j
  BY DEF DnsInv, WaitingUncalled
<1>2. ASSUME NEW r \in Asked
      PROVE  /\ called[r] + (IF Waiting(r) THEN 1 ELSE 0) <= 1
             /\ ~Wrapped => called[r] = 1 \/ Waiting(r)
             /\ ~Wrapped /\ answer[r] # None => answer[r] = name[r]
  <2>1. called[r] \in {0, 1}
    BY DEF DnsInv, DnsTypeOK, CalledOnce
  <2>2. Waiting(r) => called[r] = 0
    BY DEF DnsInv, WaitingUncalled, Waiting
  <2>3. called[r] + (IF Waiting(r) THEN 1 ELSE 0) <= 1
    BY <2>1, <2>2
  <2>4. ~Wrapped => /\ called[r] = 1 \/ Waiting(r)
                    /\ answer[r] # None => answer[r] = name[r]
    BY DEF DnsInv, NoneForgotten
  <2> QED BY <2>3, <2>4
<1> QED BY <1>1, <1>2 DEF DnsInv, DnsSound, CallbacksSound

\* However many requests are made, whatever is answered late, twice or under the
\* wrong identifier: one callback a request at most, none forgotten and none with
\* another's records until the identifiers come round (on_receive, on_timer).
THEOREM DnsIsSound == DnsSpec => []DnsSound
<1> QED BY DnsStarts, DnsStep, DnsHolds, PTL DEF DnsSpec

-----------------------------------------------------------------------------
\* How many units of its response a connection still has to hand to TCP.
Owed(s) == s.pending + (IF s.generator = Idle THEN 0
                        ELSE s.generator + (IF s.header_sent THEN 0 ELSE 1))

Exact(s, r) == Count(s.out, r) = UnitsOf(r)
InHistory(h, r) == \E j \in DOMAIN h : h[j] = r

\* An open connection owes exactly the rest of the last response.
Accounted(s, h) ==
  /\ s.response # Bad
  /\ \A i \in DOMAIN s.out : /\ s.out[i] <= s.response /\ InHistory(h, s.out[i])
                             /\ s.out[i] # s.response => Exact(s, s.out[i])
  /\ IF s.response = 0 THEN Owed(s) = 0
     ELSE Count(s.out, s.response) + Owed(s) = UnitsOf(s.response)
  /\ IF s.response = 0 THEN h = <<>> ELSE h # <<>> /\ h[Len(h)] = s.response

Started(s) == s.generator # Idle => s.pending > 0 /\ s.header_sent

\* Responses come out one after another, each for a request in h, all of it but the
\* last one's.
Rising(s) == \A i, j \in DOMAIN s.out : i < j => s.out[i] <= s.out[j]
Attributed(s, h) ==
  \A i \in DOMAIN s.out :
    /\ s.out[i] = Bad \/ InHistory(h, s.out[i])
    /\ IF s.out[i] # s.out[Len(s.out)] THEN Exact(s, s.out[i])
       ELSE Count(s.out, s.out[i]) <= UnitsOf(s.out[i])
WholeButBad(s) == \A i \in DOMAIN s.out : s.out[i] # Bad => Exact(s, s.out[i])

Written(s, h) ==
  /\ Len(s.out) <= received + SEND_BUFFER
  /\ Rising(s) /\ Attributed(s, h)

ServerInv(s, h) ==
  /\ Written(s, h)
  /\ ~s.closed => Accounted(s, h) /\ Started(s)
  /\ s.closed /\ s.known => WholeButBad(s)

Key(p) == 2 * p.request + p.part
\* The pieces before the server, in the order they were sent, are of later requests.
Later(seq) == \A i \in DOMAIN seq :
  /\ seq[i].request <= Len(requests)
  /\ \A j \in DOMAIN handled : handled[j] < seq[i].request
KeysRise(x) == \A i, j \in DOMAIN x : i < j => Key(x[i]) < Key(x[j])
Before(x, y) == \A i \in DOMAIN x, j \in DOMAIN y : Key(x[i]) < Key(y[j])
PiecesInv ==
  /\ Later(server.buffer) /\ Later(to_server) /\ Later(unsent)
  /\ KeysRise(to_server) /\ KeysRise(unsent)
  /\ Before(server.buffer, to_server) /\ Before(server.buffer, unsent)
  /\ Before(to_server, unsent)
  /\ \A i, j \in DOMAIN handled : i < j => handled[i] < handled[j]
  /\ \A i \in DOMAIN handled : handled[i] <= Len(requests)

Piece(r, k) == [request |-> r, part |-> k]
\* A client that waits: everything it asked for was taken, or all but the last request,
\* whose two pieces are on their way.
AllTaken ==
  LET n == Len(requests) IN
  /\ Len(handled) = n
  /\ server.buffer = <<>> /\ to_server = <<>> /\ unsent = <<>>
  /\ server.keep_alive = (n = 0 \/ ~requests[n].close)
  /\ server.closed => ~server.keep_alive
OneOnItsWay ==
  LET n == Len(requests)
      b == Len(server.buffer)
      t == Len(to_server) IN
  /\ Len(handled) = n - 1
  /\ b <= 1 /\ b + t + Len(unsent) = 2
  /\ \A i \in 1 .. b : server.buffer[i] = Piece(n, i)
  /\ \A i \in 1 .. t : to_server[i] = Piece(n, b + i)
  /\ \A i \in 1 .. Len(unsent) : unsent[i] = Piece(n, b + t + i)
  /\ ~server.closed /\ server.generator = Idle /\ server.pending = 0
SequentialInv ==
  kind = "sequential" /\ server.known =>
    /\ \A i \in DOMAIN handled : handled[i] = i
    /\ ~server.error /\ server.response # Bad
    /\ \A i \in DOMAIN server.out : server.out[i] # Bad
    /\ AllTaken \/ OneOnItsWay

ClientInv == calls = IF kind = "http_client" /\ client_closed THEN 1 ELSE 0

ExchangeInv == TypeOK /\ ServerInv(server, handled) /\ PiecesInv /\ SequentialInv /\ ClientInv
-----------------------------------------------------------------------------
LEMMA ExchangeNumbers ==
  /\ MaxRequests \in Nat /\ SEND_BUFFER \in Nat /\ MAX_BUFFER_SIZE \in Nat
  /\ MAX_BUFFER_SIZE >= 2 /\ BodyUnits \in Nat /\ BodyUnits > 0
  /\ Bad = MaxRequests + 1 /\ Idle = BodyUnits + 1 /\ Ids = 1 .. MaxRequests
BY ExchangeAssumption DEF Bad, Idle, Ids

\* What was asked, and a history h of requests that were.
Asking(h) ==
  /\ requests \in Seq(Request) /\ Len(requests) <= MaxRequests /\ received \in Nat
  /\ h \in Seq(Ids) /\ \A i \in DOMAIN h : h[i] <= Len(requests)

LEMMA UnitsTyped ==
  ASSUME NEW h, Asking(h), NEW r, r = Bad \/ r \in 1 .. Len(requests)
  PROVE  UnitsOf(r) \in Nat \ {0}
<1>1. CASE r = Bad
  BY <1>1 DEF UnitsOf
<1>2. CASE r # Bad
  <2>1. requests[r] \in Request
    BY <1>2 DEF Asking
  <2> QED BY <1>2, <2>1, ExchangeNumbers DEF UnitsOf, Request
<1> QED BY <1>1, <1>2

LEMMA ConnectionTyped ==
  ASSUME NEW s \in ConnectionState
  PROVE  /\ s.known \in BOOLEAN /\ s.closed \in BOOLEAN /\ s.keep_alive \in BOOLEAN
         /\ s.error \in BOOLEAN /\ s.buffer \in Seq([request: Ids, part: {1, 2}])
         /\ s.response \in 0 .. Bad /\ s.pending \in 0 .. BodyUnits + 1
         /\ s.generator \in 0 .. Idle /\ s.header_sent \in BOOLEAN /\ s.out \in Seq(1 .. Bad)
         /\ s.response \in Nat /\ s.pending \in Nat /\ s.generator \in Nat /\ Len(s.out) \in Nat
         /\ \A i \in DOMAIN s.out : s.out[i] \in 1 .. Bad /\ s.out[i] \in Nat
         /\ DOMAIN s.out = 1 .. Len(s.out)
<1>1. s.response \in 0 .. Bad /\ s.pending \in 0 .. BodyUnits + 1 /\ s.generator \in 0 .. Idle
  BY DEF ConnectionState
<1>2. s.out \in Seq(1 .. Bad)
  BY DEF ConnectionState
<1>3. /\ s.known \in BOOLEAN /\ s.closed \in BOOLEAN /\ s.keep_alive \in BOOLEAN
      /\ s.error \in BOOLEAN /\ s.buffer \in Seq([request: Ids, part: {1, 2}])
      /\ s.header_sent \in BOOLEAN
  BY DEF ConnectionState
<1>4. s.response \in Nat /\ s.pending \in Nat /\ s.generator \in Nat
  BY <1>1, ExchangeNumbers
<1>5. /\ \A i \in DOMAIN s.out : s.out[i] \in 1 .. Bad /\ s.out[i] \in Nat
      /\ DOMAIN s.out = 1 .. Len(s.out) /\ Len(s.out) \in Nat
  BY <1>2, ExchangeNumbers
<1> QED BY <1>1, <1>2, <1>3, <1>4, <1>5

-----------------------------------------------------------------------------
\* Counting the units of a response.
LEMMA CountTyped ==
  ASSUME NEW T, NEW seq \in Seq(T), NEW r
  PROVE  /\ IsFiniteSet({i \in DOMAIN seq : seq[i] = r})
         /\ Count(seq, r) \in Nat
         /\ Count(seq, r) = 0 <=> \A i \in DOMAIN seq : seq[i] # r
<1> DEFINE S == {i \in DOMAIN seq : seq[i] = r}
<1>1. S \in SUBSET (1 .. Len(seq)) /\ Len(seq) \in Nat
  OBVIOUS
<1>2. IsFiniteSet(1 .. Len(seq))
  <2>1. 1 \in Int /\ Len(seq) \in Int
    BY <1>1
  <2> QED BY <2>1, FS_Interval
<1>3. IsFiniteSet(S) /\ Cardinality(S) \in Nat
  BY <1>1, <1>2, FS_Subset, FS_CardinalityType
<1>4. Cardinality(S) = 0 <=> S = {}
  BY <1>3, FS_EmptySet
<1>5. S = {} <=> \A i \in DOMAIN seq : seq[i] # r
  OBVIOUS
<1>6. Count(seq, r) = Cardinality(S)
  BY DEF Count
<1> HIDE DEF S
<1>7. IsFiniteSet(S) /\ Count(seq, r) \in Nat
  BY <1>3, <1>6
<1>8. Count(seq, r) = 0 <=> \A i \in DOMAIN seq : seq[i] # r
  BY <1>4, <1>5, <1>6
<1> QED BY <1>7, <1>8 DEF S

\* Units that are written are the response's.
LEMMA WroteUnits ==
  ASSUME NEW s \in ConnectionState, NEW n \in Nat, n = 0 \/ s.response \in 1 .. Bad
  PROVE  /\ wrote(s, n) \in Seq(1 .. Bad) /\ Len(wrote(s, n)) = Len(s.out) + n
         /\ \A i \in 1 .. Len(s.out) : wrote(s, n)[i] = s.out[i]
         /\ \A i \in Len(s.out) + 1 .. Len(s.out) + n : wrote(s, n)[i] = s.response
         /\ \A r : Count(wrote(s, n), r) = Count(s.out, r) + (IF r = s.response THEN n ELSE 0)
<1> DEFINE more == [i \in 1 .. n |-> s.response]
           w == wrote(s, n)
           L == Len(s.out)
<1>1. s.out \in Seq(1 .. Bad) /\ L \in Nat
  BY ConnectionTyped
<1>2. more \in Seq(1 .. Bad) /\ Len(more) = n
  <2>1. CASE n = 0
    <3>1. more \in [1 .. n -> 1 .. Bad]
      BY <2>1
    <3> QED BY <3>1, IsASeq, LenProperties
  <2>2. CASE s.response \in 1 .. Bad
    <3>1. more \in [1 .. n -> 1 .. Bad]
      BY <2>2
    <3> QED BY <3>1, IsASeq, LenProperties
  <2> QED BY <2>1, <2>2
<1>3. /\ w \in Seq(1 .. Bad) /\ Len(w) = L + n
      /\ \A i \in 1 .. L + n : w[i] = IF i <= L THEN s.out[i] ELSE more[i - L]
  BY <1>1, <1>2, ConcatProperties DEF wrote
<1>4. \A i \in 1 .. L : w[i] = s.out[i]
  BY <1>1, <1>3
<1>5. \A i \in L + 1 .. L + n : w[i] = s.response
  <2> SUFFICES ASSUME NEW i \in L + 1 .. L + n PROVE w[i] = s.response
    OBVIOUS
  <2>1. i \in 1 .. L + n /\ ~(i <= L) /\ i - L \in 1 .. n
    BY <1>1
  <2> HIDE DEF w, L
  <2>2. more[i - L] = s.response
    BY <2>1
  <2> QED BY <1>3, <2>1, <2>2
<1>6. ASSUME NEW r
      PROVE  Count(w, r) = Count(s.out, r) + (IF r = s.response THEN n ELSE 0)
  <2> DEFINE A == {i \in DOMAIN s.out : s.out[i] = r}
             B == {i \in L + 1 .. L + n : s.response = r}
  <2>1. {i \in DOMAIN w : w[i] = r} = A \cup B
    <3> HIDE DEF w
    <3>1. DOMAIN w = 1 .. L + n /\ DOMAIN s.out = 1 .. L
      BY <1>1, <1>3
    <3> QED BY <1>1, <1>4, <1>5, <3>1
  <2>2. A \cap B = {}
    BY <1>1
  <2>3. IsFiniteSet(A) /\ Cardinality(A) = Count(s.out, r) /\ Count(s.out, r) \in Nat
    <3>1. Cardinality(A) = Count(s.out, r)
      BY DEF Count
    <3> QED BY <3>1, <1>1, CountTyped
  <2>4. IsFiniteSet(L + 1 .. L + n) /\ Cardinality(L + 1 .. L + n) = n
    <3>1. L + 1 \in Int /\ L + n \in Int
      BY <1>1
    <3>2. /\ IsFiniteSet(L + 1 .. L + n)
          /\ Cardinality(L + 1 .. L + n)
               = IF L + 1 > L + n THEN 0 ELSE (L + n) - (L + 1) + 1
      BY <3>1, FS_Interval
    <3> HIDE DEF L
    <3> QED BY <1>1, <3>2
  <2>5. IsFiniteSet(B) /\ Cardinality(B) = IF r = s.response THEN n ELSE 0
    <3>1. CASE r = s.response
      <4>1. B = L + 1 .. L + n
        BY <3>1
      <4> HIDE DEF B
      <4> QED BY <3>1, <4>1, <2>4
    <3>2. CASE r # s.response
      <4>1. B = {}
        BY <3>2
      <4> HIDE DEF B
      <4> QED BY <3>2, <4>1, FS_EmptySet
    <3> QED BY <3>1, <3>2
  <2> HIDE DEF A, B
  <2>6. Cardinality(A \cup B) = Cardinality(A) + Cardinality(B) - Cardinality(A \cap B)
    BY <2>3, <2>5, FS_Union
  <2>7. Cardinality(A \cap B) = 0
    BY <2>2, FS_EmptySet
  <2>8. Cardinality(A \cup B) = Count(s.out, r) + (IF r = s.response THEN n ELSE 0)
    BY <2>3, <2>5, <2>6, <2>7
  <2> QED BY <2>1, <2>8 DEF Count
<1> QED BY <1>3, <1>4, <1>5, <1>6

\* What a push does: n units go out, as many as there is room for.
PushedTo(s, t, n) ==
  /\ t \in ConnectionState
  /\ n \in Nat /\ n <= s.pending /\ t.pending = s.pending - n
  /\ s.closed => n = 0
  /\ n > 0 => Len(s.out) + n <= received + SEND_BUFFER
  /\ t.out = wrote(s, n)
  /\ t.known = s.known /\ t.closed = s.closed /\ t.keep_alive = s.keep_alive
  /\ t.error = s.error /\ t.buffer = s.buffer /\ t.response = s.response
  /\ t.generator = s.generator /\ t.header_sent = s.header_sent

LEMMA FitsTyped ==
  ASSUME NEW s \in ConnectionState, NEW m \in Nat, received \in Nat,
         s.closed \/ Len(s.out) <= received + SEND_BUFFER
  PROVE  /\ fits(s, m) \in Nat /\ fits(s, m) <= m
         /\ s.closed => fits(s, m) = 0
         /\ fits(s, m) > 0 => Len(s.out) + fits(s, m) <= received + SEND_BUFFER
<1> DEFINE k == room(s)
<1>1. Len(s.out) \in Nat /\ SEND_BUFFER \in Nat
  BY ConnectionTyped, ExchangeNumbers
<1>2. /\ k \in Nat
      /\ s.closed => k = 0
      /\ k > 0 => Len(s.out) + k <= received + SEND_BUFFER
  <2>1. CASE s.closed
    <3>1. k = 0
      BY <2>1 DEF room
    <3> QED BY <3>1
  <2>2. CASE ~s.closed
    <3>1. k = SEND_BUFFER - (Len(s.out) - received)
      BY <2>2 DEF room
    <3> QED BY <1>1, <2>2, <3>1
  <2> QED BY <2>1, <2>2
<1> HIDE DEF k
<1>3. fits(s, m) = IF m <= k THEN m ELSE k
  BY DEF fits, k
<1>4. CASE m <= k
  <2>1. fits(s, m) = m
    BY <1>3, <1>4
  <2> QED BY <1>1, <1>2, <1>4, <2>1
<1>5. CASE ~(m <= k)
  <2>1. fits(s, m) = k
    BY <1>3, <1>5
  <2> QED BY <1>1, <1>2, <1>5, <2>1
<1> QED BY <1>4, <1>5

LEMMA PushedUnits ==
  ASSUME NEW s \in ConnectionState, received \in Nat,
         s.closed \/ (Len(s.out) <= received + SEND_BUFFER /\ (s.pending > 0 => s.response # 0))
  PROVE  PushedTo(s, pushed(s), fits(s, s.pending))
<1> DEFINE n == fits(s, s.pending)
<1>1. /\ n \in Nat /\ n <= s.pending /\ s.pending \in Nat /\ s.pending \in 0 .. BodyUnits + 1
      /\ s.closed => n = 0
      /\ n > 0 => Len(s.out) + n <= received + SEND_BUFFER
  BY FitsTyped, ConnectionTyped
<1>2. n = 0 \/ s.response \in 1 .. Bad
  BY <1>1, ConnectionTyped, ExchangeNumbers
<1> HIDE DEF n
<1>3. wrote(s, n) \in Seq(1 .. Bad)
  BY <1>1, <1>2, WroteUnits
<1>4. pushed(s) = [s EXCEPT !.out = wrote(s, n), !.pending = s.pending - n]
  BY DEF pushed, n
<1>5. s.pending - n \in 0 .. BodyUnits + 1
  BY <1>1, ExchangeNumbers
<1> QED BY <1>1, <1>3, <1>4, <1>5 DEF PushedTo, ConnectionState, n
-----------------------------------------------------------------------------
\* What the server does when it writes: t is s after n more units of its response
\* went out; it closes only if it was to, and then it owes nothing.
Carried(s, t, n) ==
  /\ t \in ConnectionState /\ n \in Nat
  /\ t.known = s.known /\ t.keep_alive = s.keep_alive /\ t.error = s.error
  /\ t.buffer = s.buffer /\ t.response = s.response
  /\ n = 0 \/ s.response \in 1 .. Bad
  /\ t.out = wrote(s, n)
  /\ n > 0 => Len(s.out) + n <= received + SEND_BUFFER
  /\ IF s.closed THEN n = 0 /\ t.closed
     ELSE n <= Owed(s) /\ Owed(t) = Owed(s) - n
  /\ t.closed /\ ~s.closed => ~s.keep_alive /\ Owed(t) = 0

LEMMA OwedTyped ==
  ASSUME NEW s \in ConnectionState
  PROVE  /\ Owed(s) \in Nat
         /\ s.generator = Idle => Owed(s) = s.pending
         /\ s.generator # Idle /\ s.header_sent => Owed(s) = s.pending + s.generator
         /\ s.generator # Idle /\ ~s.header_sent => Owed(s) = s.pending + s.generator + 1
<1>1. s.pending \in Nat /\ s.generator \in Nat /\ s.header_sent \in BOOLEAN
  BY ConnectionTyped
<1> QED BY <1>1 DEF Owed

\* close, when the response asked for it: nothing else changes.
LEMMA HungUp ==
  ASSUME NEW s \in ConnectionState
  PROVE  LET t == hung_up(s) IN
         /\ t \in ConnectionState
         /\ t.known = s.known /\ t.keep_alive = s.keep_alive /\ t.error = s.error
         /\ t.buffer = s.buffer /\ t.response = s.response /\ t.pending = s.pending
         /\ t.generator = s.generator /\ t.header_sent = s.header_sent /\ t.out = s.out
         /\ t.closed = (s.closed \/ ~s.keep_alive)
<1>1. CASE s.keep_alive
  BY <1>1, ConnectionTyped DEF hung_up
<1>2. CASE ~s.keep_alive
  <2>1. hung_up(s) = [s EXCEPT !.closed = TRUE]
    BY <1>2 DEF hung_up, closed
  <2> QED BY <1>2, <2>1, ConnectionTyped DEF ConnectionState
<1> QED BY <1>1, <1>2

LEMMA FlushCarries ==
  ASSUME NEW s \in ConnectionState, received \in Nat, s.generator = Idle,
         s.closed \/ (Len(s.out) <= received + SEND_BUFFER /\ (s.pending > 0 => s.response # 0))
  PROVE  /\ \E n \in Nat : Carried(s, flush_pending(s), n)
         /\ flush_pending(s).generator = Idle
         /\ s.closed => flush_pending(s).pending = s.pending
<1> DEFINE n == fits(s, s.pending)
           p == pushed(s)
           t == flush_pending(s)
<1>1. PushedTo(s, p, n)
  BY PushedUnits
<1> HIDE DEF n, p
<1>2. /\ p \in ConnectionState /\ n \in Nat /\ n <= s.pending /\ p.pending = s.pending - n
      /\ p.generator = Idle /\ s.pending \in Nat /\ p.pending \in Nat
  BY <1>1, ConnectionTyped DEF PushedTo
<1>3. t = IF p.pending > 0 THEN p ELSE hung_up(p)
  BY DEF flush_pending, p
<1>4. /\ t \in ConnectionState /\ t.pending = p.pending /\ t.generator = Idle
      /\ t.known = p.known /\ t.keep_alive = p.keep_alive /\ t.error = p.error
      /\ t.buffer = p.buffer /\ t.response = p.response /\ t.out = p.out
      /\ p.closed => t.closed
      /\ t.closed /\ ~p.closed => ~p.keep_alive /\ p.pending = 0
  <2>1. CASE p.pending > 0
    BY <1>2, <1>3, <2>1
  <2>2. CASE ~(p.pending > 0)
    <3>1. t = hung_up(p)
      BY <1>3, <2>2
    <3> HIDE DEF t
    <3> DEFINE u == hung_up(p)
    <3>2. /\ u \in ConnectionState
          /\ u.known = p.known /\ u.keep_alive = p.keep_alive /\ u.error = p.error
          /\ u.buffer = p.buffer /\ u.response = p.response /\ u.pending = p.pending
          /\ u.generator = p.generator /\ u.out = p.out
          /\ u.closed = (p.closed \/ ~p.keep_alive)
      BY <1>2, HungUp
    <3> HIDE DEF u
    <3>3. p.pending = 0 /\ t = u
      BY <1>2, <2>2, <3>1 DEF u
    <3>4. p.closed \in BOOLEAN /\ p.keep_alive \in BOOLEAN
      BY <1>2, ConnectionTyped
    <3> QED BY <1>2, <3>2, <3>3, <3>4
  <2> QED BY <2>1, <2>2
<1> HIDE DEF t
<1>5. Owed(s) = s.pending /\ Owed(t) = s.pending - n
  BY <1>2, <1>4, OwedTyped
<1>6. n = 0 \/ s.response \in 1 .. Bad
  BY <1>1, <1>2, ConnectionTyped, ExchangeNumbers DEF PushedTo
<1>7. Carried(s, t, n)
  BY <1>1, <1>2, <1>4, <1>5, <1>6 DEF PushedTo, Carried
<1>8. s.closed => t.pending = s.pending
  BY <1>1, <1>2, <1>4 DEF PushedTo
<1> QED BY <1>2, <1>4, <1>7, <1>8 DEF t

LEMMA WroteTwice ==
  ASSUME NEW s \in ConnectionState, NEW u \in ConnectionState, NEW n \in Nat, NEW m \in Nat,
         u.out = wrote(s, n), u.response = s.response,
         n + m = 0 \/ s.response \in 1 .. Bad
  PROVE  wrote(u, m) = wrote(s, n + m)
<1> DEFINE v == wrote(s, n)
           w == wrote(u, m)
           x == wrote(s, n + m)
           L == Len(s.out)
<1>1. /\ n = 0 \/ s.response \in 1 .. Bad
      /\ m = 0 \/ u.response \in 1 .. Bad
      /\ n + m \in Nat /\ L \in Nat
  BY ConnectionTyped
<1>2. /\ Len(v) = L + n
      /\ \A i \in 1 .. L : v[i] = s.out[i]
      /\ \A i \in L + 1 .. L + n : v[i] = s.response
  BY <1>1, WroteUnits
<1>3. /\ w \in Seq(1 .. Bad) /\ Len(w) = Len(v) + m
      /\ \A i \in 1 .. Len(v) : w[i] = v[i]
      /\ \A i \in Len(v) + 1 .. Len(v) + m : w[i] = s.response
  <2>1. u.out = v /\ u.response = s.response
    OBVIOUS
  <2>2. /\ w \in Seq(1 .. Bad) /\ Len(w) = Len(u.out) + m
        /\ \A i \in 1 .. Len(u.out) : w[i] = u.out[i]
        /\ \A i \in Len(u.out) + 1 .. Len(u.out) + m : w[i] = u.response
    BY <1>1, WroteUnits
  <2> HIDE DEF v, w
  <2> QED BY <2>1, <2>2
<1>4. /\ x \in Seq(1 .. Bad) /\ Len(x) = L + (n + m)
      /\ \A i \in 1 .. L : x[i] = s.out[i]
      /\ \A i \in L + 1 .. L + (n + m) : x[i] = s.response
  BY <1>1, WroteUnits
<1> HIDE DEF v, w, x, L
<1>5. Len(w) = Len(x)
  BY <1>1, <1>2, <1>3, <1>4
<1>6. ASSUME NEW i \in 1 .. Len(w) PROVE w[i] = x[i]
  <2>1. CASE i \in 1 .. L
    <3>1. i \in 1 .. Len(v)
      BY <1>1, <1>2, <2>1
    <3> QED BY <1>2, <1>3, <1>4, <2>1, <3>1
  <2>2. CASE i \in L + 1 .. L + n
    <3>1. i \in 1 .. Len(v) /\ i \in L + 1 .. L + (n + m)
      BY <1>1, <1>2, <2>2
    <3> QED BY <1>2, <1>3, <1>4, <2>2, <3>1
  <2>3. CASE i \in L + n + 1 .. L + n + m
    <3>1. Len(v) = L + n /\ L \in Nat
      BY <1>1, <1>2
    <3>2. i \in Len(v) + 1 .. Len(v) + m /\ i \in L + 1 .. L + (n + m)
      BY <1>1, <2>3, <3>1
    <3> QED BY <1>3, <1>4, <3>2
  <2> QED BY <1>1, <1>2, <1>3, <2>1, <2>2, <2>3
<1>7. w = x
  BY <1>3, <1>4, <1>5, <1>6, SeqEqual
<1> QED BY <1>7 DEF w, x

LEMMA ChunkCarries ==
  ASSUME NEW s \in ConnectionState, received \in Nat, s.generator # Idle,
         s.closed \/ (/\ Len(s.out) <= received + SEND_BUFFER /\ s.response # 0
                      /\ s.header_sent \/ s.pending = 0)
  PROVE  /\ \E n \in Nat : Carried(s, send_next_chunk(s), n)
         /\ send_next_chunk(s).closed \/ Started(send_next_chunk(s))
<1> DEFINE h == IF s.header_sent THEN s ELSE [s EXCEPT !.pending = 1, !.header_sent = TRUE]
           p == pushed(h)
           n == fits(h, h.pending)
           m == fits(p, p.generator)
           q == [p EXCEPT !.out = wrote(p, m), !.generator = @ - m]
           t == send_next_chunk(s)
<1>0. /\ s.pending \in Nat /\ s.generator \in 0 .. Idle /\ s.generator \in Nat
      /\ s.response \in 0 .. Bad /\ Idle \in Nat /\ Bad \in Nat /\ Len(s.out) \in Nat
      /\ s.closed \in BOOLEAN /\ s.header_sent \in BOOLEAN /\ SEND_BUFFER \in Nat
      /\ Idle = BodyUnits + 1 /\ BodyUnits \in Nat
  BY ConnectionTyped, ExchangeNumbers
<1>1. /\ h \in ConnectionState /\ h.header_sent
      /\ h.known = s.known /\ h.closed = s.closed /\ h.keep_alive = s.keep_alive
      /\ h.error = s.error /\ h.buffer = s.buffer /\ h.response = s.response
      /\ h.generator = s.generator /\ h.out = s.out
      /\ ~s.closed => Owed(h) = Owed(s)
  <2>1. CASE s.header_sent
    BY <2>1
  <2>2. CASE ~s.header_sent
    <3> DEFINE k == [s EXCEPT !.pending = 1, !.header_sent = TRUE]
    <3>1. h = k
      BY <2>2
    <3> HIDE DEF h
    <3>4. 1 \in 0 .. BodyUnits + 1
      BY <1>0
    <3>5. k \in ConnectionState
      BY <3>4 DEF ConnectionState
    <3>6. /\ k.header_sent /\ k.pending = 1
          /\ k.known = s.known /\ k.closed = s.closed /\ k.keep_alive = s.keep_alive
          /\ k.error = s.error /\ k.buffer = s.buffer /\ k.response = s.response
          /\ k.generator = s.generator /\ k.out = s.out
      BY DEF ConnectionState
    <3> HIDE DEF k
    <3>2. /\ h \in ConnectionState /\ h.header_sent /\ h.pending = 1
          /\ h.known = s.known /\ h.closed = s.closed /\ h.keep_alive = s.keep_alive
          /\ h.error = s.error /\ h.buffer = s.buffer /\ h.response = s.response
          /\ h.generator = s.generator /\ h.out = s.out
      BY <3>1, <3>5, <3>6
    <3>3. ~s.closed => Owed(h) = Owed(s)
      <4>1. ~s.closed => s.pending = 0
        BY <2>2
      <4>2. Owed(h) = 1 + s.generator /\ Owed(s) = s.pending + s.generator + 1
        BY <1>0, <2>2, <3>2, OwedTyped
      <4> QED BY <1>0, <4>1, <4>2
    <3> QED BY <3>2, <3>3
  <2> QED BY <2>1, <2>2
<1>2. t = IF p.pending > 0 THEN p
          ELSE IF q.generator > 0 THEN [q EXCEPT !.pending = 1, !.generator = @ - 1]
          ELSE hung_up([q EXCEPT !.generator = Idle])
  BY DEF send_next_chunk
<1> HIDE DEF h, t
<1>3. PushedTo(h, p, n)
  BY <1>0, <1>1, PushedUnits
<1> HIDE DEF p, n
<1>4. /\ p \in ConnectionState /\ n \in Nat /\ p.pending \in Nat /\ n <= h.pending
      /\ p.pending = h.pending - n /\ p.header_sent
      /\ p.known = s.known /\ p.closed = s.closed /\ p.keep_alive = s.keep_alive
      /\ p.error = s.error /\ p.buffer = s.buffer /\ p.response = s.response
      /\ p.generator = s.generator
      /\ s.closed => n = 0
      /\ n > 0 => Len(s.out) + n <= received + SEND_BUFFER
  BY <1>1, <1>3, ConnectionTyped DEF PushedTo
<1>5. n = 0 \/ s.response \in 1 .. Bad
  BY <1>0, <1>4
<1>6. p.out = wrote(s, n) /\ Len(p.out) = Len(s.out) + n
  <2>1. p.out = wrote(s, n)
    BY <1>1, <1>3 DEF PushedTo, wrote
  <2>2. Len(wrote(s, n)) = Len(s.out) + n
    BY <1>4, <1>5, WroteUnits
  <2> QED BY <2>1, <2>2
<1>7. ~s.closed => n <= Owed(s) /\ Owed(p) = Owed(s) - n
  <2>1. h.pending \in Nat /\ h.generator = s.generator /\ p.generator = s.generator
    BY <1>1, <1>4, ConnectionTyped
  <2>2. Owed(h) = h.pending + s.generator /\ Owed(p) = p.pending + s.generator
    BY <1>1, <1>4, <2>1, OwedTyped
  <2> QED BY <1>0, <1>1, <1>4, <2>1, <2>2, SMTT(30)
<1>8. CASE p.pending > 0
  <2>1. t = p
    BY <1>2, <1>8
  <2>2. Carried(s, t, n)
    BY <1>4, <1>5, <1>6, <1>7, <2>1 DEF Carried
  <2> QED BY <1>4, <1>8, <2>1, <2>2 DEF Started, t
<1>9. CASE ~(p.pending > 0)
  <2>1. /\ m \in Nat /\ m <= p.generator
        /\ s.closed => m = 0
        /\ m > 0 => Len(s.out) + n + m <= received + SEND_BUFFER
    <3>1. p.closed \/ Len(p.out) <= received + SEND_BUFFER
      BY <1>0, <1>4, <1>6
    <3>2. p.generator \in Nat
      BY <1>4, ConnectionTyped
    <3> QED BY <1>4, <1>6, <3>1, <3>2, FitsTyped
  <2>2. n + m = 0 \/ s.response \in 1 .. Bad
    BY <1>0, <1>4, <2>1
  <2> HIDE DEF m
  <2>3. wrote(p, m) = wrote(s, n + m) /\ wrote(p, m) \in Seq(1 .. Bad)
    <3>1. m = 0 \/ p.response \in 1 .. Bad
      BY <1>4, <2>1, <2>2
    <3>2. wrote(p, m) \in Seq(1 .. Bad)
      BY <1>4, <2>1, <3>1, WroteUnits
    <3>3. wrote(p, m) = wrote(s, n + m)
      BY <1>4, <1>6, <2>1, <2>2, WroteTwice
    <3> QED BY <3>2, <3>3
  <2>4. p.pending = 0 /\ p.generator \in Nat /\ p.generator < Idle
    BY <1>0, <1>4, <1>9
  <2>5. /\ n + m \in Nat
        /\ n + m > 0 => Len(s.out) + (n + m) <= received + SEND_BUFFER
        /\ s.closed => n + m = 0
    <3> DEFINE L == Len(s.out)
               c == s.closed
               top == received + SEND_BUFFER
    <3>1. n \in Nat /\ m \in Nat /\ L \in Nat /\ top \in Nat
      BY <1>0, <1>4, <2>1
    <3>2. (c => n = 0) /\ (c => m = 0)
      BY <1>4, <2>1
    <3>3. n > 0 => L + n <= top
      BY <1>4
    <3>4. m > 0 => L + n + m <= top
      BY <2>1
    <3> HIDE DEF L, c, top
    <3>5. n + m \in Nat /\ (n + m > 0 => L + (n + m) <= top)
      BY <3>1, <3>3, <3>4
    <3>6. c => n + m = 0
      BY <3>1, <3>2
    <3> QED BY <3>5, <3>6 DEF L, c, top
  <2>6. ~s.closed => n + m <= Owed(s) /\ Owed(s) - (n + m) = p.generator - m
    <3>1. Owed(p) = p.generator
      BY <1>4, <2>4, OwedTyped
    <3> QED BY <1>4, <1>7, <2>1, <2>4, <3>1, OwedTyped
  <2>7. CASE q.generator > 0
    <3> DEFINE u == [p EXCEPT !.out = wrote(p, m), !.generator = p.generator - m - 1, !.pending = 1]
    <3>1. t = u
      BY <1>2, <1>9, <2>7
    <3>2. p.generator - m - 1 \in 0 .. Idle /\ p.generator - m - 1 < BodyUnits
      <4>1. q.generator = p.generator - m
        BY <1>4 DEF ConnectionState
      <4> QED BY <1>0, <2>1, <2>4, <2>7, <4>1, SMTT(30)
    <3>3. /\ u \in ConnectionState /\ u.pending = 1 /\ u.generator = p.generator - m - 1
          /\ u.header_sent /\ u.out = wrote(s, n + m)
          /\ u.known = s.known /\ u.closed = s.closed /\ u.keep_alive = s.keep_alive
          /\ u.error = s.error /\ u.buffer = s.buffer /\ u.response = s.response
      <4> DEFINE o == wrote(s, n + m)
                 g == p.generator - m - 1
      <4>1. o \in Seq(1 .. Bad) /\ g \in 0 .. Idle /\ 1 \in 0 .. BodyUnits + 1
        BY <1>0, <2>3, <3>2
      <4>2. u = [p EXCEPT !.out = o, !.generator = g, !.pending = 1]
        BY <2>3
      <4> HIDE DEF u, o, g
      <4>3. u \in ConnectionState
        BY <1>4, <4>1, <4>2 DEF ConnectionState
      <4>4. /\ u.pending = 1 /\ u.generator = g /\ u.out = o /\ u.header_sent = p.header_sent
            /\ u.known = p.known /\ u.closed = p.closed /\ u.keep_alive = p.keep_alive
            /\ u.error = p.error /\ u.buffer = p.buffer /\ u.response = p.response
        BY <1>4, <4>2 DEF ConnectionState
      <4> QED BY <1>4, <4>3, <4>4 DEF o, g
    <3> HIDE DEF u
    <3>4. u.generator # Idle /\ Owed(u) = p.generator - m
      <4>1. u.generator # Idle
        BY <1>0, <3>2, <3>3
      <4>2. Owed(u) = u.pending + u.generator
        BY <3>3, <4>1, OwedTyped
      <4>3. m \in Nat /\ p.generator \in Nat
        BY <2>1, <2>4
      <4> QED BY <3>3, <4>1, <4>2, <4>3
    <3>5. Carried(s, u, n + m)
      BY <2>2, <2>5, <2>6, <3>3, <3>4 DEF Carried
    <3> QED BY <2>5, <3>1, <3>3, <3>5 DEF Started, t
  <2>8. CASE ~(q.generator > 0)
    <3> DEFINE v == [p EXCEPT !.out = wrote(p, m), !.generator = Idle]
               u == hung_up(v)
    <3>1. t = u
      BY <1>2, <1>9, <2>8
    <3>2. p.generator = m
      <4>1. q.generator = p.generator - m
        BY <1>4 DEF ConnectionState
      <4> QED BY <2>1, <2>4, <2>8, <4>1
    <3>3. /\ v \in ConnectionState /\ v.pending = 0 /\ v.generator = Idle
          /\ v.out = wrote(s, n + m)
          /\ v.known = s.known /\ v.closed = s.closed /\ v.keep_alive = s.keep_alive
          /\ v.error = s.error /\ v.buffer = s.buffer /\ v.response = s.response
      <4> DEFINE o == wrote(s, n + m)
      <4>1. o \in Seq(1 .. Bad) /\ Idle \in 0 .. Idle
        BY <1>0, <2>3
      <4>2. v = [p EXCEPT !.out = o, !.generator = Idle]
        BY <2>3
      <4> HIDE DEF v, o
      <4>3. v \in ConnectionState
        BY <1>4, <4>1, <4>2 DEF ConnectionState
      <4>4. /\ v.pending = p.pending /\ v.generator = Idle /\ v.out = o
            /\ v.known = p.known /\ v.closed = p.closed /\ v.keep_alive = p.keep_alive
            /\ v.error = p.error /\ v.buffer = p.buffer /\ v.response = p.response
        BY <1>4, <4>2 DEF ConnectionState
      <4> QED BY <1>4, <2>4, <4>3, <4>4 DEF o
    <3> HIDE DEF v
    <3>4. /\ u \in ConnectionState /\ u.pending = 0 /\ u.generator = Idle
          /\ u.out = wrote(s, n + m)
          /\ u.known = s.known /\ u.keep_alive = s.keep_alive
          /\ u.error = s.error /\ u.buffer = s.buffer /\ u.response = s.response
          /\ u.closed = (s.closed \/ ~s.keep_alive)
      BY <3>3, HungUp
    <3> HIDE DEF u
    <3>5. Owed(u) = 0
      BY <3>4, OwedTyped
    <3>6. Carried(s, u, n + m)
      <4>1. ~s.closed => Owed(u) = Owed(s) - (n + m)
        BY <2>1, <2>6, <3>2, <3>5
      <4> QED BY <2>2, <2>5, <2>6, <3>4, <3>5, <4>1 DEF Carried
    <3> QED BY <2>5, <3>1, <3>4, <3>6 DEF Started, t
  <2> QED BY <2>7, <2>8
<1> QED BY <1>8, <1>9
-----------------------------------------------------------------------------
\* A connection between two steps of a handler: Started may not hold yet.
Open(s, h) == Len(s.out) <= received + SEND_BUFFER /\ Rising(s) /\ Accounted(s, h)
Whole(s, h) == IF s.closed THEN Written(s, h) /\ (s.known => WholeButBad(s)) ELSE Open(s, h)

LEMMA OpenWritten ==
  ASSUME NEW s \in ConnectionState, NEW h, Asking(h), Open(s, h)
  PROVE  /\ Attributed(s, h)
         /\ Owed(s) = 0 => \A i \in DOMAIN s.out : s.out[i] # Bad /\ Exact(s, s.out[i])
         /\ Owed(s) > 0 => s.response # 0
         /\ s.response # 0 => s.response \in 1 .. Len(requests) /\ InHistory(h, s.response)
<1>1. /\ \A i \in DOMAIN s.out : s.out[i] \in 1 .. Bad /\ s.out[i] \in Nat
      /\ DOMAIN s.out = 1 .. Len(s.out) /\ Len(s.out) \in Nat
      /\ s.response \in Nat /\ s.response \in 0 .. Bad /\ s.out \in Seq(1 .. Bad)
      /\ Owed(s) \in Nat
  BY ConnectionTyped, OwedTyped
<1>2. /\ s.response # Bad
      /\ \A i \in DOMAIN s.out : /\ s.out[i] <= s.response /\ InHistory(h, s.out[i])
                                 /\ s.out[i] # s.response => Exact(s, s.out[i])
      /\ s.response = 0 => Owed(s) = 0
      /\ s.response # 0 => /\ Count(s.out, s.response) + Owed(s) = UnitsOf(s.response)
                           /\ h # <<>> /\ h[Len(h)] = s.response
  BY DEF Open, Accounted
<1>3. \A i, j \in DOMAIN s.out : i < j => s.out[i] <= s.out[j]
  BY DEF Open, Rising
<1>4. s.response # 0 => s.response \in 1 .. Len(requests) /\ InHistory(h, s.response)
  <2> SUFFICES ASSUME s.response # 0
               PROVE  s.response \in 1 .. Len(requests) /\ InHistory(h, s.response)
    OBVIOUS
  <2>1. h \in Seq(Ids) /\ Len(h) \in DOMAIN h
    BY <1>2 DEF Asking
  <2>2. h[Len(h)] \in Ids /\ h[Len(h)] <= Len(requests) /\ Len(requests) \in Nat
    BY <2>1 DEF Asking
  <2> QED BY <1>1, <1>2, <2>1, <2>2 DEF InHistory
<1>5. s.response # 0 => /\ UnitsOf(s.response) \in Nat /\ Count(s.out, s.response) \in Nat
                        /\ Count(s.out, s.response) <= UnitsOf(s.response)
  <2> SUFFICES ASSUME s.response # 0
               PROVE  /\ UnitsOf(s.response) \in Nat /\ Count(s.out, s.response) \in Nat
                      /\ Count(s.out, s.response) <= UnitsOf(s.response)
    OBVIOUS
  <2>1. UnitsOf(s.response) \in Nat
    BY <1>4, UnitsTyped
  <2>2. Count(s.out, s.response) \in Nat
    BY <1>1, CountTyped
  <2> QED BY <1>1, <1>2, <2>1, <2>2
<1>6. ASSUME NEW i \in DOMAIN s.out
      PROVE  /\ s.response # 0 /\ s.out[i] # Bad
             /\ IF s.out[i] # s.out[Len(s.out)] THEN Exact(s, s.out[i])
                ELSE Count(s.out, s.out[i]) <= UnitsOf(s.out[i])
             /\ Owed(s) = 0 => Exact(s, s.out[i])
  <2>1. s.out[i] \in Nat /\ s.out[i] >= 1 /\ s.out[i] <= s.response
    BY <1>1, <1>2, ExchangeNumbers
  <2>2. s.response # 0 /\ s.out[i] # Bad
    BY <1>1, <1>2, <2>1, ExchangeNumbers
  <2>3. CASE s.out[i] = s.response
    <3> DEFINE o == s.out
               L == Len(s.out)
    <3>1. L \in DOMAIN o /\ i <= L /\ i \in Nat /\ L \in Nat
      BY <1>1
    <3>2. o[L] \in Nat /\ o[L] <= s.response
      BY <1>1, <1>2, <3>1
    <3>3. i < L => o[i] <= o[L]
      BY <1>3, <3>1
    <3>4. o[i] = o[L]
      <4>1. CASE i < L
        BY <1>1, <2>1, <2>3, <3>2, <3>3, <4>1
      <4>2. CASE i = L
        BY <4>2
      <4> QED BY <3>1, <4>1, <4>2
    <3>5. Count(o, o[i]) <= UnitsOf(o[i])
      BY <1>5, <2>2, <2>3
    <3>6. Owed(s) = 0 => Exact(s, o[i])
      <4>1. Count(o, s.response) + Owed(s) = UnitsOf(s.response)
        BY <1>2, <2>2
      <4>2. Count(o, s.response) \in Nat /\ UnitsOf(s.response) \in Nat
        BY <1>5, <2>2
      <4> QED BY <2>3, <4>1, <4>2 DEF Exact
    <3> QED BY <2>2, <3>4, <3>5, <3>6
  <2>4. CASE s.out[i] # s.response
    <3>1. Exact(s, s.out[i])
      BY <1>2, <2>4
    <3>2. Count(s.out, s.out[i]) \in Nat
      BY <1>1, CountTyped
    <3> QED BY <2>2, <3>1, <3>2 DEF Exact
  <2> QED BY <2>3, <2>4
<1>7. Attributed(s, h)
  BY <1>2, <1>6 DEF Attributed
<1> QED BY <1>1, <1>2, <1>4, <1>6, <1>7

LEMMA CarriedOpen ==
  ASSUME NEW s \in ConnectionState, NEW h, Asking(h), Open(s, h), ~s.closed,
         NEW t, NEW n, Carried(s, t, n)
  PROVE  Open(t, h)
<1> DEFINE L == Len(s.out)
           r == s.response
<1>1. /\ t \in ConnectionState /\ n \in Nat /\ t.response = r /\ t.out = wrote(s, n)
      /\ n = 0 \/ r \in 1 .. Bad
      /\ n > 0 => L + n <= received + SEND_BUFFER
      /\ n <= Owed(s) /\ Owed(t) = Owed(s) - n
  BY DEF Carried
<1>2. /\ L \in Nat /\ r \in Nat /\ Owed(s) \in Nat /\ DOMAIN s.out = 1 .. L
      /\ s.out \in Seq(1 .. Bad) /\ \A i \in 1 .. L : s.out[i] \in Nat
      /\ r # 0 => r \in 1 .. Len(requests) /\ InHistory(h, r)
  BY ConnectionTyped, OwedTyped, OpenWritten
<1>3. /\ wrote(s, n) \in Seq(1 .. Bad) /\ Len(wrote(s, n)) = L + n
      /\ \A i \in 1 .. L : wrote(s, n)[i] = s.out[i]
      /\ \A i \in L + 1 .. L + n : wrote(s, n)[i] = r
      /\ \A x : Count(wrote(s, n), x) = Count(s.out, x) + (IF x = r THEN n ELSE 0)
  BY <1>1, WroteUnits
<1>4. /\ r # Bad /\ L <= received + SEND_BUFFER
      /\ \A i, j \in 1 .. L : i < j => s.out[i] <= s.out[j]
      /\ \A i \in 1 .. L : /\ s.out[i] <= r /\ InHistory(h, s.out[i])
                           /\ s.out[i] # r => Exact(s, s.out[i])
      /\ r = 0 => Owed(s) = 0 /\ h = <<>>
      /\ r # 0 => Count(s.out, r) + Owed(s) = UnitsOf(r) /\ h # <<>> /\ h[Len(h)] = r
  BY <1>2 DEF Open, Accounted, Rising
<1> HIDE DEF L, r
<1>5. /\ t.out \in Seq(1 .. Bad) /\ Len(t.out) = L + n /\ DOMAIN t.out = 1 .. L + n
      /\ \A i \in 1 .. L : t.out[i] = s.out[i]
      /\ \A i \in L + 1 .. L + n : t.out[i] = r
      /\ \A x : Count(t.out, x) = Count(s.out, x) + (IF x = r THEN n ELSE 0)
  <2>1. Len(t.out) = L + n /\ t.out \in Seq(1 .. Bad)
    BY <1>1, <1>3
  <2>2. DOMAIN t.out = 1 .. L + n
    BY <2>1
  <2> QED BY <1>1, <1>3, <2>1, <2>2
<1>6. Len(t.out) <= received + SEND_BUFFER
  <2>1. CASE n = 0
    BY <1>2, <1>4, <1>5, <2>1
  <2>2. CASE n > 0
    BY <1>1, <1>5, <2>2
  <2> QED BY <1>1, <2>1, <2>2
<1>7. Rising(t)
  <2> SUFFICES ASSUME NEW i \in 1 .. L + n, NEW j \in 1 .. L + n, i < j
               PROVE  t.out[i] <= t.out[j]
    BY <1>5 DEF Rising
  <2>1. CASE j <= L
    <3>1. i \in 1 .. L /\ j \in 1 .. L
      BY <1>2, <2>1
    <3> QED BY <1>4, <1>5, <3>1
  <2>2. CASE j > L
    <3>1. j \in L + 1 .. L + n
      BY <1>1, <1>2, <2>2
    <3>2. t.out[j] = r
      BY <1>5, <3>1
    <3>3. CASE i \in 1 .. L
      BY <1>4, <1>5, <3>2, <3>3
    <3>4. CASE i \in L + 1 .. L + n
      <4>1. t.out[i] = r
        BY <1>5, <3>4
      <4> QED BY <1>2, <3>2, <4>1
    <3> QED BY <1>1, <1>2, <3>3, <3>4
  <2> QED BY <1>2, <2>1, <2>2
<1>8. ASSUME NEW i \in 1 .. L + n
      PROVE  /\ t.out[i] <= r /\ InHistory(h, t.out[i])
             /\ t.out[i] # r => Exact(t, t.out[i])
  <2>1. CASE i \in 1 .. L
    <3>1. t.out[i] = s.out[i]
      BY <1>5, <2>1
    <3>2. t.out[i] # r => Exact(t, t.out[i])
      <4> SUFFICES ASSUME s.out[i] # r PROVE Count(t.out, s.out[i]) = UnitsOf(s.out[i])
        BY <3>1 DEF Exact
      <4>1. Count(s.out, s.out[i]) = UnitsOf(s.out[i])
        BY <1>4, <2>1 DEF Exact
      <4>2. Count(s.out, s.out[i]) \in Nat
        BY <1>2, CountTyped
      <4>3. Count(t.out, s.out[i]) = Count(s.out, s.out[i]) + 0
        BY <1>5
      <4> QED BY <4>1, <4>2, <4>3
    <3> QED BY <1>4, <2>1, <3>1, <3>2
  <2>2. CASE i \in L + 1 .. L + n
    <3>1. t.out[i] = r
      BY <1>5, <2>2
    <3>2. n # 0 /\ r # 0
      BY <1>1, <1>2, <2>2, ExchangeNumbers
    <3> QED BY <1>2, <3>1, <3>2
  <2> QED BY <1>1, <1>2, <2>1, <2>2
<1>9. r # 0 => Count(t.out, r) + Owed(t) = UnitsOf(r)
  <2> SUFFICES ASSUME r # 0 PROVE Count(t.out, r) + Owed(t) = UnitsOf(r)
    OBVIOUS
  <2>1. Count(s.out, r) \in Nat
    BY <1>2, CountTyped
  <2>2. Count(t.out, r) = Count(s.out, r) + n
    BY <1>5
  <2>3. Count(s.out, r) + Owed(s) = UnitsOf(r)
    BY <1>4
  <2> QED BY <1>1, <1>2, <2>1, <2>2, <2>3
<1>10. r = 0 => Owed(t) = 0 /\ h = <<>>
  <2>1. r = 0 => n = 0
    BY <1>1, ExchangeNumbers
  <2> QED BY <1>1, <1>2, <1>4, <2>1
<1>11. Accounted(t, h)
  <2>1. t.response = r
    BY <1>1
  <2> QED BY <1>4, <1>5, <1>8, <1>9, <1>10, <2>1 DEF Accounted
<1> QED BY <1>6, <1>7, <1>11 DEF Open

LEMMA WroteNothing ==
  ASSUME NEW s \in ConnectionState
  PROVE  wrote(s, 0) = s.out
<1>1. /\ wrote(s, 0) \in Seq(1 .. Bad) /\ Len(wrote(s, 0)) = Len(s.out) + 0
      /\ \A i \in 1 .. Len(s.out) : wrote(s, 0)[i] = s.out[i]
  BY WroteUnits
<1>2. s.out \in Seq(1 .. Bad) /\ Len(s.out) \in Nat
  BY ConnectionTyped
<1>3. Len(wrote(s, 0)) = Len(s.out)
  BY <1>1, <1>2
<1> QED BY <1>1, <1>2, <1>3, SeqEqual

LEMMA CarriedUnits ==
  ASSUME NEW s \in ConnectionState, NEW t, NEW n, Carried(s, t, n)
  PROVE  /\ Len(t.out) = Len(s.out) + n /\ Len(s.out) <= Len(t.out)
         /\ \A i \in DOMAIN t.out : t.out[i] = s.response \/ (i \in DOMAIN s.out /\ t.out[i] = s.out[i])
         /\ n = 0 => t.out = s.out
<1>1. n \in Nat /\ t.out = wrote(s, n) /\ (n = 0 \/ s.response \in 1 .. Bad)
  BY DEF Carried
<1>2. /\ wrote(s, n) \in Seq(1 .. Bad) /\ Len(wrote(s, n)) = Len(s.out) + n
      /\ \A i \in 1 .. Len(s.out) : wrote(s, n)[i] = s.out[i]
      /\ \A i \in Len(s.out) + 1 .. Len(s.out) + n : wrote(s, n)[i] = s.response
  BY <1>1, WroteUnits
<1>3. Len(s.out) \in Nat /\ DOMAIN s.out = 1 .. Len(s.out)
  BY ConnectionTyped
<1>4. DOMAIN t.out = 1 .. Len(s.out) + n /\ Len(t.out) = Len(s.out) + n
  <2>1. DOMAIN wrote(s, n) = 1 .. Len(wrote(s, n))
    BY <1>2
  <2> QED BY <1>1, <1>2, <2>1
<1>5. ASSUME NEW i \in 1 .. Len(s.out) + n
      PROVE  t.out[i] = s.response \/ (i \in DOMAIN s.out /\ t.out[i] = s.out[i])
  <2>1. i \in 1 .. Len(s.out) \/ i \in Len(s.out) + 1 .. Len(s.out) + n
    BY <1>1, <1>3
  <2> QED BY <1>1, <1>2, <1>3, <2>1
<1>6. n = 0 => t.out = s.out
  BY <1>1, WroteNothing
<1> QED BY <1>1, <1>3, <1>4, <1>5, <1>6

LEMMA CarriedSound ==
  ASSUME NEW s \in ConnectionState, NEW h, Asking(h), Whole(s, h),
         NEW t, NEW n, Carried(s, t, n), t.closed \/ Started(t)
  PROVE  ServerInv(t, h)
<1>1. CASE s.closed
  <2>1. Written(s, h) /\ (s.known => WholeButBad(s))
    BY <1>1 DEF Whole
  <2>2. t.closed /\ t.known = s.known /\ n = 0
    BY <1>1 DEF Carried
  <2>3. t.out = s.out
    BY <2>2, CarriedUnits
  <2>4. Written(t, h)
    BY <2>1, <2>3 DEF Written, Rising, Attributed, Exact
  <2>5. t.known => WholeButBad(t)
    BY <2>1, <2>2, <2>3 DEF WholeButBad, Exact
  <2> QED BY <2>2, <2>4, <2>5 DEF ServerInv
<1>2. CASE ~s.closed
  <2>1. Open(t, h)
    BY <1>2, CarriedOpen DEF Whole
  <2>2. t \in ConnectionState /\ (t.closed => Owed(t) = 0)
    BY <1>2 DEF Carried
  <2>3. /\ Attributed(t, h)
        /\ Owed(t) = 0 => \A i \in DOMAIN t.out : t.out[i] # Bad /\ Exact(t, t.out[i])
    BY <2>1, <2>2, OpenWritten
  <2>4. Written(t, h) /\ Accounted(t, h)
    BY <2>1, <2>3 DEF Open, Written
  <2>5. t.closed => WholeButBad(t)
    BY <2>2, <2>3 DEF WholeButBad
  <2> QED BY <2>4, <2>5 DEF ServerInv
<1> QED BY <1>1, <1>2

\* Before a handler runs.
LEMMA WholeBefore ==
  ASSUME NEW s \in ConnectionState, NEW h, Asking(h), s.known, ServerInv(s, h)
  PROVE  /\ Whole(s, h)
         /\ s.closed \/ /\ Len(s.out) <= received + SEND_BUFFER
                        /\ s.pending > 0 \/ s.generator # Idle => s.response # 0
                        /\ s.generator # Idle => s.header_sent
<1>1. CASE s.closed
  BY <1>1 DEF ServerInv, Whole
<1>2. CASE ~s.closed
  <2>1. Open(s, h) /\ Started(s)
    BY <1>2 DEF ServerInv, Written, Open
  <2>2. s.pending \in Nat /\ s.generator \in Nat
    BY ConnectionTyped
  <2>3. s.pending > 0 => s.response # 0
    <3>1. s.pending > 0 => Owed(s) > 0
      <4>1. s.generator = Idle => Owed(s) = s.pending
        BY OwedTyped
      <4>2. s.generator # Idle => Owed(s) = s.pending + s.generator
        BY <2>1, OwedTyped DEF Started
      <4> QED BY <2>2, <4>1, <4>2
    <3>2. Owed(s) > 0 => s.response # 0
      BY <2>1, OpenWritten
    <3> QED BY <3>1, <3>2
  <2>4. s.generator # Idle => s.pending > 0 /\ s.header_sent
    BY <2>1 DEF Started
  <2> QED BY <1>2, <2>1, <2>3, <2>4 DEF Open, Whole
<1> QED BY <1>1, <1>2

\* A response under way goes on: in poll, and when something arrives before its end.
LEMMA GoesOn ==
  ASSUME NEW s \in ConnectionState, NEW h, Asking(h), s.known, ServerInv(s, h),
         NEW t, t = IF s.generator # Idle THEN send_next_chunk(s) ELSE flush_pending(s)
  PROVE  /\ \E n \in Nat : Carried(s, t, n)
         /\ ServerInv(t, h)
         /\ s.generator = Idle => t.generator = Idle /\ (s.closed => t.pending = s.pending)
<1>1. received \in Nat
  BY DEF Asking
<1>2. /\ Whole(s, h)
      /\ s.closed \/ /\ Len(s.out) <= received + SEND_BUFFER
                     /\ s.pending > 0 \/ s.generator # Idle => s.response # 0
                     /\ s.generator # Idle => s.header_sent
  BY WholeBefore
<1>3. /\ \E n \in Nat : Carried(s, t, n)
      /\ t.closed \/ Started(t)
      /\ s.generator = Idle => t.generator = Idle /\ (s.closed => t.pending = s.pending)
  <2>1. CASE s.generator # Idle
    <3>1. t = send_next_chunk(s)
      BY <2>1
    <3>2. s.closed \/ (/\ Len(s.out) <= received + SEND_BUFFER /\ s.response # 0
                       /\ s.header_sent \/ s.pending = 0)
      BY <1>2, <2>1
    <3> QED BY <1>1, <2>1, <3>1, <3>2, ChunkCarries
  <2>2. CASE s.generator = Idle
    <3>1. t = flush_pending(s)
      BY <2>2
    <3>2. s.closed \/ (Len(s.out) <= received + SEND_BUFFER /\ (s.pending > 0 => s.response # 0))
      BY <1>2
    <3>3. (\E n \in Nat : Carried(s, t, n)) /\ t.generator = Idle /\ (s.closed => t.pending = s.pending)
      BY <1>1, <2>2, <3>1, <3>2, FlushCarries
    <3> QED BY <2>2, <3>3 DEF Started
  <2> QED BY <2>1, <2>2
<1>4. PICK n \in Nat : Carried(s, t, n)
  BY <1>3
<1>5. ServerInv(t, h)
  BY <1>2, <1>3, <1>4, CarriedSound
<1> QED BY <1>3, <1>5
-----------------------------------------------------------------------------
\* What Whole and ServerInv say depends on what the server wrote and still owes.
LEMMA SameServer ==
  ASSUME NEW s, NEW t, NEW h, ServerInv(s, h), t.out = s.out, t.known = s.known,
         t.closed = s.closed, t.response = s.response, t.pending = s.pending,
         t.generator = s.generator, t.header_sent = s.header_sent
  PROVE  ServerInv(t, h)
<1>1. Owed(t) = Owed(s)
  BY DEF Owed
<1>2. Written(t, h)
  BY DEF ServerInv, Written, Rising, Attributed, Exact
<1>3. ~t.closed => Accounted(t, h) /\ Started(t)
  BY <1>1 DEF ServerInv, Accounted, Started, Exact
<1>4. t.closed /\ t.known => WholeButBad(t)
  BY DEF ServerInv, WholeButBad, Exact
<1> QED BY <1>2, <1>3, <1>4 DEF ServerInv

LEMMA HungUpSound ==
  ASSUME NEW s \in ConnectionState, NEW h, Asking(h), ServerInv(s, h), Owed(s) = 0
  PROVE  ServerInv(hung_up(s), h)
<1> DEFINE t == hung_up(s)
<1>1. /\ t.known = s.known /\ t.response = s.response /\ t.pending = s.pending
      /\ t.generator = s.generator /\ t.header_sent = s.header_sent /\ t.out = s.out
      /\ t.closed = (s.closed \/ ~s.keep_alive)
      /\ s.closed \in BOOLEAN /\ s.keep_alive \in BOOLEAN
  BY HungUp, ConnectionTyped
<1> HIDE DEF t
<1>2. CASE t.closed = s.closed
  BY <1>1, <1>2, SameServer DEF t
<1>3. CASE t.closed # s.closed
  <2>1. ~s.closed /\ t.closed
    BY <1>1, <1>3
  <2>2. Open(s, h)
    BY <2>1 DEF ServerInv, Written, Open
  <2>3. \A i \in DOMAIN s.out : Exact(s, s.out[i])
    BY <2>2, OpenWritten
  <2>4. WholeButBad(t)
    BY <1>1, <2>3 DEF WholeButBad, Exact
  <2>5. Written(t, h)
    BY <1>1 DEF ServerInv, Written, Rising, Attributed, Exact
  <2> QED BY <2>1, <2>4, <2>5 DEF ServerInv, t
<1> QED BY <1>2, <1>3

LEMMA ResetFields ==
  ASSUME NEW s \in ConnectionState
  PROVE  LET t == reset(s) IN
         /\ t \in ConnectionState /\ t.buffer = <<>> /\ t.error = FALSE
         /\ t.known = s.known /\ t.closed = s.closed /\ t.keep_alive = s.keep_alive
         /\ t.response = s.response /\ t.pending = s.pending
         /\ t.generator = s.generator /\ t.header_sent = s.header_sent /\ t.out = s.out
<1> DEFINE t == [s EXCEPT !.buffer = <<>>, !.error = FALSE]
<1>1. t \in ConnectionState
  <2>1. <<>> \in Seq([request: Ids, part: {1, 2}])
    OBVIOUS
  <2> QED BY <2>1 DEF ConnectionState
<1>2. /\ t.buffer = <<>> /\ t.error = FALSE
      /\ t.known = s.known /\ t.closed = s.closed /\ t.keep_alive = s.keep_alive
      /\ t.response = s.response /\ t.pending = s.pending
      /\ t.generator = s.generator /\ t.header_sent = s.header_sent /\ t.out = s.out
  BY DEF ConnectionState
<1>3. reset(s) = t
  BY DEF reset
<1> HIDE DEF t
<1> QED BY <1>1, <1>2, <1>3

\* A later request is taken: its response has all of its units to go.
LEMMA ResponseBegins ==
  ASSUME NEW s \in ConnectionState, NEW h, Asking(h), Whole(s, h), s.known,
         ~s.closed => Owed(s) = 0,
         NEW r \in 1 .. Len(requests), \A j \in DOMAIN h : h[j] < r,
         NEW k \in ConnectionState, k.out = s.out, k.known = s.known, k.closed = s.closed,
         k.response = r, ~s.closed => Owed(k) = UnitsOf(r)
  PROVE  Whole(k, Append(h, r)) /\ Asking(Append(h, r))
<1> DEFINE h2 == Append(h, r)
<1>1. /\ h \in Seq(Ids) /\ Len(requests) \in Nat /\ Len(requests) <= MaxRequests
      /\ \A i \in DOMAIN h : h[i] <= Len(requests)
  BY DEF Asking
<1>2. r \in Ids /\ r # Bad /\ r # 0 /\ r \in Nat
  BY <1>1, ExchangeNumbers
<1>3. /\ h2 \in Seq(Ids) /\ Len(h2) = Len(h) + 1 /\ h2[Len(h) + 1] = r
      /\ \A i \in 1 .. Len(h) : h2[i] = h[i]
      /\ DOMAIN h2 = 1 .. Len(h) + 1 /\ DOMAIN h = 1 .. Len(h) /\ Len(h) \in Nat
  BY <1>1, <1>2, AppendProperties
<1> HIDE DEF h2
<1>4. \A x : InHistory(h, x) => InHistory(h2, x)
  <2> SUFFICES ASSUME NEW x, NEW j \in DOMAIN h, h[j] = x PROVE InHistory(h2, x)
    BY DEF InHistory
  <2>1. j \in DOMAIN h2 /\ h2[j] = x
    BY <1>3
  <2> QED BY <2>1 DEF InHistory
<1>5. Asking(h2)
  <2>1. \A i \in DOMAIN h2 : h2[i] <= Len(requests)
    <3> SUFFICES ASSUME NEW i \in 1 .. Len(h) + 1 PROVE h2[i] <= Len(requests)
      BY <1>3
    <3>1. i \in 1 .. Len(h) \/ i = Len(h) + 1
      BY <1>3
    <3> QED BY <1>1, <1>3, <3>1
  <2> QED BY <1>3, <2>1 DEF Asking
<1>6. CASE s.closed
  <2>1. Written(s, h) /\ WholeButBad(s)
    BY <1>6 DEF Whole
  <2>2. Written(k, h2)
    <3>1. Attributed(k, h2)
      BY <1>4, <2>1 DEF Written, Attributed, Exact
    <3> QED BY <2>1, <3>1 DEF Written, Rising
  <2>3. WholeButBad(k)
    BY <2>1 DEF WholeButBad, Exact
  <2> QED BY <1>5, <1>6, <2>2, <2>3 DEF Whole, h2
<1>7. CASE ~s.closed
  <2>1. Open(s, h) /\ Owed(s) = 0
    BY <1>7 DEF Whole
  <2>2. \A i \in DOMAIN s.out : Exact(s, s.out[i])
    BY <2>1, OpenWritten
  <2>3. \A i \in DOMAIN s.out : InHistory(h, s.out[i])
    BY <2>1 DEF Open, Accounted
  <2>4. ASSUME NEW i \in DOMAIN s.out PROVE s.out[i] < r
    <3>1. PICK j \in DOMAIN h : h[j] = s.out[i]
      BY <2>3 DEF InHistory
    <3> QED BY <3>1
  <2>5. Count(s.out, r) = 0
    <3>1. s.out \in Seq(1 .. Bad) /\ \A i \in DOMAIN s.out : s.out[i] \in Nat
      BY ConnectionTyped
    <3>2. \A i \in DOMAIN s.out : s.out[i] # r
      BY <1>2, <2>4, <3>1
    <3> DEFINE o == s.out
    <3>3. o \in Seq(1 .. Bad)
      BY <3>1
    <3> HIDE DEF o
    <3>4. Count(o, r) = 0 <=> \A i \in DOMAIN o : o[i] # r
      BY <3>3, CountTyped
    <3> QED BY <3>2, <3>4 DEF o
  <2>6. \A i \in DOMAIN k.out : /\ k.out[i] <= r /\ InHistory(h2, k.out[i])
                               /\ Exact(k, k.out[i])
    <3>1. \A i \in DOMAIN s.out : s.out[i] \in Nat
      BY ConnectionTyped
    <3> QED BY <1>2, <1>4, <2>2, <2>3, <2>4, <3>1 DEF Exact
  <2>7. Count(k.out, r) + Owed(k) = UnitsOf(r)
    <3>1. Owed(k) \in Nat /\ Owed(k) = UnitsOf(r)
      BY <1>7, OwedTyped
    <3>2. Count(k.out, r) = 0
      BY <2>5
    <3> QED BY <3>1, <3>2
  <2>8. h2 # <<>> /\ h2[Len(h2)] = r
    BY <1>3
  <2>9. Accounted(k, h2)
    BY <1>2, <2>6, <2>7, <2>8 DEF Accounted
  <2>10. Len(k.out) <= received + SEND_BUFFER /\ Rising(k)
    BY <2>1 DEF Open, Rising
  <2> QED BY <1>5, <1>7, <2>9, <2>10 DEF Whole, Open, h2
<1> QED BY <1>6, <1>7

\* t is s after it took request r and began to answer it.
Answered(s, t, h, r) ==
  /\ t \in ConnectionState /\ ServerInv(t, Append(h, r)) /\ Asking(Append(h, r))
  /\ t.known = s.known /\ t.buffer = <<>> /\ t.error = FALSE /\ t.response = r
  /\ t.keep_alive = ~requests[r].close
  /\ t.closed => s.closed \/ ~t.keep_alive
  /\ Len(s.out) <= Len(t.out)
  /\ \A i \in DOMAIN t.out : t.out[i] = r \/ (i \in DOMAIN s.out /\ t.out[i] = s.out[i])

LEMMA DispatchedSound ==
  ASSUME NEW s \in ConnectionState, NEW h, Asking(h), Whole(s, h), s.known,
         s.generator = Idle, s.pending = 0,
         NEW r, r = s.buffer[1].request, r \in 1 .. Len(requests),
         \A j \in DOMAIN h : h[j] < r
  PROVE  Answered(s, dispatched(s), h, r)
<1> DEFINE h2 == Append(h, r)
           stays == ~requests[r].close
           t == dispatched(s)
<1>0. /\ requests[r] \in Request /\ stays \in BOOLEAN /\ r \in Ids /\ r \in 0 .. Bad /\ r # Bad
      /\ r # 0 /\ received \in Nat /\ BodyUnits \in 0 .. BodyUnits + 1
      /\ BodyUnits \in 0 .. Idle /\ BodyUnits # Idle /\ BodyUnits \in Nat
  <2>1. requests \in Seq(Request) /\ Len(requests) <= MaxRequests /\ received \in Nat
    BY DEF Asking
  <2>2. requests[r] \in Request
    BY <2>1
  <2>3. stays \in BOOLEAN
    OBVIOUS
  <2> QED BY <2>1, <2>2, <2>3, ExchangeNumbers
<1>1. ~s.closed => Owed(s) = 0
  BY OwedTyped
<1>2. s.closed \/ Len(s.out) <= received + SEND_BUFFER
  BY DEF Whole, Open
<1> HIDE DEF h2
\* Both ways of answering: the response begins, as much goes out as goes, reset.
<1> DEFINE Begins(k) == /\ k \in ConnectionState /\ k.out = s.out /\ k.known = s.known
                        /\ k.closed = s.closed /\ k.response = r /\ k.keep_alive = stays
                        /\ ~s.closed => Owed(k) = UnitsOf(r)
           Answers(v) == /\ v \in ConnectionState /\ ServerInv(v, h2) /\ Asking(h2)
                         /\ v.known = s.known /\ v.buffer = <<>> /\ v.error = FALSE
                         /\ v.response = r /\ v.keep_alive = stays
                         /\ v.closed => s.closed \/ ~stays
                         /\ Len(s.out) <= Len(v.out)
                         /\ \A i \in DOMAIN v.out :
                              v.out[i] = r \/ (i \in DOMAIN s.out /\ v.out[i] = s.out[i])
<1>3. ASSUME NEW k, Begins(k), NEW u, NEW n, Carried(k, u, n), u.closed \/ Started(u)
      PROVE  Answers(reset(u)) /\ reset(u).generator = u.generator
  <2> DEFINE v == reset(u)
  <2>1. Whole(k, h2) /\ Asking(h2)
    BY <1>1, <1>3, ResponseBegins DEF h2
  <2>2. ServerInv(u, h2)
    BY <1>3, <2>1, CarriedSound
  <2>3. /\ u \in ConnectionState /\ u.known = s.known /\ u.keep_alive = stays /\ u.response = r
        /\ u.closed => s.closed \/ ~stays
    BY <1>3 DEF Carried
  <2>4. /\ Len(s.out) <= Len(u.out)
        /\ \A i \in DOMAIN u.out : u.out[i] = r \/ (i \in DOMAIN s.out /\ u.out[i] = s.out[i])
    BY <1>3, CarriedUnits
  <2>5. /\ v \in ConnectionState /\ v.buffer = <<>> /\ v.error = FALSE
        /\ v.known = u.known /\ v.closed = u.closed /\ v.keep_alive = u.keep_alive
        /\ v.response = u.response /\ v.pending = u.pending
        /\ v.generator = u.generator /\ v.header_sent = u.header_sent /\ v.out = u.out
    BY <1>3, <2>3, ResetFields
  <2>6. ServerInv(v, h2)
    BY <2>2, <2>5, SameServer
  <2> QED BY <2>1, <2>3, <2>4, <2>5, <2>6
<1>4. CASE requests[r].chunked
  <2> HIDE DEF Begins
  <2> DEFINE k == [s EXCEPT !.keep_alive = stays, !.response = r, !.generator = BodyUnits,
                            !.header_sent = FALSE]
             u == send_next_chunk(k)
  <2>1. t = reset(u)
    BY <1>4 DEF dispatched
  <2> HIDE DEF stays, t
  <2> DEFINE k1 == [s EXCEPT !.keep_alive = stays, !.response = r]
  <2>0. k1 \in ConnectionState
    BY <1>0 DEF ConnectionState
  <2>2. k \in ConnectionState
    <3>1. k = [k1 EXCEPT !.generator = BodyUnits, !.header_sent = FALSE]
      OBVIOUS
    <3> HIDE DEF k, k1
    <3> QED BY <1>0, <2>0, <3>1 DEF ConnectionState
  <2>3. /\ k.out = s.out /\ k.known = s.known /\ k.closed = s.closed /\ k.pending = s.pending
        /\ k.response = r /\ k.keep_alive = stays /\ k.generator = BodyUnits
        /\ k.header_sent = FALSE
    BY DEF ConnectionState
  <2> HIDE DEF k
  <2>4. Owed(k) = UnitsOf(r)
    <3>1. Owed(k) = 0 + BodyUnits + 1
      BY <1>0, <2>2, <2>3, OwedTyped
    <3>2. UnitsOf(r) = BodyUnits + 1
      BY <1>0, <1>4 DEF UnitsOf
    <3> QED BY <1>0, <3>1, <3>2
  <2>5. (\E n \in Nat : Carried(k, u, n)) /\ (u.closed \/ Started(u))
    <3>1. /\ k.generator # Idle
          /\ k.closed \/ (/\ Len(k.out) <= received + SEND_BUFFER /\ k.response # 0
                          /\ k.header_sent \/ k.pending = 0)
      BY <1>0, <1>2, <2>3
    <3> QED BY <1>0, <2>2, <3>1, ChunkCarries
  <2>6. PICK n : Carried(k, u, n)
    BY <2>5
  <2> HIDE DEF u
  <2>7. Begins(k)
    BY <2>2, <2>3, <2>4 DEF Begins
  <2> HIDE DEF Answers
  <2>8. Answers(reset(u))
    BY <1>3, <2>5, <2>6, <2>7
  <2>9. Answers(t)
    BY <2>1, <2>8
  <2> QED BY <2>9 DEF Answers, Answered, t, h2, stays
<1>5. CASE ~requests[r].chunked
  <2> HIDE DEF Begins
  <2> DEFINE k0 == [s EXCEPT !.keep_alive = stays]
             k == [k0 EXCEPT !.response = r, !.pending = BodyUnits]
             u == flush_pending(k)
             v == reset(u)
  <2>1. t = IF v.pending > 0 THEN v ELSE hung_up(v)
    BY <1>5 DEF dispatched, send_response
  <2> HIDE DEF stays, t
  <2>2. k0 \in ConnectionState /\ k \in ConnectionState
    <3>1. k0 \in ConnectionState
      BY <1>0 DEF ConnectionState
    <3> HIDE DEF k0
    <3> QED BY <1>0, <3>1 DEF ConnectionState
  <2>3. /\ k.out = s.out /\ k.known = s.known /\ k.closed = s.closed /\ k.pending = BodyUnits
        /\ k.response = r /\ k.keep_alive = stays /\ k.generator = Idle
    BY DEF ConnectionState
  <2> HIDE DEF k
  <2>4. Owed(k) = UnitsOf(r)
    <3>1. Owed(k) = BodyUnits
      BY <2>2, <2>3, OwedTyped
    <3>2. UnitsOf(r) = BodyUnits
      BY <1>0, <1>5 DEF UnitsOf
    <3> QED BY <3>1, <3>2
  <2>5. (\E n \in Nat : Carried(k, u, n)) /\ u.generator = Idle
    <3>1. k.closed \/ (Len(k.out) <= received + SEND_BUFFER /\ (k.pending > 0 => k.response # 0))
      BY <1>0, <1>2, <2>3
    <3> QED BY <1>0, <2>2, <2>3, <3>1, FlushCarries
  <2>6. PICK n : Carried(k, u, n)
    BY <2>5
  <2> HIDE DEF u, v
  <2>7. v = reset(u) /\ Started(u)
    BY <2>5 DEF v, Started
  <2>8. /\ v \in ConnectionState /\ ServerInv(v, h2) /\ Asking(h2)
        /\ v.known = s.known /\ v.buffer = <<>> /\ v.error = FALSE /\ v.response = r
        /\ v.keep_alive = stays /\ (v.closed => s.closed \/ ~stays)
        /\ Len(s.out) <= Len(v.out)
        /\ \A i \in DOMAIN v.out : v.out[i] = r \/ (i \in DOMAIN s.out /\ v.out[i] = s.out[i])
        /\ v.generator = Idle
    <3>1. Begins(k)
      BY <2>2, <2>3, <2>4 DEF Begins
    <3> HIDE DEF Answers
    <3>2. Answers(reset(u)) /\ reset(u).generator = u.generator
      BY <1>3, <2>6, <2>7, <3>1
    <3>3. Answers(v) /\ v.generator = Idle
      BY <2>5, <2>7, <3>2
    <3> QED BY <3>3 DEF Answers
  <2>9. CASE v.pending > 0
    <3>1. t = v
      BY <2>1, <2>9
    <3> QED BY <2>8, <3>1 DEF Answered, t, h2, stays
  <2>10. CASE ~(v.pending > 0)
    <3> DEFINE w == hung_up(v)
    <3>1. t = w
      BY <2>1, <2>10
    <3>2. Owed(v) = 0
      <4>1. v.pending \in Nat /\ Owed(v) = v.pending
        BY <2>8, OwedTyped, ConnectionTyped
      <4> QED BY <2>10, <4>1
    <3>3. ServerInv(w, h2)
      BY <2>8, <3>2, HungUpSound
    <3>4. /\ w \in ConnectionState
          /\ w.known = v.known /\ w.keep_alive = v.keep_alive /\ w.error = v.error
          /\ w.buffer = v.buffer /\ w.response = v.response /\ w.out = v.out
          /\ w.closed = (v.closed \/ ~v.keep_alive)
      BY <2>8, HungUp
    <3> HIDE DEF w
    <3>5. w.closed => s.closed \/ ~stays
      BY <2>8, <3>4
    <3> QED BY <2>8, <3>1, <3>3, <3>4, <3>5 DEF Answered, t, h2, stays
  <2> QED BY <2>9, <2>10
<1> QED BY <1>4, <1>5

\* The 400: the server closes whether or not TCP took all of it.
LEMMA RefusedSound ==
  ASSUME NEW s \in ConnectionState, NEW h, Asking(h), Whole(s, h), s.known,
         s.generator = Idle, s.pending = 0
  PROVE  LET t == closed(send_response(s, Bad, UnitsOf(Bad))) IN
         /\ t \in ConnectionState /\ ServerInv(t, h)
         /\ t.known = s.known /\ t.buffer = s.buffer /\ Len(s.out) <= Len(t.out)
<1> DEFINE k == [s EXCEPT !.response = Bad, !.pending = 2]
           u == flush_pending(k)
           t == [u EXCEPT !.closed = TRUE]
<1>0. /\ UnitsOf(Bad) = 2 /\ Bad \in 0 .. Bad /\ 2 \in 0 .. BodyUnits + 1 /\ Bad # 0
      /\ Bad \in 1 .. Bad /\ received \in Nat /\ Bad \in Nat
  BY ExchangeNumbers DEF UnitsOf, Asking
<1>1. closed(send_response(s, Bad, UnitsOf(Bad))) = t
  BY <1>0 DEF closed, send_response
<1>2. k \in ConnectionState
  BY <1>0 DEF ConnectionState
<1>3. /\ k.out = s.out /\ k.known = s.known /\ k.closed = s.closed /\ k.pending = 2
      /\ k.response = Bad /\ k.keep_alive = s.keep_alive /\ k.generator = Idle
      /\ k.buffer = s.buffer
  BY DEF ConnectionState
<1> HIDE DEF k
<1>4. \E n \in Nat : Carried(k, u, n)
  <2>1. s.closed \/ Len(s.out) <= received + SEND_BUFFER
    BY DEF Whole, Open
  <2>2. k.closed \/ (Len(k.out) <= received + SEND_BUFFER /\ (k.pending > 0 => k.response # 0))
    BY <1>0, <1>3, <2>1
  <2> QED BY <1>0, <1>2, <1>3, <2>2, FlushCarries
<1>5. PICK n \in Nat : Carried(k, u, n)
  BY <1>4
<1> HIDE DEF u
<1>6. /\ u \in ConnectionState /\ u.known = s.known /\ u.buffer = s.buffer
      /\ u.out = wrote(k, n)
      /\ s.closed => n = 0
      /\ ~s.closed => n <= 2
      /\ n > 0 => Len(s.out) + n <= received + SEND_BUFFER
      /\ Len(s.out) \in Nat
  <2>1. Owed(k) = 2
    BY <1>2, <1>3, OwedTyped
  <2> QED BY <1>3, <1>5, <2>1, ConnectionTyped DEF Carried
<1>7. /\ t \in ConnectionState /\ t.closed /\ t.out = u.out /\ t.known = u.known
      /\ t.buffer = u.buffer
  BY <1>6 DEF ConnectionState
<1> HIDE DEF t
<1>8. /\ u.out \in Seq(1 .. Bad) /\ Len(u.out) = Len(s.out) + n
      /\ \A i \in 1 .. Len(s.out) : u.out[i] = s.out[i]
      /\ \A i \in Len(s.out) + 1 .. Len(s.out) + n : u.out[i] = Bad
      /\ \A x : Count(u.out, x) = Count(s.out, x) + (IF x = Bad THEN n ELSE 0)
  <2>1. /\ wrote(k, n) \in Seq(1 .. Bad) /\ Len(wrote(k, n)) = Len(k.out) + n
        /\ \A i \in 1 .. Len(k.out) : wrote(k, n)[i] = k.out[i]
        /\ \A i \in Len(k.out) + 1 .. Len(k.out) + n : wrote(k, n)[i] = k.response
        /\ \A x : Count(wrote(k, n), x) = Count(k.out, x) + (IF x = k.response THEN n ELSE 0)
    BY <1>0, <1>2, <1>3, WroteUnits
  <2> QED BY <1>3, <1>6, <2>1
<1>9. CASE s.closed
  <2>1. u.out = s.out
    BY <1>2, <1>3, <1>5, <1>6, <1>9, CarriedUnits
  <2>2. Written(s, h) /\ WholeButBad(s)
    BY <1>9 DEF Whole
  <2>3. Written(t, h) /\ WholeButBad(t)
    BY <1>7, <2>1, <2>2 DEF Written, Rising, Attributed, Exact, WholeButBad
  <2> QED BY <1>1, <1>6, <1>7, <2>1, <2>3 DEF ServerInv
<1>10. CASE ~s.closed
  <2> DEFINE L == Len(s.out)
  <2>1. Open(s, h) /\ Owed(s) = 0
    BY <1>10, OwedTyped DEF Whole
  <2>2. /\ \A i \in 1 .. L : s.out[i] # Bad /\ Exact(s, s.out[i]) /\ s.out[i] \in 1 .. Bad
        /\ \A i \in 1 .. L : InHistory(h, s.out[i]) /\ s.out[i] \in Nat
        /\ \A i, j \in 1 .. L : i < j => s.out[i] <= s.out[j]
        /\ L \in Nat /\ n \in Nat /\ L <= received + SEND_BUFFER
        /\ s.out \in Seq(1 .. Bad) /\ DOMAIN s.out = 1 .. L
    <3>1. DOMAIN s.out = 1 .. L /\ s.out \in Seq(1 .. Bad) /\ L \in Nat
          /\ \A i \in 1 .. L : s.out[i] \in 1 .. Bad /\ s.out[i] \in Nat
      BY ConnectionTyped
    <3> QED BY <2>1, <3>1, OpenWritten DEF Open, Rising, Accounted
  <2> HIDE DEF L
  <2>3. /\ DOMAIN t.out = 1 .. L + n /\ t.out = u.out /\ Len(t.out) = L + n
        /\ \A i \in 1 .. L : t.out[i] = s.out[i]
        /\ \A i \in L + 1 .. L + n : t.out[i] = Bad
        /\ \A x : Count(t.out, x) = Count(s.out, x) + (IF x = Bad THEN n ELSE 0)
    <3>1. DOMAIN u.out = 1 .. L + n
      BY <1>8 DEF L
    <3> QED BY <1>7, <1>8, <3>1 DEF L
  <2>4. Len(t.out) <= received + SEND_BUFFER
    <3>1. CASE n = 0
      BY <2>2, <2>3, <3>1
    <3>2. CASE n > 0
      BY <1>6, <2>3, <3>2 DEF L
    <3> QED BY <2>2, <3>1, <3>2
  <2>5. Rising(t)
    <3> SUFFICES ASSUME NEW i \in 1 .. L + n, NEW j \in 1 .. L + n, i < j
                 PROVE  t.out[i] <= t.out[j]
      BY <2>3 DEF Rising
    <3>1. CASE j <= L
      <4>1. i \in 1 .. L /\ j \in 1 .. L
        BY <2>2, <3>1
      <4> QED BY <2>2, <2>3, <4>1
    <3>2. CASE j > L
      <4>1. t.out[j] = Bad
        <5>1. j \in L + 1 .. L + n
          BY <2>2, <3>2
        <5> QED BY <2>3, <5>1
      <4>2. i \in 1 .. L \/ i \in L + 1 .. L + n
        BY <2>2
      <4>3. t.out[i] \in Nat /\ t.out[i] <= Bad
        <5>1. CASE i \in 1 .. L
          <6>1. t.out[i] = s.out[i] /\ s.out[i] \in 1 .. Bad
            BY <2>2, <2>3, <5>1
          <6> QED BY <1>0, <6>1
        <5>2. CASE i \in L + 1 .. L + n
          <6>1. t.out[i] = Bad
            BY <2>3, <5>2
          <6> QED BY <1>0, <6>1
        <5> QED BY <4>2, <5>1, <5>2
      <4> QED BY <4>1, <4>3
    <3> QED BY <2>2, <3>1, <3>2
  <2>6. Count(s.out, Bad) = 0
    <3>1. Count(s.out, Bad) = 0 <=> \A i \in DOMAIN s.out : s.out[i] # Bad
      BY <2>2, CountTyped
    <3> QED BY <2>2, <3>1
  <2>7. ASSUME NEW i \in 1 .. L
        PROVE  /\ t.out[i] # Bad /\ InHistory(h, t.out[i]) /\ Exact(t, t.out[i])
               /\ Count(t.out, t.out[i]) \in Nat
    <3>1. Count(s.out, s.out[i]) \in Nat
      BY <2>2, CountTyped
    <3>2. t.out[i] = s.out[i] /\ s.out[i] # Bad
      BY <2>2, <2>3
    <3>3. Count(t.out, s.out[i]) = Count(s.out, s.out[i])
      BY <2>3, <3>1, <3>2
    <3> QED BY <2>2, <3>1, <3>2, <3>3 DEF Exact
  <2>8. Attributed(t, h)
    <3> SUFFICES ASSUME NEW i \in 1 .. L + n
                 PROVE  /\ t.out[i] = Bad \/ InHistory(h, t.out[i])
                        /\ IF t.out[i] # t.out[Len(t.out)] THEN Exact(t, t.out[i])
                           ELSE Count(t.out, t.out[i]) <= UnitsOf(t.out[i])
      BY <2>3 DEF Attributed
    <3>1. CASE i \in 1 .. L
      BY <2>7, <3>1 DEF Exact
    <3>2. CASE i \in L + 1 .. L + n
      <4>1. t.out[i] = Bad
        BY <2>3, <3>2
      <4>2. L + n \in L + 1 .. L + n
        BY <2>2, <3>2
      <4>3. t.out[Len(t.out)] = Bad
        BY <2>3, <4>2
      <4>4. Count(t.out, Bad) = 0 + n
        BY <2>3, <2>6
      <4>5. n <= 2
        BY <1>6, <1>10
      <4> QED BY <1>0, <2>2, <4>1, <4>3, <4>4, <4>5
    <3> QED BY <2>2, <3>1, <3>2
  <2>9. WholeButBad(t)
    <3> SUFFICES ASSUME NEW i \in 1 .. L + n, t.out[i] # Bad PROVE Exact(t, t.out[i])
      BY <2>3 DEF WholeButBad
    <3>1. i \in 1 .. L
      BY <2>2, <2>3
    <3> QED BY <2>7, <3>1
  <2>10. ServerInv(t, h)
    BY <1>7, <2>4, <2>5, <2>8, <2>9 DEF ServerInv, Written
  <2>11. Len(s.out) <= Len(t.out)
    BY <2>2, <2>3 DEF L
  <2> QED BY <1>1, <1>6, <1>7, <2>10, <2>11
<1> QED BY <1>9, <1>10

PieceSet == [request: Ids, part: {1, 2}]

LEMMA FeedFields ==
  ASSUME NEW s \in ConnectionState, NEW data \in Seq(PieceSet)
  PROVE  LET p == feed(s, data) IN
         /\ p \in ConnectionState
         /\ p.known = s.known /\ p.closed = s.closed /\ p.keep_alive = s.keep_alive
         /\ p.response = s.response /\ p.pending = s.pending
         /\ p.generator = s.generator /\ p.header_sent = s.header_sent /\ p.out = s.out
         /\ s.error => p = s
         /\ ~s.error => /\ p.buffer = s.buffer \o data
                        /\ p.error = (Len(data) > MAX_BUFFER_SIZE \/ Malformed(p.buffer))
<1>1. CASE s.error
  <2>1. feed(s, data) = s
    BY <1>1 DEF feed
  <2> QED BY <1>1, <2>1
<1>2. CASE ~s.error
  <2> DEFINE b == s.buffer \o data
             e == Len(data) > MAX_BUFFER_SIZE \/ Malformed(b)
             p == [s EXCEPT !.buffer = b, !.error = e]
  <2>1. feed(s, data) = p
    BY <1>2 DEF feed
  <2>2. b \in Seq(PieceSet) /\ e \in BOOLEAN
    <3>1. s.buffer \in Seq(PieceSet)
      BY ConnectionTyped DEF PieceSet
    <3>2. b \in Seq(PieceSet)
      BY <3>1, ConcatProperties
    <3> HIDE DEF b
    <3>3. e \in BOOLEAN
      OBVIOUS
    <3> QED BY <3>2, <3>3
  <2>3. e = (Len(data) > MAX_BUFFER_SIZE \/ Malformed(b))
    OBVIOUS
  <2> HIDE DEF b, e
  <2>4. p \in ConnectionState
    BY <2>2 DEF ConnectionState, PieceSet
  <2>5. /\ p.buffer = b /\ p.error = e
        /\ p.known = s.known /\ p.closed = s.closed /\ p.keep_alive = s.keep_alive
        /\ p.response = s.response /\ p.pending = s.pending
        /\ p.generator = s.generator /\ p.header_sent = s.header_sent /\ p.out = s.out
    BY DEF ConnectionState
  <2> HIDE DEF p
  <2> QED BY <1>2, <2>1, <2>3, <2>4, <2>5 DEF b
<1> QED BY <1>1, <1>2

LEMMA SameWhole ==
  ASSUME NEW s, NEW t, NEW h, Whole(s, h), t.out = s.out, t.known = s.known,
         t.closed = s.closed, t.response = s.response, t.pending = s.pending,
         t.generator = s.generator, t.header_sent = s.header_sent
  PROVE  Whole(t, h)
<1>1. Owed(t) = Owed(s)
  BY DEF Owed
<1>2. Written(s, h) => Written(t, h)
  BY DEF Written, Rising, Attributed, Exact
<1>3. Open(s, h) => Open(t, h)
  BY <1>1 DEF Open, Accounted, Rising, Exact
<1>4. WholeButBad(s) => WholeButBad(t)
  BY DEF WholeButBad, Exact
<1> QED BY <1>2, <1>3, <1>4 DEF Whole

LEMMA HistoryGrows ==
  ASSUME NEW h, Asking(h)
  PROVE  /\ h \o <<>> = h
         /\ \A r \in Ids : h \o <<r>> = Append(h, r)
<1>1. h \in Seq(Ids)
  BY DEF Asking
<1>2. h \o <<>> = h
  BY <1>1, ConcatEmptySeq
<1>3. ASSUME NEW r \in Ids PROVE h \o <<r>> = Append(h, r)
  BY <1>1, AppendIsConcat
<1> QED BY <1>2, <1>3

\* What on_receive does with a sound connection, whatever arrives: the response
\* under way goes on, or all of the pieces are kept, or a request is taken whose
\* pieces were the first two.
Fresh(b, h) == \A i \in DOMAIN b : /\ b[i].request \in 1 .. Len(requests)
                                   /\ \A j \in DOMAIN h : h[j] < b[i].request
Took(s, t, h, g, b) ==
  /\ t \in ConnectionState /\ t.known /\ Len(s.out) <= Len(t.out)
  /\ ServerInv(t, h \o g) /\ Asking(h \o g)
  /\ \/ g = <<>> /\ t.buffer \in {s.buffer, b}
     \/ Complete(b) /\ g = <<b[1].request>> /\ t.buffer = <<>>

LEMMA ReceivedSound ==
  ASSUME NEW s \in ConnectionState, NEW h, Asking(h), s.known, ServerInv(s, h),
         NEW data \in Seq(PieceSet), NEW b, b = s.buffer \o data, Fresh(b, h)
  PROVE  Took(s, on_receive(s, data), h, taken(s, data), b)
<1> DEFINE f == IF s.pending > 0 THEN flush_pending(s) ELSE s
           p == feed(f, data)
           t == on_receive(s, data)
           g == taken(s, data)
           Right == /\ t \in ConnectionState /\ t.known /\ Len(s.out) <= Len(t.out)
                    /\ ServerInv(t, h \o g) /\ Asking(h \o g)
                    /\ \/ g = <<>> /\ t.buffer \in {s.buffer, b}
                       \/ Complete(b) /\ g = <<b[1].request>> /\ t.buffer = <<>>
<1>1. /\ t = IF s.generator # Idle THEN send_next_chunk(s)
             ELSE IF f.pending > 0 THEN f
             ELSE IF p.error THEN closed(send_response(p, Bad, UnitsOf(Bad)))
             ELSE IF Complete(p.buffer) THEN dispatched(p)
             ELSE p
      /\ g = IF s.generator = Idle /\ f.pending = 0 /\ ~p.error /\ Complete(p.buffer)
             THEN <<p.buffer[1].request>> ELSE <<>>
  BY DEF on_receive, taken
<1>2. h \o <<>> = h
  BY HistoryGrows
<1>3. s.pending \in Nat /\ s.closed \in BOOLEAN /\ Len(s.out) \in Nat
  BY ConnectionTyped
<1> SUFFICES Right
  BY DEF Took
<1> HIDE DEF t, g
<1>4. CASE s.generator # Idle
  <2>1. t = send_next_chunk(s) /\ g = <<>>
    BY <1>1, <1>4
  <2>2. (\E n \in Nat : Carried(s, t, n)) /\ ServerInv(t, h)
    BY <1>4, <2>1, GoesOn
  <2>3. PICK n \in Nat : Carried(s, t, n)
    BY <2>2
  <2>4. t \in ConnectionState /\ t.known /\ t.buffer = s.buffer
    BY <2>3 DEF Carried
  <2>5. Len(s.out) <= Len(t.out)
    BY <2>3, CarriedUnits
  <2> QED BY <1>2, <2>1, <2>2, <2>4, <2>5
<1>5. CASE s.generator = Idle
  <2>1. /\ f \in ConnectionState /\ f.known /\ f.buffer = s.buffer /\ f.generator = Idle
        /\ Len(s.out) <= Len(f.out) /\ Len(f.out) \in Nat /\ ServerInv(f, h)
    <3>1. CASE s.pending > 0
      <4>1. f = flush_pending(s)
        BY <3>1
      <4> HIDE DEF f
      <4>2. (\E n \in Nat : Carried(s, f, n)) /\ ServerInv(f, h) /\ f.generator = Idle
        BY <1>5, <4>1, GoesOn
      <4>3. PICK n \in Nat : Carried(s, f, n)
        BY <4>2
      <4>4. f \in ConnectionState /\ f.known /\ f.buffer = s.buffer
        BY <4>3 DEF Carried
      <4>5. Len(s.out) <= Len(f.out)
        BY <4>3, CarriedUnits
      <4>6. Len(f.out) \in Nat
        BY <4>4, ConnectionTyped
      <4> QED BY <4>2, <4>4, <4>5, <4>6
    <3>2. CASE ~(s.pending > 0)
      <4>1. f = s
        BY <3>2
      <4> HIDE DEF f
      <4> QED BY <1>3, <1>5, <4>1
    <3> QED BY <3>1, <3>2
  <2> HIDE DEF f
  <2>2. CASE f.pending > 0
    <3>1. t = f /\ g = <<>>
      <4>1. f.pending # 0
        BY <2>2
      <4> QED BY <1>1, <1>5, <2>2, <4>1
    <3> QED BY <1>2, <2>1, <3>1
  <2>3. CASE ~(f.pending > 0)
    <3>1. f.pending = 0
      BY <2>1, <2>3, ConnectionTyped
    <3>2. Whole(f, h)
      BY <2>1, WholeBefore
    <3>3. /\ p \in ConnectionState /\ p.known /\ p.closed = f.closed
          /\ p.response = f.response /\ p.pending = f.pending
          /\ p.generator = f.generator /\ p.header_sent = f.header_sent /\ p.out = f.out
          /\ f.error => p = f
          /\ ~f.error => p.buffer = b
      <4>1. /\ p \in ConnectionState /\ p.known = f.known /\ p.closed = f.closed
            /\ p.response = f.response /\ p.pending = f.pending
            /\ p.generator = f.generator /\ p.header_sent = f.header_sent /\ p.out = f.out
            /\ f.error => p = f
            /\ ~f.error => p.buffer = f.buffer \o data
        BY <2>1, FeedFields
      <4> HIDE DEF p
      <4> QED BY <2>1, <4>1
    <3> HIDE DEF p
    <3>4. Whole(p, h) /\ p.generator = Idle /\ p.pending = 0 /\ p.buffer \in {s.buffer, b}
      BY <2>1, <3>1, <3>2, <3>3, SameWhole
    <3>5. CASE p.error
      <4>1. t = closed(send_response(p, Bad, UnitsOf(Bad))) /\ g = <<>>
        BY <1>1, <1>5, <3>1, <3>5
      <4>2. /\ t \in ConnectionState /\ ServerInv(t, h)
            /\ t.known = p.known /\ t.buffer = p.buffer /\ Len(p.out) <= Len(t.out)
        BY <3>3, <3>4, <4>1, RefusedSound
      <4>3. Len(s.out) <= Len(t.out)
        BY <1>3, <2>1, <3>3, <4>2, ConnectionTyped
      <4> QED BY <1>2, <3>3, <3>4, <4>1, <4>2, <4>3
    <3>6. CASE ~p.error /\ Complete(p.buffer)
      <4> DEFINE r == p.buffer[1].request
      <4>1. t = dispatched(p) /\ g = <<r>>
        BY <1>1, <1>5, <3>1, <3>6
      <4>2. p.buffer = b
        <5>1. ~f.error
          BY <3>3, <3>6
        <5> QED BY <3>3, <5>1
      <4>3. 1 \in DOMAIN b
        <5>1. s.buffer \in Seq(PieceSet)
          BY ConnectionTyped DEF PieceSet
        <5>2. b \in Seq(PieceSet)
          BY <5>1, ConcatProperties
        <5>3. Len(b) >= 2
          BY <3>6, <4>2 DEF Complete
        <5> QED BY <5>2, <5>3
      <4>4. r \in 1 .. Len(requests) /\ (\A j \in DOMAIN h : h[j] < r)
        BY <4>2, <4>3 DEF Fresh
      <4>5. r \in Ids
        BY <4>4, ExchangeNumbers DEF Asking
      <4>6. /\ t \in ConnectionState /\ ServerInv(t, Append(h, r)) /\ Asking(Append(h, r))
            /\ t.known = p.known /\ t.buffer = <<>> /\ Len(p.out) <= Len(t.out)
        <5>1. Answered(p, dispatched(p), h, r)
          BY <3>3, <3>4, <4>4, DispatchedSound
        <5> QED BY <4>1, <5>1 DEF Answered
      <4>7. h \o g = Append(h, r)
        BY <4>1, <4>5, HistoryGrows
      <4>8. Len(s.out) <= Len(t.out)
        BY <1>3, <2>1, <3>3, <4>6, ConnectionTyped
      <4> QED BY <3>3, <3>6, <4>1, <4>2, <4>6, <4>7, <4>8
    <3>7. CASE ~p.error /\ ~Complete(p.buffer)
      <4>1. t = p /\ g = <<>>
        BY <1>1, <1>5, <3>1, <3>7
      <4>2. ServerInv(p, h)
        BY <2>1, <3>3, SameServer
      <4> QED BY <1>2, <2>1, <3>3, <3>4, <4>1, <4>2
    <3> QED BY <3>5, <3>6, <3>7
  <2> QED BY <2>2, <2>3
<1> QED BY <1>4, <1>5

\* One piece after the other, as a client that waits sends them: never an error.
TookPlain(s, t, g, b) ==
  /\ ~t.error
  /\ \A i \in DOMAIN t.out : t.out[i] = t.response \/ (i \in DOMAIN s.out /\ t.out[i] = s.out[i])
  /\ IF Complete(b)
     THEN /\ g = <<b[1].request>> /\ t.buffer = <<>> /\ t.response = b[1].request
          /\ t.keep_alive = ~requests[b[1].request].close /\ (t.closed => ~t.keep_alive)
     ELSE /\ g = <<>> /\ t.buffer = b /\ t.response = s.response /\ t.keep_alive = s.keep_alive
          /\ ~t.closed /\ t.generator = Idle /\ t.pending = 0

LEMMA ReceivedPlain ==
  ASSUME NEW s \in ConnectionState, NEW h, Asking(h), s.known, ServerInv(s, h),
         NEW data \in Seq(PieceSet), NEW b, b = s.buffer \o data,
         Fresh(b, h),
         s.generator = Idle, s.pending = 0, ~s.error, ~s.closed, Len(b) <= 2, ~Malformed(b)
  PROVE  TookPlain(s, on_receive(s, data), taken(s, data), b)
<1> DEFINE p == feed(s, data)
           t == on_receive(s, data)
           g == taken(s, data)
           r == b[1].request
<1>1. /\ p \in ConnectionState
      /\ p.known = s.known /\ p.closed = s.closed /\ p.keep_alive = s.keep_alive
      /\ p.response = s.response /\ p.pending = s.pending
      /\ p.generator = s.generator /\ p.header_sent = s.header_sent /\ p.out = s.out
      /\ p.buffer = s.buffer \o data
      /\ p.error = (Len(data) > MAX_BUFFER_SIZE \/ Malformed(p.buffer))
  BY FeedFields
<1>2. ~p.error
  <2>1. s.buffer \in Seq(PieceSet)
    BY ConnectionTyped DEF PieceSet
  <2>2. Len(b) = Len(s.buffer) + Len(data) /\ Len(data) \in Nat /\ Len(s.buffer) \in Nat
    BY <2>1, ConcatProperties
  <2>3. ~(Len(data) > MAX_BUFFER_SIZE)
    BY <2>2, ExchangeNumbers
  <2> HIDE DEF p
  <2> QED BY <1>1, <2>3
<1>3. /\ t = IF Complete(p.buffer) THEN dispatched(p) ELSE p
      /\ g = IF Complete(p.buffer) THEN <<p.buffer[1].request>> ELSE <<>>
  <2>1. ~(s.pending > 0)
    BY ConnectionTyped
  <2> QED BY <1>2, <2>1 DEF on_receive, taken
<1> HIDE DEF p, t, g
<1>4. p.buffer = b
  BY <1>1
<1>5. CASE Complete(b)
  <2>1. t = dispatched(p) /\ g = <<r>> /\ r = p.buffer[1].request
    BY <1>3, <1>4, <1>5
  <2>2. Whole(p, h)
    <3>1. Whole(s, h)
      BY WholeBefore
    <3> QED BY <1>1, <3>1, SameWhole
  <2>3. 1 \in DOMAIN b
    <3>1. s.buffer \in Seq(PieceSet)
      BY ConnectionTyped DEF PieceSet
    <3>2. b \in Seq(PieceSet)
      BY <3>1, ConcatProperties
    <3>3. Len(b) >= 2
      BY <1>5 DEF Complete
    <3> QED BY <3>2, <3>3
  <2>4. r \in 1 .. Len(requests) /\ (\A j \in DOMAIN h : h[j] < r)
    BY <2>3 DEF Fresh
  <2>5. /\ t.buffer = <<>> /\ t.error = FALSE /\ t.response = r
        /\ t.keep_alive = ~requests[r].close
        /\ t.closed => p.closed \/ ~t.keep_alive
        /\ \A i \in DOMAIN t.out : t.out[i] = r \/ (i \in DOMAIN p.out /\ t.out[i] = p.out[i])
    <3> HIDE DEF r
    <3>1. p \in ConnectionState /\ p.known /\ p.generator = Idle /\ p.pending = 0
      BY <1>1
    <3>2. r = p.buffer[1].request
      BY <2>1
    <3> DEFINE q == p.buffer[1].request
               d == dispatched(p)
    <3>3. q \in 1 .. Len(requests) /\ (\A j \in DOMAIN h : h[j] < q)
      BY <2>4, <3>2
    <3>4. Answered(p, d, h, q)
      BY <2>2, <3>1, <3>3, DispatchedSound
    <3> HIDE DEF d
    <3> QED BY <2>1, <3>2, <3>4 DEF Answered, d
  <2> HIDE DEF r
  <2>6. t.closed => ~t.keep_alive
    BY <1>1, <2>5
  <2> QED BY <1>1, <1>5, <2>1, <2>5, <2>6 DEF TookPlain, t, g, r
<1>6. CASE ~Complete(b)
  <2>1. t = p /\ g = <<>>
    BY <1>3, <1>4, <1>6
  <2> QED BY <1>1, <1>2, <1>4, <1>6, <2>1 DEF TookPlain, t, g
<1> QED BY <1>5, <1>6

-----------------------------------------------------------------------------
\* The server's part of the invariant, after a step.
LEMMA ServerPrimed ==
  ASSUME requests \in Seq(Request), Len(requests) \in Nat,
         received \in Nat, received' \in Nat, received <= received',
         \A r \in 1 .. Len(requests) : requests'[r] = requests[r],
         server' \in ConnectionState, ServerInv(server', handled'),
         handled' \in Seq(Ids),
         \A i \in DOMAIN handled' : handled'[i] \in 1 .. Len(requests)
  PROVE  ServerInv(server, handled)'
<1> DEFINE o == server'.out
           h == handled'
<1>1. DOMAIN o = 1 .. Len(o) /\ Len(o) \in Nat /\ SEND_BUFFER \in Nat
  BY ConnectionTyped, ExchangeNumbers
<1>2. ASSUME NEW i \in DOMAIN o, o[i] = Bad \/ InHistory(h, o[i])
      PROVE  UnitsOf(server.out[i])' = UnitsOf(o[i])
  <2>1. CASE o[i] = Bad
    BY <2>1 DEF UnitsOf
  <2>2. CASE InHistory(h, o[i])
    <3>1. o[i] \in 1 .. Len(requests)
      BY <2>2 DEF InHistory
    <3>2. requests'[o[i]] = requests[o[i]]
      BY <3>1
    <3> QED BY <3>2 DEF UnitsOf
  <2> QED BY <1>2, <2>1, <2>2
<1>3. Written(server, handled)'
  <2>1. Written(server', h)
    BY DEF ServerInv
  <2>2. (Len(server.out) <= received + SEND_BUFFER)'
    <3>1. Len(o) <= received + SEND_BUFFER
      BY <2>1 DEF Written
    <3> QED BY <1>1, <3>1
  <2>3. Rising(server)'
    BY <2>1 DEF Written, Rising
  <2>4. Attributed(server, handled)'
    <3> SUFFICES ASSUME NEW i \in DOMAIN o
                 PROVE  /\ o[i] = Bad \/ InHistory(h, o[i])
                        /\ IF o[i] # o[Len(o)] THEN Count(o, o[i]) = UnitsOf(server.out[i])'
                           ELSE Count(o, o[i]) <= UnitsOf(server.out[i])'
      BY DEF Attributed, Exact, InHistory
    <3>1. /\ o[i] = Bad \/ InHistory(h, o[i])
          /\ IF o[i] # o[Len(o)] THEN Count(o, o[i]) = UnitsOf(o[i])
             ELSE Count(o, o[i]) <= UnitsOf(o[i])
      BY <2>1 DEF Written, Attributed, Exact
    <3> QED BY <1>2, <3>1
  <2> QED BY <2>2, <2>3, <2>4 DEF Written
<1>4. (~server.closed => Accounted(server, handled) /\ Started(server))'
  <2> SUFFICES ASSUME ~server'.closed
               PROVE  Accounted(server, handled)' /\ Started(server)'
    OBVIOUS
  <2>1. Accounted(server', h) /\ Started(server')
    BY DEF ServerInv
  <2>2. Owed(server)' = Owed(server') /\ Started(server)'
    BY <2>1 DEF Owed, Started
  <2>3. ASSUME NEW i \in DOMAIN o
        PROVE  (/\ server.out[i] <= server.response /\ InHistory(handled, server.out[i])
                /\ server.out[i] # server.response => Exact(server, server.out[i]))'
    <3>1. /\ o[i] <= server'.response /\ InHistory(h, o[i])
          /\ o[i] # server'.response => Count(o, o[i]) = UnitsOf(o[i])
      BY <2>1 DEF Accounted, Exact
    <3>2. UnitsOf(server.out[i])' = UnitsOf(o[i])
      BY <1>2, <3>1
    <3> QED BY <3>1, <3>2 DEF Exact, InHistory
  <2>4. server'.response # 0 => (Count(server.out, server.response) + Owed(server) = UnitsOf(server.response))'
    <3> SUFFICES ASSUME server'.response # 0
                 PROVE  (Count(server.out, server.response) + Owed(server) = UnitsOf(server.response))'
      OBVIOUS
    <3>1. /\ Count(o, server'.response) + Owed(server') = UnitsOf(server'.response)
          /\ h # <<>> /\ h[Len(h)] = server'.response
      BY <2>1 DEF Accounted
    <3>2. Len(h) \in DOMAIN h
      BY <3>1
    <3>3. server'.response \in 1 .. Len(requests)
      BY <3>1, <3>2
    <3>4. UnitsOf(server.response)' = UnitsOf(server'.response)
      <4>1. requests'[server'.response] = requests[server'.response]
        BY <3>3
      <4> QED BY <4>1 DEF UnitsOf
    <3> QED BY <2>2, <3>1, <3>4
  <2>5. /\ server'.response # Bad
        /\ server'.response = 0 => Owed(server') = 0 /\ h = <<>>
        /\ server'.response # 0 => h # <<>> /\ h[Len(h)] = server'.response
    BY <2>1 DEF Accounted
  <2>6. Accounted(server, handled)'
    BY <2>2, <2>3, <2>4, <2>5 DEF Accounted
  <2> QED BY <2>2, <2>6
<1>5. (server.closed /\ server.known => WholeButBad(server))'
  <2> SUFFICES ASSUME server'.closed, server'.known, NEW i \in DOMAIN o, o[i] # Bad
               PROVE  Count(o, o[i]) = UnitsOf(server.out[i])'
    BY DEF WholeButBad, Exact
  <2>1. Count(o, o[i]) = UnitsOf(o[i])
    BY DEF ServerInv, WholeButBad, Exact
  <2>2. o[i] = Bad \/ InHistory(h, o[i])
    BY DEF ServerInv, Written, Attributed
  <2> QED BY <1>2, <2>1, <2>2
<1> QED BY <1>3, <1>4, <1>5 DEF ServerInv

-----------------------------------------------------------------------------
LEMMA ExchangeTyped ==
  ASSUME ExchangeInv
  PROVE  /\ kind \in Kinds /\ requests \in Seq(Request) /\ Len(requests) \in Nat
         /\ Len(requests) <= MaxRequests
         /\ unsent \in Seq(PieceSet) /\ to_server \in Seq(PieceSet)
         /\ server \in ConnectionState /\ server.buffer \in Seq(PieceSet)
         /\ received \in Nat /\ received <= Len(server.out)
         /\ handled \in Seq(Ids) /\ calls \in Nat /\ client_closed \in BOOLEAN
         /\ Asking(handled) /\ \A i \in DOMAIN handled : handled[i] \in 1 .. Len(requests)
<1>1. /\ kind \in Kinds /\ requests \in Seq(Request) /\ Len(requests) <= MaxRequests
      /\ unsent \in Seq(PieceSet) /\ to_server \in Seq(PieceSet)
      /\ server \in ConnectionState /\ received \in 0 .. Len(server.out)
      /\ handled \in Seq(Ids) /\ calls \in Nat /\ client_closed \in BOOLEAN
  BY DEF ExchangeInv, TypeOK, PieceSet
<1>2. server.buffer \in Seq(PieceSet) /\ Len(server.out) \in Nat
  BY <1>1, ConnectionTyped DEF PieceSet
<1>3. Len(requests) \in Nat /\ received \in Nat /\ received <= Len(server.out)
  BY <1>1, <1>2
<1>4. \A i \in DOMAIN handled : handled[i] <= Len(requests) /\ handled[i] \in Ids
  BY <1>1 DEF ExchangeInv, PiecesInv
<1>5. \A i \in DOMAIN handled : handled[i] \in 1 .. Len(requests)
  BY <1>3, <1>4, ExchangeNumbers
<1>6. Asking(handled)
  BY <1>1, <1>3, <1>4 DEF Asking
<1> QED BY <1>1, <1>2, <1>3, <1>5, <1>6

LEMMA PieceTyped ==
  ASSUME NEW p \in PieceSet
  PROVE  /\ p.request \in Nat /\ p.request \in Ids /\ p.request >= 1 /\ p.part \in {1, 2}
         /\ Key(p) = 2 * p.request + p.part /\ Key(p) \in Nat
<1>1. p.request \in Ids /\ p.part \in {1, 2}
  BY DEF PieceSet
<1>2. p.request \in Nat /\ p.request >= 1
  BY <1>1, ExchangeNumbers
<1>3. p.part \in Nat
  BY <1>1
<1>4. Key(p) = 2 * p.request + p.part
  BY DEF Key
<1> QED BY <1>1, <1>2, <1>3, <1>4

\* The server's part, once the step is known to keep what was asked and taken.
LEMMA ServerKept ==
  ASSUME ExchangeInv, received' = received, requests' = requests,
         server' \in ConnectionState, ServerInv(server', handled'), Asking(handled')
  PROVE  ServerInv(server, handled)'
<1>1. handled' \in Seq(Ids) /\ \A i \in DOMAIN handled' : handled'[i] <= Len(requests)
  BY DEF Asking
<1>2. \A i \in DOMAIN handled' : handled'[i] \in 1 .. Len(requests)
  BY <1>1, ExchangeTyped, ExchangeNumbers
<1> QED BY <1>1, <1>2, ExchangeTyped, ServerPrimed

LEMMA ExchangeStarts == Init => ExchangeInv
<1> SUFFICES ASSUME Init PROVE ExchangeInv
  OBVIOUS
<1>1. /\ kind \in Kinds /\ requests = <<>> /\ unsent = <<>> /\ to_server = <<>> /\ received = 0
      /\ server = [known |-> TRUE, closed |-> FALSE, keep_alive |-> TRUE,
               error |-> FALSE, buffer |-> <<>>, response |-> 0, pending |-> 0,
               generator |-> Idle, header_sent |-> FALSE, out |-> <<>>]
      /\ handled = <<>> /\ calls = 0 /\ client_closed = FALSE
  BY DEF Init
<1>2. server \in ConnectionState
  BY <1>1, ExchangeNumbers DEF ConnectionState
<1>3. TypeOK
  <2>1. server.out = <<>>
    BY <1>1
  <2>2. received \in 0 .. Len(server.out)
    BY <1>1, <2>1
  <2>3. /\ requests \in Seq(Request) /\ Len(requests) = 0 /\ handled \in Seq(Ids)
        /\ unsent \in Seq([request: Ids, part: {1, 2}])
        /\ to_server \in Seq([request: Ids, part: {1, 2}])
    BY <1>1
  <2>4. Len(requests) <= MaxRequests
    BY <2>3, ExchangeNumbers
  <2> QED BY <1>1, <1>2, <2>2, <2>3, <2>4 DEF TypeOK
<1>4. ServerInv(server, handled)
  <2>1. Owed(server) = 0 /\ server.generator = Idle /\ server.response = 0
        /\ server.out = <<>> /\ ~server.closed
    BY <1>1 DEF Owed
  <2>2. Accounted(server, handled) /\ Started(server)
    BY <1>1, <2>1, ExchangeNumbers DEF Accounted, Started
  <2>3. Written(server, handled)
    BY <1>1, <2>1, ExchangeNumbers DEF Written, Rising, Attributed
  <2> QED BY <2>1, <2>2, <2>3 DEF ServerInv
<1>5. PiecesInv
  <2>1. /\ DOMAIN server.buffer = {} /\ DOMAIN to_server = {} /\ DOMAIN unsent = {}
        /\ DOMAIN handled = {}
    BY <1>1
  <2> QED BY <2>1 DEF PiecesInv, Later, KeysRise, Before
<1>6. SequentialInv
  <2>1. AllTaken
    BY <1>1 DEF AllTaken
  <2> QED BY <1>1, <2>1, ExchangeNumbers DEF SequentialInv
<1>7. ClientInv
  BY <1>1 DEF ClientInv
<1> QED BY <1>3, <1>4, <1>5, <1>6, <1>7 DEF ExchangeInv

\* n pieces move from the head of y to the end of x.
Moved(x, y, n, b, e) == b = x \o SubSeq(y, 1, n) /\ e = SubSeq(y, n + 1, Len(y))

\* Where each piece is then.
Shifted(x, y, n, b, e) ==
  /\ e \in Seq(PieceSet) /\ Len(e) = Len(y) - n
  /\ \A i \in 1 .. Len(e) : e[i] = y[n + i]
  /\ b \in Seq(PieceSet) /\ Len(b) = Len(x) + n
  /\ \A i \in 1 .. Len(x) : b[i] = x[i]
  /\ \A i \in 1 .. n : b[Len(x) + i] = y[i]

LEMMA MovedPieces ==
  ASSUME NEW x \in Seq(PieceSet), NEW y \in Seq(PieceSet), NEW n \in 1 .. Len(y),
         NEW b, NEW e, Moved(x, y, n, b, e)
  PROVE  Shifted(x, y, n, b, e)
<1> DEFINE d == SubSeq(y, 1, n)
<1>0. b = x \o d /\ e = SubSeq(y, n + 1, Len(y))
  BY DEF Moved
<1>1. Len(y) \in Nat /\ Len(x) \in Nat /\ n \in Nat /\ n <= Len(y) /\ n >= 1
  OBVIOUS
<1>2. d \in Seq(PieceSet) /\ Len(d) = n /\ \A i \in 1 .. n : d[i] = y[i]
  <2>1. \A i \in 1 .. n : y[i] \in PieceSet
    BY <1>1
  <2>2. /\ d \in Seq(PieceSet) /\ Len(d) = (IF 1 <= n THEN n - 1 + 1 ELSE 0)
        /\ \A i \in 1 .. n - 1 + 1 : d[i] = y[1 + i - 1]
    BY <1>1, <2>1, SubSeqProperties
  <2> HIDE DEF d
  <2> QED BY <1>1, <2>2
<1>3. e \in Seq(PieceSet) /\ Len(e) = Len(y) - n /\ \A i \in 1 .. Len(e) : e[i] = y[n + i]
  <2> DEFINE L == Len(y)
  <2>1. \A i \in n + 1 .. L : y[i] \in PieceSet
    BY <1>1
  <2>2. /\ e \in Seq(PieceSet) /\ Len(e) = (IF n + 1 <= L THEN L - (n + 1) + 1 ELSE 0)
        /\ \A i \in 1 .. L - (n + 1) + 1 : e[i] = y[n + 1 + i - 1]
    BY <1>0, <1>1, <2>1, SubSeqProperties
  <2>3. L \in Nat
    BY <1>1
  <2> HIDE DEF L
  <2>4. Len(e) = L - n
    BY <1>1, <2>2, <2>3 DEF L
  <2>5. ASSUME NEW i \in 1 .. Len(e) PROVE e[i] = y[n + i]
    <3>1. i \in 1 .. L - (n + 1) + 1 /\ n + 1 + i - 1 = n + i
      BY <1>1, <2>3, <2>4
    <3> QED BY <2>2, <3>1
  <2> QED BY <2>2, <2>4, <2>5 DEF L
<1> HIDE DEF d
<1>4. /\ b \in Seq(PieceSet) /\ Len(b) = Len(x) + n
      /\ \A i \in 1 .. Len(x) + n : b[i] = IF i <= Len(x) THEN x[i] ELSE d[i - Len(x)]
  <2>1. b = x \o d
    BY <1>0 DEF d
  <2>2. /\ x \o d \in Seq(PieceSet) /\ Len(x \o d) = Len(x) + n
        /\ \A i \in 1 .. Len(x) + n : (x \o d)[i] = IF i <= Len(x) THEN x[i] ELSE d[i - Len(x)]
    BY <1>2, ConcatProperties
  <2> QED BY <2>1, <2>2
<1>5. \A i \in 1 .. Len(x) : b[i] = x[i]
  BY <1>1, <1>4
<1>6. ASSUME NEW i \in 1 .. n PROVE b[Len(x) + i] = y[i]
  <2>1. Len(x) + i \in 1 .. Len(x) + n /\ ~(Len(x) + i <= Len(x)) /\ Len(x) + i - Len(x) = i
    BY <1>1
  <2> HIDE DEF d
  <2>2. b[Len(x) + i] = d[Len(x) + i - Len(x)]
    BY <1>4, <2>1
  <2>3. d[i] = y[i]
    BY <1>2
  <2> QED BY <2>1, <2>2, <2>3
<1> QED BY <1>3, <1>4, <1>5, <1>6 DEF Shifted

-----------------------------------------------------------------------------
\* The server writes on.
LEMMA PollSound == ExchangeInv /\ poll => ExchangeInv'
<1> SUFFICES ASSUME ExchangeInv, poll PROVE ExchangeInv'
  OBVIOUS
<1>1. /\ server.known /\ (server.generator # Idle \/ server.pending > 0)
      /\ server' = IF server.generator # Idle THEN send_next_chunk(server)
                   ELSE flush_pending(server)
      /\ kind' = kind /\ requests' = requests /\ unsent' = unsent /\ to_server' = to_server
      /\ received' = received /\ handled' = handled /\ calls' = calls
      /\ client_closed' = client_closed
  BY DEF poll
<1>2. /\ TypeOK /\ ServerInv(server, handled) /\ PiecesInv /\ SequentialInv /\ ClientInv
      /\ server \in ConnectionState /\ Asking(handled) /\ received \in Nat
      /\ received <= Len(server.out)
  BY ExchangeTyped DEF ExchangeInv
<1>3. (\E n \in Nat : Carried(server, server', n)) /\ ServerInv(server', handled)
  BY <1>1, <1>2, GoesOn
<1>4. PICK n \in Nat : Carried(server, server', n)
  BY <1>3
<1>5. /\ server' \in ConnectionState /\ server'.known = server.known
      /\ server'.keep_alive = server.keep_alive /\ server'.error = server.error
      /\ server'.buffer = server.buffer /\ server'.response = server.response
      /\ server'.closed => server.closed \/ ~server.keep_alive
  BY <1>4 DEF Carried
<1>6. /\ Len(server.out) <= Len(server'.out)
      /\ \A i \in DOMAIN server'.out : server'.out[i] = server.response
                          \/ (i \in DOMAIN server.out /\ server'.out[i] = server.out[i])
  BY <1>2, <1>4, CarriedUnits
<1>7. TypeOK'
  <2>1. received \in 0 .. Len(server'.out)
    BY <1>2, <1>5, <1>6, ConnectionTyped
  <2> QED BY <1>1, <1>2, <1>5, <2>1 DEF TypeOK
<1>8. ServerInv(server, handled)'
  BY <1>1, <1>2, <1>3, <1>5, ServerKept
<1>9. PiecesInv'
  BY <1>1, <1>2, <1>5 DEF PiecesInv, Later, KeysRise, Before
<1>10. SequentialInv'
  <2> SUFFICES ASSUME kind = "sequential", server.known
               PROVE  /\ \A i \in DOMAIN handled' : handled'[i] = i
                      /\ ~server'.error /\ server'.response # Bad
                      /\ \A i \in DOMAIN server'.out : server'.out[i] # Bad
                      /\ AllTaken'
    BY <1>1, <1>5 DEF SequentialInv
  <2>1. /\ \A i \in DOMAIN handled : handled[i] = i
        /\ ~server.error /\ server.response # Bad
        /\ \A i \in DOMAIN server.out : server.out[i] # Bad
        /\ AllTaken \/ OneOnItsWay
    BY <1>2 DEF SequentialInv
  <2>2. AllTaken
    <3>1. ~OneOnItsWay
      BY <1>1 DEF OneOnItsWay
    <3> QED BY <2>1, <3>1
  <2>3. AllTaken'
    <3>1. server'.closed => ~server.keep_alive
      BY <1>5, <2>2 DEF AllTaken
    <3> QED BY <1>1, <1>5, <2>2, <3>1 DEF AllTaken
  <2> QED BY <1>1, <1>5, <1>6, <2>1, <2>3
<1>11. ClientInv'
  BY <1>1, <1>2 DEF ClientInv
<1> QED BY <1>7, <1>8, <1>9, <1>10, <1>11 DEF ExchangeInv

\* Steps in which the server does nothing and nothing it reads changes.
LEMMA ServerStays ==
  ASSUME ExchangeInv, server' = server, handled' = handled, requests' = requests, kind' = kind,
         unsent' = unsent, to_server' = to_server, client_closed' \in BOOLEAN,
         received' \in Nat, received <= received', received' <= Len(server.out), ClientInv'
  PROVE  ExchangeInv'
<1>1. /\ TypeOK /\ ServerInv(server, handled) /\ PiecesInv /\ SequentialInv
      /\ server \in ConnectionState /\ requests \in Seq(Request) /\ Len(requests) \in Nat
      /\ handled \in Seq(Ids) /\ \A i \in DOMAIN handled : handled[i] \in 1 .. Len(requests)
      /\ received \in Nat
  BY ExchangeTyped DEF ExchangeInv
<1>2. TypeOK'
  <2>1. received' \in 0 .. Len(server'.out)
    BY <1>1, ConnectionTyped
  <2>2. calls' \in Nat
    BY DEF ClientInv
  <2> QED BY <1>1, <2>1, <2>2 DEF TypeOK
<1>3. ServerInv(server, handled)'
  BY <1>1, ServerPrimed
<1>4. PiecesInv'
  BY <1>1 DEF PiecesInv, Later, KeysRise, Before
<1>5. SequentialInv'
  BY <1>1 DEF SequentialInv, AllTaken, OneOnItsWay
<1> QED BY <1>2, <1>3, <1>4, <1>5 DEF ExchangeInv

LEMMA ReceiveSound == ExchangeInv /\ receive => ExchangeInv'
<1> SUFFICES ASSUME ExchangeInv, receive PROVE ExchangeInv'
  OBVIOUS
<1>1. /\ received < Len(server.out) /\ received' = received + 1
      /\ kind' = kind /\ requests' = requests /\ unsent' = unsent /\ to_server' = to_server
      /\ server' = server /\ handled' = handled
      /\ \/ /\ kind = "http_client" /\ ~client_closed
            /\ calls' = calls + 1 /\ client_closed' = TRUE
         \/ calls' = calls /\ client_closed' = client_closed
  BY DEF receive
<1>2. ClientInv /\ received \in Nat /\ Len(server.out) \in Nat /\ calls \in Nat
      /\ client_closed \in BOOLEAN
  BY ExchangeTyped, ConnectionTyped DEF ExchangeInv
<1>3. ClientInv' /\ client_closed' \in BOOLEAN
  <2>1. ASSUME kind = "http_client", ~client_closed, calls' = calls + 1, client_closed' = TRUE
        PROVE  ClientInv'
    <3>1. calls = 0
      BY <1>2, <2>1 DEF ClientInv
    <3>2. calls' = 1
      BY <2>1, <3>1
    <3> QED BY <1>1, <2>1, <3>2 DEF ClientInv
  <2>2. CASE calls' = calls /\ client_closed' = client_closed
    BY <1>1, <1>2, <2>2 DEF ClientInv
  <2> QED BY <1>1, <1>2, <2>1, <2>2
<1>4. received' \in Nat /\ received <= received' /\ received' <= Len(server.out)
  BY <1>1, <1>2
<1> QED BY <1>1, <1>3, <1>4, ServerStays

LEMMA ClosesSound == ExchangeInv /\ (on_close \/ leave) => ExchangeInv'
<1> SUFFICES ASSUME ExchangeInv, on_close \/ leave PROVE ExchangeInv'
  OBVIOUS
<1>1. /\ ~client_closed /\ client_closed' = TRUE
      /\ kind' = kind /\ requests' = requests /\ unsent' = unsent /\ to_server' = to_server
      /\ server' = server /\ handled' = handled /\ received' = received
      /\ \/ calls' = IF kind = "http_client" /\ calls = 0 THEN 1 ELSE calls
         \/ kind # "http_client" /\ calls' = calls
  BY DEF on_close, leave
<1>2. ClientInv /\ received \in Nat /\ received <= Len(server.out)
  BY ExchangeTyped DEF ExchangeInv
<1>3. ClientInv'
  BY <1>1, <1>2 DEF ClientInv
<1> QED BY <1>1, <1>2, <1>3, ServerStays

\* The server forgets the connection.
LEMMA ToldSound ==
  ASSUME ExchangeInv, NEW comes \in BOOLEAN, peer_closed(comes)
  PROVE  ExchangeInv'
<1>1. /\ server.known /\ server' = told(server, comes) /\ server' # server
      /\ kind' = kind /\ requests' = requests /\ unsent' = unsent /\ to_server' = to_server
      /\ received' = received /\ handled' = handled /\ calls' = calls
      /\ client_closed' = client_closed
  BY DEF peer_closed
<1>2. /\ TypeOK /\ ServerInv(server, handled) /\ PiecesInv /\ ClientInv
      /\ server \in ConnectionState /\ Asking(handled)
  BY ExchangeTyped DEF ExchangeInv
<1>3. /\ server' \in ConnectionState /\ ~server'.known /\ server'.closed
      /\ server'.out = server.out /\ server'.buffer = server.buffer
  <2>1. server' = closed([server EXCEPT !.known = FALSE])
    BY <1>1 DEF told
  <2> DEFINE k == [server EXCEPT !.known = FALSE]
             u == [k EXCEPT !.closed = TRUE]
  <2>2. server' = u
    BY <2>1 DEF closed
  <2>3. k \in ConnectionState /\ ~k.known /\ k.out = server.out /\ k.buffer = server.buffer
    BY <1>2 DEF ConnectionState
  <2> HIDE DEF k
  <2>4. u \in ConnectionState /\ ~u.known /\ u.closed /\ u.out = server.out /\ u.buffer = server.buffer
    BY <2>3 DEF ConnectionState
  <2> QED BY <2>2, <2>4
<1>4. TypeOK'
  BY <1>1, <1>2, <1>3 DEF TypeOK
<1>5. ServerInv(server, handled)'
  <2>1. Written(server', handled)
    BY <1>2, <1>3 DEF ServerInv, Written, Rising, Attributed, Exact
  <2>2. ServerInv(server', handled)
    BY <1>3, <2>1 DEF ServerInv
  <2> QED BY <1>1, <1>2, <1>3, <2>2, ServerKept
<1>6. PiecesInv'
  BY <1>1, <1>2, <1>3 DEF PiecesInv, Later, KeysRise, Before
<1>7. SequentialInv'
  BY <1>3 DEF SequentialInv
<1>8. ClientInv'
  BY <1>1, <1>2 DEF ClientInv
<1> QED BY <1>4, <1>5, <1>6, <1>7, <1>8 DEF ExchangeInv

-----------------------------------------------------------------------------
\* Their order stays.
LEMMA PiecesMove ==
  ASSUME NEW x \in Seq(PieceSet), NEW y \in Seq(PieceSet), NEW n \in 1 .. Len(y),
         NEW b, NEW e, Moved(x, y, n, b, e),
         KeysRise(y), Before(x, y)
  PROVE  /\ Before(b, e) /\ KeysRise(e) /\ (KeysRise(x) => KeysRise(b))
         /\ Later(x) /\ Later(y) => Later(b) /\ Later(e)
         /\ \A z : Before(x, z) /\ Before(y, z) => Before(b, z) /\ Before(e, z)
         /\ \A z : Before(z, x) /\ Before(z, y) => Before(z, b) /\ Before(z, e)
<1>0. Shifted(x, y, n, b, e)
  BY MovedPieces
<1> DEFINE X == Len(x)
           Y == Len(y)
<1>1. /\ b \in Seq(PieceSet) /\ e \in Seq(PieceSet) /\ Len(e) = Y - n /\ Len(b) = X + n
      /\ \A i \in 1 .. Len(e) : e[i] = y[n + i]
      /\ \A i \in 1 .. X : b[i] = x[i]
      /\ \A i \in 1 .. n : b[X + i] = y[i]
  BY <1>0 DEF Shifted
<1>2. /\ X \in Nat /\ Y \in Nat /\ n \in Nat /\ n >= 1 /\ n <= Y
      /\ DOMAIN x = 1 .. X /\ DOMAIN y = 1 .. Y
  OBVIOUS
<1>3. DOMAIN b = 1 .. X + n /\ DOMAIN e = 1 .. Y - n
  <2>1. DOMAIN b = 1 .. Len(b) /\ DOMAIN e = 1 .. Len(e)
    BY <1>1
  <2> QED BY <1>1, <2>1
<1> HIDE DEF X, Y
\* Where each of them was.
<1>4. ASSUME NEW i \in DOMAIN e PROVE n + i \in DOMAIN y /\ e[i] = y[n + i] /\ i \in Nat
  BY <1>1, <1>2, <1>3
<1>5. ASSUME NEW i \in DOMAIN b
      PROVE  \/ i \in DOMAIN x /\ b[i] = x[i]
             \/ i - X \in DOMAIN y /\ i - X <= n /\ b[i] = y[i - X] /\ i - X >= 1
  <2>1. CASE i <= X
    BY <1>1, <1>2, <1>3, <2>1
  <2>2. CASE i > X
    <3>1. i - X \in 1 .. n /\ X + (i - X) = i
      BY <1>2, <1>3, <2>2
    <3>2. i - X \in 1 .. Y /\ i - X <= n /\ i - X >= 1
      BY <1>2, <3>1
    <3> QED BY <1>1, <1>2, <3>1, <3>2
  <2> QED BY <1>2, <1>3, <2>1, <2>2
<1>6. /\ \A i \in DOMAIN x, j \in DOMAIN y : Key(x[i]) < Key(y[j])
      /\ \A i, j \in DOMAIN y : i < j => Key(y[i]) < Key(y[j])
  BY DEF Before, KeysRise
<1>7. Before(b, e)
  <2> SUFFICES ASSUME NEW i \in DOMAIN b, NEW j \in DOMAIN e PROVE Key(b[i]) < Key(e[j])
    BY DEF Before
  <2>1. n + j \in DOMAIN y /\ e[j] = y[n + j] /\ j \in Nat /\ j >= 1
    BY <1>3, <1>4
  <2>2. CASE i \in DOMAIN x /\ b[i] = x[i]
    BY <1>6, <2>1, <2>2
  <2>3. CASE i - X \in DOMAIN y /\ i - X <= n /\ b[i] = y[i - X]
    <3>1. i - X < n + j
      BY <1>2, <2>1, <2>3
    <3> QED BY <1>6, <2>1, <2>3, <3>1
  <2> QED BY <1>5, <2>2, <2>3
<1>8. KeysRise(e)
  <2> SUFFICES ASSUME NEW i \in DOMAIN e, NEW j \in DOMAIN e, i < j PROVE Key(e[i]) < Key(e[j])
    BY DEF KeysRise
  <2>1. n + i < n + j
    BY <1>2, <1>4
  <2> QED BY <1>4, <1>6, <2>1
<1>9. KeysRise(x) => KeysRise(b)
  <2> SUFFICES ASSUME KeysRise(x), NEW i \in DOMAIN b, NEW j \in DOMAIN b, i < j
               PROVE  Key(b[i]) < Key(b[j])
    BY DEF KeysRise
  <2>1. i \in Nat /\ j \in Nat
    BY <1>3
  <2>2. CASE j \in DOMAIN x /\ b[j] = x[j]
    <3>1. i \in DOMAIN x /\ b[i] = x[i]
      <4>1. j \in 1 .. X /\ i \in 1 .. X
        BY <1>2, <1>3, <2>1, <2>2
      <4> QED BY <1>1, <1>2, <4>1
    <3> QED BY <2>2, <3>1 DEF KeysRise
  <2>3. CASE j - X \in DOMAIN y /\ b[j] = y[j - X]
    <3>1. CASE i \in DOMAIN x /\ b[i] = x[i]
      BY <1>6, <2>3, <3>1
    <3>2. CASE i - X \in DOMAIN y /\ b[i] = y[i - X]
      <4>1. i - X < j - X
        BY <1>2, <2>1
      <4> QED BY <1>6, <2>3, <3>2, <4>1
    <3> QED BY <1>5, <3>1, <3>2
  <2> QED BY <1>5, <2>2, <2>3
<1>10. Later(x) /\ Later(y) => Later(b) /\ Later(e)
  <2> SUFFICES ASSUME Later(x), Later(y) PROVE Later(b) /\ Later(e)
    OBVIOUS
  <2>1. Later(b)
    BY <1>5 DEF Later
  <2>2. Later(e)
    BY <1>4 DEF Later
  <2> QED BY <2>1, <2>2
<1>11. ASSUME NEW z, Before(x, z), Before(y, z) PROVE Before(b, z) /\ Before(e, z)
  BY <1>4, <1>5, <1>11 DEF Before
<1>12. ASSUME NEW z, Before(z, x), Before(z, y) PROVE Before(z, b) /\ Before(z, e)
  BY <1>4, <1>5, <1>12 DEF Before
<1> QED BY <1>7, <1>8, <1>9, <1>10, <1>11, <1>12

LEMMA SendSound ==
  ASSUME ExchangeInv, NEW n \in 1 .. 2, send(n)
  PROVE  ExchangeInv'
<1>1. /\ n <= Len(unsent) /\ ~client_closed
      /\ to_server' = to_server \o SubSeq(unsent, 1, n)
      /\ kind = "http_client" => unsent' = <<>>
      /\ kind # "http_client" => unsent' = SubSeq(unsent, n + 1, Len(unsent))
      /\ kind' = kind /\ requests' = requests /\ server' = server /\ received' = received
      /\ handled' = handled /\ calls' = calls /\ client_closed' = client_closed
  BY DEF send
<1>2. /\ TypeOK /\ ServerInv(server, handled) /\ PiecesInv /\ SequentialInv /\ ClientInv
      /\ server \in ConnectionState /\ Asking(handled)
      /\ to_server \in Seq(PieceSet) /\ unsent \in Seq(PieceSet)
      /\ server.buffer \in Seq(PieceSet)
  BY ExchangeTyped DEF ExchangeInv
<1> DEFINE T == to_server'
           e == SubSeq(unsent, n + 1, Len(unsent))
           U == unsent'
<1>3. /\ n \in 1 .. Len(unsent) /\ n \in Nat
      /\ Moved(to_server, unsent, n, T, e)
  BY <1>1, <1>2 DEF Moved
<1> HIDE DEF T, e, U
<1>4. /\ T \in Seq(PieceSet) /\ e \in Seq(PieceSet)
      /\ Len(T) = Len(to_server) + n /\ Len(e) = Len(unsent) - n
      /\ \A i \in 1 .. Len(e) : e[i] = unsent[n + i]
      /\ \A i \in 1 .. Len(to_server) : T[i] = to_server[i]
      /\ \A i \in 1 .. n : T[Len(to_server) + i] = unsent[i]
  <2>1. Shifted(to_server, unsent, n, T, e)
    BY <1>2, <1>3, MovedPieces
  <2> QED BY <2>1 DEF Shifted
<1>5. /\ Later(T) /\ Later(e) /\ KeysRise(T) /\ KeysRise(e) /\ Before(T, e)
      /\ Before(server.buffer, T) /\ Before(server.buffer, e)
  <2>2. /\ Later(to_server) /\ Later(unsent) /\ KeysRise(to_server) /\ KeysRise(unsent)
        /\ Before(to_server, unsent)
        /\ Before(server.buffer, to_server) /\ Before(server.buffer, unsent)
    BY <1>2 DEF PiecesInv
  <2>3. /\ Before(T, e) /\ KeysRise(e) /\ (KeysRise(to_server) => KeysRise(T))
        /\ Later(to_server) /\ Later(unsent) => Later(T) /\ Later(e)
        /\ \A z : Before(z, to_server) /\ Before(z, unsent) => Before(z, T) /\ Before(z, e)
    BY <1>2, <1>3, <2>2, PiecesMove
  <2> QED BY <2>2, <2>3
<1>6. U = <<>> \/ U = e
  BY <1>1 DEF U, e
<1>7. U \in Seq(PieceSet) /\ Later(U) /\ KeysRise(U) /\ Before(T, U) /\ Before(server.buffer, U)
  <2>1. CASE U = <<>>
    BY <2>1 DEF Later, KeysRise, Before
  <2>2. CASE U = e
    BY <1>4, <1>5, <2>2
  <2> QED BY <1>6, <2>1, <2>2
<1>8. TypeOK'
  BY <1>1, <1>2, <1>4, <1>7 DEF TypeOK, PieceSet, T, U
<1>9. ServerInv(server, handled)'
  BY <1>1, <1>2, ServerKept
<1>10. PiecesInv'
  <2>2. /\ Later(server.buffer)' /\ Later(to_server)' /\ Later(unsent)'
    BY <1>1, <1>2, <1>5, <1>7 DEF PiecesInv, Later, T, U
  <2>3. /\ KeysRise(to_server)' /\ KeysRise(unsent)' /\ Before(to_server, unsent)'
        /\ Before(server.buffer, to_server)' /\ Before(server.buffer, unsent)'
    BY <1>1, <1>5, <1>7 DEF KeysRise, Before, T, U
  <2>4. (/\ \A i, j \in DOMAIN handled : i < j => handled[i] < handled[j]
         /\ \A i \in DOMAIN handled : handled[i] <= Len(requests))'
    BY <1>1, <1>2 DEF PiecesInv
  <2> QED BY <2>2, <2>3, <2>4 DEF PiecesInv
<1>11. SequentialInv'
  <2> SUFFICES ASSUME kind = "sequential", server.known
               PROVE  OneOnItsWay'
    BY <1>1, <1>2 DEF SequentialInv
  <2> DEFINE m == Len(requests)
             b == Len(server.buffer)
             t == Len(to_server)
  <2>1. OneOnItsWay
    <3>1. ~AllTaken
      BY <1>1, <1>3 DEF AllTaken
    <3> QED BY <1>2, <3>1 DEF SequentialInv
  <2>2. /\ Len(handled) = m - 1 /\ b <= 1 /\ b + t + Len(unsent) = 2
        /\ \A i \in 1 .. b : server.buffer[i] = Piece(m, i)
        /\ \A i \in 1 .. t : to_server[i] = Piece(m, b + i)
        /\ \A i \in 1 .. Len(unsent) : unsent[i] = Piece(m, b + t + i)
        /\ ~server.closed /\ server.generator = Idle /\ server.pending = 0
    BY <2>1 DEF OneOnItsWay
  <2>3. U = e
    BY <1>1 DEF U, e
  <2>4. b \in Nat /\ t \in Nat /\ Len(unsent) \in Nat
    BY <1>2
  <2>5. Len(T) = t + n /\ Len(U) = Len(unsent) - n /\ b + Len(T) + Len(U) = 2
    <3> DEFINE u == Len(unsent)
    <3>1. Len(T) = t + n /\ Len(U) = u - n
      BY <1>4, <2>3
    <3>2. u \in Nat /\ b + t + u = 2
      BY <2>2, <2>4
    <3> HIDE DEF b, t, u
    <3>3. b + (t + n) + (u - n) = 2
      BY <1>3, <2>4, <3>2
    <3> QED BY <3>1, <3>3 DEF u
  <2>6. ASSUME NEW i \in 1 .. t + n PROVE T[i] = Piece(m, b + i)
    <3>1. CASE i \in 1 .. t
      BY <1>4, <2>2, <3>1
    <3>2. CASE i \in t + 1 .. t + n
      <4>1. i - t \in 1 .. n /\ t + (i - t) = i /\ i - t \in 1 .. Len(unsent)
            /\ b + t + (i - t) = b + i
        BY <1>3, <2>4, <3>2
      <4>2. T[t + (i - t)] = unsent[i - t]
        BY <1>4, <4>1
      <4>3. unsent[i - t] = Piece(m, b + t + (i - t))
        BY <2>2, <4>1
      <4> QED BY <4>1, <4>2, <4>3
    <3> QED BY <1>3, <2>4, <3>1, <3>2
  <2>7. ASSUME NEW i \in 1 .. Len(U) PROVE U[i] = Piece(m, b + (t + n) + i)
    <3>1. n + i \in 1 .. Len(unsent) /\ b + t + (n + i) = b + (t + n) + i
      <4> DEFINE u == Len(unsent)
      <4>1. i \in 1 .. u - n /\ u \in Nat
        BY <2>4, <2>5
      <4> HIDE DEF b, t, u
      <4>2. n + i \in 1 .. u /\ b + t + (n + i) = b + (t + n) + i
        BY <1>3, <2>4, <4>1
      <4> QED BY <4>2 DEF u
    <3>2. U[i] = unsent[n + i]
      BY <1>4, <2>3
    <3>3. unsent[n + i] = Piece(m, b + t + (n + i))
      BY <2>2, <3>1
    <3> QED BY <3>1, <3>2, <3>3
  <2> HIDE DEF m, b, t
  <2>8. /\ Len(handled') = m - 1 /\ b <= 1 /\ b + Len(T) + Len(U) = 2
        /\ \A i \in 1 .. b : server.buffer[i] = Piece(m, i)
        /\ \A i \in 1 .. Len(T) : T[i] = Piece(m, b + i)
        /\ \A i \in 1 .. Len(U) : U[i] = Piece(m, b + Len(T) + i)
        /\ ~server.closed /\ server.generator = Idle /\ server.pending = 0
    <3>1. \A i \in 1 .. Len(T) : T[i] = Piece(m, b + i)
      BY <2>5, <2>6
    <3>2. \A i \in 1 .. Len(U) : U[i] = Piece(m, b + Len(T) + i)
      BY <2>5, <2>7
    <3> QED BY <1>1, <2>2, <2>5, <3>1, <3>2
  <2> QED BY <1>1, <2>8 DEF OneOnItsWay, m, b, t, T, U, Piece
<1>12. ClientInv'
  BY <1>1, <1>2 DEF ClientInv
<1> QED BY <1>8, <1>9, <1>10, <1>11, <1>12 DEF ExchangeInv

\* A request in the buffer is two pieces, the second with the greater key.
LEMMA CompletePieces ==
  ASSUME NEW b \in Seq(PieceSet), Complete(b)
  PROVE  /\ 1 \in DOMAIN b /\ 2 \in DOMAIN b /\ Len(b) >= 2
         /\ Key(b[2]) = 2 * b[1].request + 2
<1>1. Len(b) >= 2 /\ SubSeq(b, 1, 2) = Pieces(b[1].request)
  BY DEF Complete
<1>2. 1 \in DOMAIN b /\ 2 \in DOMAIN b /\ Len(b) \in Nat
  BY <1>1
<1>3. SubSeq(b, 1, 2)[2] = b[2]
  BY <1>1
<1>4. b[2] = [request |-> b[1].request, part |-> 2]
  <2> DEFINE q == b[1].request
  <2>1. b[2] = Pieces(q)[2]
    BY <1>1, <1>3
  <2> HIDE DEF q
  <2>2. Pieces(q)[2] = [request |-> q, part |-> 2]
    BY DEF Pieces
  <2> QED BY <2>1, <2>2 DEF q
<1> QED BY <1>1, <1>2, <1>4 DEF Key

LEMMA PiecesMalformed ==
  ASSUME NEW b \in Seq(PieceSet), NEW r, Len(b) <= 2,
         \A i \in 1 .. Len(b) : b[i] = Piece(r, i)
  PROVE  /\ ~Malformed(b)
         /\ Complete(b) <=> Len(b) = 2
<1>1. Len(b) \in Nat /\ DOMAIN b = 1 .. Len(b)
  OBVIOUS
<1>2. ASSUME NEW i \in DOMAIN b PROVE b[i] = Pieces(b[1].request)[i]
  <2>1. i = 1 \/ i = 2
    BY <1>1
  <2>2. 1 \in 1 .. Len(b)
    BY <1>1
  <2>3. b[1].request = r
    <3>1. b[1] = Piece(r, 1)
      BY <2>2
    <3> QED BY <3>1 DEF Piece
  <2>4. Pieces(r)[i] = [request |-> r, part |-> i]
    BY <2>1 DEF Pieces
  <2> QED BY <1>1, <2>3, <2>4 DEF Piece
<1>3. ~Malformed(b)
  BY <1>2 DEF Malformed
<1>4. ASSUME Len(b) = 2 PROVE Complete(b)
  <2>1. DOMAIN b = {1, 2}
    BY <1>1, <1>4
  <2>2. /\ SubSeq(b, 1, 2) \in Seq(PieceSet)
        /\ Len(SubSeq(b, 1, 2)) = 2
        /\ \A i \in {1, 2} : SubSeq(b, 1, 2)[i] = b[i]
    <3>1. \A i \in 1 .. 2 : b[i] \in PieceSet
      <4>1. ASSUME NEW i \in 1 .. 2 PROVE b[i] \in PieceSet
        BY <1>1, <1>4, ElementOfSeq
      <4> QED BY <4>1
    <3>2. /\ SubSeq(b, 1, 2) \in Seq(PieceSet)
          /\ Len(SubSeq(b, 1, 2)) = IF 1 <= 2 THEN 2 - 1 + 1 ELSE 0
          /\ \A i \in 1 .. 2 - 1 + 1 : SubSeq(b, 1, 2)[i] = b[1 + i - 1]
      BY <3>1, SubSeqProperties
    <3> QED BY <3>2
  <2>3. Pieces(b[1].request) \in Seq(PieceSet) /\ Len(Pieces(b[1].request)) = 2
    <3>1. b[1].request \in Ids
      BY <2>1, PieceTyped
    <3> QED BY <3>1 DEF Pieces, PieceSet
  <2>4. \A i \in 1 .. 2 : SubSeq(b, 1, 2)[i] = Pieces(b[1].request)[i]
    BY <1>2, <2>1, <2>2
  <2>5. SubSeq(b, 1, 2) = Pieces(b[1].request)
    BY <2>2, <2>3, <2>4, SeqEqual
  <2> QED BY <1>4, <2>5 DEF Complete
<1>5. Complete(b) => Len(b) = 2
  BY <1>1 DEF Complete
<1> QED BY <1>3, <1>4, <1>5

\* What the server receives: the rest of the pieces are of later requests than those
\* taken, whatever it does with these.
LEMMA DeliverSound ==
  ASSUME ExchangeInv, NEW n \in Nat, n >= 1, deliver(n)
  PROVE  ExchangeInv'
<1> DEFINE d == SubSeq(to_server, 1, n)
           a == server.buffer
           b == a \o d
           e == SubSeq(to_server, n + 1, Len(to_server))
           g == taken(server, d)
<1>1. /\ n <= Len(to_server) /\ server.known
      /\ server' = on_receive(server, d) /\ handled' = handled \o g /\ to_server' = e
      /\ kind' = kind /\ requests' = requests /\ unsent' = unsent
      /\ received' = received /\ calls' = calls /\ client_closed' = client_closed
  BY DEF deliver
<1>2. /\ TypeOK /\ ServerInv(server, handled) /\ PiecesInv /\ SequentialInv /\ ClientInv
      /\ server \in ConnectionState /\ Asking(handled)
      /\ to_server \in Seq(PieceSet) /\ unsent \in Seq(PieceSet)
      /\ server.buffer \in Seq(PieceSet) /\ received \in Nat /\ received <= Len(server.out)
      /\ \A i \in DOMAIN handled : handled[i] \in 1 .. Len(requests)
      /\ handled \in Seq(Ids) /\ Len(requests) \in Nat
  BY ExchangeTyped DEF ExchangeInv
<1>3. /\ n \in 1 .. Len(to_server) /\ n \in Nat /\ n >= 1
      /\ Moved(a, to_server, n, b, e) /\ a \in Seq(PieceSet)
  BY <1>1, <1>2, ExchangeNumbers DEF Moved
<1>4. d \in Seq(PieceSet)
  <2>1. \A i \in 1 .. n : to_server[i] \in PieceSet
    BY <1>2, <1>3
  <2> QED BY <1>3, <2>1, SubSeqProperties
<1>0. a = server.buffer /\ b = server.buffer \o d
  OBVIOUS
<1> HIDE DEF a, d, b, e, g
<1>5. /\ e \in Seq(PieceSet) /\ Len(e) = Len(to_server) - n
      /\ \A i \in 1 .. Len(e) : e[i] = to_server[n + i]
      /\ b \in Seq(PieceSet) /\ Len(b) = Len(a) + n
      /\ \A i \in 1 .. Len(a) : b[i] = a[i]
      /\ \A i \in 1 .. n : b[Len(a) + i] = to_server[i]
  <2>1. Shifted(a, to_server, n, b, e)
    BY <1>2, <1>3, MovedPieces
  <2> QED BY <2>1 DEF Shifted
<1>6. /\ Later(a) /\ Later(to_server) /\ Later(unsent)
      /\ KeysRise(to_server) /\ KeysRise(unsent)
      /\ Before(a, to_server) /\ Before(a, unsent)
      /\ Before(to_server, unsent)
      /\ \A i, j \in DOMAIN handled : i < j => handled[i] < handled[j]
      /\ \A i \in DOMAIN handled : handled[i] <= Len(requests)
  BY <1>0, <1>2 DEF PiecesInv
<1>7. /\ Later(b) /\ Later(e) /\ KeysRise(e) /\ Before(b, e)
      /\ Before(b, unsent) /\ Before(e, unsent)
  <2>1. /\ Before(b, e) /\ KeysRise(e)
        /\ Later(a) /\ Later(to_server) => Later(b) /\ Later(e)
        /\ \A z : Before(a, z) /\ Before(to_server, z) => Before(b, z) /\ Before(e, z)
    BY <1>2, <1>3, <1>6, PiecesMove
  <2> QED BY <1>6, <2>1
<1>8. ASSUME NEW i \in DOMAIN b
      PROVE  /\ b[i].request \in 1 .. Len(requests)
             /\ \A j \in DOMAIN handled : handled[j] < b[i].request
  <2>1. b[i] \in PieceSet
    BY <1>5
  <2>2. b[i].request \in Nat /\ b[i].request >= 1
    BY <2>1, PieceTyped
  <2>3. b[i].request <= Len(requests) /\ \A j \in DOMAIN handled : handled[j] < b[i].request
    BY <1>7 DEF Later
  <2> QED BY <1>2, <2>2, <2>3
<1>9. /\ server' \in ConnectionState /\ server'.known /\ Len(server.out) <= Len(server'.out)
      /\ ServerInv(server', handled') /\ Asking(handled')
      /\ \/ g = <<>> /\ server'.buffer \in {a, b}
         \/ Complete(b) /\ g = <<b[1].request>> /\ server'.buffer = <<>>
  <2>1. Fresh(b, handled)
    BY <1>8 DEF Fresh
  <2>2. Took(server, on_receive(server, d), handled, taken(server, d), b)
    BY <1>0, <1>1, <1>2, <1>4, <2>1, ReceivedSound
  <2>3. Took(server, server', handled, g, b)
    BY <1>1, <2>2 DEF g
  <2> QED BY <1>0, <1>1, <2>3 DEF Took
<1>10. g = <<>> => handled' = handled
  BY <1>1, <1>2, HistoryGrows
<1> DEFINE r == b[1].request
           H == Len(handled)
<1>11. Complete(b) => r \in 1 .. Len(requests) /\ r \in Ids /\ \A j \in DOMAIN handled : handled[j] < r
  <2> SUFFICES ASSUME Complete(b)
               PROVE  r \in 1 .. Len(requests) /\ r \in Ids /\ \A j \in DOMAIN handled : handled[j] < r
    OBVIOUS
  <2>1. 1 \in DOMAIN b
    BY <1>5, CompletePieces
  <2>2. b[1] \in PieceSet
    BY <1>5, <2>1
  <2>3. b[1].request \in Ids
    BY <2>2, PieceTyped
  <2> QED BY <1>8, <2>1, <2>3
<1>12. Complete(b) /\ g = <<r>> =>
         /\ Len(handled') = H + 1 /\ DOMAIN handled' = 1 .. H + 1
         /\ DOMAIN handled = 1 .. H /\ H \in Nat
         /\ \A i \in 1 .. H : handled'[i] = handled[i]
         /\ handled'[H + 1] = r
  <2> SUFFICES ASSUME Complete(b), g = <<r>>
               PROVE  /\ Len(handled') = H + 1 /\ DOMAIN handled' = 1 .. H + 1
                      /\ DOMAIN handled = 1 .. H /\ H \in Nat
                      /\ \A i \in 1 .. H : handled'[i] = handled[i]
                      /\ handled'[H + 1] = r
    OBVIOUS
  <2>1. r \in Ids
    BY <1>11
  <2> HIDE DEF r
  <2>2. handled' = Append(handled, r)
    BY <1>1, <1>2, <2>1, HistoryGrows
  <2> QED BY <1>2, <2>1, <2>2, AppendProperties
<1>13. TypeOK'
  <2>1. received \in 0 .. Len(server'.out)
    BY <1>2, <1>9, ConnectionTyped
  <2>2. handled' \in Seq(Ids)
    BY <1>9 DEF Asking
  <2> QED BY <1>1, <1>2, <1>5, <1>9, <2>1, <2>2 DEF TypeOK, PieceSet
<1>14. ServerInv(server, handled)'
  BY <1>1, <1>9, ServerKept
<1>15. PiecesInv'
  <2>1. CASE g = <<>> /\ server'.buffer \in {a, b}
    <3>1. Later(server.buffer)' /\ Later(to_server)' /\ Later(unsent)'
      BY <1>1, <1>6, <1>7, <1>10, <2>1 DEF Later
    <3>2. KeysRise(to_server)' /\ KeysRise(unsent)' /\ Before(to_server, unsent)'
      BY <1>1, <1>6, <1>7 DEF KeysRise, Before
    <3>3. Before(server'.buffer, e) /\ Before(server'.buffer, unsent)
      <4>1. Before(a, e)
        <5> SUFFICES ASSUME NEW i \in DOMAIN a, NEW j \in DOMAIN e PROVE Key(a[i]) < Key(e[j])
          BY DEF Before
        <5>1. n + j \in DOMAIN to_server /\ e[j] = to_server[n + j]
          <6> DEFINE L == Len(to_server)
          <6>1. L \in Nat /\ DOMAIN to_server = 1 .. L /\ DOMAIN e = 1 .. Len(e)
            BY <1>2, <1>5
          <6>2. Len(e) = L - n
            BY <1>5
          <6> HIDE DEF L
          <6>3. j \in 1 .. L - n
            BY <6>1, <6>2
          <6>4. n + j \in 1 .. L
            BY <1>3, <6>1, <6>3
          <6> QED BY <1>5, <6>1, <6>2, <6>3, <6>4
        <5> QED BY <1>6, <5>1 DEF Before
      <4> QED BY <1>6, <1>7, <2>1, <4>1
    <3>4. Before(server.buffer, to_server)' /\ Before(server.buffer, unsent)'
      BY <1>1, <3>3 DEF Before
    <3>5. (/\ \A i, j \in DOMAIN handled : i < j => handled[i] < handled[j]
           /\ \A i \in DOMAIN handled : handled[i] <= Len(requests))'
      BY <1>1, <1>6, <1>10, <2>1
    <3> QED BY <3>1, <3>2, <3>4, <3>5 DEF PiecesInv
  <2>2. CASE Complete(b) /\ g = <<r>> /\ server'.buffer = <<>>
    <3>0. r \in Nat
      BY <1>2, <1>11, <2>2
    \* Pieces after the two of request r are of later ones.
    <3>1. ASSUME NEW y \in Seq(PieceSet), Later(y), Before(b, y), NEW i \in DOMAIN y
          PROVE  /\ y[i].request <= Len(requests)
                 /\ \A j \in DOMAIN handled' : handled'[j] < y[i].request
      <4>1. y[i] \in PieceSet
        BY <3>1
      <4>2. /\ y[i].request \in Nat /\ y[i].part \in {1, 2}
            /\ Key(y[i]) = 2 * y[i].request + y[i].part
        BY <4>1, PieceTyped
      <4>3. 2 * r + 2 < Key(y[i])
        BY <1>5, <2>2, <3>1, CompletePieces DEF Before
      <4>4. r < y[i].request
        <5> DEFINE q == y[i].request
                   k == y[i].part
        <5>1. q \in Nat /\ k \in {1, 2} /\ 2 * r + 2 < 2 * q + k
          BY <4>2, <4>3
        <5> HIDE DEF q, k, r
        <5>2. r < q
          BY <3>0, <5>1
        <5> QED BY <5>2 DEF q, r
      <4>5. ASSUME NEW j \in 1 .. H + 1 PROVE handled'[j] < y[i].request
        <5>1. CASE j \in 1 .. H
          <6>1. j \in DOMAIN handled /\ handled'[j] = handled[j]
            BY <1>12, <2>2, <5>1
          <6> QED BY <3>1, <6>1 DEF Later
        <5>2. CASE j = H + 1
          <6>1. handled'[H + 1] = r
            BY <1>12, <2>2
          <6> QED BY <4>4, <5>2, <6>1
        <5>3. H \in Nat
          BY <1>12, <2>2
        <5> QED BY <5>1, <5>2, <5>3
      <4>6. DOMAIN handled' = 1 .. H + 1
        BY <1>12, <2>2
      <4> QED BY <3>1, <4>5, <4>6 DEF Later
    <3>2. Later(to_server)' /\ Later(unsent)' /\ Later(server.buffer)'
      <4>1. Later(to_server)'
        BY <1>1, <1>5, <1>7, <3>1 DEF Later
      <4>2. Later(unsent)'
        BY <1>1, <1>2, <1>6, <1>7, <3>1 DEF Later
      <4>3. Later(server.buffer)'
        BY <2>2 DEF Later
      <4> QED BY <4>1, <4>2, <4>3
    <3>3. KeysRise(to_server)' /\ KeysRise(unsent)' /\ Before(to_server, unsent)'
      BY <1>1, <1>6, <1>7 DEF KeysRise, Before
    <3>4. Before(server.buffer, to_server)' /\ Before(server.buffer, unsent)'
      BY <2>2 DEF Before
    <3> HIDE DEF r, H
    <3>5. ASSUME NEW i \in DOMAIN handled', NEW j \in DOMAIN handled', i < j
          PROVE  handled'[i] < handled'[j]
      <4>1. /\ i \in 1 .. H + 1 /\ j \in 1 .. H + 1 /\ H \in Nat /\ DOMAIN handled = 1 .. H
            /\ \A k \in 1 .. H : handled'[k] = handled[k]
            /\ handled'[H + 1] = r
        BY <1>12, <2>2
      <4>2. i \in 1 .. H
        BY <3>5, <4>1
      <4>3. CASE j \in 1 .. H
        BY <1>6, <3>5, <4>1, <4>2, <4>3
      <4>4. CASE j = H + 1
        BY <1>11, <2>2, <4>1, <4>2, <4>4
      <4> QED BY <4>1, <4>3, <4>4
    <3>6. ASSUME NEW i \in DOMAIN handled' PROVE handled'[i] <= Len(requests)
      BY <1>9, <3>6 DEF Asking
    <3> QED BY <1>1, <3>2, <3>3, <3>4, <3>5, <3>6 DEF PiecesInv
  <2> QED BY <1>9, <2>1, <2>2
<1>16. SequentialInv'
  <2> SUFFICES ASSUME kind = "sequential"
               PROVE  /\ \A i \in DOMAIN handled' : handled'[i] = i
                      /\ ~server'.error /\ server'.response # Bad
                      /\ \A i \in DOMAIN server'.out : server'.out[i] # Bad
                      /\ AllTaken' \/ OneOnItsWay'
    BY <1>1 DEF SequentialInv
  <2> DEFINE m == Len(requests)
             c == Len(a)
             t == Len(to_server)
             u == Len(unsent)
  <2>1. /\ \A i \in DOMAIN handled : handled[i] = i
        /\ ~server.error /\ server.response # Bad
        /\ \A i \in DOMAIN server.out : server.out[i] # Bad
        /\ OneOnItsWay
    <3>1. ~AllTaken
      <4>1. to_server # <<>>
        BY <1>2, <1>3
      <4> QED BY <4>1 DEF AllTaken
    <3> QED BY <1>1, <1>2, <3>1 DEF SequentialInv
  <2>2. /\ H = m - 1 /\ c <= 1 /\ c + t + u = 2
        /\ \A i \in 1 .. c : a[i] = Piece(m, i)
        /\ \A i \in 1 .. t : to_server[i] = Piece(m, c + i)
        /\ \A i \in 1 .. u : unsent[i] = Piece(m, c + t + i)
        /\ ~server.closed /\ server.generator = Idle /\ server.pending = 0
    BY <1>0, <2>1 DEF OneOnItsWay
  <2>3. /\ c \in Nat /\ t \in Nat /\ u \in Nat /\ m \in Nat /\ H \in Nat /\ DOMAIN handled = 1 .. H
        /\ n \in Nat /\ 1 <= n /\ n <= t /\ Len(b) = c + n /\ Len(e) = t - n
        /\ unsent \in Seq(PieceSet)
    <3>1. Len(a) \in Nat /\ Len(to_server) \in Nat /\ Len(unsent) \in Nat /\ Len(requests) \in Nat
          /\ Len(handled) \in Nat /\ DOMAIN handled = 1 .. Len(handled)
      BY <1>2, <1>3
    <3> QED BY <1>2, <1>3, <1>5, <3>1
  <2> HIDE DEF m, c, t, u, r, H
  <2>4. ASSUME NEW i \in 1 .. Len(b) PROVE b[i] = Piece(m, i)
    <3>1. CASE i \in 1 .. c
      BY <1>5, <2>2, <3>1 DEF c
    <3>2. CASE i \in c + 1 .. c + n
      <4>1. i - c \in 1 .. n /\ i - c \in 1 .. t /\ c + (i - c) = i
        BY <2>3, <3>2
      <4>2. b[c + (i - c)] = to_server[i - c]
        BY <1>5, <4>1 DEF c
      <4>3. to_server[i - c] = Piece(m, c + (i - c))
        BY <2>2, <4>1
      <4> QED BY <4>1, <4>2, <4>3
    <3> QED BY <2>3, <3>1, <3>2
  <2>5. /\ Len(b) <= 2 /\ Len(b) >= 1 /\ Len(b) \in Nat
        /\ ~Malformed(b) /\ (Complete(b) <=> Len(b) = 2)
    <3>1. Len(b) <= 2 /\ Len(b) >= 1 /\ Len(b) \in Nat
      BY <2>2, <2>3
    <3> QED BY <1>5, <2>4, <3>1, PiecesMalformed
  <2>6. TookPlain(server, server', g, b)
    <3>1. Fresh(b, handled)
      BY <1>8 DEF Fresh
    <3>2. TookPlain(server, on_receive(server, d), taken(server, d), b)
      BY <1>0, <1>1, <1>2, <1>4, <2>1, <2>2, <2>5, <3>1, ReceivedPlain
    <3> QED BY <1>1, <3>2 DEF g
  <2>7. ~server'.error
    BY <2>6 DEF TookPlain
  <2>8. r = m
    <3>1. b[1] = Piece(m, 1)
      BY <2>4, <2>5
    <3> QED BY <3>1 DEF Piece, r
  <2>9. CASE Complete(b)
    <3>1. /\ g = <<r>> /\ server'.buffer = <<>> /\ server'.response = r
          /\ server'.keep_alive = ~requests[r].close /\ (server'.closed => ~server'.keep_alive)
      BY <2>6, <2>9 DEF TookPlain, r
    <3>2. m # Bad /\ m >= 1
      BY <1>11, <2>3, <2>8, <2>9, ExchangeNumbers
    <3>3. /\ Len(handled') = H + 1 /\ DOMAIN handled' = 1 .. H + 1
          /\ \A i \in 1 .. H : handled'[i] = handled[i]
          /\ handled'[H + 1] = r
      BY <1>12, <2>9, <3>1
    <3>4. \A i \in DOMAIN handled' : handled'[i] = i
      <4> SUFFICES ASSUME NEW i \in 1 .. H + 1 PROVE handled'[i] = i
        BY <3>3
      <4>1. CASE i \in 1 .. H
        BY <2>1, <2>3, <3>3, <4>1
      <4>2. CASE i = H + 1
        BY <2>2, <2>3, <2>8, <3>3, <4>2
      <4> QED BY <2>3, <4>1, <4>2
    <3>5. \A i \in DOMAIN server'.out : server'.out[i] # Bad
      BY <2>1, <2>6, <2>8, <3>1, <3>2 DEF TookPlain
    <3>6. AllTaken'
      <4>1. c + n = 2 /\ t - n = 0 /\ u = 0
        BY <2>2, <2>3, <2>5, <2>9
      <4>2. e = <<>> /\ unsent = <<>>
        <5>1. Len(e) = 0 /\ Len(unsent) = 0
          BY <2>3, <4>1 DEF u
        <5> QED BY <1>5, <2>3, <5>1, EmptySeq
      <4>3. Len(handled') = m
        BY <2>2, <2>3, <3>3
      <4>4. server'.keep_alive = (m = 0 \/ ~requests[m].close)
        BY <2>8, <3>1, <3>2
      <4> QED BY <1>1, <3>1, <4>2, <4>3, <4>4 DEF AllTaken, m
    <3> QED BY <2>7, <2>8, <3>1, <3>2, <3>4, <3>5, <3>6
  <2>10. CASE ~Complete(b)
    <3>1. /\ g = <<>> /\ server'.buffer = b /\ server'.response = server.response
          /\ ~server'.closed /\ server'.generator = Idle /\ server'.pending = 0
      BY <2>6, <2>10 DEF TookPlain
    <3>2. handled' = handled
      BY <1>10, <3>1
    <3>3. \A i \in DOMAIN server'.out : server'.out[i] # Bad
      BY <2>1, <2>6, <3>1 DEF TookPlain
    <3>4. Len(b) = 1 /\ Len(b) + Len(e) + u = 2
      BY <2>2, <2>3, <2>5, <2>10
    <3>5. \A i \in 1 .. Len(b) : b[i] = Piece(m, i)
      BY <2>4
    <3>6. ASSUME NEW i \in 1 .. Len(e) PROVE e[i] = Piece(m, Len(b) + i)
      <4>1. n + i \in 1 .. t /\ c + (n + i) = Len(b) + i
        BY <2>3
      <4>2. e[i] = to_server[n + i]
        BY <1>5
      <4>3. to_server[n + i] = Piece(m, c + (n + i))
        BY <2>2, <4>1
      <4> QED BY <4>1, <4>2, <4>3
    <3>7. ASSUME NEW i \in 1 .. u PROVE unsent[i] = Piece(m, Len(b) + Len(e) + i)
      <4>1. c + t + i = Len(b) + Len(e) + i
        BY <2>3
      <4>2. unsent[i] = Piece(m, c + t + i)
        BY <2>2
      <4> QED BY <4>1, <4>2
    <3>8. Len(handled') = m - 1
      BY <2>2, <3>2 DEF H
    <3>9. OneOnItsWay'
      <4>1. \A i \in 1 .. Len(unsent) : unsent[i] = Piece(m, Len(b) + Len(e) + i)
        BY <3>7 DEF u
      <4> QED BY <1>1, <3>1, <3>4, <3>5, <3>6, <3>8, <4>1 DEF OneOnItsWay, Piece, m, u
    <3> QED BY <2>1, <2>7, <3>1, <3>2, <3>3, <3>9
  <2> QED BY <2>9, <2>10
<1>17. ClientInv'
  BY <1>1, <1>2 DEF ClientInv
<1> QED BY <1>13, <1>14, <1>15, <1>16, <1>17 DEF ExchangeInv

LEMMA CountPrefix ==
  ASSUME NEW T, NEW seq \in Seq(T), NEW k \in 0 .. Len(seq), NEW r
  PROVE  Count(SubSeq(seq, 1, k), r) \in Nat /\ Count(SubSeq(seq, 1, k), r) <= Count(seq, r)
<1> DEFINE p == SubSeq(seq, 1, k)
           P == {i \in DOMAIN p : p[i] = r}
           S == {i \in DOMAIN seq : seq[i] = r}
<1>1. p \in Seq(T) /\ DOMAIN p = 1 .. k /\ (\A i \in 1 .. k : p[i] = seq[i])
  <2>1. k \in Nat /\ k <= Len(seq) /\ Len(seq) \in Nat /\ \A i \in 1 .. k : seq[i] \in T
    OBVIOUS
  <2>2. /\ p \in Seq(T) /\ Len(p) = (IF 1 <= k THEN k - 1 + 1 ELSE 0)
        /\ \A i \in 1 .. k - 1 + 1 : p[i] = seq[1 + i - 1]
    BY <2>1, SubSeqProperties
  <2> HIDE DEF p
  <2>3. Len(p) = k
    BY <2>1, <2>2
  <2>4. ASSUME NEW i \in 1 .. k PROVE p[i] = seq[i]
    <3>1. i \in 1 .. k - 1 + 1 /\ 1 + i - 1 = i
      BY <2>1
    <3> QED BY <2>2, <3>1
  <2> QED BY <2>2, <2>3, <2>4
<1> HIDE DEF p
<1>2. P \subseteq S
  BY <1>1
<1>3. IsFiniteSet(S) /\ IsFiniteSet(P)
  BY <1>1, CountTyped
<1> HIDE DEF P, S
<1>4. Cardinality(P) <= Cardinality(S) /\ Cardinality(P) \in Nat
  BY <1>2, <1>3, FS_Subset, FS_CardinalityType
<1>5. Count(p, r) = Cardinality(P) /\ Count(seq, r) = Cardinality(S)
  BY DEF Count, P, S
<1> QED BY <1>4, <1>5 DEF p

\* A client that waits and has been answered: the server has nothing more to do.
LEMMA AnsweredInFull ==
  ASSUME ExchangeInv, kind = "sequential", server.known, Free
  PROVE  /\ AllTaken /\ ~server.closed /\ server.generator = Idle /\ server.pending = 0
         /\ ~server.error /\ unsent = <<>>
<1> DEFINE N == Len(requests)
           o == server.out
<1>1. /\ ServerInv(server, handled) /\ server \in ConnectionState /\ Asking(handled)
      /\ requests \in Seq(Request) /\ N \in Nat /\ N <= MaxRequests
      /\ received \in Nat /\ received <= Len(o) /\ handled \in Seq(Ids)
      /\ \A i \in DOMAIN handled : handled[i] \in 1 .. N
      /\ o \in Seq(1 .. Bad) /\ Len(o) \in Nat
      /\ server.closed \in BOOLEAN /\ server.keep_alive \in BOOLEAN
  BY ExchangeTyped, ConnectionTyped DEF ExchangeInv
<1>2. /\ \A i \in DOMAIN handled : handled[i] = i
      /\ ~server.error /\ \A i \in DOMAIN o : o[i] # Bad
      /\ AllTaken \/ OneOnItsWay
  BY DEF ExchangeInv, SequentialInv
<1>3. CASE requests = <<>>
  <2>1. AllTaken
    <3>1. ~OneOnItsWay
      <4>1. Len(handled) \in Nat /\ N = 0
        BY <1>1, <1>3
      <4> QED BY <4>1 DEF OneOnItsWay
    <3> QED BY <1>2, <3>1
  <2>2. N = 0 /\ handled = <<>> /\ server.keep_alive /\ ~server.closed /\ unsent = <<>>
    <3>1. N = 0
      BY <1>3
    <3>2. /\ Len(handled) = Len(requests) /\ unsent = <<>>
          /\ server.keep_alive = (Len(requests) = 0 \/ ~requests[Len(requests)].close)
          /\ server.closed => ~server.keep_alive
      BY <2>1 DEF AllTaken
    <3>3. Len(requests) = 0
      BY <3>1 DEF N
    <3>4. server.keep_alive
      BY <3>2, <3>3
    <3>5. handled = <<>>
      BY <1>1, <3>2, <3>3
    <3> QED BY <3>1, <3>2, <3>4, <3>5
  <2>3. Accounted(server, handled) /\ Started(server)
    BY <1>1, <2>2 DEF ServerInv
  <2>4. Owed(server) = 0
    BY <2>2, <2>3 DEF Accounted
  <2>5. server.generator = Idle /\ server.pending = 0
    <3>1. server.pending \in Nat /\ server.generator \in Nat
      BY <1>1, ConnectionTyped
    <3>2. CASE server.generator = Idle
      BY <1>1, <2>4, <3>2, OwedTyped
    <3>3. CASE server.generator # Idle
      BY <1>1, <2>3, <2>4, <3>1, <3>3, OwedTyped DEF Started
    <3> QED BY <3>2, <3>3
  <2> QED BY <1>2, <2>1, <2>2, <2>5
<1>4. CASE requests # <<>>
  <2>1. /\ unsent = <<>> /\ N >= 1 /\ N \in 1 .. N
        /\ Count(SubSeq(o, 1, received), N) = UnitsOf(N)
        /\ ~requests[N].close
    <3>1. N >= 1
      BY <1>1, <1>4
    <3>2. Last(requests) = requests[N]
      BY DEF Last
    <3> QED BY <1>1, <1>4, <3>1, <3>2 DEF Free, Got
  <2>2. UnitsOf(N) \in Nat \ {0} /\ N # Bad
    <3>1. N \in 1 .. Len(requests)
      BY <2>1 DEF N
    <3>2. UnitsOf(N) \in Nat \ {0}
      BY <1>1, <3>1, UnitsTyped
    <3>3. N # Bad
      BY <1>1, ExchangeNumbers
    <3> QED BY <3>2, <3>3
  <2>3. Count(o, N) \in Nat /\ UnitsOf(N) <= Count(o, N)
    <3>1. received \in 0 .. Len(o)
      BY <1>1
    <3>2. Count(SubSeq(o, 1, received), N) <= Count(o, N)
      BY <1>1, <3>1, CountPrefix
    <3>3. Count(o, N) \in Nat
      BY <1>1, CountTyped
    <3> QED BY <2>1, <3>2, <3>3
  <2>4. PICK i \in DOMAIN o : o[i] = N
    <3>1. Count(o, N) # 0
      BY <2>2, <2>3
    <3>2. Count(o, N) = 0 <=> \A i \in DOMAIN o : o[i] # N
      BY <1>1, CountTyped
    <3> QED BY <3>1, <3>2
  <2>5. PICK j \in DOMAIN handled : handled[j] = N
    <3>1. InHistory(handled, o[i])
      BY <1>1, <2>2, <2>4 DEF ServerInv, Written, Attributed
    <3> QED BY <2>4, <3>1 DEF InHistory
  <2>6. AllTaken
    <3>1. Len(handled) \in Nat /\ j = N /\ j \in 1 .. Len(handled)
      BY <1>1, <1>2, <2>5
    <3>2. ~OneOnItsWay
      BY <1>1, <3>1 DEF OneOnItsWay
    <3> QED BY <1>2, <3>2
  <2>7. server.keep_alive /\ ~server.closed /\ Len(handled) = N
    BY <1>1, <2>1, <2>6 DEF AllTaken
  <2>8. Accounted(server, handled) /\ Started(server)
    BY <1>1, <2>7 DEF ServerInv
  <2>9. server.response = N
    <3>1. handled # <<>> /\ N \in DOMAIN handled
      BY <1>1, <2>1, <2>7
    <3>2. handled[N] = N
      BY <1>2, <3>1
    <3>3. server.response # 0
      BY <2>8, <3>1 DEF Accounted
    <3> QED BY <2>7, <2>8, <3>2, <3>3 DEF Accounted
  <2>10. Owed(server) = 0
    <3>1. Count(o, N) + Owed(server) = UnitsOf(N)
      BY <2>1, <2>8, <2>9 DEF Accounted
    <3>2. Owed(server) \in Nat
      BY <1>1, OwedTyped
    <3> QED BY <2>2, <2>3, <3>1, <3>2
  <2>11. server.generator = Idle /\ server.pending = 0
    <3>1. server.pending \in Nat /\ server.generator \in Nat
      BY <1>1, ConnectionTyped
    <3>2. CASE server.generator = Idle
      BY <1>1, <2>10, <3>2, OwedTyped
    <3>3. CASE server.generator # Idle
      BY <1>1, <2>8, <2>10, <3>1, <3>3, OwedTyped DEF Started
    <3> QED BY <3>2, <3>3
  <2> QED BY <1>2, <2>1, <2>6, <2>7, <2>11
<1> QED BY <1>3, <1>4

LEMMA AskSound ==
  ASSUME ExchangeInv, NEW q \in Request, ask(q)
  PROVE  ExchangeInv'
<1> DEFINE N == Len(requests)
           U == Pieces(N + 1)
<1>1. /\ N < MaxRequests /\ Free /\ ~client_closed
      /\ requests' = Append(requests, q) /\ unsent' = U
      /\ kind' = kind /\ to_server' = to_server /\ server' = server /\ received' = received
      /\ handled' = handled /\ calls' = calls /\ client_closed' = client_closed
  BY DEF ask
<1>2. /\ TypeOK /\ ServerInv(server, handled) /\ PiecesInv /\ SequentialInv /\ ClientInv
      /\ server \in ConnectionState /\ Asking(handled) /\ requests \in Seq(Request)
      /\ to_server \in Seq(PieceSet) /\ server.buffer \in Seq(PieceSet)
      /\ received \in Nat /\ handled \in Seq(Ids) /\ N \in Nat /\ MaxRequests \in Nat
      /\ \A i \in DOMAIN handled : handled[i] \in 1 .. N
  BY ExchangeTyped, ExchangeNumbers DEF ExchangeInv
<1>3. /\ requests' \in Seq(Request) /\ Len(requests') = N + 1
      /\ \A r \in 1 .. N : requests'[r] = requests[r]
  BY <1>1, <1>2, AppendProperties
<1>4. /\ U \in Seq(PieceSet) /\ Len(U) = 2 /\ DOMAIN U = {1, 2}
      /\ \A i \in {1, 2} : U[i] = Piece(N + 1, i)
  <2>1. N + 1 \in Ids
    BY <1>1, <1>2, ExchangeNumbers
  <2>2. /\ U[1] = [request |-> N + 1, part |-> 1] /\ U[2] = [request |-> N + 1, part |-> 2]
        /\ Len(U) = 2
    BY DEF Pieces
  <2>3. U[1] \in PieceSet /\ U[2] \in PieceSet
    BY <2>1, <2>2 DEF PieceSet
  <2>4. U \in Seq(PieceSet)
    BY <2>1 DEF Pieces, PieceSet
  <2> HIDE DEF U
  <2>5. DOMAIN U = {1, 2}
    <3>1. DOMAIN U = 1 .. 2
      BY <2>2, <2>4
    <3> QED BY <3>1
  <2> QED BY <2>2, <2>4, <2>5 DEF Piece
<1> HIDE DEF N, U
<1>5. TypeOK'
  <2>1. N + 1 <= MaxRequests
    BY <1>1, <1>2
  <2> QED BY <1>1, <1>2, <1>3, <1>4, <2>1 DEF TypeOK, PieceSet
<1>6. ServerInv(server, handled)'
  BY <1>1, <1>2, <1>3, ServerPrimed DEF N
<1>7. PiecesInv'
  <2>1. /\ Later(server.buffer) /\ Later(to_server)
        /\ KeysRise(to_server) /\ Before(server.buffer, to_server)
        /\ \A i, j \in DOMAIN handled : i < j => handled[i] < handled[j]
        /\ \A i \in DOMAIN handled : handled[i] <= N /\ handled[i] \in Nat
    BY <1>2 DEF PiecesInv, N
  <2>2. ASSUME NEW x \in Seq(PieceSet), Later(x), NEW i \in DOMAIN x
        PROVE  /\ x[i].request <= N + 1 /\ \A j \in DOMAIN handled : handled[j] < x[i].request
               /\ \A j \in {1, 2} : Key(x[i]) < Key(U[j])
    <3>1. x[i] \in PieceSet
      BY <2>2
    <3> DEFINE k == x[i].request
               p == x[i].part
    <3>2. k \in Nat /\ p \in {1, 2} /\ Key(x[i]) = 2 * k + p
      BY <3>1, PieceTyped
    <3>3. k <= N /\ \A j \in DOMAIN handled : handled[j] < k
      BY <2>2 DEF Later, N
    <3> HIDE DEF k, p
    <3>4. k <= N + 1 /\ 2 * k + p < 2 * (N + 1) + 1
      BY <1>2, <3>2, <3>3
    <3>5. \A j \in {1, 2} : Key(U[j]) = 2 * (N + 1) + j
      BY <1>4 DEF Key, Piece
    <3>6. ASSUME NEW j \in {1, 2} PROVE Key(x[i]) < Key(U[j])
      BY <1>2, <3>2, <3>4, <3>5
    <3> QED BY <3>3, <3>4, <3>6 DEF k
  <2>3. Later(server.buffer)' /\ Later(to_server)'
    <3>1. Later(server.buffer)'
      BY <1>1, <1>2, <1>3, <2>1, <2>2 DEF Later
    <3>2. Later(to_server)'
      BY <1>1, <1>2, <1>3, <2>1, <2>2 DEF Later
    <3> QED BY <3>1, <3>2
  <2>4. Later(unsent)'
    <3>1. \A i \in {1, 2} : U[i].request = N + 1
      BY <1>4 DEF Piece
    <3>2. \A j \in DOMAIN handled : handled[j] < N + 1
      BY <1>2, <2>1
    <3> QED BY <1>1, <1>3, <1>4, <3>1, <3>2 DEF Later
  <2>5. KeysRise(unsent)'
    <3>1. \A j \in {1, 2} : Key(U[j]) = 2 * (N + 1) + j
      BY <1>4 DEF Key, Piece
    <3>2. Key(U[1]) < Key(U[2])
      BY <1>2, <3>1
    <3>3. \A i, j \in {1, 2} : i < j => i = 1 /\ j = 2
      OBVIOUS
    <3> QED BY <1>1, <1>4, <3>2, <3>3 DEF KeysRise
  <2>6. Before(server.buffer, unsent)' /\ Before(to_server, unsent)'
    BY <1>1, <1>2, <1>4, <2>1, <2>2 DEF Before
  <2>7. Before(server.buffer, to_server)' /\ KeysRise(to_server)'
    BY <1>1, <2>1 DEF Before, KeysRise
  <2>8. (/\ \A i, j \in DOMAIN handled : i < j => handled[i] < handled[j]
         /\ \A i \in DOMAIN handled : handled[i] <= Len(requests))'
    BY <1>1, <1>2, <1>3, <2>1
  <2> QED BY <2>3, <2>4, <2>5, <2>6, <2>7, <2>8 DEF PiecesInv
<1>8. SequentialInv'
  <2> SUFFICES ASSUME kind = "sequential", server.known PROVE OneOnItsWay'
    BY <1>1, <1>2 DEF SequentialInv
  <2>1. /\ AllTaken /\ ~server.closed /\ server.generator = Idle /\ server.pending = 0
    BY <1>1, AnsweredInFull
  <2>2. Len(handled) = N /\ server.buffer = <<>> /\ to_server = <<>>
    BY <2>1 DEF AllTaken, N
  <2>3. Len(handled') = (N + 1) - 1
    BY <1>1, <1>2, <2>2
  <2>4. Len(server.buffer) = 0 /\ Len(to_server) = 0
    BY <2>2
  <2>5. ASSUME NEW i \in 1 .. 2 PROVE U[i] = Piece(N + 1, 0 + 0 + i)
    <3>1. i \in {1, 2} /\ 0 + 0 + i = i
      OBVIOUS
    <3> QED BY <1>4, <3>1
  <2> QED BY <1>1, <1>3, <1>4, <2>1, <2>3, <2>4, <2>5 DEF OneOnItsWay, Piece
<1>9. ClientInv'
  BY <1>1, <1>2 DEF ClientInv
<1> QED BY <1>5, <1>6, <1>7, <1>8, <1>9 DEF ExchangeInv

-----------------------------------------------------------------------------
LEMMA ExchangeStep == ExchangeInv /\ [Next]_vars => ExchangeInv'
<1> SUFFICES ASSUME ExchangeInv, [Next]_vars PROVE ExchangeInv'
  OBVIOUS
<1>1. ASSUME NEW n \in 1 .. 2 * MaxRequests, deliver(n) PROVE ExchangeInv'
  <2>1. n \in Nat /\ n >= 1
    BY ExchangeNumbers
  <2> QED BY <1>1, <2>1, DeliverSound
<1>2. CASE poll
  BY <1>2, PollSound
<1>3. ASSUME NEW q \in Request, ask(q) PROVE ExchangeInv'
  BY <1>3, AskSound
<1>4. ASSUME NEW n \in 1 .. 2, send(n) PROVE ExchangeInv'
  BY <1>4, SendSound
<1>5. CASE receive
  BY <1>5, ReceiveSound
<1>6. CASE on_close \/ leave
  BY <1>6, ClosesSound
<1>7. ASSUME NEW comes \in BOOLEAN, peer_closed(comes) PROVE ExchangeInv'
  BY <1>7, ToldSound
<1>8. CASE UNCHANGED vars
  <2>1. /\ server' = server /\ handled' = handled /\ requests' = requests /\ kind' = kind
        /\ unsent' = unsent /\ to_server' = to_server /\ client_closed' = client_closed
        /\ received' = received /\ calls' = calls
    BY <1>8 DEF vars
  <2>2. /\ ClientInv /\ client_closed \in BOOLEAN /\ received \in Nat /\ received <= Len(server.out)
    BY ExchangeTyped DEF ExchangeInv
  <2>3. ClientInv'
    BY <2>1, <2>2 DEF ClientInv
  <2> QED BY <2>1, <2>2, <2>3, ServerStays
<1> QED BY <1>1, <1>2, <1>3, <1>4, <1>5, <1>6, <1>7, <1>8 DEF Next

LEMMA ExchangeHolds == ExchangeInv => ExchangeSound
<1> SUFFICES ASSUME ExchangeInv PROVE ExchangeSound
  OBVIOUS
<1> DEFINE o == server.out
<1>1. /\ TypeOK /\ ServerInv(server, handled) /\ PiecesInv /\ SequentialInv /\ ClientInv
      /\ server \in ConnectionState /\ handled \in Seq(Ids)
      /\ o \in Seq(1 .. Bad) /\ Len(o) \in Nat /\ DOMAIN o = 1 .. Len(o)
  BY ExchangeTyped, ConnectionTyped DEF ExchangeInv
<1>2. ResponsesWhole
  <2>1. \A i, j \in DOMAIN o : i < j => o[i] <= o[j]
    BY <1>1 DEF ServerInv, Written, Rising
  <2>2. \A i \in DOMAIN o :
          /\ o[i] = Bad \/ \E j \in DOMAIN handled : handled[j] = o[i]
          /\ IF o[i] # o[Len(o)] THEN Count(o, o[i]) = UnitsOf(o[i])
             ELSE Count(o, o[i]) <= UnitsOf(o[i])
    BY <1>1 DEF ServerInv, Written, Attributed, InHistory, Exact
  <2>3. server.closed /\ server.known => \A i \in DOMAIN o : o[i] # Bad => Count(o, o[i]) = UnitsOf(o[i])
    BY <1>1 DEF ServerInv, WholeButBad, Exact
  <2>4. Last(o) = o[Len(o)]
    BY DEF Last
  <2>5. \A i \in 1 .. Len(o) - 1 : o[i] <= o[i + 1]
    <3> SUFFICES ASSUME NEW i \in 1 .. Len(o) - 1 PROVE o[i] <= o[i + 1]
      OBVIOUS
    <3>1. i \in DOMAIN o /\ i + 1 \in DOMAIN o /\ i < i + 1
      BY <1>1
    <3> QED BY <2>1, <3>1
  <2>6. \A i \in 1 .. Len(handled) - 1 : handled[i] < handled[i + 1]
    <3> SUFFICES ASSUME NEW i \in 1 .. Len(handled) - 1 PROVE handled[i] < handled[i + 1]
      OBVIOUS
    <3>1. i \in DOMAIN handled /\ i + 1 \in DOMAIN handled /\ i < i + 1
      BY <1>1
    <3> QED BY <1>1, <3>1 DEF PiecesInv
  <2>7. o # <<>> => Len(o) \in DOMAIN o
    BY <1>1
  <2> QED BY <2>2, <2>3, <2>4, <2>5, <2>6, <2>7 DEF ResponsesWhole
<1>3. ClientsServed
  <2>1. calls <= 1 /\ (kind = "http_client" /\ client_closed => calls = 1)
    BY <1>1 DEF ClientInv
  <2>2. ASSUME kind = "sequential", server.known
        PROVE  /\ handled = [i \in DOMAIN handled |-> i]
               /\ Bad \notin Range(o) /\ server.response # Bad
               /\ (requests # <<>> /\ unsent = <<>> /\ to_server = <<>>) =>
                    Len(handled) = Len(requests)
    <3>1. /\ \A i \in DOMAIN handled : handled[i] = i
          /\ server.response # Bad
          /\ \A i \in DOMAIN o : o[i] # Bad
          /\ AllTaken \/ OneOnItsWay
      BY <1>1, <2>2 DEF SequentialInv
    <3>2. handled = [i \in DOMAIN handled |-> i]
      BY <1>1, <3>1
    <3>3. Bad \notin Range(o)
      BY <3>1 DEF Range
    <3>4. ASSUME unsent = <<>>, to_server = <<>> PROVE Len(handled) = Len(requests)
      <4>1. ~OneOnItsWay
        <5>1. Len(unsent) = 0 /\ Len(to_server) = 0
          BY <3>4
        <5>2. Len(server.buffer) \in Nat
          BY <1>1, ConnectionTyped
        <5> SUFFICES ASSUME OneOnItsWay PROVE FALSE
          OBVIOUS
        <5>3. /\ Len(server.buffer) <= 1
              /\ Len(server.buffer) + Len(to_server) + Len(unsent) = 2
          BY DEF OneOnItsWay
        <5> QED BY <5>1, <5>2, <5>3
      <4> QED BY <3>1, <4>1 DEF AllTaken
    <3> QED BY <3>1, <3>2, <3>3, <3>4
  <2> QED BY <2>1, <2>2 DEF ClientsServed
<1> QED BY <1>1, <1>2, <1>3 DEF ExchangeSound

\* The responses of the HTTP server are whole, in the order of the requests and at
\* most one for each, however the requests arrive and however little TCP takes at a
\* time; a client that waits is served, and HttpClient is called back once.
THEOREM ExchangeIsSound == Spec => []ExchangeSound
<1>1. Spec => Init /\ [][Next]_vars
  BY PTL DEF Spec
<1> QED BY <1>1, ExchangeStarts, ExchangeStep, ExchangeHolds, PTL
=============================================================================

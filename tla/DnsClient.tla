----------------------------- MODULE DnsClient -----------------------------
(* The DNS client (dns_client.cpp) over the sockets of the UDP layer          *)
(* (udp.cpp): queries with 16-bit identifiers, retransmission and give-up by  *)
(* a timer, callbacks that may ask for another name, answers that are late,   *)
(* duplicated or lost.  The names and the records of a message are model      *)
(* values; building and parsing a message is what a query and an answer hold. *)
EXTENDS Naturals, FiniteSets

CONSTANTS Names,
          IdSpace,            \* 65536: identifiers are 0 .. IdSpace - 1
          UdpPortSpace,       \* 65536: ports are 0 .. UdpPortSpace - 1
          EPHEMERAL_PORT_MIN,
          MAX_RETRIES,        \* 3
          RETRY_TICKS,        \* timer calls in two seconds
          MaxResolved         \* bound: calls of resolve_async

ASSUME DnsAssumption ==
  /\ {IdSpace, UdpPortSpace} \subseteq Nat \ {0}
  /\ EPHEMERAL_PORT_MIN \in 0 .. UdpPortSpace - 1
  /\ {MAX_RETRIES, RETRY_TICKS, MaxResolved} \subseteq Nat

VARIABLES sockets,       \* UDPLayer::_sockets: bound port -> "dns" or "app"
          udp_next_port, \* UDPLayer::_next_ephemeral_port
          local_port,    \* _local_port, 0 before init
          next_id,       \* _next_id
          pending,       \* _pending: id -> [request, age, retries]
          visiting,      \* the entries that are due in the pass of on_timer under way
          name,          \* the names asked for so far, by request
          called,        \* history: calls of each request's callback
          answer,        \* history: the name each callback got records of
          queries,       \* queries that reached the server: [id, name]
          answers        \* answers on their way, or that were: [id, name]

resolving == <<next_id, pending, name, called, answer, queries, answers>>
dnsVars == <<sockets, udp_next_port, local_port, resolving, visiting>>

UdpPorts == 0 .. UdpPortSpace - 1
QueryIds == 0 .. IdSpace - 1
Requests == 1 .. MaxResolved
Asked == DOMAIN name

None == "none"

Query == [request: Requests, age: 0 .. RETRY_TICKS + 1, retries: 0 .. MAX_RETRIES]
Message == [id: QueryIds, name: Names]

erased(f, S) == [x \in DOMAIN f \ S |-> f[x]]
put(f, k, v) == [x \in DOMAIN f \cup {k} |-> IF x = k THEN v ELSE f[x]]

DnsInit ==
  /\ sockets = [p \in {} |-> None]
  /\ udp_next_port = EPHEMERAL_PORT_MIN
  /\ local_port = 0 /\ next_id = 1 % IdSpace
  /\ pending = [i \in {} |-> None] /\ name = [r \in {} |-> None]
  /\ called = [r \in Requests |-> 0]
  /\ answer = [r \in Requests |-> None]
  /\ queries = {} /\ answers = {} /\ visiting = {}

\* The process has one thread: nothing else runs while a pass of the timer is
\* under way, except what its callbacks do.
idle == visiting = {} /\ UNCHANGED visiting

-----------------------------------------------------------------------------
\* The UDP layer.

\* The search for a free port.  The counter is a uint16_t: it is never above
\* 65535, so it wraps to 0 and the search goes through every port there is.
tried(i) == (udp_next_port + i) % UdpPortSpace
free_tries == {i \in 0 .. UdpPortSpace - 1 : tried(i) \notin DOMAIN sockets}

allocated == IF free_tries = {} THEN [port |-> 0, next |-> udp_next_port]
             ELSE LET i == CHOOSE i \in free_tries : \A j \in free_tries : i <= j IN
                  [port |-> tried(i), next |-> tried(i + 1)]

\* bind by an application; port 0 asks for any.  A 0 from the search means no
\* port, also when 0 was the free one.
bind(port) ==
  LET got == IF port = 0 THEN allocated ELSE [port |-> port, next |-> udp_next_port] IN
  /\ udp_next_port' = got.next
  /\ sockets' = IF got.port = 0 \/ got.port \in DOMAIN sockets THEN sockets
                ELSE put(sockets, got.port, "app")
  /\ UNCHANGED local_port /\ UNCHANGED resolving /\ idle

unbind(port) ==
  /\ port \in DOMAIN sockets /\ sockets[port] = "app"
  /\ sockets' = erased(sockets, {port})
  /\ UNCHANGED <<udp_next_port, local_port>> /\ UNCHANGED resolving /\ idle

\* The client takes a port at random, and does not look whether it got it.
init(port) ==
  /\ local_port = 0 /\ port # 0
  /\ local_port' = port
  /\ sockets' = IF port \in DOMAIN sockets THEN sockets ELSE put(sockets, port, "dns")
  /\ UNCHANGED udp_next_port /\ UNCHANGED resolving /\ idle

\* sendto of these queries: nothing goes out from a port that is not bound.
sent(msgs) == IF local_port \in DOMAIN sockets THEN queries \cup msgs ELSE queries

-----------------------------------------------------------------------------
\* What a callback may do: nothing (no request), or resolve another name.
NewRequests(n) == IF Cardinality(Asked) < MaxResolved
                  THEN {{}} \cup {{<<Cardinality(Asked) + 1, nm>>} : nm \in n} ELSE {{}}

\* resolve_async for the request in more (none, or one) on the table p: a query
\* still pending under the next identifier is overwritten.
with_new(p, more) ==
  IF more = {} THEN p
  ELSE put(p, next_id, [request |-> Cardinality(Asked) + 1, age |-> 0, retries |-> 0])

issue(more, resent) ==
  /\ name' = [r \in Asked \cup {m[1] : m \in more} |->
                IF r \in Asked THEN name[r] ELSE (CHOOSE m \in more : TRUE)[2]]
  /\ next_id' = IF more = {} THEN next_id ELSE (next_id + 1) % IdSpace
  /\ queries' = sent(resent \cup {[id |-> next_id, name |-> m[2]] : m \in more})

resolve_async(more) ==
  /\ more # {} /\ local_port # 0
  /\ pending' = with_new(pending, more)
  /\ issue(more, {})
  /\ UNCHANGED <<sockets, udp_next_port, local_port, called, answer, answers>> /\ idle

\* The server answers a query, as often as it is asked.
reply(q) ==
  /\ q \in queries
  /\ answers' = answers \cup {q}
  /\ UNCHANGED <<sockets, udp_next_port, local_port, next_id, pending, name, called,
                 answer, queries>> /\ idle

\* Mutant: the callback is called, and the query stays.
dns_on_receive_kept(a, more) ==
  /\ a \in answers
  /\ local_port \in DOMAIN sockets /\ sockets[local_port] = "dns"
  /\ a.id \in DOMAIN pending
  /\ LET r == pending[a.id].request IN
     /\ called' = [called EXCEPT ![r] = @ + 1]
     /\ answer' = [answer EXCEPT ![r] = a.name]
  /\ pending' = with_new(pending, more)
  /\ issue(more, {})
  /\ UNCHANGED <<sockets, udp_next_port, local_port, answers>> /\ idle

\* An answer arrives and the client is behind the port: the callback of the query
\* with its identifier is called, whatever the name, and may resolve another
\* name before the query is erased.
dns_on_receive(a, more) ==
  /\ a \in answers
  /\ local_port \in DOMAIN sockets /\ sockets[local_port] = "dns"
  /\ a.id \in DOMAIN pending
  /\ LET r == pending[a.id].request IN
     /\ called' = [called EXCEPT ![r] = @ + 1]
     /\ answer' = [answer EXCEPT ![r] = a.name]
  /\ pending' = erased(with_new(pending, more), {a.id})
  /\ issue(more, {})
  /\ UNCHANGED <<sockets, udp_next_port, local_port, answers>> /\ idle

\* A call of the timer.  Queries grow older by one call; those that have waited
\* too long are visited one by one, in the order of a hash table.
Due(q) == q.age > RETRY_TICKS

older(q) == [q EXCEPT !.age = IF Due(q) THEN @ ELSE @ + 1]

dns_on_timer ==
  /\ visiting = {} /\ pending # << >>
  /\ pending' = [i \in DOMAIN pending |-> older(pending[i])]
  /\ visiting' = {i \in DOMAIN pending : Due(older(pending[i]))}
  /\ UNCHANGED <<sockets, udp_next_port, local_port, next_id, name, called, answer,
                 queries, answers>>

\* The query is sent again.
retry(i) ==
  /\ Due(pending[i]) /\ pending[i].retries < MAX_RETRIES
  /\ pending' = [pending EXCEPT ![i].age = 0, ![i].retries = @ + 1]
  /\ issue({}, {[id |-> i, name |-> name[pending[i].request]]})
  /\ visiting' = visiting \ {i}
  /\ UNCHANGED <<sockets, udp_next_port, local_port, called, answer, answers>>

\* The callback is told that there is no answer, and may resolve another name
\* before the query is erased.  An insertion may rehash the table, and the pass
\* then goes on from another place: of the rest it may miss any.
give_up(i, more) ==
  /\ Due(pending[i]) /\ pending[i].retries >= MAX_RETRIES
  /\ called' = [called EXCEPT ![pending[i].request] = @ + 1]
  /\ pending' = erased(with_new(pending, more), {i})
  /\ issue(more, {})
  /\ visiting' \in SUBSET (visiting \ {i})
  /\ more = {} => visiting' = visiting \ {i}
  /\ UNCHANGED <<sockets, udp_next_port, local_port, answer, answers>>

\* A callback of this pass has put a new query in the place of this one.
not_due(i) ==
  /\ ~Due(pending[i])
  /\ visiting' = visiting \ {i}
  /\ UNCHANGED <<sockets, udp_next_port, local_port, resolving>>

Visit(i) == retry(i) \/ (\E more \in NewRequests(Names) : give_up(i, more)) \/ not_due(i)

Timer == dns_on_timer \/ \E i \in visiting : Visit(i)

-----------------------------------------------------------------------------
DnsNext ==
  \/ \E port \in UdpPorts : bind(port) \/ unbind(port) \/ init(port)
  \/ \E more \in NewRequests(Names) : resolve_async(more)
  \/ \E q \in queries : reply(q)
  \/ \E a \in answers, more \in NewRequests(Names) : dns_on_receive(a, more)
  \/ Timer

DnsSpec == DnsInit /\ [][DnsNext]_dnsVars /\ WF_dnsVars(Timer)

-----------------------------------------------------------------------------
DnsTypeOK ==
  /\ DOMAIN sockets \subseteq UdpPorts \ {0}
  /\ \A p \in DOMAIN sockets : sockets[p] \in {"dns", "app"}
  /\ udp_next_port \in UdpPorts /\ local_port \in UdpPorts /\ next_id \in QueryIds
  /\ DOMAIN pending \subseteq QueryIds /\ \A i \in DOMAIN pending : pending[i] \in Query
  /\ Asked \subseteq Requests /\ \A r \in Asked : name[r] \in Names
  /\ called \in [Requests -> Nat] /\ answer \in [Requests -> Names \cup {None}]
  /\ queries \subseteq Message /\ answers \subseteq Message
  /\ visiting \subseteq DOMAIN pending

\* Identifiers have come round: one of them may have stood for two requests.
Wrapped == Cardinality(Asked) > IdSpace

Waiting(r) == \E i \in DOMAIN pending : pending[i].request = r

\* A request that was made is waiting or has been called back, once and not
\* both, through retransmissions, duplicate and late answers and callbacks that
\* resolve again; until the identifiers come round, none is forgotten and what a
\* callback gets are the records of the name it asked for.
CallbacksSound ==
  /\ \A r \in Asked :
       /\ called[r] + (IF Waiting(r) THEN 1 ELSE 0) <= 1
       /\ ~Wrapped => called[r] = 1 \/ Waiting(r)
       /\ ~Wrapped /\ answer[r] # None => answer[r] = name[r]
  /\ \A i, j \in DOMAIN pending : pending[i].request = pending[j].request => i = j

DnsSound == DnsTypeOK /\ CallbacksSound

\* Every request is called back in the end, whatever the network does and
\* whoever has the port, unless a later one took its identifier.
EveryRequestEnds ==
  \A r \in Requests : Waiting(r) ~> ~Waiting(r)
=============================================================================

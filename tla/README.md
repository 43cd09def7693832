# NeuStack in TLA+

NeuStack is a user-space network stack in C++20: a device (TUN or AF_XDP), IPv4,
ICMP, UDP and TCP, HTTP and DNS on top, a firewall in front, and a second thread
that runs prediction models on TCP samples and steers congestion control. This
directory holds TLA+ models of it, TLC configurations that check them on small
instances, and proofs checked by TLAPS. Paths below are relative to the
repository.

## How to run it

    tlc -config TcpReceiver.cfg MCTcpReceiver       (one per row of "Runs")
    tlapm TcpReceiverProofs.tla                     (one per *Proofs.tla)

`PROJECT.json` lists the components, the runs and what each is expected to show,
a mutant of the code for every property, the source lines behind every
definition, the findings, the hazards and the theorems. The operators whose
comment says *Mutant* are those mutants: plausible mistakes that nothing in the
models uses, each of which makes its property fail.

## The system

One thread, `NeuStack::run` in `src/neustack.cpp`, does nearly everything: it
polls the device, passes each packet through the firewall to IPv4, releases the
packets, polls the HTTP server, and every 100 ms calls the timers. TCP callbacks
(`on_connect`, `on_receive`, `on_close`) are made from inside the handlers, and
the application calls back into the stack from them: most ordering trouble in
this code is re-entrance, not parallelism. Real concurrency is between this
thread and the kernel (AF_XDP rings), the AI thread (metrics buffer, action
queue), observers of metrics and whoever calls `stop`.

| Component | State | Operations | What is hard | What makes it correct | Model |
|---|---|---|---|---|---|
| TCP receive side (`tcp_connection.cpp` handle_data ... deliver_data, check_delayed_ack) | rcv_nxt, ooo_queue, ooo_size, delayed_ack_pending | segment in order, duplicate, overlapping, early; timer | any cut of the stream in any order; the callback runs before rcv_nxt moves | the application gets a prefix of the stream; ACKs are truthful and never forgotten | TcpReceiver |
| TCP connection (`tcp_connection.cpp`, `tcp_tcb.hpp`, `tcp_seq.hpp`) | the TCB: state, SND/RCV variables, send buffer, retransmission queue, pending close | connect, send, close, a handler per state, retransmission, zero-window probe, TIME_WAIT | loss, reordering, simultaneous open and close, Nagle against delayed ACKs, calls from callbacks, wrap-around | both byte streams are delivered; no abort without loss; whoever closes gets closed | TcpTcb, TcpPair |
| TCP tables (`tcp_layer.cpp`, listen/create/delete_tcb) | connections, listeners, callbacks, TIME_WAIT list, ephemeral port, gauge | listen, unlisten, connect, lookup, eviction, timer | callbacks and entries that outlive what they belong to; limits | the gauge accounts for every connection; accepted connections have an owner; TIME_WAIT ends | TcpTable |
| Congestion control (`tcp_reno/cubic/orca.hpp`) | cwnd, ssthresh, alpha | ACK, loss, timeout, AI action, exchange | 32-bit products, casts, integer division | the window stays between its limits, never shrinks by an ACK nor grows by a loss | CongestionControl |
| AF_XDP device (`hal_linux_afxdp.cpp`, `xdp_ring.hpp`, `umem.hpp`) | free list, four rings, batch in hand | recv_batch, release_rx, send_batch, refill, reclaim | the kernel moves its indices at any time; partial reservations | each frame has one owner; no ring is overrun; reception never starves | AfxdpFrames |
| UDP, DNS client | sockets, pending queries | bind, send, receive, retry, timeout | identifiers reused, callbacks that resolve again | one callback per query, with its own answer | DnsClient |
| HTTP server, client, parser | parser and response state per connection | receive, flush, chunk, close | partial sends, pipelining, close from both sides | responses whole and in order | HttpExchange |
| Firewall (`firewall_engine`, `rule_engine`, `rate_limiter`, `firewall_ai`) | rules, buckets, LRU list, shadow mode, verdict, event pool | inspect, timer, escalate | eviction, lost fractions of tokens, cooldown, failing inference | precedence of lists and rules; no source exceeds its rate; mode changes only after runs of equal results | Firewall, RateLimiter |
| Buffers and pools (`ring_buffer.hpp`, `memory_pool.hpp`) | positions and slots | write, peek, consume; acquire, release | pieces that wrap; links inside free memory | bytes in the order written; no slot twice | StreamBuffer, FixedPool |
| Metrics and telemetry (`ring_buffer.hpp`, `sample_exporter`, `metric_types.hpp`) | ring of samples, history, histogram | push, read, export, observe, snapshot | read while written | no event lost or counted twice; a snapshot lies between the observations before and after it | Metrics, Histogram |
| AI plane (`ai_agent`, `intelligence_plane`) | agent state, history, queue | sample, infer, act | full queue, missing models | no action while the anomaly lasts; recovery possible | AiPlane, SpscQueue |
| IPv4, ICMP, UDP's errors | next to none | receive, reply, ping | errors about errors, broadcasts | no storm; pings answered | Network |
| NeuStack and the devices (`neustack.cpp`, `hal_*.cpp`) | what was built, the loop's timers, descriptors and mappings | create, run, stop, destroy, open, close | failure in the middle of start-up; timers under load | nothing leaks; timers and stop are served | NeuStack, Device |
| Segment and header codecs; logging; tools | none that lasts | per packet | | | not modelled |

`PROJECT.json` gives for each of these its sources, its status and the reason
when something is left out, and lists under *hazards* what a test would hardly
reach, line by line, with the property that covers it.

## Modules

    ByteStream           abstract: one direction of a TCP connection
    TcpReceiver          the receive side, callback and loop step by step
      TcpReceiverProofs  its invariants and refinement, for all parameters
    TcpSeq               sequence numbers modulo SeqSpace
    TcpTcb               one end: each C++ function as an operator
      TcpPair            two ends, two applications, a faulty network
      TcpPairProofs      both directions refine ByteStream, for all parameters
                         and any faults; what TcpSeq's comparisons mean
    TcpTable             listeners, connections, TIME_WAIT, ports, gauge
    CongestionControl    Reno, CUBIC and Orca on 32-bit windows
      StackProofs        the invariants of these two, and of NeuStack and
                         Network below, for all parameters
    ByteQueue            abstract: a bounded queue of bytes
    StreamBuffer         the ring behind a TCP send buffer
    AfxdpFrames          the frames and rings of the AF_XDP device
    BoundedFifo          abstract: a queue of N items, push and pop at one instant
    SpscQueue            the lock-free ring, one atomic access per step
      RingProofs         the invariants of AfxdpFrames and SpscQueue, for all
                         sizes, and that SpscQueue refines BoundedFifo
    AiPlane              models' answers, agent, congestion controllers
      AiPlaneProofs      its invariants, for all counts and answers
    DnsClient            queries over UDP sockets, retries, timeouts
    HttpExchange         one HTTP connection: server, parser, client
      ServiceProofs      the invariants of these two, for any requests,
                         identifiers, responses and buffers
    RateLimiter          token buckets and their LRU list
    Firewall             rules, lists, AI mode; extends RateLimiter
      FirewallProofs     the invariants of these two and the changes of mode,
                         for all rules, rates and thresholds
    FixedPool            the pool of the firewall's events
    Device               opening and closing a network device
    NeuStack             create, run loop, stop, destroy; uses Device
    Network              IPv4, ICMP and UDP's errors between hosts
    Metrics              the ring of samples, its writer and two readers
    Histogram            atomics observed and read at once
      BufferProofs       StreamBuffer refines ByteQueue; FixedPool, Metrics and
                         Histogram keep their invariants, for all sizes
    MC*                  instances for TLC

**TcpReceiver** is one connection seen from its receiver. The network is the worst
one: it may present any piece of what the peer has sent, at any time, so every
loss, repetition, order and re-cut is a behaviour of one action. `deliver_data`
enters `on_receive` before it moves `rcv_nxt`, so the variable `pc` stops the
thread inside the callback, where the application may send (`app_send`), and
between the iterations of `deliver_ooo_data`. Positions in the stream are
naturals here; the theorems on TcpSeq justify that.

**TcpTcb** and **TcpPair** model the whole connection. A handler runs to its end in
one thread, so it is one atomic action; inside, each function of
`tcp_connection.cpp` is an operator from a record (TCB, application, segments
sent) to the record after the call, in the code's order of statements. Callbacks
are calls of `React` in the middle of such an operator: the application may do
nothing, send or close there, which is how the re-entrance of the code is covered
without splitting handlers. Sequence numbers wrap, with SeqSpace for 2^32. The
network keeps order unless a bounded fault occurs (`lose`, `receive_duplicate`,
`receive_late`, `timer_early`). The congestion window is whatever the scenario
allows at each call. The ring behind the send buffer is its number of bytes and
the slot of the first (`send_read`), because a turn of `send_buffered_data` sends
no more than lies before the ring's end. MAX_TCP_SIZE is the 1460 bytes a segment
may hold, MaxWindow the 65535 its window field can tell.

**TcpTable** is the layer above single connections. A segment is only its flags and
whether its numbers were accepted; whether a close went out at once or waits for
the send buffer is a choice (`flushed`), since TcpTcb models what decides it. The
server closes when it is told that the peer has closed, the client does not: that
is what `HttpServer` and `HttpClient` do. `forgotten` and `lost` are history
variables: connections that ended without lowering `active_connections`, and
ports whose accept callback was taken away by `unlisten` or a second `listen`.

**CongestionControl** is driven by the calls `TCPConnectionManager` makes. Windows
are numbers modulo WORD. CUBIC's target is a cast of a `double` that depends on
the clock; it may be any value given in `Targets`. Its factor 0.7 is a double
too, a little less than seven tenths, so a reduction that would be whole may come
out one lower (`seven_tenths`). Orca's factor 2^alpha is a table. Reno and CUBIC
reckon with segments of at least 536 bytes (MIN_MSS), although CUBIC's first window
is ten of the real ones; Orca has no such floor. Segments below a fifth of 536
are left out (`WindowAssumption`): the first window would then be below CUBIC's
least, and a loss would widen it.

**StreamBuffer** is the ring with its two positions and its size; `write`, `peek` and
`consume` copy in two pieces when they wrap. **ByteQueue** is what the TCP modules
take a send buffer for.

**AfxdpFrames** follows a frame through its owners. Every ring index has one
writer, so `reserve..submit` and `peek..release` are single steps, with kernel
steps allowed between any two ring accesses of a handler; `pc` says at which one
the run loop is. A ring is the set of frames in it; order within a ring is
abstracted, which lets the kernel and the stack take entries in any order. Headers,
statistics and wake-up system calls are left out. The kernel's four actions are
external; only its use of a completion slot per packet in flight is assumed.

**SpscQueue** is `SPSCQueue` of `spsc_queue.hpp`, the channel from the AI thread to the
data plane. A call is three steps: load the indices and decide, touch the slot,
publish the index; the other thread may run between any two. The slot is plain
memory, so both threads in one slot would be a data race (`NoDataRace`). The
indices are never reduced in the code and wrap with `size_t`; `IndexSpace` stands
for 2^64. **BoundedFifo** is what a caller may believe instead.

**AiPlane** is the way from a model's answer to a window. The models answer anything
at any time; `infer` is a push whose refusal nobody notices. In the data plane
`on_timer` pops one action per step, so the AI thread can push in between;
each handler changes the `NetworkAgent` record with one operator per C++ method and
then applies the alpha to the connections (`apply_cwnd_adjust`) or exchanges their
controllers (`apply_state_change`). Connections come and go between timers. The
queue is BoundedFifo's, which RingProofs justifies. A score is kept as whether
it exceeds the threshold, an alpha in tenths; comparisons of `float` ratios are
those of the integers behind them, so a prediction at exactly 85 percent is not
among the inputs. `calm` is a history variable.

**DnsClient** has the sockets of `udp.cpp` under it, shared with an application that
binds and unbinds ports. Messages sent may be answered once, twice, late or never.
A callback may resolve another name (`more`), before the query it is called for
is erased, as in the code. A call of `on_timer` visits the queries that are due
one at a time, in any order (`visiting`, `Visit`), since the table is unordered;
each of its callbacks may resolve a name, and the insertion may rehash the table
under the iterator: the rest of the pass may then miss any of them, which the
next one finds.

**HttpExchange** is one connection of the server. A request is two pieces, so that it
may be split or share a segment with the next; a response is units that go out as
the send buffer has room, from the handler or from `poll`. Three clients are tried
(`Kinds`): the library's own with its one request, one that waits for each
response, and one that pipelines without waiting. A piece is whole lines, which
the parser takes out of its buffer as it reads them, so only what arrives at once
counts against its limit. `HttpClient` takes a chunked response for complete at
the end of its header (`Awaited`).

**RateLimiter** counts time as the age of each bucket. `ideal` is a history variable:
what an exact bucket would hold, in fractions of a token. **Firewall** extends it
with rules, lists, the security window, the AI's cached verdict and its counters
of equal results; its `inspect` makes the limiter's `check`, its clock is the
limiter's. Rules are kept in a vector that `add_rule` sorts: `std::sort` is not
stable, so any order of the priorities will do (`orders`). `latest`, `failing`,
`run` and `since_change` are history variables. **FixedPool** links free slots
through their own memory; `FreeListSound` asks for one list through all the free
slots, whatever order they came back in.

**Device** lists the steps of `open` for each device with what each takes from the
system; any step may fail. **NeuStack** composes it with `create`, the run loop and
the destructor. **Network** is hosts that run IPv4, ICMP and UDP; a packet is the
fields the handlers look at, and the network loses packets and runs down their
time to live. Strangers send the odd packets of `Odd`: broadcasts, fragments, bad
checksums, errors and ICMP messages of other types. `send_dest_unreachable` and
`send_time_exceeded` ask the same of a packet, so they are one operator. Every
host has an ICMP handler; a stack that is configured without one (`icmp` in
NeuStack) sends neither errors nor replies.

**Metrics** lets the writer be inside a slot while the intelligence thread loads the
counter, loads it again in `recent`, and copies slot by slot; the exporter runs in
the writer's thread. **Histogram** is one atomic access per step. All of them are
`memory_order_relaxed`, which orders accesses to one atomic and nothing else. So an
observation that has begun may make its accesses at any time and in any order, also
after those of a later one of the same thread, which is why threads need not be
named; the snapshot loads its fields in any order; and the load that precedes the
exchange of the sum may find an old value. Sums are naturals where the code
adds doubles. `observed` and the sets `bucketed`, `counted` and `summed` are history
variables: the values in the order their observations began, and which of them have
made each access.

**ByteStream** is the specification of one direction of a connection: the receiver
is handed what the sender wrote, each byte once, in order. TcpReceiver implements
it, and so do both directions of TcpPair (both checked and proved).

**MCThreads**, **MCServices** and **MCPlane** check several components in one run. The components of
each share no state (but for the limiter, which is checked inside the firewall and
alone), so a behaviour is of one of them, chosen by `part` in the initial state,
while the others stay as they are: an interleaving of two would only add steps
that commute and could not break a property of either. `NothingWaitsForever`
collects what must end in the three components of MCServices that wait, and
`NothingIsNeglected` what must happen in four of MCPlane: `DropModeEnds`,
`LoopServes`, `NetworkSettles` and `NewestSeen`.

## Runs

| Run | Bounds | Question and answer |
|---|---|---|
| tcp_receiver | 6 bytes, MSS 3, 5 bytes of out-of-order room | Any network: delivery in order (`ImplementsStream`), truthful and monotone ACKs (`AckTruthful`, `AckMonotone`), nothing deliverable left behind (`NoStrandedData`), `ooo_size` exact (`OooAccounting`), an ACK owed is timed and sent (`AckOwed`, `EventuallyAcked`). Holds. |
| pair_clean | 3 bytes each way, MSS 2, window of one segment or two, 1 duplicate, Nagle and delayed ACKs on | Without loss: everything is delivered and, once an application closes, both TCBs go (`EventuallyDelivered`, `EventuallyClosed`); no abort, no stall, no ACK beyond what was sent. Holds. |
| pair_faults | 3 bytes through a send buffer of 2, 1 loss, 1 duplicate, 2 overtakings, simultaneous open and close | Under faults: both streams intact (`ImplementsStreams`), no FIN before its data (`FinAfterData`), all that is in flight can be retransmitted and the state well-formed (`QueueCoversInFlight`). Holds. |
| pair_lost_ack | as pair_faults, one loss | *Violation* of `SurvivesLoss`: see Findings. |
| pair_zero_window | both ends write more than the window | *Violation* of `AckWithinSent`. |
| pair_both_close | both ends close, data waits for the window | *Violation* of `NoSpuriousAbort`. |
| afxdp_frames | 5 frames, rings of 4 (fill, RX) and 2 (TX, completion), batches of 2 | One owner per frame (`OneOwner`), no overrun (`RingsFit`), reception never out of buffers (`ReceptionFed`), receiving goes on for ever and so does sending while packets arrive (`FramesKeepMoving`). Holds. |
| afxdp_refill | same | *Violation* of `RefillsToHalf`. |
| threads, ring | 4 slots, indices modulo 8, 2 values | One slot is never in two hands (`NoDataRace`); the ring is an atomic FIFO (`ImplementsFifo`). Holds. |
| threads, agent | 2 connections, 1 alpha, 3 bandwidths, queue of 2, counts of 2 for 50 and 100 | Under attack no alpha takes effect, afterwards all are on Orca (`ControllersFollowAgent`); an attack lasts until enough clear alerts in a row (`AttackIffRecentAlarm`); degradation is justified (`DegradedJustified`); attacks and recoveries end (`AttackPasses`). Holds. |
| threads, histogram | 2 buckets, 2 observations, any order of accesses | Nothing lost in bucket, count or sum; the fields and percentiles of a snapshot lie between the observations over when it was called and all begun (`HistogramSound`). Holds. |
| services, tables | 1 peer, ports 0..2 of which 2 is ephemeral and 1 the server's, 2 connections, 1 TIME_WAIT entry of 1 tick, 2 handshakes, 1 repeated FIN | The gauge accounts for every connection, accepted connections have an owner, TIME_WAIT is listed (`TablesSound`) and ends (`NothingWaitsForever`). Holds. |
| services, dns | 2 names, identifiers and ports modulo 2, 3 requests, 1 retry | A request is called back once, with its own answer, until the identifiers come round (`DnsSound`), and always in the end (`NothingWaitsForever`). Holds. |
| services, http | 2 requests, responses of 3 units, send buffer of 2 | Responses whole and in order, clients that wait are served (`ExchangeSound`) and always answered (`NothingWaitsForever`). Holds. |
| services, window | MSS 1 with a floor of 2, limit 32, WORD 128 | The window keeps its limits and moves the right way (`WindowSound`). Holds. |
| plane, limiter | 3 sources, 2 tracked, rate and burst up to 2, second of 2 | No bucket beyond an exact one, none starved, the list in order of use (`LimiterSound`). Holds. |
| plane, firewall | 2 sources, 1 of them with a bucket, rate and burst 1, 3 rules of two priorities, room for 3, runs of 2, cooldown of 3, a window of 1 second; one setup with the AI, one with rules, one with lists and the limiter | The first rule that matches has the least priority, lists come first, the alarm is the last result (`FirewallSound`); changes of mode are justified (`ModeChanges`); drop mode ends (`DropModeEnds`). Holds. |
| plane, stream | ring of 3, calls of up to 3, 2 values | The ring is a queue of bytes (`ImplementsQueue`). Holds. |
| plane, pool | pool of 3 | The free list is one list through the free slots (`PoolSound`). Holds. |
| plane, stack | RX of 3, batches of 2, 3 configurations, every step of start-up failing | Nothing leaks, whatever fails (`NothingLeaks`); timers and stop are served (`LoopServes`). Holds. |
| plane, net | 2 hosts, 2 packets sent | No error about an ICMP message but an echo (`ErrorsJustified`); silence in the end, pings heard of (`NetworkSettles`). Holds. |
| plane, telemetry | ring of 2, history of 2, 3 samples | Copies are what was meant, estimates and exports complete (`SamplesIntact`); the newest sample is seen (`NewestSeen`). Holds. |
| net_broadcast | 2 hosts, 1 packet sent | *Violation* of `ErrorsSpareBroadcast`. |

*threads*, *services* and *plane* are one run each; their rows are the values of `part`.

Why the bounds are enough. In `tcp_receiver`, six bytes in segments of up to three
give every overlap of two segments and two or three of them held at once with room
running out. In the pair runs, A's initial sequence number is two before the wrap;
a write of two bytes is one full segment and one of a single byte is what Nagle
holds; `MaxWritten` exceeds the smaller window, so data waits in the send buffer
when close is called; the faults are those that one exchange of data, FIN and ACK
can meet, and one of each is possible at every point of it. In `pair_faults` a send
buffer of two bytes takes three one after the other, so a span is cut where the ring
ends; the three are written to an echo server that stays, or to one that only
listens before a close, and two to an echo server before a close. With five frames the
fill ring can be full or empty, the free list empty, both TX and completion rings
full, and a batch wholly filtered. Four slots and indices modulo eight let the ring
be full across the wrap. With two connections one can be older and one younger
than a change of the agent's state; counts of two tell a reset from none. Two
observations are enough for one to begin before and end after another, and for a
snapshot to find any part of either.

In *services*, one TIME_WAIT entry makes the second connection to wait evict the
first, three ports let the ephemeral counter wrap over 0 and the server's port,
and the same tuple comes back while a stale entry of it is on the list. Three
requests with two identifiers make an identifier stand for two requests. A body
larger than the send buffer is always cut, so a response is finished from `poll`
and a close can come in between. WORD is four times the window's limit: a sum or
product that the code lets wrap would. In *plane*, three sources for two
buckets force eviction and a second of two units loses fractions; for the firewall,
three rules, two of them of one priority and two of one identifier, may be added
again and again and fill the table; runs of two within a cooldown of three let
the threshold be reached while the mode may not change. Three bytes
make every pair of pieces wrap, three slots come back in any order, and a ring of
two samples is lapped by three. The limiter has a part of its own, so that the
firewall's part needs only one source that is limited (`FewSources`). Each bound is a named constant or appears in a
guard.

Fairness. The stack is a loop that polls its device and its timers for ever, so a
segment that is not lost is received and an expired timer is handled: weak
fairness of `receive` and `timer` per end, of the run loop, and of the kernel's
own progress. Nothing is assumed of applications, of new packets arriving, nor of
faults: `TxDrains`, its half about sending, states as its hypothesis that packets keep arriving, because
transmitted frames are only reclaimed in `recv_batch`, which the loop calls when
a packet has come. TcpPair writes the weak fairness out with the guards of the
actions in place of ENABLED, which TLC evaluates slowly on operators that thread a
record. In AiPlane the timer and the
handlers are weakly fair and pushes of alphas and of clear alerts strongly: in the
100 ms between two timers the models produce at most a dozen answers for sixteen
slots, so a model's pushes succeed again and again (the queue of two in the run
fills more easily, hence strong fairness). That alarms stop and the thread keeps
running is the hypothesis of `AttackPasses`, not fairness; the Orca model must be
loaded, because only CWND_ADJUST counts the ticks of a recovery.
In the tcp_receiver run the network is fair only in that the peer sends
again what was not acknowledged.

The components of *services* and *plane* are weakly fair where the run loop calls
them for ever: the timers of TIME_WAIT and of DNS, the HTTP server's `poll` and
what TCP delivers to it, the firewall's inference and clock, the loop's own steps
and clock, the delivery of packets, the intelligence thread's loop and the end of a
push that has begun. Answers to queries, users of the stack, further requests and
arrivals are never assumed. The hypotheses of the other liveness properties are in
them: `DropModeEnds` asks for a model that works and finds normal traffic,
`NewestSeen` for a writer that pauses, `PingsAnswered` for no loss.

CHECK_DEADLOCK is off in *services* and *plane* because a bounded component stops at its
bound, and an idle stack, server, client or firewall has nothing to do.

## Proofs

`TcpReceiverProofs` proves, for every stream length, MSS, buffer size and both
settings of delayed ACKs (assumption `ReceiverAssumption`): `TypeOK`, `InOrder`,
`AckTruthful`, `NoStrandedData`, `OooAccounting`, `AckOwed`, `AckMonotone` and the
refinement of `ByteStream`. None is inductive alone. The invariant adds that the queue is sorted
(`deliver_ooo_data` looks only at its head, so order is what makes nothing
deliverable stay behind), that its entries were sent by the peer, what a callback
in progress is handing over, and that the last ACK is not past `rcv_nxt`.
`OooAccounting` is stated as the size of the set of bytes held, each with its entry, rather than as a
sum over the queue, so that an insertion or a removal changes it by one interval.

`TcpPairProofs` proves, of two ends that are both `tcp_connection.cpp`, for any initial
sequence numbers, buffers, MSS, scenarios of applications and windows, and a network
that loses, repeats and reorders without bound: that both directions refine
`ByteStream` (`StreamsImplemented`: every call is a write, a read or nothing, so what
an application is handed is what the other wrote, each byte once and in order), that
`FinAfterData` holds, and the types. The assumption on the constants
(`PairAssumption`) is the one every use of sequence numbers makes: half the space
exceeds what a connection writes plus four. The four are the FINs: a `close` that
waits for the send buffer and is repeated sends more than one (see Findings).

Neither property is inductive: the code compares numbers, the property speaks of
bytes. `PairInv` says what each number stands for. Of every segment an end may have
on the network (`Sendable`): its SYN has the initial number, its data are written
bytes and numbered by their place, its FIN comes behind all that was written, and
only after a close. The same of entries kept for retransmission (`Kept`) and of data
kept until a gap is filled (`Ahead`). `Numbered` places `snd_nxt` behind what left the
send buffer, `ReceiveSound` places `rcv_nxt` behind what the application was handed, and
`HandedSound` is the two properties themselves. A segment therefore stays sound however
long the network keeps it, since what was written only grows: that is why no fault
needs a case of its own. One lemma per function of `tcp_connection.cpp` carries
the conjuncts through it, in the order of the calls, `React` included, where a
callback may write or close half way; one lemma per action puts them together.
The refinement then needs of a call only that what was written and handed over
grows at its end.

The section before proves, for every even SeqSpace, that `seq_lt` and its kin agree
with the order of stream positions less than half the space apart, whatever the
number of wraps; that exactly one of before, equal and after holds except at the
exact half; and that `seq_in_range` is membership in a window. This is what the
proofs of TcpPair rest on, and what allows TcpReceiver to count positions.

`StackProofs` proves four components that share no state. Of TcpTable, for any ports, peers,
limits and durations (assumption `TableAssumption`): all of `TablesSound`, that is
the types, `GaugeAccounts`, `ServerOwnsItsConnections` and `TimeWaitListed`. The
invariant adds that the table is finite, that callbacks belong to connections in
it, and `Promised`, which follows an accept callback from the listener to the TCB
in SYN_RCVD and to the connection: that is where a second `listen` or a RST to the
listener could have lost it. For the list of TIME_WAIT it adds that each entry has
time left and that what stays when entries go is the rest in its order
(`EntriesAt`): so an eviction or a stale entry of the same tuple never takes a
connection's last entry.

Of CongestionControl it proves `WindowSound` and the types, for every segment size,
limits, width, factor table and any targets of CUBIC's curve (`WindowAssumption`,
`AlphaAssumption`). The invariant adds that CUBIC is in slow start only below its
first threshold and that Reno's recovery keeps one within the limits: that is what
holds slow start, which checks no limit, below MAX_CWND, and the 32-bit sums from
wrapping.

Of NeuStack with Device it proves `NothingLeaks` and the types, for every configuration, batch
size and timer (assumption `StackAssumption`), for each device and whichever step of
opening fails. `StackInv` adds that the object knows at every step of all that it
was given (`fields = held`): that is what lets one `close` undo an opening that
stopped anywhere. The rest is about where the loop is: frames are lent only while
packets are processed, and the loop is at its start whenever it does not run.

Of Network it proves `ErrorsJustified` and the types, for any hosts, addresses and number of packets
(assumption `NetworkAssumption`), over a network that loses and expires any of them.
The invariant says what may travel at all (`Travelling`): a packet to a host whose
quotation, if it has one, is of no ICMP message but an echo. Each branch of `on_receive` then
answers one such packet with another or with nothing; in particular UDP, which does
not ask `should_send_icmp_error`, is only ever asked about a datagram.

`BufferProofs` proves four components. For every capacity and every set of bytes
(assumption `CapacityAssumption`) StreamBuffer implements `ByteQueue`: the invariant
is that the write position is the read position moved by the size; the rest
compares each byte of the two pieces of a copy with its place in the queue. For
every pool size (`PoolAssumption`) FixedPool keeps `PoolSound`, which is inductive:
the list that must exist after a step is the old one without its head, or with the
released slot in front. For any boundaries, values and number of observations
(`HistogramAssumption`) Histogram keeps `HistogramSound`, whatever the order in which
the relaxed accesses take effect. Its invariant counts at every step, not only when
all are over (`Counting`): each bucket is the number of the observations of it that
have made that access, and likewise the count and the sum. It says nothing of one
atomic against another, since the code orders none of them. Of a snapshot
(`Snapped`) it says that each field loaded lies between what the observations over
when it was called make it (`before`; what they added is still there at the load) and
what all those begun do. Cumulated, that bounds the bucket of every percentile
from both sides; when no observation is under way the two bounds meet.

For every length of ring, history and reading and any samples (`MetricsAssumption`)
Metrics keeps `SamplesIntact`. What the readers rely on is said of the ring
(`Intact`): each of the latest samples is in its slot, except the one whose slot is
being written, and their timestamps do not fall in the order in which they came. So a
copy of the other thread is what it meant until the writer has come round. For the
exporter (`Exporting`) the last timestamp it remembers was exported, no sample
waiting has a lesser one, and what left the ring before it could be exported is
recorded as missed: that is why skipping equal timestamps loses no timestamp. The
estimate is compared with the largest rate of the history (`Reading`), whether it is
raised or computed anew. Lemmas give what the greatest of a finite set is and that
`Ascending` lists a set of numbers in their order.

`FirewallProofs` proves `LimiterSound` for all sources, rates, bursts, units of
time and table sizes (assumption `LimiterAssumption`). The invariant keeps the list
as an injective sequence ordered by age whose members are exactly the tracked
sources, through moves to the back, evictions of a quarter and resets. Around it,
for all rules, setups, intervals and thresholds (`FirewallAssumption`), it proves
`FirewallSound` and `ModeChanges`. Every step of the firewall is a step of the
limiter or leaves it alone; the rules stay sorted (`RulesInv`), so the first that
matches has the least priority; and of the AI (`AIInv`) each counter is at most the
length of the run of results of its kind, a run ends with a change of mode, and
the rest of the cooldown and the time since the last change make up the cooldown.
That is what justifies a change however idle seconds, failures and changes by hand
come in between.

`ServiceProofs` proves `DnsSound` for any number of names, requests, retries,
ports and identifiers (assumption `DnsAssumption`). A request's number modulo
`IdSpace` is its identifier; the invariant says so of everything that waits, which
makes the table injective in the requests as well, that what waits has not been
called, and that every message on the network is of a request that was made. Then
an answer under an identifier is of another request only when the identifiers have
come round, and a callback that resolves again, before its own query is erased,
takes an identifier that nobody else waits under.

It proves `ExchangeSound` too, for any number of requests, any length of response,
send buffer and parser limit of at least a request, and for the three kinds of client
(assumption `ExchangeAssumption`). The property compares the responses that TCP has
taken with the requests, which is not inductive: the code never looks at what it has
sent. `ExchangeInv` says what it relies on instead:

- of the server (`ServerInv`): an open connection still owes exactly the rest of the
  response it answered last, in pending bytes, chunks left and the header, and all of
  the others are out; a closed one that is still in the server's table has cut short
  no response but a 400. Flushing, the generator, `dispatch`
  and `hung_up` are each shown to carry some units from what is owed to what is out
  (`Carried`), and a request is taken only from a connection that owes nothing;
- of what is on its way (`PiecesInv`): the pieces in the parser, on the network and
  at the client are of requests later than the ones taken, in rising order, whatever
  is cut or joined by the network, and also when the parser drops what it holds;
- of a client that waits (`SequentialInv`): every request was taken, or all but the
  last, whose two pieces are all there is. That is why the request which a pipelining
  client loses (see Findings) is never one of its own;
- of HttpClient (`ClientInv`): it is called back when its connection closes and not
  before.

The units of a response are counted by a cardinality, so the lemmas below these are
about how `Count` changes when a sequence grows (`WroteUnits`, `CountPrefix`).

`RingProofs` proves two components. Of AfxdpFrames, for any number of frames (two or more), ring sizes and
batch size (assumption `FramesAssumption`): `TypeOK`, `OneOwner`, `RingsFit` and
`ReceptionFed`. The invariant adds `Fed`: a packet that poll reported is still in
the ring when it is read, dropped packets have left their frames in the free list
until `top_up`, a fill ring without room is itself a supply of buffers, and no
batch is read over an unreleased one.

Of SpscQueue it proves, for every ring size and every index width it divides
(assumption `SpscAssumption`): that the indices are at most N apart, `NoDataRace`, and
the refinement of `BoundedFifo`. The invariant adds what a call in progress relies
on: the room found at the start of a push and the item found at the start of a pop
are still there. The rest is arithmetic of remainders: wrapping an index keeps its
slot, and positions less than a turn apart have different slots.

`AiPlaneProofs` proves, for any connections, answers, counts and queue size
(assumption `AiPlaneAssumption`): `TypeOK`, `ControllersFollowAgent`,
`AttackIffRecentAlarm` and `DegradedJustified`. The invariant adds `Linked`:
`_last_agent_state` may lag behind the agent (CWND_ADJUST does not update it), but
never about whether there is an attack, which is all `apply_state_change` needs.

The type invariants of TcpReceiver, TcpPair, AfxdpFrames, SpscQueue, AiPlane, StreamBuffer,
CongestionControl, NeuStack, Network and Metrics are not in their runs: proved, they
need no instance.

Model-checked only: all liveness (outside the prover's fragment), `DropModeEnds` of
the firewall, `LoopServes`, `NetworkSettles` and `NewestSeen` included; and four
invariants of TcpPair that its instances satisfy and others do not, each because of a defect listed below:
`AckWithinSent`, `QueueCoversInFlight` and `NoSilentStall` fail once a zero-window probe is
acknowledged (pair_zero_window), `NoSpuriousAbort` when both sides close at once
(pair_both_close). They are checked where the defects do not bite; an assumption that excluded them for every instance would say
little more than the bounds do.

## Findings

- *A duplicate is dropped without an ACK* (`tcp_connection.cpp:1352`). After one
  lost ACK the sender retransmits into silence and gives up. Run pair_lost_ack.
- *The zero-window probe is not counted in snd_nxt* (`tcp_connection.cpp:1559`). Its
  acknowledgement moves `snd_una` past `snd_nxt`, the in-flight difference wraps,
  and the connection stops sending. Run pair_zero_window.
- *A FIN that arrives with the ACK that completes a pending close*
  (`tcp_connection.cpp:823`) overwrites FIN_WAIT_1 with CLOSE_WAIT; a second FIN is
  sent and never acknowledged. Run pair_both_close.
- *The fill ring's watermark never takes effect* (`hal_linux_afxdp.cpp:554`): the
  probe `reserve(0)` is always 0, so refills go beyond the half the comment
  announces. Run afxdp_refill. Reception is not harmed (`ReceptionFed`); frames
  for sending are fewer.
- *An error about a broadcast* (`udp.cpp:41`). A datagram that was broadcast to an
  unbound port is answered with Port Unreachable by every host: UDP does not ask
  `should_send_icmp_error`, as IPv4 does before its own errors. Run net_broadcast.

Noted while modelling, without a run of their own; the models do what the code
does, and the properties are stated so that they hold of it:

- TCP. A `close` that waits for the send buffer and is repeated sends two FINs with
  consecutive numbers if the repetition can flush the buffer: the flush completes
  the first one, and the call goes on (`tcp_connection.cpp:182-193`, `1527-1540`). In CLOSING a FIN is counted as
  retransmitted but not sent (`tcp_connection.cpp:1277`). `on_connect` is never called with an error. An active
  close is never reported to `on_close`, so the stream wrapper, its callbacks and
  the HTTP server's entry stay; a client that does not close in `on_close` leaves
  its TCB in CLOSE_WAIT. A reset in a listener's window removes the listener. A
  stale TIME_WAIT entry of the same tuple can evict the TCB that is being entered,
  whose tuple is then read from freed memory (`tcp_connection.cpp:1010`). The
  ephemeral counters wrap to 0 and leave their range. The zero-window probe casts
  `rcv_wnd` to 16 bits without the limit that other segments put on it
  (`tcp_connection.cpp:1562`), so a receive buffer of 65536 bytes or more may be
  announced as closed. An `mss` above 1460 would have its segments refused
  after their bytes left the send buffer (`tcp_connection.cpp:460`); the presets
  stay below, and `PairAssumption` says so (`MSS =< MAX_TCP_SIZE`).
- Congestion control. A retransmission timeout never reduces the window of CUBIC or
  Orca (`tcp_connection.cpp:1238`): only a TCPReno is told. Orca's
  `_bytes_in_flight` is never raised and `compute_alpha` never called.
- Agent. Nothing calls `should_accept_connection`, so connections are accepted
  under attack, whatever `docs/project_whitepaper.md:454` says; entering DEGRADED
  does not lower an alpha above 0.3 already applied, the next CWND_ADJUST does.
- Firewall. `set_shadow_mode` changes the engine's copy only; FirewallAI keeps its
  own (compare `docs/api/firewall.md:92`). An alarm overrides the whitelist, and
  outlives failures of the model. A source that sends faster than one token's time
  never refills, since each check throws the fraction away.
- HTTP. Bytes of a further request that arrive while a response is pending are
  dropped, as are those that `reset` finds in the buffer. A 400 that does not fit is
  cut by the close that follows. `HttpClient` takes a chunked response without a
  Content-Length, the only kind the server sends, for complete and without a body
  at the end of its header (`http_parser.cpp:28-33`; `tests/unit/app/test_http_edge.cpp:206`
  knows of it).
- DNS. `init` ignores that `bind` failed; an identifier that comes round overwrites
  a pending query, whose callback is then never called.
- IPv4. Fragments other than the first reach the handlers.
- Telemetry. A snapshot of a histogram is of no one moment: with relaxed accesses the
  count may exceed the last cumulated bucket, and `percentile` then falls back to the
  last boundary (`metric_types.hpp:245`). `total_pushed` and `recent` are two loads, so the intelligence thread
  may read a sample twice; the exporter leaves out samples that share a timestamp.
- Run loop. `run` sets `running`, so a stop before it is lost.

## Not modelled

The segment and header codecs (`tcp_segment`, `tcp_builder`, `ipv4` parsing of
bytes, DNS and HTTP text): functions of one buffer; a model would repeat them. The
models take from them their verdict and their fields. The registry of metrics, its JSON and
Prometheus renderings and the telemetry API are output only. Logging, the command-line
tools, the examples, the BPF program (a redirect to the socket) and the
training scripts are outside the stack's behaviour. Reading and writing a packet
on a TUN device is one system call.

Within the modelled parts: RTT estimation and the length of time (a timer may fire
whenever it is armed and, for retransmission, nothing is under way, or too early
within the bound on duplicates); the iterators of the `on_timer` of TCP when a callback
inserts into the table it walks, which is below this level; a limiter of rate 0;
memory orders, except in Histogram, whose relaxed accesses are made in any order:
in the SPSC queue and the metrics ring, which acquire and release, steps are taken
in program order. Crash of one peer: nothing is persisted, so a restart is a
fresh stack; a vanished peer is a network that loses everything.

## Plan

What would add most next:

1. The invariants of TcpPair that the defects break, proved under the hypothesis that no
   zero-window probe is sent and the ends do not close at once (`AckWithinSent`,
   `QueueCoversInFlight`), or for every instance once the code is mended.
2. The registry of telemetry, if it comes to be read by the stack itself.

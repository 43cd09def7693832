------------------------------ MODULE TcpPair ------------------------------
(***************************************************************************)
(* Two stacks with one TCP connection between them: two ends as in TcpTcb, *)
(* their applications, and a network that carries segments in order and,   *)
(* within bounds, loses, repeats and reorders them.  Each action is one    *)
(* call into TCPConnectionManager: connect, send or close by the           *)
(* application, on_segment_received, or on_timer.                          *)
(***************************************************************************)
EXTENDS TcpTcb

CONSTANTS
  Isn,           \* the initial sequence number each end generates
  Scenarios,     \* how the connection is opened and used: a set of records
  MaxLost,       \* bound: segments lost
  MaxDuplicated, \* bound: segments repeated, by the network or too early
  MaxReordered   \* bound: segments that overtake others

Ends == {"A", "B"}
Peer(e) == IF e = "A" THEN "B" ELSE "A"

\* A scenario: both ends call connect() or end B listens; the sizes of the
\* writes each end makes unprompted; the ends that close unprompted; what an
\* application may do when called back; the values cwnd() may return.
Scenario ==
  [both_connect : BOOLEAN, writes : [Ends -> SUBSET Nat], closers : SUBSET Ends,
   reactions : [Ends -> SUBSET [{"on_connect", "on_receive", "on_close"} ->
                                  {"none", "send", "close"}]],
   cwnds : SUBSET Nat]

\* A segment holds as much data as options.mss allows (1460 in every preset):
\* the bytes of a longer one would leave the send buffer and never be sent.
\* Half the sequence space is more than a connection uses, its FINs included (a
\* close that waits and is repeated sends more than one): a segment however old
\* is not taken for a new one.
ASSUME PairAssumption ==
  /\ Isn \in [Ends -> SeqNum]
  /\ {MSS, MAX_TCP_SIZE, MaxWindow, SendBufferSize, RecvBufferSize, MaxRetransmit,
      MaxWritten} \subseteq Nat
  /\ MSS =< MAX_TCP_SIZE
  /\ 2 * (MaxWritten + 4) =< SeqSpace
  /\ Scenarios \subseteq Scenario

VARIABLES
  scenario,   \* the one of Scenarios that is played
  listening,  \* end B has a listener for the port
  opened,     \* the ends that have called connect() or accepted
  tcb,        \* the TCB of each end
  app,        \* the application of each end
  net,        \* the segments under way, by destination
  lost,       \* how many were lost
  duplicated, \* how many were repeated
  reordered   \* how many overtook others

faults == <<lost, duplicated, reordered>>
vars == <<scenario, listening, opened, tcb, app, net, faults>>

Init ==
  /\ scenario \in Scenarios
  /\ listening = ~scenario.both_connect
  /\ opened = {}
  /\ tcb = [e \in Ends |-> NoTcb]
  /\ app = [e \in Ends |-> NewApp]
  /\ net = [e \in Ends |-> <<>>]
  /\ lost = 0 /\ duplicated = 0 /\ reordered = 0

Connects(e) == scenario.both_connect \/ e = "A"

\* The record a call at end e starts from, for an application that reacts as
\* cb and a congestion window of cwnd.
Context(e, cb, cwnd) ==
  [c |-> tcb[e], a |-> app[e], out |-> <<>>, cb |-> cb, cwnd |-> cwnd]

\* The call at end e has ended with r; q is what is still under way to e.
Return(e, r, q) ==
  /\ tcb' = [tcb EXCEPT ![e] = r.c]
  /\ app' = [app EXCEPT ![e] = r.a]
  /\ net' = [net EXCEPT ![e] = q, ![Peer(e)] = @ \o r.out]

-----------------------------------------------------------------------------

connect(e) ==
  /\ Connects(e)
  /\ e \notin opened
  /\ opened' = opened \cup {e}
  /\ LET r == send_segment(
                [Context(e, <<>>, 0) EXCEPT !.c = NewTcb(Isn[e])], {"SYN"}, 0, 0)
     IN Return(e, [r EXCEPT !.c.state = "SYN_SENT"], net[e])
  /\ UNCHANGED <<scenario, listening, faults>>

app_send(e) ==
  /\ app[e].connected /\ ~app[e].closed
  /\ \E n \in scenario.writes[e], cwnd \in scenario.cwnds :
        /\ app[e].written + n =< MaxWritten
        /\ Return(e, send(Context(e, <<>>, cwnd), n), net[e])
  /\ UNCHANGED <<scenario, listening, opened, faults>>

app_close(e) ==
  /\ e \in scenario.closers
  /\ app[e].connected /\ ~app[e].closed
  /\ \E cwnd \in scenario.cwnds : Return(e, close(Context(e, <<>>, cwnd)), net[e])
  /\ UNCHANGED <<scenario, listening, opened, faults>>

\* A segment without a TCB goes to the listener, which a reset in its window
\* ends, or is answered by a reset.  The listener accepts one connection (a
\* bound) and drops a later SYN as it does at MAX_CONNECTIONS.
on_segment_received(e, seg, q) ==
  \E cb \in scenario.reactions[e], cwnd \in scenario.cwnds :
    LET r == Context(e, cb, cwnd)
        accepts == e \notin opened /\ HasSyn(seg) /\ ~HasAck(seg)
    IN IF tcb[e].state # NONE
       THEN Return(e, handle_segment(r, seg), q) /\ UNCHANGED <<listening, opened>>
       ELSE IF listening /\ e = "B"
       THEN IF HasRst(seg)
            THEN /\ Return(e, r, q)
                 /\ listening' = ~seq_in_range(seg.seq, 0, MaxWindow)
                 /\ UNCHANGED opened
            ELSE /\ Return(e, IF accepts THEN handle_listen(r, seg, Isn[e]) ELSE r, q)
                 /\ opened' = IF accepts THEN opened \cup {e} ELSE opened
                 /\ UNCHANGED listening
       ELSE /\ Return(e, IF HasRst(seg) THEN r ELSE send_rst(r, seg), q)
            /\ UNCHANGED <<listening, opened>>

\* The queue of end e without its k-th segment.
Without(e, k) ==
  SubSeq(net[e], 1, k - 1) \o SubSeq(net[e], k + 1, Len(net[e]))

receive(e) ==
  /\ net[e] # <<>>
  /\ on_segment_received(e, Head(net[e]), Tail(net[e]))
  /\ UNCHANGED <<scenario, faults>>

receive_late(e) ==
  /\ reordered < MaxReordered
  /\ \E k \in 2..Len(net[e]) : on_segment_received(e, net[e][k], Without(e, k))
  /\ reordered' = reordered + 1
  /\ UNCHANGED <<scenario, lost, duplicated>>

receive_duplicate(e) ==
  /\ duplicated < MaxDuplicated
  /\ net[e] # <<>>
  /\ on_segment_received(e, Head(net[e]), net[e])
  /\ duplicated' = duplicated + 1
  /\ UNCHANGED <<scenario, lost, reordered>>

lose(e) ==
  /\ lost < MaxLost
  /\ net[e] # <<>>
  /\ net' = [net EXCEPT ![e] = Tail(@)]
  /\ lost' = lost + 1
  /\ UNCHANGED <<scenario, listening, opened, tcb, app, duplicated, reordered>>

\* Nothing is under way and no acknowledgement is being put off.
Quiet == /\ \A e \in Ends : net[e] = <<>>
         /\ \A e \in Ends : ~tcb[e].delayed_ack_pending

\* The timers that may have expired.  A timeout is longer than a round trip.
CanExpire(e) ==
  {t \in {"rto", "delayed_ack", "zwp", "time_wait"} :
     CASE t = "rto" -> tcb[e].retransmit_queue # <<>> /\ Quiet
       [] t = "delayed_ack" -> tcb[e].delayed_ack_pending
       [] t = "zwp" -> tcb[e].zero_window_probe_needed /\ Quiet
       [] t = "time_wait" -> tcb[e].state = "TIME_WAIT" /\ Quiet}

expire(e, due) ==
  /\ tcb[e].state # NONE
  /\ \E cb \in scenario.reactions[e], cwnd \in scenario.cwnds :
        Return(e, on_timer(Context(e, cb, cwnd), due), net[e])
  /\ UNCHANGED <<scenario, listening, opened, lost, reordered>>

timer(e) ==
  /\ \E due \in SUBSET CanExpire(e) : expire(e, due)
  /\ UNCHANGED duplicated

\* A retransmission while what it repeats, or the answer, is under way.
timer_early(e) ==
  /\ ~Quiet /\ tcb[e].retransmit_queue # <<>>
  /\ duplicated < MaxDuplicated
  /\ duplicated' = duplicated + 1
  /\ expire(e, {"rto"})

Next ==
  \E e \in Ends : \/ connect(e) \/ app_send(e) \/ app_close(e)
                  \/ receive(e) \/ receive_late(e) \/ receive_duplicate(e) \/ lose(e)
                  \/ timer(e) \/ timer_early(e)

Spec == Init /\ [][Next]_vars

\* A timer of end e will do something.
TimerDue(e) ==
  LET c == tcb[e]
  IN /\ c.state # NONE
     /\ \/ CanExpire(e) # {}
        \/ c.zero_window_probe_needed # (c.snd_wnd = 0 /\ c.send_buffer > 0)

\* A stack polls its device and its timers for ever; what the network has not
\* lost arrives.  Nothing makes an application send or close.  This is the weak
\* fairness of receive(e) and of timer(e) with their guards spelled out.
Fairness ==
  \A e \in Ends :
    /\ []<>(net[e] = <<>>) \/ []<><<receive(e)>>_vars
    /\ []<>~TimerDue(e) \/ []<><<timer(e)>>_vars

FairSpec == Spec /\ Fairness

-----------------------------------------------------------------------------
(* Properties.                                                             *)

States == {NONE, "SYN_SENT", "SYN_RCVD", "ESTABLISHED", "FIN_WAIT_1", "FIN_WAIT_2",
           "CLOSE_WAIT", "CLOSING", "LAST_ACK", "TIME_WAIT"}

\* Types and ranges of an end between two calls.
TypeOK ==
  \A e \in Ends :
    LET c == tcb[e] IN
    /\ c.state \in States
    /\ {c.snd_una, c.snd_nxt, c.rcv_nxt} \subseteq SeqNum
    /\ c.send_buffer \in 0..SendBufferSize
    /\ c.rcv_wnd \in 0..RecvBufferSize
    /\ c.dup_ack_count \in 0..2
    /\ app[e].written \in 0..MaxWritten

\* What each application is handed is what the other one wrote.
FromA == INSTANCE ByteStream WITH MaxStream <- MaxWritten,
                                  snt <- app["A"].written, rcvd <- app["B"].received
FromB == INSTANCE ByteStream WITH MaxStream <- MaxWritten,
                                  snt <- app["B"].written, rcvd <- app["A"].received
ImplementsStreams == FromA!StreamSpec /\ FromB!StreamSpec

\* A FIN is consumed only behind all the data before it: the application that
\* learns of the end has been handed everything the other one wrote.
FinAfterData ==
  \A e \in Ends : app[e].peer_fin => Len(app[e].received) = app[Peer(e)].written

\* Everything sent and not acknowledged can be sent again: the entries of the
\* retransmission queue cover snd_una to snd_nxt without a gap (and the numbers
\* are in their ranges).
QueueCoversInFlight ==
  TypeOK /\ \A e \in Ends :
    LET c == tcb[e]
        q == c.retransmit_queue
    IN c.state \notin {NONE, "TIME_WAIT"} =>
         IF q = <<>> THEN c.snd_una = c.snd_nxt
         ELSE /\ q[1].seq_start = c.snd_una
              /\ q[Len(q)].seq_end = c.snd_nxt
              /\ \A i \in 1..(Len(q) - 1) : q[i].seq_end = q[i + 1].seq_start

\* Buffered data is never left without an event that will send it: an
\* acknowledgement under way, or the zero window's probe.
NoSilentStall ==
  \A e \in Ends :
    tcb[e].send_buffer > 0 =>
      tcb[e].retransmit_queue # <<>> \/ tcb[e].snd_wnd = 0

\* The acknowledgement number never runs ahead of what was sent.
AckWithinSent == \A e \in Ends : seq_le(tcb[e].snd_una, tcb[e].snd_nxt)

\* A network that loses and reorders nothing leads to no abort.
NoSpuriousAbort ==
  lost = 0 /\ reordered = 0 => \A e \in Ends : ~app[e].aborted

\* A connection that carries data outlives losses it has the retransmissions
\* for: it is given up only after as many losses as it may retransmit.
SurvivesLoss ==
  \A e \in Ends :
    app[e].aborted /\ app[e].written > 0 => lost >= MaxRetransmit

\* Once an application closes, both ends are done and hold no TCB.
EventuallyClosed ==
  \A e \in Ends : app[e].closed ~> \A f \in Ends : tcb[f].state = NONE

\* Whatever has been written is delivered in the end.
EventuallyDelivered ==
  []<>(\A e \in Ends : Len(app[Peer(e)].received) = app[e].written)
=============================================================================

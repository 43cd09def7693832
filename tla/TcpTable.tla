------------------------------ MODULE TcpTable ------------------------------
(* The tables of the TCP layer: listeners, connections, the TIME_WAIT list,   *)
(* ephemeral ports, the active_connections gauge, and the stream wrappers     *)
(* through which the application is called (tcp_connection.cpp,               *)
(* tcp_layer.cpp).  TcpTcb and TcpPair model what one connection does with    *)
(* its sequence numbers; here a segment is only its flags and whether its     *)
(* numbers are accepted, and many connections come and go.                    *)
(*                                                                            *)
(* Two applications use the layer: a server (HttpServer) that closes its side *)
(* when it is told that the peer has closed, on every accepted connection,    *)
(* and a client (HttpClient) that does not, on the ones it opens.             *)
EXTENDS Naturals, Sequences, FiniteSets, SequencesExt

CONSTANTS Peers,           \* remote address and port
          PortSpace,       \* 65536: ports are 0 .. PortSpace - 1
          EPHEMERAL_START, \* the ephemeral ports are EPHEMERAL_START .. PortSpace - 1
          ServerPorts,     \* the ports the application listens on
          MAX_CONNECTIONS,
          MAX_TIME_WAIT_ENTRIES,
          TIME_WAIT_DURATION, \* in timer ticks
          MaxEstablished,  \* bound: connections established in a behaviour
          MaxRepeated      \* bound: FINs repeated to a TIME_WAIT connection

ASSUME TableAssumption ==
  /\ {PortSpace, MAX_TIME_WAIT_ENTRIES, TIME_WAIT_DURATION} \subseteq Nat \ {0}
  /\ EPHEMERAL_START \in 0 .. PortSpace - 1

VARIABLES listeners,         \* _listeners: the ports listened on
          accept_callbacks,  \* TCPLayer::_accept_callbacks: ports with one
          conns,             \* _connections: tuple -> TCB
          callbacks,         \* TCPLayer::_callbacks (and the wrappers), of the TCBs in
                             \* the table: entries left by a deleted TCB have its
                             \* address for key, and the next TCB there replaces them
          time_wait,         \* _time_wait_list: entries [tuple, left]
          next_port,         \* _next_ephemeral_port
          active,            \* global_metrics().active_connections
          established,       \* global_metrics().conn_established
          repeated,          \* FINs repeated so far
          forgotten,         \* history: connections that left the gauge behind
          lost               \* history: ports whose accept callback was taken away

tableVars == <<listeners, accept_callbacks, conns, callbacks, time_wait, next_port,
          active, established, repeated, forgotten, lost>>

Ports == 0 .. PortSpace - 1
Tuples == Ports \X Peers

\* The states delete_tcb and handle_rst count as once established.
Live == {"ESTABLISHED", "FIN_WAIT_1", "FIN_WAIT_2", "CLOSE_WAIT", "CLOSING",
         "LAST_ACK", "TIME_WAIT"}

States == Live \cup {"SYN_SENT", "SYN_RCVD"}

\* hooked says that the TCB's on_receive and on_close are set.
TCB == [state: States, passive: BOOLEAN, hooked: BOOLEAN, close_pending: BOOLEAN]

Entry(t) == [tuple |-> t, left |-> TIME_WAIT_DURATION]

\* The entries of a list at the places in I, in their order.
EntriesAt(list, I) ==
  [k \in 1 .. Cardinality(I) |-> list[CHOOSE i \in I : Cardinality({j \in I : j <= i}) = k]]

Without(f, ts) == [t \in DOMAIN f \ ts |-> f[t]]
With(f, t, tcb) == [u \in DOMAIN f \cup {t} |-> IF u = t THEN tcb ELSE f[u]]

In(t, states) == t \in DOMAIN conns /\ conns[t].state \in states

TableInit ==
  /\ listeners = {} /\ accept_callbacks = {} /\ callbacks = {}
  /\ conns = [t \in {} |-> {}]
  /\ time_wait = <<>>
  /\ next_port = EPHEMERAL_START
  /\ active = 0 /\ established = 0 /\ repeated = 0
  /\ forgotten = 0 /\ lost = {}

-----------------------------------------------------------------------------
\* The application.

\* The accept callback is stored first, and erased when the listen is refused:
\* a second listen on a port takes the first one's callback with it.
listen(port) ==
  /\ port \in ServerPorts
  /\ IF port \in listeners
       THEN /\ accept_callbacks' = accept_callbacks \ {port}
            /\ lost' = lost \cup {port}
            /\ UNCHANGED listeners
       ELSE /\ accept_callbacks' = accept_callbacks \cup {port}
            /\ listeners' = listeners \cup {port}
            /\ UNCHANGED lost
  /\ UNCHANGED <<conns, callbacks, time_wait, next_port, active, established,
                 repeated, forgotten>>

unlisten(port) ==
  /\ port \in listeners
  /\ accept_callbacks' = accept_callbacks \ {port}
  /\ listeners' = listeners \ {port}
  /\ lost' = lost \cup {port}
  /\ UNCHANGED <<conns, callbacks, time_wait, next_port, active, established,
                 repeated, forgotten>>

is_port_in_use(port) ==
  port \in listeners \/ \E t \in DOMAIN conns : t[1] = port

\* The i-th port tried.  The counter is a uint16_t, so the test against 65535
\* that should bring it back to EPHEMERAL_START never holds and it wraps to 0.
port_tried(i) == (next_port + i) % PortSpace

MAX_ATTEMPTS == PortSpace - EPHEMERAL_START

free_attempts == {i \in 0 .. MAX_ATTEMPTS - 1 : ~is_port_in_use(port_tried(i))}

\* How many ports are tried, and the port found: 0 when there is none.
attempts == IF free_attempts = {} THEN MAX_ATTEMPTS
            ELSE 1 + (CHOOSE i \in free_attempts : \A j \in free_attempts : i <= j)

ephemeral_port == IF free_attempts = {} THEN 0 ELSE port_tried(attempts - 1)

\* What refuses a connection: the table is full, or the tuple is in it.
refused(t) == Cardinality(DOMAIN conns) >= MAX_CONNECTIONS \/ t \in DOMAIN conns

NewTcb(state, passive) ==
  [state |-> state, passive |-> passive, hooked |-> FALSE, close_pending |-> FALSE]

\* TCPLayer::connect with local port 0; the counter moves also when it fails.
connect(peer) ==
  /\ next_port' = (next_port + attempts) % PortSpace
  /\ LET t == <<ephemeral_port, peer>> IN
     conns' = IF refused(t) THEN conns
              ELSE With(conns, t, NewTcb("SYN_SENT", FALSE))
  /\ UNCHANGED <<listeners, accept_callbacks, callbacks, time_wait, active,
                 established, repeated, forgotten, lost>>

\* TCPConnectionManager::close of a TCB, and send_buffered_data when a close is
\* pending.  flushed: the window let all of the send buffer out, and the FIN
\* with it; else the FIN waits.
closed_tcb(tcb, flushed) ==
  IF tcb.state \notin {"ESTABLISHED", "CLOSE_WAIT"} THEN tcb
  ELSE IF ~flushed THEN [tcb EXCEPT !.close_pending = TRUE]
  ELSE [tcb EXCEPT !.close_pending = FALSE,
          !.state = IF @ = "ESTABLISHED" THEN "FIN_WAIT_1" ELSE "LAST_ACK"]

\* The application closes a connection it holds, or the rest of the send buffer
\* goes out after it did.
close(t, flushed) ==
  /\ In(t, {"ESTABLISHED", "CLOSE_WAIT"})
  /\ t \in callbacks \/ (conns[t].close_pending /\ flushed)
  /\ conns' = [conns EXCEPT ![t] = closed_tcb(@, flushed)]
  /\ UNCHANGED <<listeners, accept_callbacks, callbacks, time_wait, next_port,
                 active, established, repeated, forgotten, lost>>

-----------------------------------------------------------------------------
\* Callbacks into the application.

\* The TCB's on_close, as TCPLayer sets it: the application's on_close if the
\* callbacks are still there, and they go.  The server closes from it.
notified(t, tcb, flushed) ==
  IF tcb.hooked /\ t \in callbacks /\ tcb.passive THEN closed_tcb(tcb, flushed) ELSE tcb

\* The TCB's on_connect: an accepted connection gets its callbacks from the
\* accept callback of its port, if there still is one.
connected(t) ==
  LET found == ~conns[t].passive \/ t[1] \in accept_callbacks IN
  /\ conns' = [conns EXCEPT ![t].state = "ESTABLISHED", ![t].hooked = found]
  /\ callbacks' = IF found THEN callbacks \cup {t} ELSE callbacks
  /\ established < MaxEstablished
  /\ established' = established + 1
  /\ active' = active + 1

-----------------------------------------------------------------------------
\* Segments.

\* A SYN for a listener; refused when the table is full.
handle_listen(t) ==
  /\ t \notin DOMAIN conns /\ t[1] \in listeners
  /\ Cardinality(DOMAIN conns) < MAX_CONNECTIONS
  /\ conns' = With(conns, t, NewTcb("SYN_RCVD", TRUE))
  /\ UNCHANGED <<listeners, accept_callbacks, callbacks, time_wait, next_port,
                 active, established, repeated, forgotten, lost>>

\* SYN+ACK completes the handshake; a SYN alone is a simultaneous open.
handle_syn_sent(t, ack) ==
  /\ In(t, {"SYN_SENT"})
  /\ IF ack THEN connected(t)
     ELSE /\ conns' = [conns EXCEPT ![t].state = "SYN_RCVD"]
          /\ UNCHANGED <<callbacks, active, established>>
  /\ UNCHANGED <<listeners, accept_callbacks, time_wait, next_port, repeated,
                 forgotten, lost>>

handle_syn_rcvd(t) ==
  /\ In(t, {"SYN_RCVD"})
  /\ connected(t)
  /\ UNCHANGED <<listeners, accept_callbacks, time_wait, next_port, repeated,
                 forgotten, lost>>

\* A FIN in order.  Before it, in the same segment, the application may have
\* closed from on_receive, or an ACK have let a waiting FIN out: the state that
\* left is overwritten by CLOSE_WAIT.
handle_established(t, closes, flushed) ==
  /\ In(t, {"ESTABLISHED"})
  /\ closes => t \in callbacks \/ conns[t].close_pending
  /\ LET before == IF closes THEN closed_tcb(conns[t], flushed) ELSE conns[t] IN
     conns' = [conns EXCEPT ![t] =
                 notified(t, [before EXCEPT !.state = "CLOSE_WAIT"], flushed)]
  /\ callbacks' = callbacks \ {t}
  /\ UNCHANGED <<listeners, accept_callbacks, time_wait, next_port, active,
                 established, repeated, forgotten, lost>>

\* start_time_wait_timer, once the state is TIME_WAIT: the oldest entry makes
\* room, and its connection goes with it if it is still in TIME_WAIT.  The entry
\* may be a stale one of the same tuple: then the TCB itself is deleted, and the
\* tuple of the new entry is read from freed memory.
start_time_wait_timer(t) ==
  LET waiting == [conns EXCEPT ![t].state = "TIME_WAIT"]
      full == Len(time_wait) >= MAX_TIME_WAIT_ENTRIES
      kept == IF full THEN Tail(time_wait) ELSE time_wait
      old == {u \in DOMAIN conns : /\ full /\ u = Head(time_wait).tuple
                                   /\ waiting[u].state = "TIME_WAIT"} IN
  /\ conns' = Without(waiting, old)
  /\ callbacks' = callbacks \ old
  /\ forgotten' = forgotten + Cardinality(old)
  /\ \E u \in IF t \in old THEN Tuples ELSE {t} : time_wait' = Append(kept, Entry(u))

handle_fin_wait_1(t, acked, fin) ==
  /\ In(t, {"FIN_WAIT_1"})
  /\ acked \/ fin
  /\ IF acked /\ fin THEN start_time_wait_timer(t)
     ELSE /\ conns' = [conns EXCEPT ![t].state = IF fin THEN "CLOSING" ELSE "FIN_WAIT_2"]
          /\ UNCHANGED <<callbacks, time_wait, forgotten>>
  /\ UNCHANGED <<listeners, accept_callbacks, next_port, active, established,
                 repeated, lost>>

\* The FIN in FIN_WAIT_2, or the ACK of ours in CLOSING.
handle_fin_wait_2_or_closing(t) ==
  /\ In(t, {"FIN_WAIT_2", "CLOSING"})
  /\ start_time_wait_timer(t)
  /\ UNCHANGED <<listeners, accept_callbacks, next_port, active, established,
                 repeated, lost>>

\* The state is set to CLOSED first, so delete_tcb does not lower the gauge.
handle_last_ack(t) ==
  /\ In(t, {"LAST_ACK"})
  /\ conns' = Without(conns, {t})
  /\ callbacks' = callbacks \ {t}
  /\ forgotten' = forgotten + 1
  /\ UNCHANGED <<listeners, accept_callbacks, time_wait, next_port, active,
                 established, repeated, lost>>

\* A FIN once more: the first entry of the tuple starts again.
handle_time_wait(t) ==
  /\ In(t, {"TIME_WAIT"}) /\ repeated < MaxRepeated
  /\ repeated' = repeated + 1
  /\ LET mine == {i \in DOMAIN time_wait : time_wait[i].tuple = t} IN
     IF mine = {} THEN start_time_wait_timer(t)
     ELSE /\ time_wait' = [time_wait EXCEPT
                ![CHOOSE i \in mine : \A j \in mine : i <= j] = Entry(t)]
          /\ UNCHANGED <<conns, callbacks, forgotten>>
  /\ UNCHANGED <<listeners, accept_callbacks, next_port, active, established, lost>>

\* Mutant: delete_tcb lowers the gauge as well, because the state is left alone.
handle_rst_twice(t) ==
  /\ t \in DOMAIN conns
  /\ active' = IF conns[t].state \in Live /\ active > 1 THEN active - 2 ELSE active
  /\ conns' = Without(conns, {t})
  /\ callbacks' = callbacks \ {t}
  /\ UNCHANGED <<listeners, accept_callbacks, time_wait, next_port, established,
                 repeated, forgotten, lost>>

\* A RST in the window: the gauge is lowered here, because the state is CLOSED
\* when the application is told and the TCB deleted; a close from on_close does
\* nothing then.
handle_rst(t) ==
  /\ t \in DOMAIN conns
  /\ active' = IF conns[t].state \in Live THEN active - 1 ELSE active
  /\ conns' = Without(conns, {t})
  /\ callbacks' = callbacks \ {t}
  /\ UNCHANGED <<listeners, accept_callbacks, time_wait, next_port, established,
                 repeated, forgotten, lost>>

\* The same handler for a listener's TCB, whose window is 0 .. 65535: the
\* listener goes, its accept callback stays.
handle_rst_listener(port) ==
  /\ port \in listeners
  /\ listeners' = listeners \ {port}
  /\ UNCHANGED <<accept_callbacks, conns, callbacks, time_wait, next_port, active,
                 established, repeated, forgotten, lost>>

-----------------------------------------------------------------------------
\* A round of the timer: gone are the connections whose oldest segment was sent
\* too often (their application is told first; the gauge is not lowered), and
\* those in TIME_WAIT with an entry that has run out.
Abortable == {t \in DOMAIN conns : conns[t].state \notin {"FIN_WAIT_2", "TIME_WAIT"}}

on_timer(aborted) ==
  LET aged == [i \in DOMAIN time_wait |-> [time_wait[i] EXCEPT !.left = @ - 1]]
      expired == {t \in DOMAIN conns \ aborted :
                    /\ conns[t].state = "TIME_WAIT"
                    /\ \E i \in DOMAIN aged : aged[i] = [tuple |-> t, left |-> 0]}
      gone == aborted \cup expired
      running == {i \in DOMAIN aged : aged[i].left > 0} IN
  /\ gone # {} \/ time_wait # <<>>
  /\ conns' = Without(conns, gone)
  /\ callbacks' = callbacks \ gone
  /\ forgotten' = forgotten + Cardinality({t \in gone : conns[t].state \in Live})
  /\ time_wait' = EntriesAt(aged, running)
  /\ UNCHANGED <<listeners, accept_callbacks, next_port, active, established,
                 repeated, lost>>

-----------------------------------------------------------------------------
TableNext ==
  \/ \E port \in ServerPorts : listen(port) \/ unlisten(port) \/ handle_rst_listener(port)
  \/ \E peer \in Peers : connect(peer)
  \/ \E t \in Tuples, flushed \in BOOLEAN : close(t, flushed)
  \/ \E t \in Tuples : handle_listen(t)
  \/ \E t \in DOMAIN conns, ack \in BOOLEAN : handle_syn_sent(t, ack)
  \/ \E t \in DOMAIN conns : handle_syn_rcvd(t)
  \/ \E t \in DOMAIN conns, closes, flushed \in BOOLEAN : handle_established(t, closes, flushed)
  \/ \E t \in DOMAIN conns, acked, fin \in BOOLEAN : handle_fin_wait_1(t, acked, fin)
  \/ \E t \in DOMAIN conns : handle_fin_wait_2_or_closing(t)
  \/ \E t \in DOMAIN conns : handle_last_ack(t)
  \/ \E t \in DOMAIN conns : handle_time_wait(t)
  \/ \E t \in DOMAIN conns : handle_rst(t)
  \/ \E aborted \in SUBSET Abortable : on_timer(aborted)

TableTimer == \E aborted \in SUBSET Abortable : on_timer(aborted)

TableFairness == WF_tableVars(TableTimer)

TableSpec == TableInit /\ [][TableNext]_tableVars /\ TableFairness

-----------------------------------------------------------------------------
TableTypeOK ==
  /\ listeners \subseteq ServerPorts /\ accept_callbacks \subseteq ServerPorts
  /\ DOMAIN conns \subseteq Tuples /\ \A t \in DOMAIN conns : conns[t] \in TCB
  /\ callbacks \subseteq DOMAIN conns
  /\ time_wait \in Seq([tuple : Tuples, left : 1 .. TIME_WAIT_DURATION])
  /\ Len(time_wait) <= MAX_TIME_WAIT_ENTRIES
  /\ next_port \in Ports
  /\ {active, established, repeated, forgotten} \subseteq Nat
  /\ lost \subseteq ServerPorts

LiveTuples == {t \in DOMAIN conns : conns[t].state \in Live}

\* The gauge counts the live connections and, besides them, exactly the ones
\* that ended as LAST_ACK, TIME_WAIT or too many retransmissions: a reset or an
\* abort before the handshake never moves it twice, or below what is live.
GaugeAccounts == active = Cardinality(LiveTuples) + forgotten

\* An accepted connection that could stay for ever without anyone to close it:
\* established, or closed by the peer, it has the application's callbacks or a
\* close that waits for the send buffer, unless the accept callback of its port
\* was taken away, by unlisten or by a second listen on the port.
ServerOwnsItsConnections ==
  \A t \in DOMAIN conns :
    (conns[t].passive /\ conns[t].state \in {"ESTABLISHED", "CLOSE_WAIT"}) =>
      \/ conns[t].state = "ESTABLISHED" /\ t \in callbacks
      \/ conns[t].close_pending
      \/ t[1] \in lost

\* A connection in TIME_WAIT has an entry on the list that will end it, also
\* after entries of the same tuple from before, evictions and restarts.
TimeWaitListed ==
  \A t \in DOMAIN conns : conns[t].state = "TIME_WAIT" =>
    \E i \in DOMAIN time_wait : time_wait[i].tuple = t

\* What the tables promise in every state.
TablesSound ==
  TableTypeOK /\ GaugeAccounts /\ ServerOwnsItsConnections /\ TimeWaitListed

\* TIME_WAIT ends, as long as the timer runs and the peer stops repeating its FIN.
TimeWaitEnds ==
  \A t \in Tuples : In(t, {"TIME_WAIT"}) ~> ~In(t, {"TIME_WAIT"})
=============================================================================

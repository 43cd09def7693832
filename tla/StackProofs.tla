---------------------------- MODULE StackProofs ----------------------------
(* Four parts of the stack that share no state.                                *)
(*                                                                             *)
(* The tables: the gauge, the ownership of accepted connections and the list   *)
(* of TIME_WAIT, for any ports, peers, limits and durations.  GaugeAccounts is *)
(* inductive with the finiteness of the table; ownership needs to know where a *)
(* callback can have gone: Promised follows it from the listener to the TCB in *)
(* SYN_RCVD to the wrapper; TimeWaitListed needs every entry to have time left *)
(* and the list kept in order when entries leave it (EntriesAtAll).            *)
(*                                                                             *)
(* The window: limited and moved the right way, for every segment size, limit  *)
(* and width of the integers that WindowAssumption admits, and whatever        *)
(* CUBIC's curve gives.                                                        *)
(*                                                                             *)
(* The facade: nothing of the device is left with the system, for every        *)
(* configuration, step of opening that fails and batch; the invariant says     *)
(* that the object knows at every step of all that it was given.               *)
(*                                                                             *)
(* The network: no ICMP error about an ICMP error, for any hosts and packets;  *)
(* the invariant is what may travel at all.                                    *)
EXTENDS TcpTable, CongestionControl, NeuStack, Network, FiniteSetTheorems, SequenceTheorems,
        TLAPS

\* The table is finite, and the layer calls back only for connections in it.
Tabled ==
  /\ IsFiniteSet(DOMAIN conns) /\ \A t \in DOMAIN conns : conns[t] \in TCB
  /\ callbacks \subseteq DOMAIN conns
  /\ forgotten \in Nat

\* What the server may count on for a connection t it accepted, of which kept
\* says that it has callbacks: the callback of the port until it is established,
\* its own from then until the peer closes, and then a close that waits; or the
\* callback of the port was taken away.
Kept(t, tcb, kept) ==
  /\ tcb.state = "SYN_SENT" => ~tcb.passive
  /\ tcb.passive =>
       \/ t[1] \in lost
       \/ tcb.state = "SYN_RCVD" /\ t[1] \in accept_callbacks
       \/ tcb.state = "ESTABLISHED" /\ kept /\ tcb.hooked
       \/ tcb.state = "CLOSE_WAIT" /\ tcb.close_pending
       \/ tcb.state \notin {"SYN_RCVD", "ESTABLISHED", "CLOSE_WAIT"}

Promised ==
  /\ listeners \subseteq accept_callbacks \cup lost
  /\ \A t \in DOMAIN conns : Kept(t, conns[t], t \in callbacks)

TableInv == Tabled /\ Promised /\ GaugeAccounts

-----------------------------------------------------------------------------
LEMMA TableStarts == TableInit => TableInv
<1> SUFFICES ASSUME TableInit PROVE TableInv
  OBVIOUS
<1>1. DOMAIN conns = {} /\ LiveTuples = {}
  BY DEF TableInit, LiveTuples
<1> QED BY <1>1, FS_EmptySet DEF TableInit, TableInv, Tabled, Promised, GaugeAccounts

\* The live connections are finitely many, and so are any that leave.
LEMMA Counting ==
  ASSUME Tabled, NEW T \in SUBSET LiveTuples
  PROVE  /\ IsFiniteSet(LiveTuples) /\ Cardinality(LiveTuples) \in Nat
         /\ Cardinality(T) \in Nat
         /\ Cardinality(LiveTuples \ T) = Cardinality(LiveTuples) - Cardinality(T)
<1>1. IsFiniteSet(LiveTuples) /\ Cardinality(LiveTuples) \in Nat
  BY FS_Subset, FS_CardinalityType DEF Tabled, LiveTuples
<1>2. IsFiniteSet(T) /\ Cardinality(T) \in Nat
  BY <1>1, FS_Subset, FS_CardinalityType
<1>3. LiveTuples \cap T = T
  OBVIOUS
<1> QED BY <1>1, <1>2, <1>3, FS_Difference

\* A close leaves a connection live, and one that the peer has closed either
\* finished with it or waiting to.
LEMMA ClosedTcb ==
  ASSUME NEW tcb \in TCB, NEW flushed \in BOOLEAN
  PROVE  LET c == closed_tcb(tcb, flushed) IN
         /\ c \in TCB /\ c.passive = tcb.passive /\ c.hooked = tcb.hooked
         /\ c.state \in Live <=> tcb.state \in Live
         /\ tcb.state = "CLOSE_WAIT" =>
              c.state = "LAST_ACK" \/ (c.state = "CLOSE_WAIT" /\ c.close_pending)
         /\ tcb.state = "ESTABLISHED" => c.state \in {"ESTABLISHED", "FIN_WAIT_1"}
         /\ tcb.state \notin {"ESTABLISHED", "CLOSE_WAIT"} => c = tcb
BY DEF TCB, States, Live, closed_tcb

-----------------------------------------------------------------------------
\* Listeners come and go: a port that loses its callback is remembered.
LEMMA ListenersKept ==
  ASSUME TableInv, NEW port, listen(port) \/ unlisten(port) \/ handle_rst_listener(port)
  PROVE  TableInv'
<1>1. UNCHANGED <<conns, callbacks, active, forgotten>> /\ LiveTuples' = LiveTuples
  BY DEF listen, unlisten, handle_rst_listener, LiveTuples
<1>2. /\ accept_callbacks \subseteq accept_callbacks' \cup lost' /\ lost \subseteq lost'
      /\ listeners' \subseteq accept_callbacks' \cup lost'
  BY DEF listen, unlisten, handle_rst_listener, TableInv, Promised
<1>3. Promised'
  BY <1>1, <1>2 DEF TableInv, Promised, Kept
<1> QED BY <1>1, <1>3 DEF TableInv, Tabled, GaugeAccounts

\* A new TCB is not live, and one for a listener has its port's callback.
LEMMA Added ==
  ASSUME TableInv, NEW t, t \notin DOMAIN conns, NEW tcb \in TCB,
         conns' = With(conns, t, tcb), tcb.state \in {"SYN_SENT", "SYN_RCVD"},
         tcb.state = "SYN_SENT" => ~tcb.passive, tcb.passive => t[1] \in listeners,
         UNCHANGED <<listeners, accept_callbacks, callbacks, active, forgotten, lost>>
  PROVE  TableInv'
<1>1. /\ DOMAIN conns' = DOMAIN conns \cup {t} /\ conns'[t] = tcb
      /\ \A u \in DOMAIN conns : conns'[u] = conns[u] /\ u # t
  BY DEF With
<1>2. Tabled'
  BY <1>1, FS_AddElement DEF TableInv, Tabled
<1>3. Promised'
  <2>1. ASSUME NEW u \in DOMAIN conns PROVE Kept(u, conns[u], u \in callbacks)'
    BY <1>1, <2>1 DEF TableInv, Promised, Kept
  <2>2. Kept(t, tcb, t \in callbacks)'
    BY DEF TableInv, Promised, Kept
  <2> QED BY <1>1, <2>1, <2>2 DEF TableInv, Promised, Kept
<1>4. LiveTuples' = LiveTuples
  BY <1>1 DEF LiveTuples, Live
<1> QED BY <1>2, <1>3, <1>4 DEF TableInv, GaugeAccounts

LEMMA ConnectKept ==
  ASSUME TableInv, NEW peer, connect(peer)
  PROVE  TableInv'
<1> DEFINE t == <<ephemeral_port, peer>>
           tcb == NewTcb("SYN_SENT", FALSE)
<1>1. UNCHANGED <<listeners, accept_callbacks, callbacks, active, forgotten, lost>>
      /\ conns' = IF refused(t) THEN conns ELSE With(conns, t, tcb)
  BY DEF connect
<1>2. CASE refused(t)
  <2>1. UNCHANGED conns /\ LiveTuples' = LiveTuples
    BY <1>1, <1>2 DEF LiveTuples
  <2> QED BY <1>1, <2>1 DEF TableInv, Tabled, Promised, Kept, GaugeAccounts
<1>3. CASE ~refused(t)
  <2>1. t \notin DOMAIN conns /\ tcb \in TCB /\ tcb.state = "SYN_SENT" /\ ~tcb.passive
    BY <1>3 DEF refused, NewTcb, TCB, States
  <2> HIDE DEF t, tcb
  <2> QED BY <1>1, <1>3, <2>1, Added
<1> QED BY <1>2, <1>3

LEMMA ListenKept ==
  ASSUME TableInv, NEW t, handle_listen(t)
  PROVE  TableInv'
<1> DEFINE tcb == NewTcb("SYN_RCVD", TRUE)
<1>1. /\ t \notin DOMAIN conns /\ t[1] \in listeners /\ conns' = With(conns, t, tcb)
      /\ UNCHANGED <<listeners, accept_callbacks, callbacks, active, forgotten, lost>>
  BY DEF handle_listen
<1>2. tcb \in TCB /\ tcb.state = "SYN_RCVD"
  BY DEF NewTcb, TCB, States
<1> HIDE DEF tcb
<1> QED BY <1>1, <1>2, Added

-----------------------------------------------------------------------------
\* A TCB that changes and stays, live or not as it was.
LEMMA Changed ==
  ASSUME TableInv, NEW t \in DOMAIN conns, NEW tcb \in TCB,
         conns' = [conns EXCEPT ![t] = tcb],
         tcb.state \in Live <=> conns[t].state \in Live,
         callbacks' \subseteq DOMAIN conns,
         \A u \in DOMAIN conns \ {t} : u \in callbacks' <=> u \in callbacks,
         Kept(t, tcb, t \in callbacks'),
         UNCHANGED <<listeners, accept_callbacks, active, forgotten, lost>>
  PROVE  TableInv'
<1>1. /\ DOMAIN conns' = DOMAIN conns /\ conns'[t] = tcb
      /\ \A u \in DOMAIN conns \ {t} : conns'[u] = conns[u]
  OBVIOUS
<1>2. Tabled'
  BY <1>1 DEF TableInv, Tabled
<1>3. Promised'
  <2>1. ASSUME NEW u \in DOMAIN conns \ {t} PROVE Kept(u, conns[u], u \in callbacks)'
    BY <1>1, <2>1 DEF TableInv, Promised, Kept
  <2>2. Kept(t, conns[t], t \in callbacks)'
    BY <1>1 DEF Kept
  <2> QED BY <1>1, <2>1, <2>2 DEF TableInv, Promised
<1>4. LiveTuples' = LiveTuples
  BY <1>1 DEF LiveTuples
<1> QED BY <1>2, <1>3, <1>4 DEF TableInv, GaugeAccounts

LEMMA CloseKept ==
  ASSUME TableInv, NEW t \in Tuples, NEW flushed \in BOOLEAN, close(t, flushed)
  PROVE  TableInv'
<1> DEFINE c == closed_tcb(conns[t], flushed)
<1>1. /\ t \in DOMAIN conns /\ conns[t].state \in {"ESTABLISHED", "CLOSE_WAIT"}
      /\ conns' = [conns EXCEPT ![t] = c]
      /\ UNCHANGED <<listeners, accept_callbacks, callbacks, active, forgotten, lost>>
  BY DEF close, In
<1>2. conns[t] \in TCB /\ callbacks \subseteq DOMAIN conns /\ Kept(t, conns[t], t \in callbacks)
  BY <1>1 DEF TableInv, Tabled, Promised
<1>3. /\ c \in TCB /\ c.passive = conns[t].passive /\ c.hooked = conns[t].hooked
      /\ c.state \in Live <=> conns[t].state \in Live
      /\ conns[t].state = "CLOSE_WAIT" =>
           c.state = "LAST_ACK" \/ (c.state = "CLOSE_WAIT" /\ c.close_pending)
      /\ conns[t].state = "ESTABLISHED" => c.state \in {"ESTABLISHED", "FIN_WAIT_1"}
  BY <1>2, ClosedTcb
<1> HIDE DEF c
<1>4. Kept(t, c, t \in callbacks')
  BY <1>1, <1>2, <1>3 DEF Kept
<1> QED BY <1>1, <1>2, <1>3, <1>4, Changed

\* The peer's FIN: the server closes at once what it holds.
LEMMA EstablishedKept ==
  ASSUME TableInv, NEW t \in DOMAIN conns, NEW closes \in BOOLEAN, NEW flushed \in BOOLEAN,
         handle_established(t, closes, flushed)
  PROVE  TableInv'
<1> DEFINE before == IF closes THEN closed_tcb(conns[t], flushed) ELSE conns[t]
           waits == [before EXCEPT !.state = "CLOSE_WAIT"]
           after == notified(t, waits, flushed)
<1>1. /\ conns[t].state = "ESTABLISHED" /\ conns' = [conns EXCEPT ![t] = after]
      /\ callbacks' = callbacks \ {t}
      /\ UNCHANGED <<listeners, accept_callbacks, active, forgotten, lost>>
  BY DEF handle_established, In
<1>2. conns[t] \in TCB /\ callbacks \subseteq DOMAIN conns /\ Kept(t, conns[t], t \in callbacks)
  BY DEF TableInv, Tabled, Promised
<1>3. before \in TCB /\ before.passive = conns[t].passive /\ before.hooked = conns[t].hooked
  BY <1>2, ClosedTcb
<1> HIDE DEF before
<1>4. /\ waits \in TCB /\ waits.state = "CLOSE_WAIT"
      /\ waits.passive = conns[t].passive /\ waits.hooked = conns[t].hooked
  BY <1>3 DEF TCB, States, Live
<1> HIDE DEF waits
<1>5. CASE waits.hooked /\ t \in callbacks /\ waits.passive
  <2>1. after = closed_tcb(waits, flushed)
    BY <1>5 DEF notified
  <2>2. /\ after \in TCB /\ after.passive = waits.passive
        /\ after.state = "LAST_ACK" \/ (after.state = "CLOSE_WAIT" /\ after.close_pending)
    BY <1>4, <2>1, ClosedTcb
  <2> HIDE DEF after
  <2>3. Kept(t, after, t \in callbacks')
    BY <2>2 DEF Kept
  <2>4. after.state \in Live /\ conns[t].state \in Live
    BY <1>1, <2>2 DEF Live
  <2> QED BY <1>1, <1>2, <2>2, <2>3, <2>4, Changed
<1>6. CASE ~(waits.hooked /\ t \in callbacks /\ waits.passive)
  <2>1. after = waits
    BY <1>6 DEF notified
  <2> HIDE DEF after
  <2>2. Kept(t, after, t \in callbacks')
    BY <1>1, <1>2, <1>4, <1>6, <2>1 DEF Kept
  <2>3. after \in TCB /\ after.state \in Live /\ conns[t].state \in Live
    BY <1>1, <1>4, <2>1 DEF Live
  <2> QED BY <1>1, <1>2, <2>2, <2>3, Changed
<1> QED BY <1>5, <1>6

\* The handshake ends: the connection is live and counted.
LEMMA ConnectedKept ==
  ASSUME TableInv, NEW t \in DOMAIN conns, connected(t),
         conns[t].state \in {"SYN_SENT", "SYN_RCVD"},
         UNCHANGED <<listeners, accept_callbacks, forgotten, lost>>
  PROVE  TableInv'
<1> DEFINE found == ~conns[t].passive \/ t[1] \in accept_callbacks
<1>1. /\ conns' = [conns EXCEPT ![t].state = "ESTABLISHED", ![t].hooked = found]
      /\ callbacks' = IF found THEN callbacks \cup {t} ELSE callbacks
      /\ active' = active + 1
  BY DEF connected
<1>2. conns[t] \in TCB /\ callbacks \subseteq DOMAIN conns /\ Kept(t, conns[t], t \in callbacks)
  BY DEF TableInv, Tabled, Promised
<1>3. /\ DOMAIN conns' = DOMAIN conns /\ conns'[t] \in TCB /\ conns'[t].state = "ESTABLISHED"
      /\ conns'[t].passive = conns[t].passive /\ conns'[t].hooked = found
      /\ \A u \in DOMAIN conns \ {t} : conns'[u] = conns[u]
  BY <1>1, <1>2 DEF TCB, States, Live
<1>4. Tabled'
  BY <1>1, <1>3 DEF TableInv, Tabled
<1>5. Promised'
  <2>1. ASSUME NEW u \in DOMAIN conns \ {t} PROVE Kept(u, conns[u], u \in callbacks)'
    BY <1>1, <1>3, <2>1 DEF TableInv, Promised, Kept
  <2>2. Kept(t, conns[t], t \in callbacks)'
    BY <1>1, <1>2, <1>3 DEF Kept
  <2> QED BY <1>3, <2>1, <2>2 DEF TableInv, Promised
<1>6. GaugeAccounts'
  <2>1. LiveTuples' = LiveTuples \cup {t} /\ t \notin LiveTuples
    BY <1>3 DEF LiveTuples, Live
  <2>2. IsFiniteSet(LiveTuples) /\ Cardinality(LiveTuples) \in Nat /\ forgotten \in Nat
    BY Counting DEF TableInv, Tabled
  <2>3. Cardinality(LiveTuples') = Cardinality(LiveTuples) + 1
    BY <2>1, <2>2, FS_AddElement
  <2> QED BY <1>1, <2>2, <2>3 DEF TableInv, GaugeAccounts
<1> QED BY <1>4, <1>5, <1>6 DEF TableInv

-----------------------------------------------------------------------------
\* Connections that leave: what is live of them leaves the gauge or stays on it
\* as forgotten.  The others change no more than their state does.
LEMMA Deleted ==
  ASSUME TableInv, NEW gone \in SUBSET DOMAIN conns,
         DOMAIN conns' = DOMAIN conns \ gone,
         \A u \in DOMAIN conns \ gone :
           conns'[u] = conns[u] \/ (/\ conns[u].state \in Live /\ conns'[u] \in TCB
                                    /\ conns'[u].state = "TIME_WAIT"),
         callbacks' = callbacks \ gone, forgotten' \in Nat,
         active' = Cardinality(LiveTuples \ gone) + forgotten',
         UNCHANGED <<listeners, accept_callbacks, lost>>
  PROVE  TableInv'
<1>1. Tabled'
  <2>1. IsFiniteSet(DOMAIN conns')
    BY FS_Subset DEF TableInv, Tabled
  <2> QED BY <2>1 DEF TableInv, Tabled
<1>2. Promised'
  <2>1. ASSUME NEW u \in DOMAIN conns' PROVE Kept(u, conns[u], u \in callbacks)'
    <3>1. CASE conns'[u] = conns[u]
      BY <2>1, <3>1 DEF TableInv, Promised, Kept
    <3>2. CASE conns'[u].state = "TIME_WAIT"
      BY <3>2 DEF Kept
    <3> QED BY <2>1, <3>1, <3>2
  <2> QED BY <2>1 DEF TableInv, Promised
<1>3. LiveTuples' = LiveTuples \ gone
  <2>1. \A u \in DOMAIN conns \ gone : conns'[u].state \in Live <=> conns[u].state \in Live
    BY DEF Live
  <2> QED BY <2>1 DEF LiveTuples
<1> QED BY <1>1, <1>2, <1>3 DEF TableInv, GaugeAccounts

\* With only what is live counted out, of a set of connections that leave.
LEMMA Outs ==
  ASSUME TableInv, NEW gone \in SUBSET DOMAIN conns, NEW T, T = {u \in gone : conns[u].state \in Live}
  PROVE  /\ Cardinality(T) \in Nat
         /\ active = Cardinality(LiveTuples \ gone) + forgotten + Cardinality(T)
<1>1. T \in SUBSET LiveTuples /\ LiveTuples \ gone = LiveTuples \ T
  BY DEF LiveTuples
<1>2. /\ Cardinality(LiveTuples) \in Nat /\ Cardinality(T) \in Nat
      /\ Cardinality(LiveTuples \ T) = Cardinality(LiveTuples) - Cardinality(T)
  BY <1>1, Counting DEF TableInv
<1>3. forgotten \in Nat /\ active = Cardinality(LiveTuples) + forgotten
  BY DEF TableInv, Tabled, GaugeAccounts
<1>4. Cardinality(LiveTuples \ gone) = Cardinality(LiveTuples \ T)
  BY <1>1
<1> DEFINE all == Cardinality(LiveTuples)
           rest == Cardinality(LiveTuples \ gone)
           leaving == Cardinality(T)
<1>5. all \in Nat /\ leaving \in Nat /\ rest = all - leaving /\ active = all + forgotten
  BY <1>2, <1>3, <1>4
<1> HIDE DEF all, rest, leaving
<1>6. active = rest + forgotten + leaving
  BY <1>3, <1>5
<1> QED BY <1>2, <1>6 DEF rest, leaving

LEMMA TimeWaitStartKept ==
  ASSUME TableInv, NEW t \in DOMAIN conns, conns[t].state \in Live, start_time_wait_timer(t),
         UNCHANGED <<listeners, accept_callbacks, active, lost>>
  PROVE  TableInv'
<1> DEFINE waiting == [conns EXCEPT ![t].state = "TIME_WAIT"]
           full == Len(time_wait) >= MAX_TIME_WAIT_ENTRIES
           old == {u \in DOMAIN conns : /\ full /\ u = Head(time_wait).tuple
                                        /\ waiting[u].state = "TIME_WAIT"}
<1>1. /\ conns' = Without(waiting, old) /\ callbacks' = callbacks \ old
      /\ forgotten' = forgotten + Cardinality(old)
  BY DEF start_time_wait_timer
<1>2. /\ DOMAIN waiting = DOMAIN conns /\ waiting[t] \in TCB /\ waiting[t].state = "TIME_WAIT"
      /\ \A u \in DOMAIN conns \ {t} : waiting[u] = conns[u]
  BY DEF TableInv, Tabled, TCB, States, Live
<1>3. old \in SUBSET DOMAIN conns /\ old = {u \in old : conns[u].state \in Live}
  BY <1>2 DEF Live
<1> HIDE DEF waiting, old
<1>4. Cardinality(old) \in Nat
      /\ active = Cardinality(LiveTuples \ old) + forgotten + Cardinality(old)
  BY <1>3, Outs
<1>5. forgotten' \in Nat /\ active' = Cardinality(LiveTuples \ old) + forgotten'
  <2>1. forgotten \in Nat /\ Cardinality(LiveTuples) \in Nat
    BY Counting DEF TableInv, Tabled
  <2>2. Cardinality(LiveTuples \ old) \in Nat
    BY Counting, FS_Subset, FS_CardinalityType DEF TableInv
  <2> QED BY <1>1, <1>4, <2>1, <2>2
<1>6. /\ DOMAIN conns' = DOMAIN conns \ old
      /\ \A u \in DOMAIN conns \ old : conns'[u] = waiting[u]
  BY <1>1, <1>2 DEF Without
<1>7. \A u \in DOMAIN conns \ old :
        conns'[u] = conns[u] \/ (/\ conns[u].state \in Live /\ conns'[u] \in TCB
                                 /\ conns'[u].state = "TIME_WAIT")
  BY <1>2, <1>6
<1> QED BY <1>1, <1>3, <1>5, <1>6, <1>7, Deleted

LEMMA FinWait1Kept ==
  ASSUME TableInv, NEW t \in DOMAIN conns, NEW fin_acked \in BOOLEAN, NEW fin \in BOOLEAN,
         handle_fin_wait_1(t, fin_acked, fin)
  PROVE  TableInv'
<1>1. conns[t].state = "FIN_WAIT_1" /\ UNCHANGED <<listeners, accept_callbacks, active, lost>>
  BY DEF handle_fin_wait_1, In
<1>2. CASE fin_acked /\ fin
  <2>1. start_time_wait_timer(t)
    BY <1>2 DEF handle_fin_wait_1
  <2>2. conns[t].state \in Live
    BY <1>1 DEF Live
  <2> QED BY <1>1, <2>1, <2>2, TimeWaitStartKept
<1>3. CASE ~(fin_acked /\ fin)
  <2> DEFINE tcb == [conns[t] EXCEPT !.state = IF fin THEN "CLOSING" ELSE "FIN_WAIT_2"]
  <2>1. conns' = [conns EXCEPT ![t] = tcb] /\ UNCHANGED <<callbacks, forgotten>>
    BY <1>3 DEF handle_fin_wait_1
  <2>2. conns[t] \in TCB /\ callbacks \subseteq DOMAIN conns
    BY DEF TableInv, Tabled
  <2>3. tcb \in TCB /\ tcb.state \in {"CLOSING", "FIN_WAIT_2"}
    BY <2>2 DEF TCB, States, Live
  <2>4. (tcb.state \in Live <=> conns[t].state \in Live) /\ Kept(t, tcb, t \in callbacks')
    BY <1>1, <2>3 DEF Live, Kept
  <2> HIDE DEF tcb
  <2> QED BY <1>1, <2>1, <2>2, <2>3, <2>4, Changed
<1> QED BY <1>2, <1>3

LEMMA FinWait2Kept ==
  ASSUME TableInv, NEW t \in DOMAIN conns, handle_fin_wait_2_or_closing(t)
  PROVE  TableInv'
<1>1. /\ conns[t].state \in Live /\ start_time_wait_timer(t)
      /\ UNCHANGED <<listeners, accept_callbacks, active, lost>>
  BY DEF handle_fin_wait_2_or_closing, In, Live
<1> QED BY <1>1, TimeWaitStartKept

LEMMA TimeWaitKept ==
  ASSUME TableInv, NEW t \in DOMAIN conns, handle_time_wait(t)
  PROVE  TableInv'
<1>1. conns[t].state \in Live /\ UNCHANGED <<listeners, accept_callbacks, active, lost>>
  BY DEF handle_time_wait, In, Live
<1>2. start_time_wait_timer(t) \/ UNCHANGED <<conns, callbacks, forgotten>>
  BY DEF handle_time_wait
<1>3. CASE UNCHANGED <<conns, callbacks, forgotten>>
  <2>1. LiveTuples' = LiveTuples
    BY <1>3 DEF LiveTuples
  <2> QED BY <1>1, <1>3, <2>1 DEF TableInv, Tabled, Promised, Kept, GaugeAccounts
<1> QED BY <1>1, <1>2, <1>3, TimeWaitStartKept

\* One connection leaves, by the last ACK or a RST.
LEMMA OneDeleted ==
  ASSUME TableInv, NEW t \in DOMAIN conns, handle_last_ack(t) \/ handle_rst(t)
  PROVE  TableInv'
<1> DEFINE T == {u \in {t} : conns[u].state \in Live}
           rest == Cardinality(LiveTuples \ {t})
<1>1. /\ conns' = Without(conns, {t}) /\ callbacks' = callbacks \ {t}
      /\ UNCHANGED <<listeners, accept_callbacks, lost>>
  BY DEF handle_last_ack, handle_rst
<1>2. /\ Cardinality(T) \in Nat /\ active = rest + forgotten + Cardinality(T)
  BY Outs
<1>3. Cardinality(T) = IF conns[t].state \in Live THEN 1 ELSE 0
  <2>1. CASE conns[t].state \in Live
    <3>1. T = {t}
      BY <2>1
    <3> QED BY <2>1, <3>1, FS_Singleton
  <2>2. CASE conns[t].state \notin Live
    <3>1. T = {}
      BY <2>2
    <3> QED BY <2>2, <3>1, FS_EmptySet
  <2> QED BY <2>1, <2>2
<1>4. rest \in Nat /\ forgotten \in Nat
  BY Counting, FS_Subset, FS_CardinalityType DEF TableInv, Tabled
<1> HIDE DEF T, rest
<1>5. forgotten' \in Nat /\ active' = rest + forgotten'
  <2>1. CASE handle_last_ack(t)
    <3>1. conns[t].state \in Live /\ forgotten' = forgotten + 1 /\ active' = active
      BY <2>1 DEF handle_last_ack, In, Live
    <3> QED BY <1>2, <1>3, <1>4, <3>1
  <2>2. CASE handle_rst(t)
    <3>1. forgotten' = forgotten
          /\ active' = IF conns[t].state \in Live THEN active - 1 ELSE active
      BY <2>2 DEF handle_rst
    <3> QED BY <1>2, <1>3, <1>4, <3>1
  <2> QED BY <2>1, <2>2
<1>6. /\ DOMAIN conns' = DOMAIN conns \ {t}
      /\ \A u \in DOMAIN conns \ {t} : conns'[u] = conns[u]
  BY <1>1 DEF Without
<1> QED BY <1>1, <1>5, <1>6, Deleted DEF rest

\* The timer: aborted connections and expired ones leave, and stay on the gauge.
LEMMA TimerKept ==
  ASSUME TableInv, NEW aborted \in SUBSET Abortable, on_timer(aborted)
  PROVE  TableInv'
<1>1. PICK gone \in SUBSET DOMAIN conns :
        /\ conns' = Without(conns, gone) /\ callbacks' = callbacks \ gone
        /\ forgotten' = forgotten + Cardinality({t \in gone : conns[t].state \in Live})
        /\ UNCHANGED <<listeners, accept_callbacks, active, lost>>
  <2> DEFINE aged == [i \in DOMAIN time_wait |-> [time_wait[i] EXCEPT !.left = @ - 1]]
             expired == {t \in DOMAIN conns \ aborted :
                    /\ conns[t].state = "TIME_WAIT"
                    /\ \E i \in DOMAIN aged : aged[i] = [tuple |-> t, left |-> 0]}
  <2>1. aborted \cup expired \in SUBSET DOMAIN conns
    BY DEF Abortable
  <2> QED BY <2>1 DEF on_timer
<1> DEFINE T == {t \in gone : conns[t].state \in Live}
           rest == Cardinality(LiveTuples \ gone)
<1>2. /\ Cardinality(T) \in Nat /\ active = rest + forgotten + Cardinality(T)
  BY Outs
<1>3. rest \in Nat /\ forgotten \in Nat
  BY Counting, FS_Subset, FS_CardinalityType DEF TableInv, Tabled
<1>4. forgotten' = forgotten + Cardinality(T) /\ active' = active
  BY <1>1
<1> HIDE DEF T, rest
<1>5. forgotten' \in Nat /\ active' = rest + forgotten'
  BY <1>2, <1>3, <1>4
<1>6. /\ DOMAIN conns' = DOMAIN conns \ gone
      /\ \A u \in DOMAIN conns \ gone : conns'[u] = conns[u]
  BY <1>1 DEF Without
<1> QED BY <1>1, <1>5, <1>6, Deleted DEF rest

-----------------------------------------------------------------------------
LEMMA TableStep == TableInv /\ [TableNext]_tableVars => TableInv'
<1> SUFFICES ASSUME TableInv, [TableNext]_tableVars PROVE TableInv'
  OBVIOUS
<1>1. ASSUME NEW port \in ServerPorts,
             listen(port) \/ unlisten(port) \/ handle_rst_listener(port)
      PROVE  TableInv'
  BY <1>1, ListenersKept
<1>2. ASSUME NEW peer \in Peers, connect(peer) PROVE TableInv'
  BY <1>2, ConnectKept
<1>3. ASSUME NEW t \in Tuples, NEW flushed \in BOOLEAN, close(t, flushed) PROVE TableInv'
  BY <1>3, CloseKept
<1>4. ASSUME NEW t \in Tuples, handle_listen(t) PROVE TableInv'
  BY <1>4, ListenKept
<1>5. ASSUME NEW t \in DOMAIN conns, NEW ack \in BOOLEAN, handle_syn_sent(t, ack)
      PROVE  TableInv'
  <2>1. conns[t].state = "SYN_SENT" /\ UNCHANGED <<listeners, accept_callbacks, forgotten, lost>>
    BY <1>5 DEF handle_syn_sent, In
  <2>2. CASE ack
    BY <1>5, <2>1, <2>2, ConnectedKept DEF handle_syn_sent
  <2>3. CASE ~ack
    <3> DEFINE tcb == [conns[t] EXCEPT !.state = "SYN_RCVD"]
    <3>1. conns' = [conns EXCEPT ![t] = tcb] /\ UNCHANGED <<callbacks, active>>
      BY <1>5, <2>3 DEF handle_syn_sent
    <3>2. conns[t] \in TCB /\ callbacks \subseteq DOMAIN conns /\ Kept(t, conns[t], t \in callbacks)
      BY DEF TableInv, Tabled, Promised
    <3>3. tcb \in TCB /\ tcb.state = "SYN_RCVD" /\ tcb.passive = conns[t].passive
      BY <3>2 DEF TCB, States
    <3>4. (tcb.state \in Live <=> conns[t].state \in Live) /\ Kept(t, tcb, t \in callbacks')
      BY <2>1, <3>2, <3>3 DEF Live, Kept
    <3> HIDE DEF tcb
    <3> QED BY <2>1, <3>1, <3>2, <3>3, <3>4, Changed
  <2> QED BY <2>2, <2>3
<1>6. ASSUME NEW t \in DOMAIN conns, handle_syn_rcvd(t) PROVE TableInv'
  <2>1. /\ conns[t].state = "SYN_RCVD" /\ connected(t)
        /\ UNCHANGED <<listeners, accept_callbacks, forgotten, lost>>
    BY <1>6 DEF handle_syn_rcvd, In
  <2> QED BY <2>1, ConnectedKept
<1>7. ASSUME NEW t \in DOMAIN conns, NEW closes \in BOOLEAN, NEW flushed \in BOOLEAN,
             handle_established(t, closes, flushed)
      PROVE  TableInv'
  BY <1>7, EstablishedKept
<1>8. ASSUME NEW t \in DOMAIN conns, NEW fin_acked \in BOOLEAN, NEW fin \in BOOLEAN,
             handle_fin_wait_1(t, fin_acked, fin)
      PROVE  TableInv'
  BY <1>8, FinWait1Kept
<1>9. ASSUME NEW t \in DOMAIN conns, handle_fin_wait_2_or_closing(t) PROVE TableInv'
  BY <1>9, FinWait2Kept
<1>10. ASSUME NEW t \in DOMAIN conns, handle_last_ack(t) \/ handle_rst(t) PROVE TableInv'
  BY <1>10, OneDeleted
<1>11. ASSUME NEW t \in DOMAIN conns, handle_time_wait(t) PROVE TableInv'
  BY <1>11, TimeWaitKept
<1>12. ASSUME NEW aborted \in SUBSET Abortable, on_timer(aborted) PROVE TableInv'
  BY <1>12, TimerKept
<1>13. CASE UNCHANGED tableVars
  <2>1. UNCHANGED <<listeners, accept_callbacks, conns, callbacks, active, forgotten, lost>>
    BY <1>13 DEF tableVars
  <2>2. LiveTuples' = LiveTuples
    BY <2>1 DEF LiveTuples
  <2> QED BY <2>1, <2>2 DEF TableInv, Tabled, Promised, Kept, GaugeAccounts
<1> QED BY <1>1, <1>2, <1>3, <1>4, <1>5, <1>6, <1>7, <1>8, <1>9, <1>10, <1>11, <1>12, <1>13
        DEF TableNext

-----------------------------------------------------------------------------
(* The list of TIME_WAIT entries.  That a connection in TIME_WAIT is on it     *)
(* needs the entries to have time left, so that a round of the timer leaves an *)
(* entry or ends its connection, and nothing of the other tables.              *)

Entries == [tuple : Tuples, left : 1 .. TIME_WAIT_DURATION]

ListInv ==
  /\ DOMAIN conns \subseteq Tuples
  /\ time_wait \in Seq(Entries) /\ Len(time_wait) <= MAX_TIME_WAIT_ENTRIES
  /\ TimeWaitListed

\* The ports, the counters and the ports' callbacks keep to their ranges.
OthersTyped ==
  /\ listeners \subseteq ServerPorts /\ accept_callbacks \subseteq ServerPorts
  /\ lost \subseteq ServerPorts
  /\ next_port \in Ports /\ established \in Nat /\ repeated \in Nat

\* A nonempty set of natural numbers has a least one.
LEMMA LeastNat ==
  ASSUME NEW T \in SUBSET Nat, T # {}
  PROVE  \E x \in T : \A y \in T : x <= y
<1>1. PICK x \in T : \A y \in T : ~(<<y, x>> \in OpToRel(<, Nat))
  BY NatLessThanWellFounded, WFMin
<1>2. ASSUME NEW y \in T PROVE x <= y
  <2>1. x \in Nat /\ y \in Nat
    OBVIOUS
  <2>2. y < x => <<y, x>> \in OpToRel(<, Nat)
    <3>1. y < x => <<y, x>>[1] < <<y, x>>[2]
      OBVIOUS
    <3>2. <<y, x>> \in Nat \X Nat
      BY <2>1
    <3> QED BY <3>1, <3>2, Zenon DEF OpToRel
  <2>3. ~(y < x)
    BY <1>1, <2>2, Zenon
  <2> QED BY <2>1, <2>3
<1> QED BY <1>2

\* EntriesAt has an entry for every place in I and no other.
OnlyThose(list, I, S, n) ==
  /\ EntriesAt(list, I) \in Seq(S) /\ Len(EntriesAt(list, I)) <= n
  /\ \A i \in I : \E k \in DOMAIN EntriesAt(list, I) : EntriesAt(list, I)[k] = list[i]

\* The places kept are numbered one after the other.
LEMMA EntriesAtAll ==
  ASSUME NEW n \in Nat, NEW I \in SUBSET (1 .. n), NEW S, NEW list, \A i \in I : list[i] \in S
  PROVE  OnlyThose(list, I, S, n)
<1> DEFINE upto(i) == {j \in I : j <= i}
           rank == [i \in I |-> Cardinality(upto(i))]
           c == Cardinality(I)
<1>1. IsFiniteSet(I) /\ c \in Nat /\ c <= n
  <2>1. IsFiniteSet(1 .. n) /\ Cardinality(1 .. n) = IF 1 > n THEN 0 ELSE n - 1 + 1
    BY FS_Interval, 1 \in Int, n \in Int
  <2>2. IsFiniteSet(I) /\ c \in Nat /\ c <= Cardinality(1 .. n)
    BY <2>1, FS_Subset, FS_CardinalityType
  <2> QED BY <2>1, <2>2
<1>2. \A i \in I : IsFiniteSet(upto(i)) /\ Cardinality(upto(i)) \in 1 .. c
  <2> SUFFICES ASSUME NEW i \in I PROVE IsFiniteSet(upto(i)) /\ Cardinality(upto(i)) \in 1 .. c
    OBVIOUS
  <2>1. upto(i) \in SUBSET I /\ upto(i) # {}
    OBVIOUS
  <2> HIDE DEF upto
  <2>2. IsFiniteSet(upto(i)) /\ Cardinality(upto(i)) <= c
    BY <1>1, <2>1, FS_Subset
  <2>3. Cardinality(upto(i)) \in Nat /\ Cardinality(upto(i)) # 0
    BY <2>1, <2>2, FS_EmptySet, FS_CardinalityType
  <2> QED BY <1>1, <2>2, <2>3
<1>3. ASSUME NEW i \in I, NEW j \in I, i < j PROVE rank[i] < rank[j]
  <2>1. upto(i) \in SUBSET upto(j) /\ j \in upto(j) /\ j \notin upto(i)
    <3>1. i \in Int /\ j \in Int /\ \A m \in I : m \in Int
      OBVIOUS
    <3>2. \A m \in I : m <= i => m <= j
      BY <1>3, <3>1
    <3>3. j <= j /\ ~(j <= i)
      BY <1>3, <3>1
    <3> QED BY <3>2, <3>3, Zenon
  <2>2. /\ IsFiniteSet(upto(j)) /\ Cardinality(upto(i)) \in Nat /\ Cardinality(upto(j)) \in Nat
    BY <1>1, <1>2
  <2> HIDE DEF upto
  <2>3. Cardinality(upto(i)) <= Cardinality(upto(j)) /\ Cardinality(upto(i)) # Cardinality(upto(j))
    BY <2>1, <2>2, FS_Subset
  <2> QED BY <2>2, <2>3
<1>4. rank \in Injection(I, 1 .. c)
  <2>1. rank \in [I -> 1 .. c]
    BY <1>2
  <2>2. ASSUME NEW i \in I, NEW j \in I, rank[i] = rank[j] PROVE i = j
    <3>1. rank[i] \in Int /\ rank[j] \in Int /\ ~(rank[i] < rank[j]) /\ ~(rank[j] < rank[i])
      BY <1>1, <2>1, <2>2
    <3> HIDE DEF rank
    <3>2. ~(i < j) /\ ~(j < i)
      BY <1>3, <3>1
    <3> QED BY <3>2
  <2> HIDE DEF rank
  <2> QED BY <2>1, <2>2 DEF Injection, IsInjective
<1>5. \A k \in 1 .. c : \E i \in I : rank[i] = k
  <2>1. IsFiniteSet(1 .. c) /\ Cardinality(1 .. c) = IF 1 > c THEN 0 ELSE c - 1 + 1
    BY <1>1, FS_Interval, 1 \in Int, c \in Int
  <2> HIDE DEF rank
  <2>2. Cardinality(1 .. c) = Cardinality(I)
    BY <1>1, <2>1
  <2>3. rank \in Surjection(I, 1 .. c)
    BY <1>4, <2>1, <2>2, FS_Injection
  <2> QED BY <2>3 DEF Surjection
<1> DEFINE placed(k) == CHOOSE i \in I : Cardinality(upto(i)) = k
<1>6. \A k \in 1 .. c : placed(k) \in I
  BY <1>5
<1>7. \A i \in I : rank[i] \in 1 .. c /\ placed(rank[i]) = i
  <2> SUFFICES ASSUME NEW i \in I PROVE rank[i] \in 1 .. c /\ placed(rank[i]) = i
    OBVIOUS
  <2>1. rank[i] \in 1 .. c
    BY <1>2
  <2>2. placed(rank[i]) \in I /\ rank[placed(rank[i])] = rank[i]
    <3>1. \E j \in I : Cardinality(upto(j)) = rank[i]
      OBVIOUS
    <3>2. placed(rank[i]) \in I /\ Cardinality(upto(placed(rank[i]))) = rank[i]
      BY <3>1
    <3> QED BY <3>2
  <2> HIDE DEF placed, rank
  <2>3. placed(rank[i]) = i
    BY <1>4, <2>2 DEF Injection, IsInjective
  <2> QED BY <2>1, <2>3
<1> DEFINE e == EntriesAt(list, I)
<1>8. e = [k \in 1 .. c |-> list[placed(k)]]
  BY DEF EntriesAt
<1> HIDE DEF placed, rank, c, e
<1>9. e \in Seq(S) /\ Len(e) = c /\ DOMAIN e = 1 .. c
  <2>1. e \in [1 .. c -> S] /\ c \in Nat
    BY <1>1, <1>6, <1>8 DEF c
  <2> QED BY <2>1
<1>10. ASSUME NEW i \in I PROVE \E k \in DOMAIN e : e[k] = list[i]
  <2>1. rank[i] \in DOMAIN e /\ e[rank[i]] = list[i]
    BY <1>7, <1>8
  <2> QED BY <2>1
<1> QED BY <1>1, <1>9, <1>10 DEF e, OnlyThose

-----------------------------------------------------------------------------
\* The port found is a port, and so is the counter.
LEMMA PortFound ==
  ASSUME next_port \in Ports
  PROVE  ephemeral_port \in Ports /\ (next_port + attempts) % PortSpace \in Ports
<1>1. /\ PortSpace \in Nat /\ PortSpace > 0 /\ EPHEMERAL_START \in Nat
      /\ EPHEMERAL_START < PortSpace /\ MAX_ATTEMPTS \in Nat /\ next_port \in Nat
  BY TableAssumption DEF MAX_ATTEMPTS, Ports
<1>2. \A x \in Nat : x % PortSpace \in Ports
  BY <1>1 DEF Ports
<1>3. CASE free_attempts = {}
  <2>1. attempts = MAX_ATTEMPTS /\ ephemeral_port = 0 /\ 0 \in Ports
    BY <1>1, <1>3 DEF attempts, ephemeral_port, Ports
  <2> QED BY <1>1, <1>2, <2>1
<1>4. CASE free_attempts # {}
  <2>1. free_attempts \in SUBSET Nat
    BY <1>1 DEF free_attempts
  <2>2. \E i \in free_attempts : \A j \in free_attempts : i <= j
    BY <1>4, <2>1, LeastNat
  <2> DEFINE first == CHOOSE i \in free_attempts : \A j \in free_attempts : i <= j
  <2>3. first \in Nat /\ attempts = 1 + first
    BY <1>4, <2>1, <2>2 DEF attempts
  <2> HIDE DEF first
  <2>4. attempts \in Nat /\ attempts - 1 = first /\ ephemeral_port = port_tried(attempts - 1)
    BY <1>4, <2>3 DEF ephemeral_port
  <2> QED BY <1>1, <1>2, <2>3, <2>4 DEF port_tried
<1> QED BY <1>3, <1>4

LEMMA OthersStep == TableInv /\ OthersTyped /\ [TableNext]_tableVars => OthersTyped'
<1> SUFFICES ASSUME TableInv, OthersTyped, [TableNext]_tableVars PROVE OthersTyped'
  OBVIOUS
<1>1. ASSUME NEW port \in ServerPorts,
             listen(port) \/ unlisten(port) \/ handle_rst_listener(port)
      PROVE  OthersTyped'
  BY <1>1 DEF OthersTyped, listen, unlisten, handle_rst_listener
<1>2. ASSUME NEW peer \in Peers, connect(peer) PROVE OthersTyped'
  BY <1>2, PortFound DEF OthersTyped, connect
<1>3. ASSUME UNCHANGED <<listeners, accept_callbacks, lost, next_port>>,
             established' \in {established, established + 1},
             repeated' \in {repeated, repeated + 1}
      PROVE  OthersTyped'
  BY <1>3 DEF OthersTyped
<1> QED BY <1>1, <1>2, <1>3
        DEF TableNext, close, handle_listen, handle_syn_sent, handle_syn_rcvd, connected,
            handle_established, handle_fin_wait_1, handle_fin_wait_2_or_closing,
            handle_last_ack, handle_time_wait, handle_rst, on_timer, tableVars

\* Steps that leave the list alone and put no connection into TIME_WAIT.
LEMMA ListSame ==
  ASSUME ListInv, UNCHANGED time_wait, DOMAIN conns' \subseteq Tuples,
         \A t \in DOMAIN conns' : conns'[t].state = "TIME_WAIT" =>
            t \in DOMAIN conns /\ conns[t].state = "TIME_WAIT"
  PROVE  ListInv'
BY DEF ListInv, TimeWaitListed

\* The new entry is of the connection that begins to wait; the one that makes
\* room was the last of its connection only if that connection goes with it.
LEMMA ListStarted ==
  ASSUME TableInv, ListInv, NEW t \in DOMAIN conns, start_time_wait_timer(t)
  PROVE  ListInv'
<1> DEFINE waiting == [conns EXCEPT ![t].state = "TIME_WAIT"]
           full == Len(time_wait) >= MAX_TIME_WAIT_ENTRIES
           kept == IF full THEN Tail(time_wait) ELSE time_wait
           old == {u \in DOMAIN conns : /\ full /\ u = Head(time_wait).tuple
                                        /\ waiting[u].state = "TIME_WAIT"}
<1>1. /\ conns' = Without(waiting, old)
      /\ \E u \in IF t \in old THEN Tuples ELSE {t} : time_wait' = Append(kept, Entry(u))
  BY DEF start_time_wait_timer
<1>2. PICK v \in Tuples : (t \notin old => v = t) /\ time_wait' = Append(kept, Entry(v))
  BY <1>1 DEF ListInv
<1>3. /\ DOMAIN waiting = DOMAIN conns
      /\ \A u \in DOMAIN conns \ {t} : waiting[u] = conns[u]
  OBVIOUS
<1>4. /\ time_wait \in Seq(Entries) /\ Len(time_wait) \in Nat /\ DOMAIN time_wait = 1 .. Len(time_wait)
      /\ MAX_TIME_WAIT_ENTRIES \in Nat /\ MAX_TIME_WAIT_ENTRIES > 0
      /\ Len(time_wait) <= MAX_TIME_WAIT_ENTRIES
  BY TableAssumption DEF ListInv
<1>5. /\ kept \in Seq(Entries) /\ Len(kept) \in Nat /\ Len(kept) + 1 <= MAX_TIME_WAIT_ENTRIES
      /\ full => /\ Len(kept) = Len(time_wait) - 1
                 /\ \A i \in 1 .. Len(kept) : kept[i] = time_wait[i + 1]
                 /\ Head(time_wait) = time_wait[1]
      /\ ~full => kept = time_wait
  <2>1. /\ full => Len(time_wait) >= MAX_TIME_WAIT_ENTRIES /\ kept = Tail(time_wait)
        /\ ~full => ~(Len(time_wait) >= MAX_TIME_WAIT_ENTRIES) /\ kept = time_wait
    OBVIOUS
  <2>0. /\ Len(time_wait) \in Nat /\ MAX_TIME_WAIT_ENTRIES \in Nat
        /\ MAX_TIME_WAIT_ENTRIES > 0 /\ Len(time_wait) <= MAX_TIME_WAIT_ENTRIES
    BY <1>4
  <2> HIDE DEF kept, full
  <2>2. CASE full
    <3>1. time_wait # <<>> /\ Len(time_wait) = MAX_TIME_WAIT_ENTRIES
      <4>1. Len(time_wait) >= MAX_TIME_WAIT_ENTRIES
        BY <2>1, <2>2
      <4>2. Len(time_wait) = MAX_TIME_WAIT_ENTRIES /\ Len(time_wait) > 0
        BY <2>0, <4>1
      <4>3. Len(<<>>) = 0
        OBVIOUS
      <4> QED BY <4>2, <4>3
    <3>2. /\ Tail(time_wait) \in Seq(Entries) /\ Len(Tail(time_wait)) = Len(time_wait) - 1
          /\ \A i \in 1 .. Len(Tail(time_wait)) : Tail(time_wait)[i] = time_wait[i + 1]
          /\ Head(time_wait) = time_wait[1]
      BY <1>4, <3>1
    <3>3. kept = Tail(time_wait)
      BY <2>1, <2>2
    <3> QED BY <1>4, <2>2, <3>1, <3>2, <3>3
  <2>3. CASE ~full
    <3>1. kept = time_wait /\ Len(time_wait) + 1 <= MAX_TIME_WAIT_ENTRIES
      <4>1. kept = time_wait /\ ~(Len(time_wait) >= MAX_TIME_WAIT_ENTRIES)
        BY <2>1, <2>3
      <4> QED BY <1>4, <4>1
    <3> QED BY <1>4, <2>3, <3>1
  <2> QED BY <2>2, <2>3
<1>6. Entry(v) \in Entries /\ Entry(v).tuple = v
  BY TableAssumption DEF Entry, Entries
<1> HIDE DEF kept
<1>7. /\ time_wait' \in Seq(Entries) /\ Len(time_wait') = Len(kept) + 1
      /\ DOMAIN time_wait' = 1 .. Len(kept) + 1
      /\ \A i \in 1 .. Len(kept) : time_wait'[i] = kept[i]
      /\ time_wait'[Len(kept) + 1] = Entry(v)
  BY <1>2, <1>5, <1>6
<1>8. /\ DOMAIN conns' = DOMAIN conns \ old
      /\ \A u \in DOMAIN conns' : conns'[u] = waiting[u]
  BY <1>1, <1>3 DEF Without
<1>9. ASSUME NEW u \in DOMAIN conns', conns'[u].state = "TIME_WAIT"
      PROVE  \E i \in DOMAIN time_wait' : time_wait'[i].tuple = u
  <2>1. CASE u = t
    <3>1. time_wait'[Len(kept) + 1].tuple = u /\ Len(kept) + 1 \in DOMAIN time_wait'
      BY <1>2, <1>5, <1>6, <1>7, <1>8, <2>1
    <3> QED BY <3>1
  <2>2. CASE u # t
    <3>1. u \in DOMAIN conns /\ u \notin old /\ waiting[u].state = "TIME_WAIT"
          /\ conns[u].state = "TIME_WAIT"
      BY <1>3, <1>8, <1>9, <2>2
    <3>2. PICK i \in DOMAIN time_wait : time_wait[i].tuple = u
      BY <3>1 DEF ListInv, TimeWaitListed
    <3>3. CASE full
      <4>1. u # time_wait[1].tuple
        BY <1>5, <3>1, <3>3
      <4>2. i - 1 \in 1 .. Len(kept) /\ kept[i - 1] = time_wait[i] /\ i - 1 \in DOMAIN time_wait'
        BY <1>4, <1>5, <1>7, <3>2, <3>3, <4>1
      <4> QED BY <1>7, <3>2, <4>2
    <3>4. CASE ~full
      <4>1. kept = time_wait
        BY <1>5, <3>4
      <4>2. i \in 1 .. Len(kept) /\ i \in DOMAIN time_wait'
        <5>1. i \in 1 .. Len(kept)
          BY <1>4, <4>1
        <5>2. Len(kept) \in Nat /\ DOMAIN time_wait' = 1 .. Len(kept) + 1
          BY <1>5, <1>7
        <5> QED BY <5>1, <5>2
      <4> QED BY <1>7, <3>2, <4>1, <4>2
    <3> QED BY <3>3, <3>4
  <2> QED BY <2>1, <2>2
<1>10. DOMAIN conns' \subseteq Tuples /\ Len(time_wait') <= MAX_TIME_WAIT_ENTRIES
  BY <1>5, <1>7, <1>8 DEF ListInv
<1> QED BY <1>7, <1>9, <1>10 DEF ListInv, TimeWaitListed

\* A FIN repeated renews an entry of the connection in place.
LEMMA ListRenewed ==
  ASSUME ListInv, NEW t \in Tuples, NEW i \in DOMAIN time_wait, time_wait[i].tuple = t,
         time_wait' = [time_wait EXCEPT ![i] = Entry(t)], UNCHANGED conns
  PROVE  ListInv'
<1>1. Entry(t) \in Entries /\ Entry(t).tuple = t
  BY TableAssumption DEF Entry, Entries
<1>2. /\ time_wait' \in Seq(Entries) /\ Len(time_wait') = Len(time_wait)
      /\ DOMAIN time_wait' = DOMAIN time_wait
      /\ \A j \in DOMAIN time_wait : time_wait'[j] = IF j = i THEN Entry(t) ELSE time_wait[j]
  BY <1>1 DEF ListInv
<1> QED BY <1>1, <1>2 DEF ListInv, TimeWaitListed

\* Every entry had time left; where none has any more, the connection ends.
LEMMA ListAged ==
  ASSUME ListInv, NEW aborted \in SUBSET Abortable, on_timer(aborted)
  PROVE  ListInv'
<1> DEFINE aged == [i \in DOMAIN time_wait |-> [time_wait[i] EXCEPT !.left = @ - 1]]
           expired == {t \in DOMAIN conns \ aborted :
                    /\ conns[t].state = "TIME_WAIT"
                    /\ \E i \in DOMAIN aged : aged[i] = [tuple |-> t, left |-> 0]}
           gone == aborted \cup expired
           staying == {i \in DOMAIN aged : aged[i].left > 0}
<1>1. conns' = Without(conns, gone) /\ time_wait' = EntriesAt(aged, staying)
  BY DEF on_timer
<1>2. /\ Len(time_wait) \in Nat /\ DOMAIN time_wait = 1 .. Len(time_wait)
      /\ \A i \in DOMAIN time_wait : time_wait[i] \in Entries
      /\ Len(time_wait) <= MAX_TIME_WAIT_ENTRIES /\ MAX_TIME_WAIT_ENTRIES \in Nat
      /\ TIME_WAIT_DURATION \in Nat
  BY TableAssumption DEF ListInv
<1>3. /\ DOMAIN aged = DOMAIN time_wait
      /\ \A i \in DOMAIN time_wait : /\ aged[i] \in [tuple : Tuples, left : 0 .. TIME_WAIT_DURATION]
                                     /\ aged[i].tuple = time_wait[i].tuple
  BY <1>2 DEF Entries
<1> HIDE DEF aged
<1>4. /\ staying \in SUBSET (1 .. Len(time_wait)) /\ \A i \in staying : aged[i] \in Entries
  BY <1>2, <1>3 DEF Entries
<1> HIDE DEF staying
<1>5. /\ time_wait' \in Seq(Entries) /\ Len(time_wait') <= Len(time_wait)
      /\ \A i \in staying : \E k \in DOMAIN time_wait' : time_wait'[k] = aged[i]
  <2> DEFINE n == Len(time_wait)
             e == EntriesAt(aged, staying)
  <2>1. n \in Nat /\ staying \in SUBSET (1 .. n) /\ \A i \in staying : aged[i] \in Entries
    BY <1>2, <1>4
  <2> HIDE DEF n, e
  <2>2. /\ e \in Seq(Entries) /\ Len(e) <= n
        /\ \A i \in staying : \E k \in DOMAIN e : e[k] = aged[i]
    <3>1. OnlyThose(aged, staying, Entries, n)
      BY <2>1, EntriesAtAll
    <3> QED BY <3>1 DEF OnlyThose, e
  <2>3. time_wait' = e
    BY <1>1 DEF e
  <2> QED BY <2>2, <2>3 DEF n
<1>6. /\ DOMAIN conns' = DOMAIN conns \ gone /\ \A u \in DOMAIN conns' : conns'[u] = conns[u]
  BY <1>1 DEF Without
<1>7. ASSUME NEW u \in DOMAIN conns', conns'[u].state = "TIME_WAIT"
      PROVE  \E k \in DOMAIN time_wait' : time_wait'[k].tuple = u
  <2>1. u \in DOMAIN conns /\ conns[u].state = "TIME_WAIT" /\ u \notin aborted /\ u \notin expired
    BY <1>6, <1>7
  <2>2. PICK i \in DOMAIN time_wait : time_wait[i].tuple = u
    BY <2>1 DEF ListInv, TimeWaitListed
  <2>3. aged[i] # [tuple |-> u, left |-> 0]
    BY <1>3, <2>1
  <2>4. aged[i].left > 0
    BY <1>2, <1>3, <2>2, <2>3
  <2>5. PICK k \in DOMAIN time_wait' : time_wait'[k] = aged[i]
    BY <1>3, <1>5, <2>4 DEF staying
  <2> QED BY <1>3, <2>2, <2>5
<1>8. DOMAIN conns' \subseteq Tuples /\ Len(time_wait') <= MAX_TIME_WAIT_ENTRIES
  <2>1. Len(time_wait') \in Nat
    BY <1>5
  <2> QED BY <1>2, <1>5, <1>6, <2>1 DEF ListInv
<1> QED BY <1>5, <1>7, <1>8 DEF ListInv, TimeWaitListed

LEMMA ListStep ==
  TableInv /\ OthersTyped /\ ListInv /\ [TableNext]_tableVars => ListInv'
<1> SUFFICES ASSUME TableInv, OthersTyped, ListInv, [TableNext]_tableVars PROVE ListInv'
  OBVIOUS
<1>0. DOMAIN conns \subseteq Tuples
  BY DEF ListInv
<1>1. ASSUME UNCHANGED <<conns, time_wait>> PROVE ListInv'
  BY <1>1 DEF ListInv, TimeWaitListed
\* A step that puts a TCB, not in TIME_WAIT, at t.
<1>2. ASSUME UNCHANGED time_wait, NEW t \in Tuples, DOMAIN conns' = DOMAIN conns \cup {t},
             \A u \in DOMAIN conns \ {t} : conns'[u] = conns[u],
             conns'[t].state # "TIME_WAIT"
      PROVE  ListInv'
  BY <1>0, <1>2, ListSame
<1>3. ASSUME NEW peer \in Peers, connect(peer) PROVE ListInv'
  <2> DEFINE t == <<ephemeral_port, peer>>
             tcb == NewTcb("SYN_SENT", FALSE)
  <2>1. t \in Tuples /\ time_wait' = time_wait /\ tcb.state = "SYN_SENT"
    BY <1>3, PortFound DEF OthersTyped, Tuples, connect, NewTcb
  <2>2. conns' = IF refused(t) THEN conns ELSE With(conns, t, tcb)
    BY <1>3 DEF connect
  <2> HIDE DEF t, tcb
  <2>3. CASE refused(t)
    BY <1>1, <2>1, <2>2, <2>3
  <2>4. CASE ~refused(t)
    BY <1>2, <2>1, <2>2, <2>4 DEF With
  <2> QED BY <2>3, <2>4
<1>4. ASSUME NEW t \in Tuples, NEW flushed \in BOOLEAN, close(t, flushed) PROVE ListInv'
  <2>1. t \in DOMAIN conns /\ conns[t].state \in {"ESTABLISHED", "CLOSE_WAIT"} /\ conns[t] \in TCB
        /\ conns' = [conns EXCEPT ![t] = closed_tcb(conns[t], flushed)] /\ time_wait' = time_wait
    BY <1>4 DEF close, In, TableInv, Tabled
  <2>2. closed_tcb(conns[t], flushed).state # "TIME_WAIT"
    BY <2>1, ClosedTcb
  <2> QED BY <1>2, <2>1, <2>2
<1>5. ASSUME NEW t \in Tuples, handle_listen(t) PROVE ListInv'
  BY <1>2, <1>5 DEF handle_listen, With, NewTcb
<1>6. ASSUME NEW t \in DOMAIN conns, NEW ack \in BOOLEAN,
             handle_syn_sent(t, ack) \/ handle_syn_rcvd(t)
      PROVE  ListInv'
  <2>1. t \in Tuples /\ conns[t] \in TCB /\ time_wait' = time_wait
    BY <1>0, <1>6 DEF handle_syn_sent, handle_syn_rcvd, TableInv, Tabled
  <2>2. \/ conns' = [conns EXCEPT ![t].state = "SYN_RCVD"]
        \/ \E found : conns' = [conns EXCEPT ![t].state = "ESTABLISHED", ![t].hooked = found]
    BY <1>6 DEF handle_syn_sent, handle_syn_rcvd, connected
  <2>3. /\ DOMAIN conns' = DOMAIN conns /\ conns'[t].state # "TIME_WAIT"
        /\ \A u \in DOMAIN conns \ {t} : conns'[u] = conns[u]
    BY <2>1, <2>2 DEF TCB
  <2> QED BY <1>2, <2>1, <2>3
<1>7. ASSUME NEW t \in DOMAIN conns, NEW closes \in BOOLEAN, NEW flushed \in BOOLEAN,
             handle_established(t, closes, flushed)
      PROVE  ListInv'
  <2> DEFINE before == IF closes THEN closed_tcb(conns[t], flushed) ELSE conns[t]
             waits == [before EXCEPT !.state = "CLOSE_WAIT"]
             after == notified(t, waits, flushed)
  <2>1. conns' = [conns EXCEPT ![t] = after] /\ time_wait' = time_wait /\ t \in Tuples
    BY <1>0, <1>7 DEF handle_established
  <2>2. before \in TCB
    BY ClosedTcb DEF TableInv, Tabled
  <2> HIDE DEF before
  <2>3. waits \in TCB /\ waits.state = "CLOSE_WAIT"
    BY <2>2 DEF TCB, States, Live
  <2> HIDE DEF waits
  <2>4. after.state # "TIME_WAIT"
    BY <2>3, ClosedTcb DEF notified
  <2> HIDE DEF after
  <2> QED BY <1>2, <2>1, <2>4
<1>8. ASSUME NEW t \in DOMAIN conns, NEW fin_acked \in BOOLEAN, NEW fin \in BOOLEAN,
             handle_fin_wait_1(t, fin_acked, fin)
      PROVE  ListInv'
  <2>1. CASE fin_acked /\ fin
    BY <1>8, <2>1, ListStarted DEF handle_fin_wait_1
  <2>2. CASE ~(fin_acked /\ fin)
    <3>1. /\ conns' = [conns EXCEPT ![t].state = IF fin THEN "CLOSING" ELSE "FIN_WAIT_2"]
          /\ time_wait' = time_wait /\ t \in Tuples /\ conns[t] \in TCB
      BY <1>0, <1>8, <2>2 DEF handle_fin_wait_1, TableInv, Tabled
    <3>2. DOMAIN conns' = DOMAIN conns /\ conns'[t].state # "TIME_WAIT"
          /\ \A u \in DOMAIN conns \ {t} : conns'[u] = conns[u]
      BY <3>1 DEF TCB
    <3> QED BY <1>2, <3>1, <3>2
  <2> QED BY <2>1, <2>2
<1>9. ASSUME NEW t \in DOMAIN conns, handle_fin_wait_2_or_closing(t) PROVE ListInv'
  BY <1>9, ListStarted DEF handle_fin_wait_2_or_closing
<1>10. ASSUME NEW t \in DOMAIN conns, handle_last_ack(t) \/ handle_rst(t) PROVE ListInv'
  <2>1. conns' = Without(conns, {t}) /\ time_wait' = time_wait
    BY <1>10 DEF handle_last_ack, handle_rst
  <2> QED BY <1>0, <2>1, ListSame DEF Without
<1>11. ASSUME NEW t \in DOMAIN conns, handle_time_wait(t) PROVE ListInv'
  <2> DEFINE mine == {i \in DOMAIN time_wait : time_wait[i].tuple = t}
             first == CHOOSE i \in mine : \A j \in mine : i <= j
  <2>1. CASE mine = {}
    BY <1>11, <2>1, ListStarted DEF handle_time_wait
  <2>2. CASE mine # {}
    <3>1. mine \in SUBSET Nat
      BY DEF ListInv
    <3>2. first \in mine
      <4>1. \E i \in mine : \A j \in mine : i <= j
        BY <2>2, <3>1, LeastNat
      <4> QED BY <4>1
    <3>3. time_wait' = [time_wait EXCEPT ![first] = Entry(t)] /\ UNCHANGED conns
      BY <1>11, <2>2 DEF handle_time_wait
    <3> HIDE DEF first
    <3> QED BY <1>0, <3>2, <3>3, ListRenewed
  <2> QED BY <2>1, <2>2
<1>12. ASSUME NEW aborted \in SUBSET Abortable, on_timer(aborted) PROVE ListInv'
  BY <1>12, ListAged
<1> QED BY <1>1, <1>3, <1>4, <1>5, <1>6, <1>7, <1>8, <1>9, <1>10, <1>11, <1>12
        DEF TableNext, listen, unlisten, handle_rst_listener, tableVars

LEMMA EverythingKept == TableSpec => [](TableInv /\ OthersTyped /\ ListInv)
<1>1. TableInit => OthersTyped /\ ListInv
  <2> SUFFICES ASSUME TableInit PROVE OthersTyped /\ ListInv
    OBVIOUS
  <2>1. OthersTyped
    BY TableAssumption DEF TableInit, OthersTyped, Ports
  <2>2. time_wait \in Seq(Entries) /\ Len(time_wait) = 0 /\ DOMAIN conns = {}
    BY DEF TableInit
  <2> QED BY <2>1, <2>2, TableAssumption DEF ListInv, TimeWaitListed
<1> QED BY <1>1, TableStarts, TableStep, OthersStep, ListStep, PTL DEF TableSpec

\* However connections end, by FIN, reset, abort, eviction or expiry, and in
\* whatever order, the gauge active_connections is the live connections and the
\* ones that ended without lowering it: no reset lowers it twice or for a
\* handshake that never ended (handle_rst, tcp_connection.cpp:974).
THEOREM GaugeIsAccounted == TableSpec => []GaugeAccounts
<1>1. TableInv => GaugeAccounts
  BY DEF TableInv
<1> QED BY <1>1, TableStarts, TableStep, PTL DEF TableSpec

\* Every accepted connection that is established or closed by the peer has the
\* callbacks or the pending close that will end it, unless its port has lost
\* the accept callback (tcp_layer.cpp:81, TCPLayer::listen).
THEOREM AcceptedAreOwned == TableSpec => []ServerOwnsItsConnections
<1>1. TableInv => ServerOwnsItsConnections
  BY DEF TableInv, Promised, Kept, ServerOwnsItsConnections
<1> QED BY <1>1, TableStarts, TableStep, PTL DEF TableSpec

\* TIME_WAIT ends through the list only, and every connection in it is listed:
\* the eviction of the oldest entry (start_time_wait_timer, tcp_connection.cpp:1002),
\* stale entries of the same tuple and repeated FINs leave none behind.
THEOREM TimeWaitAlwaysListed == TableSpec => []TimeWaitListed
<1>1. ListInv => TimeWaitListed
  BY DEF ListInv
<1> QED BY <1>1, EverythingKept, PTL

\* The tables keep everything they promise: types and limits, the gauge, the
\* owners of accepted connections and the ends of the waiting ones.
THEOREM TablesAreSound == TableSpec => []TablesSound
<1>1. TableInv /\ OthersTyped /\ ListInv => TablesSound
  <2> SUFFICES ASSUME TableInv, OthersTyped, ListInv PROVE TablesSound
    OBVIOUS
  <2>1. active \in Nat /\ forgotten \in Nat
    <3>1. Cardinality(LiveTuples) \in Nat
      BY Counting DEF TableInv
    <3>2. forgotten \in Nat /\ active = Cardinality(LiveTuples) + forgotten
      BY DEF TableInv, Tabled, GaugeAccounts
    <3> QED BY <3>1, <3>2
  <2>2. TableTypeOK
    BY <2>1 DEF TableInv, Tabled, OthersTyped, ListInv, Entries, TableTypeOK
  <2>3. ServerOwnsItsConnections
    BY DEF TableInv, Promised, Kept, ServerOwnsItsConnections
  <2> QED BY <2>2, <2>3 DEF TablesSound, TableInv, ListInv
<1> QED BY <1>1, EverythingKept, PTL

-----------------------------------------------------------------------------
(* The congestion window.                                                      *)

\* What keeps WindowLimited: Reno's recovery leaves a threshold within the
\* limits, and CUBIC is in slow start only below its first threshold.
WindowKept ==
  IF algorithm = "reno"
  THEN IF mode = "recovery" THEN ssthresh \in 2 * mss .. MAX_CWND
       ELSE cwnd \in mss .. MAX_CWND
  ELSE /\ cwnd \in 2 * mss .. MAX_CWND
       /\ mode = "slow_start" => ssthresh = INITIAL_SSTHRESH

WindowInv == ControlTypeOK /\ WindowKept

\* A sum that fits does not wrap.
LEMMA Fits == ASSUME NEW a \in Nat, NEW w \in Nat, a < w PROVE a % w = a
  BY SMT

\* A remainder is within its modulus.
LEMMA Remainder == ASSUME NEW a \in Nat, NEW w \in Nat, w > 0 PROVE a % w \in 0 .. w - 1
  BY SMT

\* A quotient by two or more is at most half.
LEMMA Half ==
  ASSUME NEW y \in Nat, NEW c \in Nat, c >= 2
  PROVE  y \div c \in Nat /\ 2 * (y \div c) =< y
<1> DEFINE q == y \div c
<1>1. q \in Int /\ q * c =< y /\ y < (q + 1) * c
  BY SMT
<1>2. q >= 0
  <2>1. SUFFICES ASSUME q + 1 =< 0 PROVE FALSE
    BY <1>1
  <2>2. (q + 1) * c =< 0
    BY <1>1, <2>1, SMT
  <2> QED BY <1>1, <2>2
<1>3. 2 * q =< q * c
  BY <1>1, <1>2, SMT
<1> QED BY <1>1, <1>2, <1>3

\* A product of natural numbers grows with its first factor.
LEMMA Grows ==
  ASSUME NEW c \in Nat, NEW d \in Nat, NEW m \in Nat, c =< d
  PROVE  c * m \in Nat /\ d * m \in Nat /\ c * m =< d * m
  BY SMT

-----------------------------------------------------------------------------
\* The constants, without the functions.
LEMMA Numbers ==
  /\ MSS \in Nat \ {0} /\ INITIAL_SSTHRESH \in Nat /\ MAX_CWND \in Nat /\ WORD \in Nat
  /\ 10 * MSS =< MAX_CWND /\ 2 * INITIAL_SSTHRESH =< MAX_CWND /\ 4 * MAX_CWND =< WORD
  /\ mss \in Nat \ {0} /\ mss >= MSS /\ 2 * mss =< 10 * MSS
  /\ 2 * mss =< INITIAL_SSTHRESH /\ MAX_CWND > 0
<1>1. 2 * INITIAL_SSTHRESH >= 4 * MSS
  BY WindowAssumption
<1> QED BY <1>1, WindowAssumption DEF mss, most

\* Seven tenths are no more than the whole.
LEMMA Reduced ==
  ASSUME NEW c \in Nat, c > 0, NEW r \in seven_tenths(c) PROVE r \in 0 .. c
  BY SMT DEF seven_tenths

\* CUBIC's growth wraps nowhere: the window does not shrink by it.
LEMMA GrownMore ==
  ASSUME cwnd \in 2 * mss .. MAX_CWND, NEW target \in 0 .. WORD - 1
  PROVE  grown(target) \in Nat /\ grown(target) >= cwnd
<1>1. CASE target > cwnd
  <2> DEFINE y == ((target - cwnd) * mss) % WORD
  <2>1. cwnd \in Nat /\ cwnd >= 2 /\ 4 * cwnd =< WORD /\ WORD > 4 /\ target \in Nat
    BY Numbers
  <2>2. (target - cwnd) * mss \in Nat
    <3>1. target - cwnd \in Nat /\ mss \in Nat
      BY <1>1, <2>1, Numbers
    <3> QED BY <3>1, Grows
  <2>3. y \in 0 .. WORD - 1
    BY <2>1, <2>2, Remainder, Numbers
  <2> HIDE DEF y
  <2>4. y \div cwnd \in Nat /\ 2 * (y \div cwnd) =< y
    BY <2>1, <2>3, Half, Numbers
  <2>5. delta(target) = y \div cwnd
    BY DEF delta, y
  <2>6. most(1, delta(target)) \in Nat /\ most(1, delta(target)) >= 1
        /\ 2 * most(1, delta(target)) =< WORD
    BY <2>1, <2>3, <2>4, <2>5, Numbers DEF most
  <2> DEFINE n == cwnd + most(1, delta(target))
  <2>7. n \in Nat /\ n < WORD /\ n >= cwnd
    BY <2>1, <2>6, Numbers
  <2>8. n % WORD = n
    BY <2>7, Fits, Numbers
  <2> QED BY <1>1, <2>7, <2>8 DEF grown
<1>2. CASE ~(target > cwnd)
  BY <1>2, Numbers DEF grown
<1> QED BY <1>1, <1>2

\* Orca's window grows with CUBIC's, and stays within the limits.
LEMMA ModulatedGrows ==
  ASSUME NEW c \in Nat, NEW d \in Nat, c =< d, NEW a \in AlphaRange
  PROVE  /\ modulated(c, a) \in 2 * MSS .. MAX_CWND
         /\ modulated(c, a) =< modulated(d, a)
<1> DEFINE m == Modulation[a]
<1>1. m \in Nat
  BY AlphaAssumption
<1>2. c * m \in Nat /\ d * m \in Nat /\ c * m =< d * m
  BY <1>1, Grows
<1> HIDE DEF m
<1>3. (c * m) \div 1000 \in Nat /\ (d * m) \div 1000 \in Nat
      /\ (c * m) \div 1000 =< (d * m) \div 1000
  BY <1>2
<1>4. modulated(c, a) = most(2 * MSS, least(MAX_CWND, (c * m) \div 1000))
      /\ modulated(d, a) = most(2 * MSS, least(MAX_CWND, (d * m) \div 1000))
  BY DEF modulated, m
<1> QED BY <1>3, <1>4, Numbers DEF most, least

-----------------------------------------------------------------------------
\* Each handler keeps the invariant.
LEMMA AckedKeeps ==
  ASSUME WindowInv, NEW bytes_acked \in 1 .. INITIAL_SSTHRESH, NEW target \in Targets,
         acked(bytes_acked, target)
  PROVE  WindowInv'
<1> USE DEF WindowInv, ControlTypeOK, WindowKept, AlphaRange, acked
<1>1. CASE algorithm = "reno" /\ mode = "recovery"
  BY <1>1, Numbers DEF reno_on_ack
<1>2. CASE algorithm = "reno" /\ mode # "recovery"
  <2>1. cwnd \in Nat /\ cwnd >= mss /\ cwnd =< MAX_CWND
    BY <1>2, Numbers
  <2>2. mss * mss \in Nat
    BY Grows, Numbers
  <2>3. (mss * mss) \div cwnd \in Nat
    BY <2>1, <2>2, Numbers, SMT
  <2> DEFINE more == (mss * mss) \div cwnd
  <2>4. cwnd' = least(MAX_CWND, IF cwnd < ssthresh THEN cwnd + mss ELSE cwnd + more)
    BY <1>2 DEF reno_on_ack
  <2> HIDE DEF more
  <2>5. more \in Nat
    BY <2>3 DEF more
  <2>6. cwnd' \in mss .. MAX_CWND
    BY <2>1, <2>4, <2>5, Numbers DEF least
  <2> QED BY <1>2, <2>6, Numbers DEF reno_on_ack
<1>3. CASE algorithm # "reno" /\ mode = "slow_start" /\ cwnd < ssthresh
  <2>1. cwnd + bytes_acked \in Nat /\ cwnd + bytes_acked =< MAX_CWND
        /\ cwnd + bytes_acked < WORD /\ cwnd + bytes_acked >= 2 * mss
    BY <1>3, Numbers
  <2>2. (cwnd + bytes_acked) % WORD = cwnd + bytes_acked
    BY <2>1, Fits, Numbers
  <2> QED BY <1>3, <2>1, <2>2, Numbers DEF cubic_on_ack
<1>4. CASE algorithm # "reno" /\ ~(mode = "slow_start" /\ cwnd < ssthresh)
  <2>1. grown(target) \in Nat /\ grown(target) >= cwnd
    <3>1. target \in 0 .. WORD - 1
      BY WindowAssumption
    <3> QED BY <1>4, <3>1, GrownMore
  <2>2. cwnd' = least(MAX_CWND, grown(target))
    BY <1>4 DEF cubic_on_ack
  <2>3. cwnd' \in 2 * mss .. MAX_CWND
    BY <1>4, <2>1, <2>2, Numbers DEF least
  <2> QED BY <1>4, <2>3, Numbers DEF cubic_on_ack
<1> QED BY <1>1, <1>2, <1>3, <1>4

LEMMA DupAckedKeeps == ASSUME WindowInv, dup_acked PROVE WindowInv'
<1> USE DEF WindowInv, ControlTypeOK, WindowKept, AlphaRange, dup_acked
<1>1. CASE algorithm = "reno" /\ mode = "recovery"
  <2>1. (cwnd + mss) % WORD \in 0 .. WORD - 1
    BY Remainder, Numbers
  <2> QED BY <1>1, <2>1
<1>2. CASE ~(algorithm = "reno" /\ mode = "recovery") /\ dup_ack_count # 2
  BY <1>2
<1>3. CASE algorithm = "reno" /\ mode # "recovery" /\ dup_ack_count = 2
  BY <1>3, Numbers DEF reno_on_loss, most
<1>4. CASE algorithm # "reno" /\ dup_ack_count = 2
  <2>1. cwnd \in Nat /\ cwnd > 0
    BY <1>4, Numbers
  <2>2. PICK reduced \in seven_tenths(cwnd) : ssthresh' = most(reduced, 2 * mss)
    BY <1>4 DEF cubic_on_loss
  <2>3. reduced \in 0 .. cwnd
    BY <2>1, Reduced
  <2> QED BY <1>4, <2>2, <2>3, Numbers DEF cubic_on_loss, most
<1> QED BY <1>1, <1>2, <1>3, <1>4

LEMMA OthersKeep ==
  ASSUME WindowInv,
         \/ timed_out
         \/ \E a \in Alphas : set_alpha(a)
         \/ switch("orca", "cubic") \/ switch("cubic", "orca")
         \/ UNCHANGED controlVars
  PROVE  WindowInv'
<1> USE DEF WindowInv, ControlTypeOK, WindowKept, AlphaRange
<1>1. CASE timed_out
  BY <1>1, Numbers DEF timed_out, most
<1>2. ASSUME NEW a \in Alphas, set_alpha(a) PROVE WindowInv'
  <2>1. a \in Int /\ ALPHA_ONE \in Nat
    BY AlphaAssumption
  <2>2. alpha' \in AlphaRange
    BY <1>2, <2>1 DEF set_alpha, most, least, AlphaRange
  <2> QED BY <1>2, <2>2 DEF set_alpha
<1>3. CASE switch("orca", "cubic") \/ switch("cubic", "orca")
  <2>1. 0 \in AlphaRange
    BY AlphaAssumption DEF AlphaRange
  <2> QED BY <1>3, <2>1, Numbers DEF switch, Cubic
<1>4. CASE UNCHANGED controlVars
  BY <1>4 DEF controlVars
<1> QED BY <1>1, <1>2, <1>3, <1>4

-----------------------------------------------------------------------------
\* The invariant gives the limits of what is sent by.
LEMMA InvLimits == ASSUME WindowInv PROVE WindowLimited
<1>1. CASE algorithm = "reno"
  BY <1>1 DEF WindowInv, WindowKept, ControlTypeOK, WindowLimited, window
<1>2. CASE algorithm = "cubic"
  BY <1>2 DEF WindowInv, WindowKept, WindowLimited, window
<1>3. CASE algorithm = "orca"
  <2>1. cwnd \in Nat /\ alpha \in AlphaRange
    BY <1>3, Numbers DEF WindowInv, WindowKept, ControlTypeOK
  <2>2. modulated(cwnd, alpha) \in 2 * MSS .. MAX_CWND
    BY <2>1, ModulatedGrows
  <2> QED BY <1>3, <2>2 DEF WindowLimited, window
<1> QED BY <1>1, <1>2, <1>3 DEF WindowInv, ControlTypeOK

\* With the same controller and alpha the window follows cwnd.
LEMMA WindowFollows ==
  ASSUME ControlTypeOK, algorithm' = algorithm, alpha' = alpha, cwnd \in Nat, cwnd' \in Nat
  PROVE  /\ cwnd' >= cwnd => window' >= window
         /\ cwnd' =< cwnd => window' =< window
<1>1. CASE algorithm = "orca"
  <2>1. alpha \in AlphaRange
    BY DEF ControlTypeOK
  <2>2. cwnd =< cwnd' => modulated(cwnd, alpha) =< modulated(cwnd', alpha)
    BY <2>1, ModulatedGrows
  <2>3. cwnd' =< cwnd => modulated(cwnd', alpha) =< modulated(cwnd, alpha)
    BY <2>1, ModulatedGrows
  <2>4. window = modulated(cwnd, alpha) /\ window' = modulated(cwnd', alpha)
    BY <1>1 DEF window
  <2> QED BY <2>2, <2>3, <2>4
<1>2. CASE algorithm # "orca"
  BY <1>2 DEF window
<1> QED BY <1>1, <1>2

\* An ACK of new data raises CUBIC's window, or leaves it.
LEMMA AckedWidens ==
  ASSUME WindowInv, NEW bytes_acked \in 1 .. INITIAL_SSTHRESH, NEW target \in Targets,
         acked(bytes_acked, target), algorithm # "reno"
  PROVE  window' >= window
<1> USE DEF WindowInv, ControlTypeOK, WindowKept
<1>1. cwnd \in 2 * mss .. MAX_CWND /\ cwnd \in Nat
  BY Numbers
<1>2. cwnd' \in Nat /\ cwnd' >= cwnd
  <2>1. CASE mode = "slow_start" /\ cwnd < ssthresh
    <3>1. cwnd + bytes_acked \in Nat /\ cwnd + bytes_acked < WORD
      BY <2>1, Numbers
    <3>2. (cwnd + bytes_acked) % WORD = cwnd + bytes_acked
      BY <3>1, Fits, Numbers
    <3> QED BY <2>1, <3>1, <3>2 DEF acked, cubic_on_ack
  <2>2. CASE ~(mode = "slow_start" /\ cwnd < ssthresh)
    <3>1. target \in 0 .. WORD - 1
      BY WindowAssumption
    <3>2. grown(target) \in Nat /\ grown(target) >= cwnd
      BY <1>1, <3>1, GrownMore
    <3>3. cwnd' = least(MAX_CWND, grown(target))
      BY <2>2 DEF acked, cubic_on_ack
    <3> QED BY <1>1, <3>2, <3>3, Numbers DEF least
  <2> QED BY <2>1, <2>2
<1>3. algorithm' = algorithm /\ alpha' = alpha
  BY DEF acked
<1> QED BY <1>1, <1>2, <1>3, WindowFollows

\* A duplicate ACK does not.
LEMMA DupAckedNarrows ==
  ASSUME WindowInv, dup_acked, algorithm # "reno"
  PROVE  window' =< window
<1> USE DEF WindowInv, ControlTypeOK, WindowKept
<1>1. cwnd \in 2 * mss .. MAX_CWND /\ cwnd \in Nat
  BY Numbers
<1>2. cwnd' \in Nat /\ cwnd' =< cwnd
  <2>1. CASE dup_ack_count = 2
    <3>1. cwnd > 0
      BY <1>1, Numbers
    <3>2. PICK reduced \in seven_tenths(cwnd) : ssthresh' = most(reduced, 2 * mss)
      BY <2>1 DEF dup_acked, cubic_on_loss
    <3>3. reduced \in 0 .. cwnd
      BY <1>1, <3>1, Reduced
    <3> QED BY <1>1, <2>1, <3>2, <3>3, Numbers DEF dup_acked, cubic_on_loss, most
  <2>2. CASE dup_ack_count # 2
    BY <1>1, <2>2 DEF dup_acked
  <2> QED BY <2>1, <2>2
<1>3. algorithm' = algorithm /\ alpha' = alpha
  BY DEF dup_acked
<1> QED BY <1>1, <1>2, <1>3, WindowFollows

-----------------------------------------------------------------------------
\* The initial window is within the limits.
LEMMA InitKeeps == ControlInit => WindowInv
<1>1. 0 \in AlphaRange
  BY AlphaAssumption DEF AlphaRange
<1>2. 3 \in Nat /\ 0 \in 0 .. 2
  OBVIOUS
<1> QED BY <1>1, <1>2, Numbers DEF ControlInit, WindowInv, ControlTypeOK, WindowKept

\* The invariant is inductive.
LEMMA NextKeeps == WindowInv /\ [ControlNext]_controlVars => WindowInv'
<1> SUFFICES ASSUME WindowInv, [ControlNext]_controlVars PROVE WindowInv'
  OBVIOUS
<1>1. CASE \E bytes_acked \in 1 .. INITIAL_SSTHRESH, target \in Targets :
             acked(bytes_acked, target)
  BY <1>1, AckedKeeps
<1>2. CASE dup_acked
  BY <1>2, DupAckedKeeps
<1>3. CASE \/ timed_out
           \/ \E a \in Alphas : set_alpha(a)
           \/ switch("orca", "cubic") \/ switch("cubic", "orca")
           \/ UNCHANGED controlVars
  BY <1>3, OthersKeep
<1> QED BY <1>1, <1>2, <1>3 DEF ControlNext

\* A step that narrows the window of CUBIC or Orca is a loss, a new alpha or a
\* new controller.
LEMMA NarrowsOnlySo ==
  WindowInv /\ [ControlNext]_controlVars =>
    [algorithm # "reno" /\ window' < window
       => dup_acked \/ alpha' # alpha \/ algorithm' # algorithm]_controlVars
<1> SUFFICES ASSUME WindowInv, ControlNext, algorithm # "reno", window' < window,
                    ~dup_acked, alpha' = alpha, algorithm' = algorithm
             PROVE  FALSE
  BY DEF controlVars
<1>1. \A bytes_acked \in 1 .. INITIAL_SSTHRESH, target \in Targets :
        ~acked(bytes_acked, target)
  <2> SUFFICES ASSUME NEW bytes_acked \in 1 .. INITIAL_SSTHRESH, NEW target \in Targets,
                      acked(bytes_acked, target)
               PROVE  FALSE
    OBVIOUS
  <2>1. window' >= window
    BY AckedWidens
  <2>2. WindowInv' /\ algorithm' # "reno"
    BY AckedKeeps
  <2>3. WindowLimited /\ WindowLimited'
    <3>1. WindowLimited
      BY InvLimits
    <3>2. WindowLimited'
      BY <2>2, InvLimits, PTL
    <3> QED BY <3>1, <3>2
  <2>4. window \in Int /\ window' \in Int
    <3>1. algorithm \in {"cubic", "orca"} /\ algorithm' \in {"cubic", "orca"}
      BY <2>2 DEF WindowInv, ControlTypeOK
    <3> QED BY <2>3, <3>1, Numbers DEF WindowLimited
  <2> QED BY <2>1, <2>4
<1>2. ASSUME NEW a \in Alphas, set_alpha(a) PROVE FALSE
  <2>1. window' = window
    BY <1>2 DEF set_alpha, window
  <2>2. window \in Int
    <3>1. WindowLimited
      BY InvLimits
    <3>2. algorithm \in {"cubic", "orca"}
      BY DEF WindowInv, ControlTypeOK
    <3> QED BY <3>1, <3>2, Numbers DEF WindowLimited
  <2> QED BY <2>1, <2>2
<1>3. ~timed_out /\ ~switch("orca", "cubic") /\ ~switch("cubic", "orca")
  BY DEF timed_out, switch
<1> QED BY <1>1, <1>2, <1>3 DEF ControlNext

\* Every window a connection sends by is within the limits, a loss never widens
\* it and an ACK never narrows it (tcp_cubic.hpp, tcp_orca.hpp, tcp_reno.hpp).
THEOREM WindowIsSound == ControlSpec => WindowSound
<1>1. ControlSpec => []WindowInv
  BY InitKeeps, NextKeeps, PTL DEF ControlSpec
<1>2. WindowInv => WindowLimited
  BY InvLimits
<1>3. WindowInv /\ [ControlNext]_controlVars =>
        [dup_acked /\ algorithm # "reno" => window' =< window]_controlVars
  BY DupAckedNarrows
<1> QED BY <1>1, <1>2, <1>3, NarrowsOnlySo, PTL
        DEF ControlSpec, WindowSound, AckNeverNarrows, LossNeverWidens

\* The windows and thresholds stay in their 32 bits, the mode in those of its
\* algorithm (the class members of tcp_reno.hpp and tcp_cubic.hpp).
THEOREM ControlTyped == ControlSpec => []ControlTypeOK
<1>1. WindowInv => ControlTypeOK
  BY DEF WindowInv
<1> QED BY <1>1, InitKeeps, NextKeeps, PTL DEF ControlSpec

-----------------------------------------------------------------------------
(* The facade and the device. *)

\* What the system gives when a device is opened.
Given == {"-", "fd", "dll", "adapter", "session", "umem", "fill", "comp", "rx", "tx"}

\* What the stack relies on: the object knows of everything it was given, and has
\* all of its device while it lives; and the loop starts with nothing lent.
StackInv ==
  /\ StackTypeOK
  /\ fields = held
  /\ kind = "none" => life \in {"none", "failed"}
  /\ life \in {"none", "failed", "destroyed"} => held = {}
  /\ life \in {"ready", "running", "stopped"} => Dev!given(Len(Dev!Steps)) \subseteq held
  /\ life # "running" => pc = "receive"
  /\ pc # "process" => lent = 0

\* No step of open is given the XDP program, which is loaded behind the steps.
LEMMA StepsGive ==
  ASSUME kind \in Dev!Kinds
  PROVE  /\ Len(Dev!Steps) \in Nat
         /\ \A n \in 0 .. Len(Dev!Steps) : Dev!given(n) \subseteq Given
<1>1. Dev!Steps \in Seq(Given)
  <2> DEFINE one == <<"-">>
             rings == <<"-", "-", "-", "-", "-", "fill", "comp", "rx", "tx">>
  <2>1. one \in Seq(Given) /\ <<"umem">> \in Seq(Given) /\ <<"fd">> \in Seq(Given)
    BY DEF Given
  <2>2. rings \in Seq(Given)
    BY DEF Given
  <2>3. /\ <<"fd", "-">> \in Seq(Given) /\ <<"fd", "-", "-">> \in Seq(Given)
        /\ <<"dll", "-">> \in Seq(Given) /\ <<"adapter", "session">> \in Seq(Given)
    BY DEF Given
  <2>4. Dev!WindowsDevice \in Seq(Given)
    BY <2>3, ConcatProperties DEF Dev!WindowsDevice, Dev!load_wintun_dll
  <2>5. Dev!LinuxAFXDPDevice \in Seq(Given)
    <3>1. one \o <<"umem">> \in Seq(Given)
      BY <2>1, ConcatProperties, Zenon
    <3>2. one \o <<"umem">> \o <<"fd">> \in Seq(Given)
      BY <2>1, <3>1, ConcatProperties, Zenon
    <3>3. one \o <<"umem">> \o <<"fd">> \o one \in Seq(Given)
      BY <2>1, <3>2, ConcatProperties, Zenon
    <3>4. one \o <<"umem">> \o <<"fd">> \o one \o rings \in Seq(Given)
      BY <2>2, <3>3, ConcatProperties, Zenon
    <3>5. one \o <<"umem">> \o <<"fd">> \o one \o rings \o one \in Seq(Given)
      BY <2>1, <3>4, ConcatProperties, Zenon
    <3> QED BY <3>5, Zenon DEF Dev!LinuxAFXDPDevice, Dev!umem_create, Dev!create_socket,
              Dev!register_to_socket, Dev!setup_rings, Dev!bind_to_interface
  <2> QED BY <2>3, <2>4, <2>5 DEF Dev!Steps, Dev!Kinds, Dev!LinuxDevice, Dev!MacOSDevice
<1>2. Len(Dev!Steps) \in Nat
  BY <1>1, LenProperties
<1>3. ASSUME NEW n \in 0 .. Len(Dev!Steps) PROVE Dev!given(n) \subseteq Given
  <2> DEFINE steps == SubSeq(Dev!Steps, 1, n)
  <2>1. steps \in Seq(Given)
    BY <1>1, <1>2, SubSeqProperties
  <2>2. \A i \in DOMAIN steps : steps[i] \in Given
    BY <2>1
  <2> HIDE DEF steps
  <2>3. Dev!Range(steps) \subseteq Given
    BY <2>2 DEF Dev!Range
  <2> QED BY <2>3 DEF Dev!given, steps
<1> QED BY <1>2, <1>3

\* A stack that does not exist yet has nothing.
LEMMA StackStarts == StackInit => StackInv
<1> SUFFICES ASSUME StackInit PROVE StackInv
  OBVIOUS
<1>1. StackTypeOK
  <2>1. /\ RxRing \in Nat /\ TIMER_INTERVAL \in Nat /\ FW_TIMER_INTERVAL \in Nat
        /\ BATCH_SIZE \in Nat /\ SECURITY_TICKS \in Nat \ {0}
    BY StackAssumption
  <2>2. /\ rx = 0 /\ batch = 0 /\ lent = 0 /\ since_timer = 0 /\ since_fw_timer = 0
        /\ security_tick_count = 0
    BY DEF StackInit
  <2>3. /\ config \in Configs /\ life = "none" /\ kind = "none" /\ held = {} /\ fields = {}
        /\ running = FALSE /\ pc = "receive"
    BY DEF StackInit, Dev!DeviceInit
  <2>4. /\ rx \in 0 .. RxRing /\ batch \in 0 .. BATCH_SIZE /\ lent \in 0 .. BATCH_SIZE
        /\ since_timer \in 0 .. TIMER_INTERVAL /\ since_fw_timer \in 0 .. FW_TIMER_INTERVAL
        /\ security_tick_count \in 0 .. SECURITY_TICKS - 1
    BY <2>1, <2>2
  <2> QED BY <2>3, <2>4 DEF StackTypeOK
<1>2. /\ life = "none" /\ held = {} /\ fields = {} /\ pc = "receive" /\ lent = 0
  BY DEF StackInit, Dev!DeviceInit
<1> QED BY <1>1, <1>2 DEF StackInv

\* open leaves the object with what the system gave, and a device that opened with
\* all its steps give.
LEMMA OpenKeeps ==
  ASSUME StackInv, NEW first \in 1 .. 15, NEW bpf \in 1 .. 7,
         NEW flags \in {"mode", "generic"}, NEW loaded \in BOOLEAN,
         initialize(first, bpf, flags, loaded)
  PROVE  StackInv'
<1>1. /\ kind \in Dev!Kinds /\ kind' = kind /\ held = {} /\ fields = {} /\ life = "none"
      /\ Dev!Steps' = Dev!Steps
  BY DEF StackInv, StackTypeOK, initialize, Dev!open, Dev!Steps
<1>2. /\ first - 1 \in 0 .. Len(Dev!Steps)
      /\ ~Dev!failing(first) => first - 1 = Len(Dev!Steps)
  BY <1>1, StepsGive DEF initialize, Dev!open, Dev!failing
<1>3. "program" \notin Dev!given(first - 1) /\ "object" \notin Dev!given(first - 1)
  BY <1>1, <1>2, StepsGive DEF Given
<1>4. fields' = held' /\ (~Dev!failing(first) => Dev!given(first - 1) \subseteq held')
  <2> DEFINE loaded_program == Dev!load_bpf_program(bpf)
             got == IF ~Dev!failing(first) /\ kind = "af_xdp"
                    THEN Dev!given(first - 1) \cup loaded_program ELSE Dev!given(first - 1)
  <2>1. loaded_program \subseteq {"program", "object"} /\ (bpf # 7 => loaded_program = {})
    BY DEF Dev!load_bpf_program
  <2>2. IF Dev!failing(first) /\ kind # "af_xdp" THEN held' = held /\ fields' = fields
        ELSE held' = held \cup got
             /\ fields' = fields \cup IF Dev!failing(first) \/ bpf = 7 THEN got
                                      ELSE got \ {"program", "object"}
    BY DEF initialize, Dev!open
  <2> HIDE DEF loaded_program
  <2>3. CASE Dev!failing(first)
    BY <1>1, <2>2, <2>3
  <2>4. CASE ~Dev!failing(first)
    <3>1. Dev!given(first - 1) \subseteq got
      OBVIOUS
    <3>2. bpf # 7 => got \ {"program", "object"} = got
      BY <1>3, <2>1
    <3> HIDE DEF got
    <3> QED BY <1>1, <2>2, <2>4, <3>1, <3>2
  <2> QED BY <2>3, <2>4
<1>5. life' = IF Dev!failing(first) THEN "opening_failed" ELSE "ready"
  BY DEF initialize
<1>6. (~Dev!failing(first)) => (Dev!given(Len(Dev!Steps)))' \subseteq held'
  <2>1. (Dev!given(Len(Dev!Steps)))' = Dev!given(Len(Dev!Steps))
    BY <1>1 DEF Dev!given
  <2> QED BY <1>2, <1>4, <2>1
<1>7. StackTypeOK'
  BY <1>1, <1>4, <1>5 DEF StackInv, StackTypeOK, initialize, timers
<1>8. pc' = "receive" /\ lent' = 0
  BY <1>1 DEF StackInv, initialize
<1> QED BY <1>1, <1>4, <1>5, <1>6, <1>7, <1>8 DEF StackInv, Dev!Kinds

\* The other steps of the stack's life.
LEMMA LifeKeeps ==
  ASSUME StackInv, chosen \/ destroyed \/ start \/ stop
  PROVE  StackInv'
<1>1. CASE chosen
  <2>1. /\ kind = "none" /\ life = "none" /\ held = {} /\ fields = {}
        /\ held' = held /\ fields' = fields /\ kind' \in Dev!Kinds \cup {"none"}
        /\ life' = IF kind' = "none" THEN "failed" ELSE "none"
    BY <1>1 DEF chosen, StackInv, Dev!create, Dev!Kinds
  <2>2. /\ UNCHANGED <<config, running, pc, rx, batch, lent, since_timer, since_fw_timer>>
        /\ UNCHANGED security_tick_count
    BY <1>1 DEF chosen, timers
  <2>3. StackTypeOK'
    BY <2>1, <2>2 DEF StackInv, StackTypeOK
  <2> QED BY <2>1, <2>2, <2>3 DEF StackInv, Dev!Kinds
<1>2. CASE destroyed
  <2>1. /\ life' \in {"failed", "destroyed"} /\ life # "running" /\ pc' = pc /\ lent' = lent
        /\ held' = held \ fields /\ fields' = {} /\ kind' = kind /\ running' = FALSE
        /\ rx' = 0 /\ UNCHANGED <<config, batch, lent, since_timer, since_fw_timer>>
        /\ UNCHANGED security_tick_count
        /\ kind = "none" => life' = "failed"
    BY <1>2 DEF destroyed, Dev!destroy, timers, StackInv
  <2>2. held' = {} /\ fields' = {}
    BY <2>1 DEF StackInv
  <2>3. StackTypeOK'
    <3>1. RxRing \in Nat
      BY StackAssumption
    <3>2. running' \in BOOLEAN /\ fields' \subseteq held'
      BY <2>1, <2>2, Zenon
    <3>3. rx' = 0
      BY <2>1, Zenon
    <3>4. rx' \in 0 .. RxRing
      BY <3>1, <3>3
    <3>5. kind' \in Dev!Kinds \cup {"none"} /\ pc' \in {"receive", "process", "timers"}
      BY <2>1 DEF StackInv, StackTypeOK
    <3> QED BY <2>1, <3>2, <3>4, <3>5 DEF StackInv, StackTypeOK
  <2> QED BY <2>1, <2>2, <2>3 DEF StackInv
<1>3. CASE start
  <2>1. (Dev!given(Len(Dev!Steps)))' = Dev!given(Len(Dev!Steps))
    BY <1>3 DEF start, device, Dev!given, Dev!Steps
  <2>2. TIMER_INTERVAL \in Nat /\ FW_TIMER_INTERVAL \in Nat
    BY StackAssumption
  <2>3. /\ life \in {"ready", "stopped"} /\ life' = "running" /\ running' = TRUE
        /\ pc' = "receive" /\ since_timer' = 0 /\ since_fw_timer' = 0
        /\ UNCHANGED <<config, kind, held, fields, rx, batch, lent, security_tick_count>>
    BY <1>3 DEF start, device
  <2>4. StackTypeOK'
    BY <2>2, <2>3 DEF StackInv, StackTypeOK
  <2> QED BY <2>1, <2>3, <2>4 DEF StackInv
<1>4. CASE stop
  <2>1. (Dev!given(Len(Dev!Steps)))' = Dev!given(Len(Dev!Steps))
    BY <1>4 DEF stop, device, Dev!given, Dev!Steps
  <2> QED BY <1>4, <2>1 DEF stop, device, timers, StackInv, StackTypeOK
<1> QED BY <1>1, <1>2, <1>3, <1>4

\* The loop, the network and the clock.
LEMMA LoopKeeps ==
  ASSUME StackInv, loop \/ arrive \/ time_passes \/ UNCHANGED stackVars
  PROVE  StackInv'
<1>1. /\ UNCHANGED <<config, parts, device>>
      /\ (Dev!given(Len(Dev!Steps)))' = Dev!given(Len(Dev!Steps))
  BY DEF loop, receive, leave, process, release_rx, on_timers, arrive, time_passes,
         stackVars, device, Dev!given, Dev!Steps
<1>2. kind' = kind /\ held' = held /\ fields' = fields
  BY <1>1 DEF device
<1>3. CASE receive
  <2>1. PICK n \in 0 .. at_most(rx, IF kind = "af_xdp" THEN BATCH_SIZE ELSE 1) :
          /\ batch' = n /\ lent' = IF kind = "af_xdp" THEN n ELSE 0
          /\ rx' = rx - n
    BY <1>3 DEF receive
  <2>2. BATCH_SIZE \in Nat /\ BATCH_SIZE > 0 /\ rx \in Nat /\ rx <= RxRing /\ RxRing \in Nat
    BY StackAssumption DEF StackInv, StackTypeOK
  <2>3. n \in Nat /\ n <= rx /\ n <= BATCH_SIZE
    BY <2>1, <2>2 DEF at_most
  <2>4. rx' \in 0 .. RxRing /\ batch' \in 0 .. BATCH_SIZE /\ lent' \in 0 .. BATCH_SIZE
    BY <2>1, <2>2, <2>3
  <2>5. /\ life = "running" /\ life' = life /\ pc' = "process"
        /\ UNCHANGED <<config, running, since_timer, since_fw_timer, security_tick_count>>
    BY <1>3 DEF receive, at, timers
  <2> QED BY <1>1, <1>2, <2>4, <2>5 DEF StackInv, StackTypeOK
<1>4. CASE leave
  BY <1>1, <1>2, <1>4 DEF leave, at, timers, StackInv, StackTypeOK
<1>5. CASE process \/ release_rx
  <2>1. /\ life = "running" /\ pc = "process" /\ life' = life /\ pc' \in {"process", "timers"}
        /\ UNCHANGED <<config, running, rx, since_timer, since_fw_timer, security_tick_count>>
        /\ pc' # "process" => lent' = 0
    BY <1>5 DEF process, release_rx, at, timers
  <2>2. BATCH_SIZE \in Nat
    BY StackAssumption
  <2>3. batch' \in 0 .. BATCH_SIZE /\ lent' \in 0 .. BATCH_SIZE
    BY <1>5, <2>2 DEF process, release_rx, StackInv, StackTypeOK
  <2> QED BY <1>1, <1>2, <2>1, <2>3 DEF StackInv, StackTypeOK
<1>6. CASE on_timers
  <2>1. security_tick_count' \in 0 .. SECURITY_TICKS - 1
    <3>1. (security_tick_count + 1) % SECURITY_TICKS \in 0 .. SECURITY_TICKS - 1
      BY StackAssumption DEF StackInv, StackTypeOK
    <3> QED BY <1>6, <3>1 DEF on_timers, StackInv, StackTypeOK
  <2>2. /\ since_timer' \in 0 .. TIMER_INTERVAL /\ since_fw_timer' \in 0 .. FW_TIMER_INTERVAL
    <3>1. TIMER_INTERVAL \in Nat /\ FW_TIMER_INTERVAL \in Nat
      BY StackAssumption
    <3> QED BY <1>6, <3>1 DEF on_timers, StackInv, StackTypeOK
  <2>3. /\ life' = life /\ pc' = "receive" /\ lent' = lent /\ pc = "timers" /\ lent = 0
        /\ life = "running"
        /\ UNCHANGED <<config, running, rx, batch>>
    BY <1>6 DEF on_timers, at, StackInv
  <2> QED BY <1>1, <1>2, <2>1, <2>2, <2>3 DEF StackInv, StackTypeOK
<1>7. CASE arrive \/ time_passes
  <2>1. RxRing \in Nat /\ TIMER_INTERVAL \in Nat /\ FW_TIMER_INTERVAL \in Nat
    BY StackAssumption
  <2>2. CASE arrive
    BY <1>1, <1>2, <2>1, <2>2 DEF arrive, timers, StackInv, StackTypeOK
  <2>3. CASE time_passes
    <3>1. /\ since_timer' \in 0 .. TIMER_INTERVAL /\ since_fw_timer' \in 0 .. FW_TIMER_INTERVAL
      BY <2>1, <2>3 DEF time_passes, at_most, StackInv, StackTypeOK
    <3>2. UNCHANGED <<life, running, pc, rx, batch, lent, security_tick_count>>
      BY <2>3 DEF time_passes
    <3> QED BY <1>1, <1>2, <3>1, <3>2 DEF StackInv, StackTypeOK
  <2> QED BY <1>7, <2>2, <2>3
<1>8. CASE UNCHANGED stackVars
  BY <1>1, <1>2, <1>8 DEF stackVars, timers, StackInv, StackTypeOK
<1> QED BY <1>3, <1>4, <1>5, <1>6, <1>7, <1>8 DEF loop

\* Whichever step of opening fails, and however the stack is used and stopped,
\* everything the system gave has gone back when it is gone (neustack.cpp:201,
\* hal_linux_afxdp.cpp:136).
THEOREM StackLeaksNothing == StackSpec => []NothingLeaks
<1>1. StackInit => StackInv
  BY StackStarts
<1>2. StackInv /\ [StackNext]_stackVars => StackInv'
  BY OpenKeeps, LifeKeeps, LoopKeeps DEF StackNext
<1>3. StackInv => NothingLeaks
  BY DEF StackInv, NothingLeaks
<1> QED BY <1>1, <1>2, <1>3, PTL DEF StackSpec

\* The state of the stack stays in its types.
THEOREM StackTyped == StackSpec => []StackTypeOK
<1>1. StackInit => StackInv
  BY StackStarts
<1>2. StackInv /\ [StackNext]_stackVars => StackInv'
  BY OpenKeeps, LifeKeeps, LoopKeeps DEF StackNext
<1>3. StackInv => StackTypeOK
  BY DEF StackInv
<1> QED BY <1>1, <1>2, <1>3, PTL DEF StackSpec

-----------------------------------------------------------------------------
(* The network. *)

\* What can be on its way to a host: a packet that quotes no ICMP message but an
\* echo, and an echo reply only from a host.
Sound(p) ==
  /\ p \in IPv4Packet
  /\ p.about \notin IcmpTypes \ Echoes
  /\ p.content = "echo_reply" => p.src \in Hosts

Travelling(copy) == copy \in [to: Hosts, packet: IPv4Packet] /\ Sound(copy.packet)

NetInv == NetTypeOK /\ \A copy \in BagToSet(wire) : Travelling(copy)

\* A bag without one of its copies, or with another bag, has no new elements.
LEMMA BagParts ==
  ASSUME NEW B, NEW C
  PROVE  /\ BagToSet(B (-) C) \subseteq BagToSet(B)
         /\ BagToSet(B (+) C) = BagToSet(B) \cup BagToSet(C)
BY DEF BagToSet, (-), (+)

LEMMA BagOfSet ==
  ASSUME NEW S
  PROVE  BagToSet(SetToBag(S)) = S /\ BagToSet(EmptyBag) = {}
BY DEF BagToSet, SetToBag, EmptyBag

\* What a host builds for an address of the network is a packet.
LEMMA PacketBuilt ==
  ASSUME NEW from \in Hosts \cup Unanswerable \cup {Broadcast}, NEW to \in Hosts \cup {Broadcast},
         NEW what \in Contents,
         NEW quoting \in Contents \cup {"none"}, NEW size_ok \in BOOLEAN
  PROVE  /\ packet(from, to, what, quoting) \in IPv4Packet
         /\ [packet(from, to, what, quoting) EXCEPT !.fits = size_ok] \in IPv4Packet
<1>1. 0 \in 0 .. 1 /\ 1 \in 0 .. 1 /\ TRUE \in BOOLEAN /\ FALSE \in BOOLEAN
  OBVIOUS
<1>2. packet(from, to, what, quoting) \in IPv4Packet
  BY <1>1, Zenon DEF packet, IPv4Packet
<1> QED BY <1>2 DEF IPv4Packet

LEMMA PacketSays ==
  ASSUME NEW from, NEW to, NEW what, NEW quoting, NEW size_ok
  PROVE  LET p == packet(from, to, what, quoting) IN
         /\ p.src = from /\ p.dst = to /\ p.content = what /\ p.about = quoting
         /\ [p EXCEPT !.fits = size_ok].src = from
         /\ [p EXCEPT !.fits = size_ok].dst = to
         /\ [p EXCEPT !.fits = size_ok].about = quoting
         /\ [p EXCEPT !.fits = size_ok].content = what
BY DEF packet

\* What is sent reaches hosts, unchanged; an address that is nobody's, none.
LEMMA Sent ==
  ASSUME NEW p, p.dst \in Hosts \cup {Broadcast} => Sound(p)
  PROVE  \A copy \in BagToSet(send(p)) : Travelling(copy)
<1>1. /\ reached(p) \subseteq Hosts
      /\ reached(p) # {} => p.dst \in Hosts \cup {Broadcast}
  BY DEF reached
<1>2. BagToSet(send(p)) \subseteq {[to |-> h, packet |-> p] : h \in reached(p)}
  BY BagOfSet DEF send
<1> QED BY <1>1, <1>2 DEF Travelling, Sound

\* An ICMP error is sent about an echo or no ICMP message, to the source.
LEMMA ErrorSent ==
  ASSUME NEW h \in Hosts, NEW type \in Errors, NEW p \in IPv4Packet
  PROVE  \A copy \in BagToSet(send_error(h, type, p)) : Travelling(copy)
<1> DEFINE mute == protocol(p.content) = "icmp" /\ (p.short \/ p.content \notin Echoes)
<1>1. CASE mute
  BY <1>1, BagOfSet DEF send_error
<1>2. CASE ~mute
  <2>1. send_error(h, type, p) = send(error(h, type, p))
    BY <1>2 DEF send_error
  <2>2. /\ p.content \in Contents /\ p.content \notin IcmpTypes \ Echoes
        /\ type \in Contents /\ type # "echo_reply"
    BY <1>2 DEF IPv4Packet, Contents, IcmpTypes, Echoes, Errors, protocol
  <2> DEFINE base == packet(h, p.src, type, p.content)
             b == (p.dst = Broadcast)
             e == [base EXCEPT !.about_broadcast = b]
  <2>3. base.dst = p.src /\ base.content = type /\ base.about = p.content
    BY PacketSays
  <2>4. p.src \in Hosts \cup {Broadcast} => base \in IPv4Packet
    BY <2>2, PacketBuilt
  <2>5. b \in BOOLEAN
    OBVIOUS
  <2>6. e = error(h, type, p)
    BY DEF error
  <2>7. e.dst = p.src /\ e.content = type /\ e.about = p.content
    BY DEF packet
  <2> HIDE DEF base, b
  <2>8. p.src \in Hosts \cup {Broadcast} => e \in IPv4Packet
    BY <2>4, <2>5 DEF IPv4Packet
  <2> HIDE DEF e
  <2>9. p.src \in Hosts \cup {Broadcast} => Sound(e)
    BY <2>2, <2>7, <2>8 DEF Sound
  <2> QED BY <2>1, <2>6, <2>7, <2>9, Sent
<1> QED BY <1>1, <1>2

\* A reply quotes nothing.
LEMMA ReplySent ==
  ASSUME NEW h \in Hosts, NEW p \in IPv4Packet
  PROVE  \A copy \in BagToSet(handle_echo_request(h, p)) : Travelling(copy)
<1> DEFINE reply == packet(h, p.src, "echo_reply", "none")
           sized == [reply EXCEPT !.fits = p.fits]
<1>1. p.fits \in BOOLEAN /\ "echo_reply" \in Contents /\ "none" \notin IcmpTypes
  BY DEF IPv4Packet, Contents, IcmpTypes, Echoes, Errors
<1>2. sized.dst = p.src /\ sized.about = "none" /\ sized.src = h
  BY PacketSays
<1>3. p.src \in Hosts \cup {Broadcast} => sized \in IPv4Packet
  BY <1>1, PacketBuilt
<1> HIDE DEF sized
<1>4. \A copy \in BagToSet(send(sized)) : Travelling(copy)
  BY <1>1, <1>2, <1>3, Sent DEF Sound
<1> QED BY <1>4 DEF handle_echo_request, sized

\* Whatever a host receives, it answers with what may travel.
LEMMA AnswerSent ==
  ASSUME NEW h \in Hosts, NEW p \in IPv4Packet
  PROVE  \A copy \in BagToSet(on_receive(h, p)) : Travelling(copy)
<1>1. on_receive(h, p) \in {EmptyBag, send_error(h, "time_exceeded", p),
                            send_error(h, "dest_unreachable", p), handle_echo_request(h, p)}
  <2>1. icmp_handle(h, p) \in {EmptyBag, handle_echo_request(h, p)}
    BY DEF icmp_handle
  <2>2. udp_handle(h, p) \in {EmptyBag, send_error(h, "dest_unreachable", p)}
    BY DEF udp_handle
  <2> QED BY <2>1, <2>2, Zenon DEF on_receive
<1>2. "time_exceeded" \in Errors /\ "dest_unreachable" \in Errors
  BY DEF Errors
<1> QED BY <1>1, <1>2, BagOfSet, ErrorSent, ReplySent

\* Nothing is known of a stranger but that it does not quote.
LEMMA OddSent ==
  ASSUME NEW h \in Hosts, NEW p \in Odd(h)
  PROVE  Travelling([to |-> h, packet |-> p])
<1>1. /\ (CHOOSE u \in Unanswerable : TRUE) \in Unanswerable
      /\ (CHOOSE o \in Hosts \ {h} : TRUE) \in Hosts
  BY NetworkAssumption
<1>2. /\ packet(Broadcast, h, "unbound_port", "none") \in IPv4Packet
      /\ packet(Broadcast, h, "echo_request", "none") \in IPv4Packet
      /\ packet(Broadcast, h, "unknown", "none") \in IPv4Packet
      /\ packet(Broadcast, h, "dest_unreachable", "none") \in IPv4Packet
      /\ packet(Broadcast, h, "other", "none") \in IPv4Packet
  BY PacketBuilt DEF Contents, IcmpTypes, Echoes, Errors
<1>3. /\ packet(Broadcast, h, "unbound_port", "none").about = "none"
      /\ packet(Broadcast, h, "echo_request", "none").about = "none"
      /\ packet(Broadcast, h, "unknown", "none").about = "none"
      /\ packet(Broadcast, h, "dest_unreachable", "none").about = "none"
      /\ packet(Broadcast, h, "other", "none").about = "none"
      /\ packet(Broadcast, h, "other", "none").content = "other"
      /\ packet(Broadcast, h, "unbound_port", "none").content = "unbound_port"
      /\ packet(Broadcast, h, "echo_request", "none").content = "echo_request"
      /\ packet(Broadcast, h, "unknown", "none").content = "unknown"
      /\ packet(Broadcast, h, "dest_unreachable", "none").content = "dest_unreachable"
  BY PacketSays
<1> DEFINE Says(what) == {q \in IPv4Packet : q.about = "none" /\ q.content = what}
<1>4. ASSUME NEW what, NEW q \in Says(what), NEW s \in Hosts \cup Unanswerable
      PROVE  [q EXCEPT !.src = s] \in Says(what) /\ [q EXCEPT !.dst = Broadcast] \in Says(what)
  BY DEF IPv4Packet
<1>5. ASSUME NEW what, NEW q \in Says(what)
      PROVE  [q EXCEPT !.fragment_offset = 1] \in Says(what) /\ [q EXCEPT !.ttl = 0] \in Says(what)
  BY DEF IPv4Packet
<1>6. ASSUME NEW what, NEW q \in Says(what)
      PROVE  [q EXCEPT !.short = TRUE] \in Says(what) /\ [q EXCEPT !.checksum_ok = FALSE] \in Says(what)
  BY DEF IPv4Packet
<1> DEFINE one(what) == packet(Broadcast, h, what, "none")
<1>7. /\ one("unbound_port") \in Says("unbound_port") /\ one("echo_request") \in Says("echo_request")
      /\ one("unknown") \in Says("unknown")
      /\ one("dest_unreachable") \in Says("dest_unreachable") /\ one("other") \in Says("other")
  BY <1>2, <1>3
<1> DEFINE nobody == CHOOSE u \in Unanswerable : TRUE
           other == CHOOSE o \in Hosts \ {h} : TRUE
<1>8. nobody \in Hosts \cup Unanswerable /\ other \in Hosts \cup Unanswerable
  BY <1>1
<1>9. p \in {[one("unbound_port") EXCEPT !.src = nobody], [one("echo_request") EXCEPT !.dst = Broadcast],
             [one("unknown") EXCEPT !.src = other, !.fragment_offset = 1],
             [one("dest_unreachable") EXCEPT !.src = other, !.ttl = 0],
             [one("other") EXCEPT !.src = other, !.ttl = 0],
             [one("echo_request") EXCEPT !.short = TRUE, !.ttl = 0],
             [one("unbound_port") EXCEPT !.checksum_ok = FALSE]}
  BY DEF Odd
<1> HIDE DEF Says, one, nobody, other
<1>10. /\ [one("unbound_port") EXCEPT !.src = nobody] \in Says("unbound_port")
       /\ [one("echo_request") EXCEPT !.dst = Broadcast] \in Says("echo_request")
       /\ [one("unbound_port") EXCEPT !.checksum_ok = FALSE] \in Says("unbound_port")
  BY <1>4, <1>6, <1>7, <1>8
<1>11. [one("unknown") EXCEPT !.src = other, !.fragment_offset = 1] \in Says("unknown")
  BY <1>4, <1>5, <1>7, <1>8
<1>12. /\ [one("dest_unreachable") EXCEPT !.src = other, !.ttl = 0] \in Says("dest_unreachable")
       /\ [one("other") EXCEPT !.src = other, !.ttl = 0] \in Says("other")
  BY <1>4, <1>5, <1>7, <1>8
<1>13. [one("echo_request") EXCEPT !.short = TRUE, !.ttl = 0] \in Says("echo_request")
  BY <1>5, <1>6, <1>7
<1>14. \E what \in {"unbound_port", "echo_request", "unknown", "dest_unreachable", "other"} :
         p \in Says(what)
  BY <1>9, <1>10, <1>11, <1>12, <1>13, Zenon
<1>15. p \in IPv4Packet /\ p.about = "none" /\ p.content # "echo_reply"
  BY <1>14 DEF Says
<1> QED BY <1>15 DEF Travelling, Sound, IcmpTypes, Echoes, Errors

\* Each step of the network and its hosts.
LEMMA NetKeeps ==
  ASSUME NetInv, [NetNext]_netVars
  PROVE  NetInv'
<1>1. \A copy \in BagToSet(wire) : Travelling(copy)
  BY DEF NetInv
<1>2. ASSUME NEW copy \in BagToSet(wire), deliver(copy)
      PROVE  NetInv'
  <2>1. copy.to \in Hosts /\ copy.packet \in IPv4Packet
    BY <1>1, <1>2 DEF Travelling
  <2>2. \A c \in BagToSet(on_receive(copy.to, copy.packet)) : Travelling(c)
    BY <2>1, AnswerSent
  <2>3. \A c \in BagToSet(wire') : Travelling(c)
    BY <1>1, <1>2, <2>2, BagParts DEF deliver
  <2>4. heard' \subseteq [from: Hosts, to: Hosts]
    BY <1>1, <1>2, <2>1 DEF deliver, Travelling, Sound, NetInv, NetTypeOK
  <2> QED BY <1>2, <2>3, <2>4 DEF deliver, NetInv, NetTypeOK, Travelling
<1>3. ASSUME NEW copy \in BagToSet(wire), lose(copy)
      PROVE  NetInv'
  <2>1. \A c \in BagToSet(wire') : Travelling(c)
    BY <1>1, <1>3, BagParts DEF lose
  <2> QED BY <1>3, <2>1 DEF lose, NetInv, NetTypeOK, Travelling
<1>4. ASSUME NEW copy \in BagToSet(wire), expire(copy)
      PROVE  NetInv'
  <2> DEFINE late == [copy EXCEPT !.packet.ttl = 0]
  <2>1. Travelling(late)
    <3>1. copy \in [to: Hosts, packet: IPv4Packet] /\ Sound(copy.packet)
      BY <1>1 DEF Travelling
    <3>2. late.packet = [copy.packet EXCEPT !.ttl = 0] /\ late.to = copy.to
      BY <3>1
    <3>3. [copy.packet EXCEPT !.ttl = 0] \in IPv4Packet
      BY <3>1 DEF IPv4Packet
    <3>4. late \in [to: Hosts, packet: IPv4Packet]
      BY <3>1, <3>2, <3>3
    <3>5. Sound([copy.packet EXCEPT !.ttl = 0])
      BY <3>1, <3>3 DEF Sound, IPv4Packet
    <3> QED BY <3>2, <3>4, <3>5 DEF Travelling
  <2> HIDE DEF late
  <2>2. \A c \in BagToSet(wire') : Travelling(c)
    BY <1>1, <1>4, <2>1, BagParts, BagOfSet DEF expire, late
  <2> QED BY <1>4, <2>2 DEF expire, NetInv, NetTypeOK, Travelling
<1>5. ASSUME NEW h \in Hosts, NEW to \in Hosts \cup {Broadcast}, NEW size_ok \in BOOLEAN,
             send_echo_request(h, to, size_ok)
      PROVE  NetInv'
  <2> DEFINE request == packet(h, to, "echo_request", "none")
             sized == [request EXCEPT !.fits = size_ok]
  <2>1. "echo_request" \in Contents /\ "none" \notin IcmpTypes
    BY DEF Contents, IcmpTypes, Echoes, Errors
  <2>2. /\ sized \in IPv4Packet
        /\ sized.about = "none" /\ sized.content = "echo_request"
    BY <2>1, PacketBuilt, PacketSays
  <2> HIDE DEF sized
  <2>3. \A c \in BagToSet(send(sized)) : Travelling(c)
    BY <2>1, <2>2, Sent DEF Sound
  <2>4. \A c \in BagToSet(wire') : Travelling(c)
    BY <1>1, <1>5, <2>3, BagParts DEF send_echo_request, sized
  <2>5. pings' \subseteq [from: Hosts, to: Hosts]
    BY <1>5 DEF send_echo_request, NetInv, NetTypeOK
  <2>6. sent' \in 0 .. MaxSent
    BY <1>5, NetworkAssumption DEF send_echo_request, NetInv, NetTypeOK
  <2>7. UNCHANGED <<faulty, heard>>
    BY <1>5 DEF send_echo_request
  <2> QED BY <2>4, <2>5, <2>6, <2>7 DEF NetInv, NetTypeOK, Travelling
<1>6. ASSUME NEW h \in Hosts, NEW to \in Hosts \cup {Broadcast},
             NEW content \in {"bound_port", "unbound_port", "unknown"}, sendto(h, to, content)
      PROVE  NetInv'
  <2>1. content \in Contents /\ "none" \notin IcmpTypes /\ content # "echo_reply"
    BY DEF Contents, IcmpTypes, Echoes, Errors
  <2>2. Sound(packet(h, to, content, "none"))
    <3>1. packet(h, to, content, "none") \in IPv4Packet
      BY <2>1, PacketBuilt
    <3>2. /\ packet(h, to, content, "none").about = "none"
          /\ packet(h, to, content, "none").content = content
      BY PacketSays
    <3> QED BY <2>1, <3>1, <3>2 DEF Sound
  <2>3. \A c \in BagToSet(send(packet(h, to, content, "none"))) : Travelling(c)
    BY <2>2, Sent
  <2>4. \A c \in BagToSet(wire') : Travelling(c)
    BY <1>1, <1>6, <2>3, BagParts DEF sendto
  <2>5. sent' \in 0 .. MaxSent
    BY <1>6, NetworkAssumption DEF sendto, NetInv, NetTypeOK
  <2>6. UNCHANGED <<faulty, pings, heard>>
    BY <1>6 DEF sendto
  <2> QED BY <2>4, <2>5, <2>6 DEF NetInv, NetTypeOK, Travelling
<1>7. ASSUME NEW h \in Hosts, NEW p \in Odd(h), stranger(h, p)
      PROVE  NetInv'
  <2>1. \A c \in BagToSet(wire') : Travelling(c)
    BY <1>1, <1>7, OddSent, BagParts, BagOfSet DEF stranger
  <2>2. sent' \in 0 .. MaxSent
    BY <1>7, NetworkAssumption DEF stranger, NetInv, NetTypeOK
  <2>3. UNCHANGED <<faulty, pings, heard>>
    BY <1>7 DEF stranger
  <2> QED BY <2>1, <2>2, <2>3 DEF NetInv, NetTypeOK, Travelling
<1>8. CASE UNCHANGED netVars
  BY <1>8 DEF netVars, NetInv, NetTypeOK
<1> QED BY <1>2, <1>3, <1>4, <1>5, <1>6, <1>7, <1>8 DEF NetNext

\* Nothing is on its way at first.
LEMMA NetStarts == NetInit => NetInv
<1> SUFFICES ASSUME NetInit PROVE NetInv
  OBVIOUS
<1>1. BagToSet(wire) = {}
  BY BagOfSet DEF NetInit
<1>2. sent \in 0 .. MaxSent
  BY NetworkAssumption DEF NetInit
<1>3. faulty \in BOOLEAN /\ pings = {} /\ heard = {}
  BY DEF NetInit
<1> QED BY <1>1, <1>2, <1>3 DEF NetInv, NetTypeOK

\* No ICMP error is ever sent about an ICMP message other than an echo, by however
\* many hosts over whatever network: what may travel quotes none (icmp.cpp:147,
\* ipv4.cpp:197).
THEOREM ErrorsAreJustified == NetSpec => []ErrorsJustified
<1>1. NetInv => ErrorsJustified
  BY DEF NetInv, Travelling, Sound, ErrorsJustified
<1> QED BY <1>1, NetStarts, NetKeeps, PTL DEF NetSpec

\* What travels is a packet on its way to a host, and only hosts hear of pings.
THEOREM NetTyped == NetSpec => []NetTypeOK
<1>1. NetInv => NetTypeOK
  BY DEF NetInv
<1> QED BY <1>1, NetStarts, NetKeeps, PTL DEF NetSpec
=============================================================================

------------------------------- MODULE TcpTcb -------------------------------
(***************************************************************************)
(* One end of a TCP connection: the TCB of tcp_tcb.hpp and the functions   *)
(* of src/transport/tcp_connection.cpp that work on it.  Module TcpPair    *)
(* joins two ends by a network.                                            *)
(*                                                                         *)
(* A handler runs to its end in the one thread of the stack and calls the  *)
(* application back on the way, which may send or close at once.  So each  *)
(* function maps a record r to the record after the call:                  *)
(*    r.c    the TCB                     r.out  the segments sent          *)
(*    r.a    the application's side      r.cb   what it does when called   *)
(*    r.cwnd what cwnd() returns         back                              *)
(*                                                                         *)
(* A byte is its position in the stream the application writes, so a       *)
(* payload is a first position and a length; it is carried beside the      *)
(* sequence number, which wraps.  Times are left out: which timers are due *)
(* is chosen by TcpPair.                                                   *)
(***************************************************************************)
EXTENDS TcpSeq, Sequences, FiniteSets, FiniteSetsExt

CONSTANTS MSS,             \* options.mss
          MAX_TCP_SIZE,    \* the data a segment can hold, 1460
          MaxWindow,       \* the greatest window a segment can tell, 65535
          SendBufferSize,  \* options.send_buffer_size
          RecvBufferSize,  \* options.recv_buffer_size, also the first rcv_wnd
          MaxRetransmit,   \* options.max_retransmit
          Nagle,           \* options.nagle_enabled
          DelayedAck,      \* options.delayed_ack_enabled
          MaxWritten       \* bound: the bytes an application writes in all

Smaller(x, y) == IF x < y THEN x ELSE y

NONE == "NONE"   \* no TCB

\* A TCB as create_tcb makes it, with the initial sequence number isn.  Of the
\* send buffer, a ring, the bytes it holds and the slot of the first are kept.
NewTcb(isn) ==
  [state |-> "CLOSED", passive_open |-> FALSE,
   iss |-> isn, snd_una |-> isn, snd_nxt |-> isn, snd_wnd |-> 0,
   rcv_nxt |-> 0, rcv_wnd |-> RecvBufferSize,
   send_buffer |-> 0, send_read |-> 0, retransmit_queue |-> <<>>, ooo_queue |-> <<>>,
   dup_ack_count |-> 0, delayed_ack_pending |-> FALSE,
   zero_window_probe_needed |-> FALSE, close_pending |-> FALSE]

NoTcb == [NewTcb(0) EXCEPT !.state = NONE]

\* What the application at this end has done and seen.
\*   written    bytes its send() calls had accepted
\*   received   the bytes on_receive has handed it
\*   connected  it holds the connection: between on_connect and on_close
\*   closed     it has called close()
\*   peer_fin   the peer's FIN has been consumed (history)
\*   aborted    the connection was given up after max_retransmit (history)
NewApp == [written |-> 0, received |-> <<>>, connected |-> FALSE,
           closed |-> FALSE, peer_fin |-> FALSE, aborted |-> FALSE]

\* How many of the positions 1..n lie in S before the first that does not: where
\* a scan from the front of a queue stops.
Leading(S, n) == CHOOSE k \in 0..n : 1..k \subseteq S /\ (k = n \/ k + 1 \notin S)

Bytes(from, len) == [i \in 1..len |-> from + i - 1]

-----------------------------------------------------------------------------
(* Output.                                                                 *)

effective_window(r) == Smaller(r.cwnd, r.c.snd_wnd)

\* The room for new data in the window; what is in flight is snd_nxt - snd_una
\* as an unsigned number.
Available(r) ==
  LET in_flight == SeqSub(r.c.snd_nxt, r.c.snd_una)
  IN IF effective_window(r) > in_flight THEN effective_window(r) - in_flight ELSE 0

SegmentOf(c, flags, seq, from, len) ==
  [flags |-> flags, seq |-> seq, ack |-> c.rcv_nxt, wnd |-> Smaller(c.rcv_wnd, MaxWindow),
   from |-> from, len |-> len]

\* raw_send: a segment outside the sequence, as for a retransmission.
raw_send(r, flags, seq, from, len) ==
  IF len > MAX_TCP_SIZE THEN r
  ELSE [r EXCEPT !.out = Append(@, SegmentOf(r.c, flags, seq, from, len))]

\* Mutant: a FIN takes no sequence number.
send_segment_fin_uncounted(r, flags, from, len) ==
  LET seq == IF "SYN" \in flags THEN r.c.snd_una ELSE r.c.snd_nxt
      nxt == SeqAdd(r.c.snd_nxt, len + Cardinality(flags \cap {"SYN"}))
      entry == [seq_start |-> seq, seq_end |-> nxt, from |-> from, len |-> len,
                retransmit_count |-> 0]
  IN IF len > MAX_TCP_SIZE THEN r ELSE
     [raw_send(r, flags, seq, from, len) EXCEPT
        !.c.snd_nxt = nxt,
        !.c.retransmit_queue =
           IF len > 0 \/ flags \cap {"SYN", "FIN"} # {} THEN Append(@, entry) ELSE @]

\* send_segment: SYN, FIN and data move snd_nxt and are kept for retransmission;
\* more data than a segment holds is refused.
send_segment(r, flags, from, len) ==
  LET seq == IF "SYN" \in flags THEN r.c.snd_una ELSE r.c.snd_nxt
      nxt == SeqAdd(r.c.snd_nxt, len + Cardinality(flags \cap {"SYN", "FIN"}))
      entry == [seq_start |-> seq, seq_end |-> nxt, from |-> from, len |-> len,
                retransmit_count |-> 0]
  IN IF len > MAX_TCP_SIZE THEN r ELSE
     [raw_send(r, flags, seq, from, len) EXCEPT
        !.c.snd_nxt = nxt,
        !.c.retransmit_queue =
           IF len > 0 \/ flags \cap {"SYN", "FIN"} # {} THEN Append(@, entry) ELSE @]

send_ack(r) == send_segment(r, {"ACK"}, 0, 0)
send_fin(r) == send_segment(r, {"FIN", "ACK"}, 0, 0)

\* send_rst answers a segment that belongs to no connection.
send_rst(r, seg) ==
  LET seg_len == seg.len + Cardinality(seg.flags \cap {"SYN", "FIN"})
      rst == IF "ACK" \in seg.flags
             THEN [flags |-> {"RST"}, seq |-> seg.ack, ack |-> 0]
             ELSE [flags |-> {"RST", "ACK"}, seq |-> 0, ack |-> SeqAdd(seg.seq, seg_len)]
  IN [r EXCEPT !.out = Append(@,
        [flags |-> rst.flags, seq |-> rst.seq, ack |-> rst.ack,
         wnd |-> 0, from |-> 0, len |-> 0])]

\* rcv_wnd follows the room in the send buffer (back-pressure).
UpdateRcvWnd(r) ==
  [r EXCEPT !.c.rcv_wnd = Smaller(SendBufferSize - r.c.send_buffer, RecvBufferSize)]

\* One turn of the loop of send_buffered_data, and the loop.  The buffer holds
\* the last bytes written; a turn sends no more than lie before the ring's end.
SendPart(r, n) ==
  IF n = 0 THEN r
  ELSE [send_segment(r, {"ACK"}, r.a.written - r.c.send_buffer, n)
          EXCEPT !.c.send_buffer = @ - n,
                 !.c.send_read = (@ + n) % SendBufferSize]

SendNext(r) ==
  LET contiguous == Smaller(r.c.send_buffer, SendBufferSize - r.c.send_read)
  IN SendPart(r, Smaller(Smaller(contiguous, Available(r)), MSS))

\* A turn that sends sends a byte at least.
SendWhatFits(r) ==
  LET sent[k \in 0..r.c.send_buffer] == IF k = 0 THEN r ELSE SendNext(sent[k - 1])
  IN sent[r.c.send_buffer]

\* Mutant: a close() that waited is completed only behind the peer's FIN.
CompleteClose_passive(r) ==
  IF r.c.send_buffer > 0 \/ ~r.c.close_pending \/ r.c.state # "CLOSE_WAIT" THEN r
  ELSE [send_fin([r EXCEPT !.c.close_pending = FALSE]) EXCEPT !.c.state = "LAST_ACK"]

\* A close() that waited for the buffer is completed.
CompleteClose(r) ==
  LET done == [r EXCEPT !.c.close_pending = FALSE]
  IN IF r.c.send_buffer > 0 \/ ~r.c.close_pending THEN r
     ELSE CASE r.c.state = "ESTABLISHED" ->
                 [send_fin(done) EXCEPT !.c.state = "FIN_WAIT_1"]
            [] r.c.state = "CLOSE_WAIT" ->
                 [send_fin(done) EXCEPT !.c.state = "LAST_ACK"]
            [] OTHER -> done

send_buffered_data(r) == CompleteClose(UpdateRcvWnd(SendWhatFits(r)))

-----------------------------------------------------------------------------
(* The calls of the application.                                           *)

\* send(): what does not fit the window, or Nagle holds back, is buffered.
\* Bytes are written in order, so the new ones are the last of r.a.written.
send(r, len) ==
  LET accepted == Smaller(len, SendBufferSize - r.c.send_buffer)
      first == r.a.written
      w == [r EXCEPT !.a.written = @ + accepted]
      buffered == [w EXCEPT !.c.send_buffer = @ + accepted]
      n == Smaller(Smaller(accepted, Available(r)), MSS)
      sent == [send_segment(w, {"ACK"}, first, n) EXCEPT !.c.send_buffer = accepted - n]
  IN IF r.c.state \notin {"ESTABLISHED", "CLOSE_WAIT"} \/ accepted = 0 THEN r
     ELSE IF r.c.send_buffer > 0 THEN buffered
     ELSE IF Nagle /\ r.c.snd_nxt # r.c.snd_una /\ accepted < MSS THEN buffered
     ELSE IF Available(r) = 0 THEN buffered
     ELSE IF n < accepted THEN send_buffered_data(sent) ELSE sent

\* close(), by state.
close(r) ==
  LET closed == [r EXCEPT !.a.closed = TRUE]
      flushed == send_buffered_data(closed)
      FinThen(state) ==
        IF flushed.c.send_buffer > 0 THEN [flushed EXCEPT !.c.close_pending = TRUE]
        ELSE [send_fin(flushed) EXCEPT !.c.state = state]
  IN CASE r.c.state = "ESTABLISHED" -> FinThen("FIN_WAIT_1")
       [] r.c.state = "CLOSE_WAIT" -> FinThen("LAST_ACK")
       [] r.c.state = "SYN_SENT" -> [closed EXCEPT !.c = NoTcb]
       [] OTHER -> closed

\* The application is called back and does what r.cb holds for this callback:
\* it sends a byte, closes, or does nothing.
React(r, callback) ==
  CASE r.cb[callback] = "send" /\ r.a.written < MaxWritten /\ ~r.a.closed -> send(r, 1)
    [] r.cb[callback] = "close" -> close(r)
    [] OTHER -> r

on_connect(r) == React([r EXCEPT !.a.connected = TRUE], "on_connect")

\* on_close comes once: the wrapper and the callbacks are erased after it.
on_close(r) ==
  IF r.a.connected
  THEN [React(r, "on_close") EXCEPT !.a.connected = FALSE]
  ELSE r

on_receive(r, from, len) ==
  IF r.a.connected
  THEN React([r EXCEPT !.a.received = @ \o Bytes(from, len)], "on_receive")
  ELSE r

-----------------------------------------------------------------------------
(* Acknowledgements.                                                       *)

\* The third duplicate ACK resends the first data not acknowledged.
check_dup_ack(r, ack) ==
  LET first == Head(r.c.retransmit_queue)
  IN IF ack # r.c.snd_una \/ r.c.retransmit_queue = <<>> THEN r
     ELSE IF r.c.dup_ack_count < 2 THEN [r EXCEPT !.c.dup_ack_count = @ + 1]
     ELSE [IF first.len = 0 THEN r
           ELSE raw_send(r, {"ACK"}, first.seq_start, first.from, Smaller(first.len, MSS))
             EXCEPT !.c.dup_ack_count = 0]

\* Mutant: an acknowledgement removes one entry only.
Acknowledge_first(queue, ack) ==
  IF queue # <<>> /\ seq_le(Head(queue).seq_end, ack) THEN Tail(queue) ELSE queue

\* Drop the entries ack covers and the acknowledged part of the next one.
Acknowledge(queue, ack) ==
  LET covered == {i \in DOMAIN queue : seq_le(queue[i].seq_end, ack)}
      rest == SubSeq(queue, Leading(covered, Len(queue)) + 1, Len(queue))
      n == SeqSub(ack, rest[1].seq_start)
  IN IF rest = <<>> \/ ~seq_lt(rest[1].seq_start, ack) THEN rest
     ELSE [rest EXCEPT ![1].seq_start = ack, ![1].from = @ + n, ![1].len = @ - n]

\* Mutant: the space an acknowledgement frees is not used.
process_ack_unflushed(r, ack, window) ==
  LET seen == check_dup_ack([r EXCEPT !.c.snd_wnd = window], ack)
  IN IF ~seq_gt(ack, r.c.snd_una) THEN seen
     ELSE [seen EXCEPT !.c.snd_una = ack,
                       !.c.retransmit_queue = Acknowledge(@, ack),
                       !.c.dup_ack_count = 0]

\* The window is taken from every ACK; an ACK of new data or a window that
\* reopens releases the buffer.
process_ack(r, ack, window) ==
  LET seen == check_dup_ack([r EXCEPT !.c.snd_wnd = window], ack)
  IN IF ~seq_gt(ack, r.c.snd_una)
     THEN IF r.c.snd_wnd = 0 /\ window > 0 THEN send_buffered_data(seen) ELSE seen
     ELSE send_buffered_data(
            [seen EXCEPT !.c.snd_una = ack,
                         !.c.retransmit_queue = Acknowledge(@, ack),
                         !.c.dup_ack_count = 0])

-----------------------------------------------------------------------------
(* Data.                                                                   *)

OooSize(queue) == MapThenSumSet(LAMBDA i : queue[i].len, DOMAIN queue)

add_to_ooo_queue(r, seq, from, len) ==
  LET queue == r.c.ooo_queue
      k == Leading({i \in DOMAIN queue : seq_lt(queue[i].seq_start, seq)}, Len(queue))
      entry == [seq_start |-> seq, seq_end |-> SeqAdd(seq, len), from |-> from, len |-> len]
  IN IF OooSize(queue) + len > RecvBufferSize THEN r
     ELSE [r EXCEPT !.c.ooo_queue =
             SubSeq(queue, 1, k) \o <<entry>> \o SubSeq(queue, k + 1, Len(queue))]

deliver_data(r, from, len) == UpdateRcvWnd(on_receive(r, from, len))

\* One turn of the loop of deliver_ooo_data: the first entry is delivered if no
\* gap is before it, less what is before rcv_nxt.
deliver_first(r) ==
  LET first == Head(r.c.ooo_queue)
      skip == SeqSub(r.c.rcv_nxt, first.seq_start)
  IN IF r.c.ooo_queue = <<>> \/ seq_gt(first.seq_start, r.c.rcv_nxt) THEN r
     ELSE IF seq_le(first.seq_end, r.c.rcv_nxt)
          THEN [r EXCEPT !.c.ooo_queue = Tail(@)]
     ELSE [deliver_data(r, first.from + skip, first.len - skip) EXCEPT
             !.c.rcv_nxt = first.seq_end, !.c.ooo_queue = Tail(@)]

deliver_ooo_data(r) ==
  LET turns == Len(r.c.ooo_queue)
      done[k \in 0..turns] == IF k = 0 THEN r ELSE deliver_first(done[k - 1])
  IN done[turns]

ack_delivered(r) ==
  IF DelayedAck /\ ~r.c.delayed_ack_pending
  THEN [r EXCEPT !.c.delayed_ack_pending = TRUE]
  ELSE [send_ack(r) EXCEPT !.c.delayed_ack_pending = FALSE]

\* Mutant: data seen before is not recognised.
handle_data_repeated(r, seg) ==
  IF seg.len = 0 THEN r
  ELSE IF seq_le(seg.seq, r.c.rcv_nxt)
       THEN ack_delivered(deliver_ooo_data(
              [deliver_data(r, seg.from, seg.len) EXCEPT
                 !.c.rcv_nxt = SeqAdd(seg.seq, seg.len)]))
  ELSE send_ack(add_to_ooo_queue(r, seg.seq, seg.from, seg.len))

\* Data is dropped if old, delivered if it is next, less the overlap, and
\* queued behind a gap.
handle_data(r, seg) ==
  LET end == SeqAdd(seg.seq, seg.len)
      skip == IF seq_lt(seg.seq, r.c.rcv_nxt) THEN SeqSub(r.c.rcv_nxt, seg.seq) ELSE 0
  IN IF seg.len = 0 \/ seq_le(end, r.c.rcv_nxt) THEN r
     ELSE IF SeqAdd(seg.seq, skip) = r.c.rcv_nxt
          THEN ack_delivered(deliver_ooo_data(
                 [deliver_data(r, seg.from + skip, seg.len - skip) EXCEPT
                    !.c.rcv_nxt = end]))
     ELSE send_ack(add_to_ooo_queue(r, seg.seq, seg.from, seg.len))

-----------------------------------------------------------------------------
(* The handlers of on_segment_received, one for each state.                *)

HasAck(seg) == "ACK" \in seg.flags
HasFin(seg) == "FIN" \in seg.flags
HasSyn(seg) == "SYN" \in seg.flags
HasRst(seg) == "RST" \in seg.flags

IfAck(r, seg) == IF HasAck(seg) THEN process_ack(r, seg.ack, seg.wnd) ELSE r

\* Mutant: the FIN counts at once.
FinIsNext_any(r, seg) == HasFin(seg)

\* The FIN counts only if everything before it has arrived.
FinIsNext(r, seg) == HasFin(seg) /\ SeqAdd(seg.seq, seg.len) = r.c.rcv_nxt

\* Mutant: the FIN is consumed without an acknowledgement.
TakeFin_unacked(r) ==
  [r EXCEPT !.c.rcv_nxt = SeqAdd(@, 1), !.a.peer_fin = TRUE]

TakeFin(r) ==
  send_ack([r EXCEPT !.c.rcv_nxt = SeqAdd(@, 1), !.a.peer_fin = TRUE])

AllAcked(r) == r.c.snd_una = r.c.snd_nxt

\* start_time_wait_timer keeps the tuple and frees the rest.
TimeWait(r) ==
  [r EXCEPT !.c.state = "TIME_WAIT", !.c.send_buffer = 0, !.c.send_read = 0,
            !.c.retransmit_queue = <<>>, !.c.ooo_queue = <<>>]

\* The listener makes a TCB for a SYN; isn is the number the generator returns.
handle_listen(r, seg, isn) ==
  IF ~HasSyn(seg) \/ HasAck(seg) THEN r
  ELSE [send_segment(
          [r EXCEPT !.c = [NewTcb(isn) EXCEPT !.passive_open = TRUE,
                                              !.rcv_nxt = SeqAdd(seg.seq, 1),
                                              !.snd_wnd = seg.wnd]],
          {"SYN", "ACK"}, 0, 0) EXCEPT !.c.state = "SYN_RCVD"]

handle_syn_sent(r, seg) ==
  LET synced == [r EXCEPT !.c.rcv_nxt = SeqAdd(seg.seq, 1)]
  IN CASE HasSyn(seg) /\ HasAck(seg) ->
            IF seg.ack # SeqAdd(r.c.iss, 1) THEN send_rst(r, seg)
            ELSE on_connect([send_ack(process_ack(synced, seg.ack, seg.wnd))
                               EXCEPT !.c.state = "ESTABLISHED"])
       [] HasSyn(seg) /\ ~HasAck(seg) ->
            [send_segment([synced EXCEPT !.c.retransmit_queue = <<>>,
                                         !.c.snd_nxt = r.c.iss],
                          {"SYN", "ACK"}, 0, 0) EXCEPT !.c.state = "SYN_RCVD"]
       [] OTHER -> r

handle_established(r, seg) ==
  LET s == handle_data(IfAck(r, seg), seg)
  IN IF FinIsNext(s, seg)
     THEN on_close([TakeFin(s) EXCEPT !.c.state = "CLOSE_WAIT"])
     ELSE s

handle_syn_rcvd(r, seg) ==
  LET established == on_connect([process_ack(r, seg.ack, seg.wnd)
                                   EXCEPT !.c.state = "ESTABLISHED"])
  IN IF ~HasAck(seg) THEN r
     ELSE IF ~seq_gt(seg.ack, r.c.snd_una) \/ seq_gt(seg.ack, r.c.snd_nxt)
          THEN send_rst(r, seg)
     ELSE IF seg.len > 0 THEN handle_established(established, seg) ELSE established

handle_fin_wait_1(r, seg) ==
  LET acked == IfAck(r, seg)
      our_fin_acked == HasAck(seg) /\ AllAcked(acked)
      s == handle_data(acked, seg)
  IN IF FinIsNext(s, seg)
     THEN IF our_fin_acked THEN TimeWait(TakeFin(s))
          ELSE [TakeFin(s) EXCEPT !.c.state = "CLOSING"]
     ELSE IF our_fin_acked THEN [s EXCEPT !.c.state = "FIN_WAIT_2"] ELSE s

handle_fin_wait_2(r, seg) ==
  LET s == handle_data(IfAck(r, seg), seg)
  IN IF FinIsNext(s, seg) THEN TimeWait(TakeFin(s)) ELSE s

handle_close_wait(r, seg) == IfAck(r, seg)

handle_closing(r, seg) ==
  LET s == IfAck(r, seg)
  IN IF HasAck(seg) /\ AllAcked(s) THEN TimeWait(s) ELSE s

handle_last_ack(r, seg) ==
  LET s == IfAck(r, seg)
  IN IF HasAck(seg) /\ AllAcked(s) THEN [s EXCEPT !.c = NoTcb] ELSE s

\* A FIN seen again: the ACK was lost.
handle_time_wait(r, seg) == IF HasFin(seg) THEN send_ack(r) ELSE r

\* A reset counts if its number lies in the receive window.
handle_rst(r, seg) ==
  IF ~seq_in_range(seg.seq, r.c.rcv_nxt, SeqAdd(r.c.rcv_nxt, r.c.rcv_wnd)) THEN r
  ELSE [on_close([r EXCEPT !.c.state = "CLOSED"]) EXCEPT !.c = NoTcb]

handle_segment(r, seg) ==
  IF HasRst(seg) THEN handle_rst(r, seg)
  ELSE
  CASE r.c.state = "SYN_SENT" -> handle_syn_sent(r, seg)
    [] r.c.state = "SYN_RCVD" -> handle_syn_rcvd(r, seg)
    [] r.c.state = "ESTABLISHED" -> handle_established(r, seg)
    [] r.c.state = "FIN_WAIT_1" -> handle_fin_wait_1(r, seg)
    [] r.c.state = "FIN_WAIT_2" -> handle_fin_wait_2(r, seg)
    [] r.c.state = "CLOSE_WAIT" -> handle_close_wait(r, seg)
    [] r.c.state = "CLOSING" -> handle_closing(r, seg)
    [] r.c.state = "LAST_ACK" -> handle_last_ack(r, seg)
    [] r.c.state = "TIME_WAIT" -> handle_time_wait(r, seg)

-----------------------------------------------------------------------------
(* The timers of on_timer; due names those that have expired.              *)

\* The flags of an entry without data, by state; none, and nothing is sent.
ControlFlags(state) ==
  CASE state = "SYN_SENT" -> {"SYN"}
    [] state = "SYN_RCVD" -> {"SYN", "ACK"}
    [] state \in {"FIN_WAIT_1", "LAST_ACK"} -> {"FIN", "ACK"}
    [] OTHER -> {}

check_retransmit(r) ==
  LET first == Head(r.c.retransmit_queue)
      counted == [r EXCEPT !.c.retransmit_queue[1].retransmit_count = @ + 1]
      flags == ControlFlags(r.c.state)
  IN IF r.c.retransmit_queue = <<>> THEN r
     ELSE IF first.retransmit_count + 1 > MaxRetransmit
          THEN [on_close(counted) EXCEPT !.c.state = "CLOSED", !.a.aborted = TRUE]
     ELSE IF first.len > 0
          THEN raw_send(counted, {"ACK"}, first.seq_start, first.from, Smaller(first.len, MSS))
     ELSE IF flags # {} THEN raw_send(counted, flags, first.seq_start, 0, 0)
     ELSE counted

\* Mutant: the timer is cleared, nothing is sent.
check_delayed_ack_unsent(r) == [r EXCEPT !.c.delayed_ack_pending = FALSE]

check_delayed_ack(r) ==
  IF r.c.delayed_ack_pending
  THEN [send_ack(r) EXCEPT !.c.delayed_ack_pending = FALSE]
  ELSE r

\* The probe carries the first byte of the buffer and moves nothing.  Its window
\* is what is left of rcv_wnd in the field.
send_zero_window_probe(r) ==
  LET probe == [SegmentOf(r.c, {"ACK"}, r.c.snd_nxt, r.a.written - r.c.send_buffer, 1)
                  EXCEPT !.wnd = r.c.rcv_wnd % (MaxWindow + 1)]
  IN [r EXCEPT !.out = Append(@, probe)]

check_zero_window_probe(r, due) ==
  IF r.c.snd_wnd = 0 /\ r.c.send_buffer > 0
  THEN IF ~r.c.zero_window_probe_needed
       THEN [r EXCEPT !.c.zero_window_probe_needed = TRUE]
       ELSE IF due THEN send_zero_window_probe(r) ELSE r
  ELSE [r EXCEPT !.c.zero_window_probe_needed = FALSE]

\* One visit of on_timer: the connection is erased if it was given up, or if
\* its TIME_WAIT is over.
on_timer(r, due) ==
  LET s == IF "rto" \in due THEN check_retransmit(r) ELSE r
      t == IF "delayed_ack" \in due THEN check_delayed_ack(s) ELSE s
      u == check_zero_window_probe(t, "zwp" \in due)
  IN IF s.c.state = "CLOSED" THEN [s EXCEPT !.c = NoTcb]
     ELSE IF u.c.state = "TIME_WAIT" /\ "time_wait" \in due THEN [u EXCEPT !.c = NoTcb]
     ELSE u
=============================================================================

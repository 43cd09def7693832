---------------------------- MODULE HttpExchange ----------------------------
(* One connection of the HTTP server (http_server.cpp, http_parser.cpp) and   *)
(* the client at its other end, over the byte streams of TCP.  A request is   *)
(* two pieces that may arrive in one segment or in two; a response is units   *)
(* that the server hands to TCP as the send buffer has room.  The client is   *)
(* the library's own (http_client.cpp), one that waits for each response, or  *)
(* one that does not.  Connections of a server share nothing but its routes.  *)
EXTENDS Naturals, Sequences, SequencesExt, FiniteSets

CONSTANTS MaxRequests,   \* bound: requests on the connection
          SEND_BUFFER,   \* units the TCP send buffer holds
          BodyUnits,     \* units of a response
          MAX_BUFFER_SIZE \* pieces the parser holds that it has not read yet

\* A request fits into the parser's buffer.
ASSUME ExchangeAssumption ==
  /\ {MaxRequests, SEND_BUFFER, MAX_BUFFER_SIZE} \subseteq Nat /\ MAX_BUFFER_SIZE >= 2
  /\ BodyUnits \in Nat \ {0}

VARIABLES kind,       \* of the client
          requests,   \* what was asked so far: a sequence of [close, chunked]
          unsent,     \* pieces of the last request the client still has to send
          to_server,  \* pieces TCP has not delivered yet
          server,     \* ConnectionState and the stream the server writes
          received,   \* units of that stream the client has received
          handled,    \* history: the requests the server took, in order
          calls,      \* calls of the HttpClient's response callback
          client_closed

vars == <<kind, requests, unsent, to_server, server, received, handled, calls,
          client_closed>>

Kinds == {"http_client", "sequential", "pipelining"}
Ids == 1 .. MaxRequests
Bad == MaxRequests + 1            \* the response 400

Request == [close: BOOLEAN, chunked: BOOLEAN]
Pieces(r) == <<[request |-> r, part |-> 1], [request |-> r, part |-> 2]>>

\* known: in HttpServer::_connections.  closed: conn->close() was called.
\* generator: chunks left, or Idle; out: the units accepted by TCP, by response.
\* pending: at most a response of one piece, or the two units of a 400.
Idle == BodyUnits + 1
ConnectionState ==
  [known: BOOLEAN, closed: BOOLEAN, keep_alive: BOOLEAN, error: BOOLEAN,
   buffer: Seq([request: Ids, part: {1, 2}]), response: 0 .. Bad,
   pending: 0 .. BodyUnits + 1, generator: 0 .. Idle, header_sent: BOOLEAN,
   out: Seq(1 .. Bad)]

Init ==
  /\ kind \in Kinds
  /\ requests = <<>> /\ unsent = <<>> /\ to_server = <<>> /\ received = 0
  /\ server = [known |-> TRUE, closed |-> FALSE, keep_alive |-> TRUE,
               error |-> FALSE, buffer |-> <<>>, response |-> 0, pending |-> 0,
               generator |-> Idle, header_sent |-> FALSE, out |-> <<>>]
  /\ handled = <<>> /\ calls = 0 /\ client_closed = FALSE

\* The units of a response.
UnitsOf(r) == IF r = Bad THEN 2
            ELSE IF requests[r].chunked THEN BodyUnits + 1 ELSE BodyUnits

-----------------------------------------------------------------------------
\* The stream: conn->send takes what the send buffer has room for, nothing once
\* the connection is closed.
room(s) == IF s.closed THEN 0 ELSE SEND_BUFFER - (Len(s.out) - received)
fits(s, n) == IF n <= room(s) THEN n ELSE room(s)
wrote(s, n) == s.out \o [i \in 1 .. n |-> s.response]

\* What is pending, as far as it goes.
pushed(s) == LET n == fits(s, s.pending) IN
             [s EXCEPT !.out = wrote(s, n), !.pending = @ - n]

closed(s) == [s EXCEPT !.closed = TRUE]
hung_up(s) == IF s.keep_alive THEN s ELSE closed(s)

flush_pending(s) ==
  LET p == pushed(s) IN IF p.pending > 0 THEN p ELSE hung_up(p)

send_response(s, r, n) == flush_pending([s EXCEPT !.response = r, !.pending = n])

\* The header once, then chunks: one that TCP does not take is kept as pending,
\* and the generator has moved past it.
send_next_chunk(s) ==
  LET h == IF s.header_sent THEN s ELSE [s EXCEPT !.pending = 1, !.header_sent = TRUE]
      p == pushed(h)
      n == fits(p, p.generator)
      q == [p EXCEPT !.out = wrote(p, n), !.generator = @ - n] IN
  IF p.pending > 0 THEN p
  ELSE IF q.generator > 0 THEN [q EXCEPT !.pending = 1, !.generator = @ - 1]
  ELSE hung_up([q EXCEPT !.generator = Idle])

-----------------------------------------------------------------------------
\* The request parser.  buffer is the request under way and what follows it; a
\* piece that does not continue that request is an invalid line.  Pieces are whole
\* lines, which the parser takes out of its own buffer as it reads them: what
\* arrives at once is all that counts against the limit.
Complete(buffer) == Len(buffer) >= 2 /\ SubSeq(buffer, 1, 2) = Pieces(buffer[1].request)
Malformed(buffer) ==
  \E i \in DOMAIN buffer : i <= 2 /\ buffer[i] # Pieces(buffer[1].request)[i]

feed(s, data) ==
  IF s.error THEN s
  ELSE LET b == s.buffer \o data IN
       [s EXCEPT !.buffer = b, !.error = Len(data) > MAX_BUFFER_SIZE \/ Malformed(b)]

\* (mutant) the parser keeps the request it has parsed
reset_forgotten(s) == [s EXCEPT !.error = FALSE]

\* reset drops what follows the request in the buffer as well.
reset(s) == [s EXCEPT !.buffer = <<>>, !.error = FALSE]

\* A complete request is dispatched: a route with a generator starts a chunked
\* response, any other gets its response at once.
dispatched(s) ==
  LET r == s.buffer[1].request
      k == [s EXCEPT !.keep_alive = ~requests[r].close] IN
  IF requests[r].chunked
  THEN reset(send_next_chunk([k EXCEPT !.response = r, !.generator = BodyUnits,
                                       !.header_sent = FALSE]))
  ELSE LET t == reset(send_response(k, r, BodyUnits)) IN
       IF t.pending > 0 THEN t ELSE hung_up(t)

\* on_receive.  While a response is under way, what arrives is thrown away.
on_receive(s, data) ==
  IF s.generator # Idle THEN send_next_chunk(s)
  ELSE LET f == IF s.pending > 0 THEN flush_pending(s) ELSE s
           p == feed(f, data) IN
       IF f.pending > 0 THEN f
       ELSE IF p.error THEN closed(send_response(p, Bad, UnitsOf(Bad)))
       ELSE IF Complete(p.buffer) THEN dispatched(p)
       ELSE p

taken(s, data) ==
  LET f == IF s.pending > 0 THEN flush_pending(s) ELSE s
      p == feed(f, data) IN
  IF s.generator = Idle /\ f.pending = 0 /\ ~p.error /\ Complete(p.buffer)
  THEN <<p.buffer[1].request>> ELSE <<>>

deliver(n) ==
  /\ n <= Len(to_server) /\ server.known
  /\ server' = on_receive(server, SubSeq(to_server, 1, n))
  /\ handled' = handled \o taken(server, SubSeq(to_server, 1, n))
  /\ to_server' = SubSeq(to_server, n + 1, Len(to_server))
  /\ UNCHANGED <<kind, requests, unsent, received, calls, client_closed>>

\* (mutant) poll continues generators, and flushes nothing
poll_chunks_only ==
  /\ server.known
  /\ server.generator # Idle
  /\ server' = send_next_chunk(server)
  /\ UNCHANGED <<kind, requests, unsent, to_server, received, handled, calls, client_closed>>

\* HttpServer::poll, for this connection.
poll ==
  /\ server.known
  /\ server.generator # Idle \/ server.pending > 0
  /\ server' = IF server.generator # Idle THEN send_next_chunk(server)
               ELSE flush_pending(server)
  /\ UNCHANGED <<kind, requests, unsent, to_server, received, handled, calls, client_closed>>

-----------------------------------------------------------------------------
\* The client.

Count(seq, r) == Cardinality({i \in DOMAIN seq : seq[i] = r})
Got(r) == r <= Len(requests) /\ Count(SubSeq(server.out, 1, received), r) = UnitsOf(r)

\* The last request has been answered, and did not ask to close.
Free ==
  requests # <<>> =>
    /\ unsent = <<>> /\ kind # "http_client"
    /\ kind = "sequential" => Got(Len(requests)) /\ ~Last(requests).close

\* HttpClient asks to close, and gives all of the request to TCP at once: what
\* the send buffer does not take is never sent.
ask(q) ==
  /\ Len(requests) < MaxRequests /\ Free /\ ~client_closed
  /\ kind = "http_client" => q.close
  /\ requests' = Append(requests, q)
  /\ unsent' = Pieces(Len(requests) + 1)
  /\ UNCHANGED <<kind, to_server, server, received, handled, calls, client_closed>>

send(n) ==
  /\ n <= Len(unsent) /\ ~client_closed
  /\ to_server' = to_server \o SubSeq(unsent, 1, n)
  /\ unsent' = IF kind = "http_client" THEN <<>> ELSE SubSeq(unsent, n + 1, Len(unsent))
  /\ UNCHANGED <<kind, requests, server, received, handled, calls, client_closed>>

\* The peer's FIN or RST: the server forgets the connection and closes it.  If it
\* had closed before, on_close may not come at all.
told(s, comes) == IF comes THEN closed([s EXCEPT !.known = FALSE]) ELSE s

\* The units after which the HttpClient takes its response for complete.  A chunked
\* one has no Content-Length, and its parser then expects no body.
Awaited == IF requests[1].chunked THEN 1 ELSE UnitsOf(1)

\* A unit arrives.  When the response is complete the HttpClient calls back, and
\* closes; the rest still arrives, and is dropped.
receive ==
  /\ received < Len(server.out)
  /\ client_closed => kind = "http_client"
  /\ received' = received + 1
  /\ IF /\ kind = "http_client" /\ ~client_closed
        /\ Count(SubSeq(server.out, 1, received + 1), 1) = Awaited
       THEN calls' = calls + 1 /\ client_closed' = TRUE
       ELSE UNCHANGED <<calls, client_closed>>
  /\ UNCHANGED <<kind, requests, unsent, to_server, server, handled>>

\* The server's FIN arrives, after everything it sent.
on_close ==
  /\ server.closed /\ received = Len(server.out) /\ ~client_closed
  /\ client_closed' = TRUE
  /\ calls' = IF kind = "http_client" /\ calls = 0 THEN 1 ELSE calls
  /\ UNCHANGED <<kind, requests, unsent, to_server, server, received, handled>>

\* Another client goes away when it likes.
leave ==
  /\ kind # "http_client" /\ ~client_closed
  /\ client_closed' = TRUE
  /\ UNCHANGED <<kind, requests, unsent, to_server, server, received, handled, calls>>

\* The server learns of it when all the client sent has arrived.
peer_closed(comes) ==
  /\ client_closed /\ to_server = <<>> /\ server.known
  /\ comes \/ server.closed
  /\ server' = told(server, comes)
  /\ server' # server
  /\ UNCHANGED <<kind, requests, unsent, to_server, received, handled, calls, client_closed>>

-----------------------------------------------------------------------------
Next ==
  \/ \E n \in 1 .. 2 * MaxRequests : deliver(n)
  \/ poll
  \/ \E q \in Request : ask(q)
  \/ \E n \in 1 .. 2 : send(n)
  \/ receive
  \/ on_close
  \/ leave
  \/ \E comes \in BOOLEAN : peer_closed(comes)

Spec ==
  /\ Init /\ [][Next]_vars
  /\ WF_vars(poll) /\ WF_vars(receive) /\ WF_vars(on_close)
  /\ WF_vars(\E n \in 1 .. 2 : send(n))
  /\ WF_vars(\E n \in 1 .. 2 * MaxRequests : deliver(n))

-----------------------------------------------------------------------------
TypeOK ==
  /\ kind \in Kinds /\ requests \in Seq(Request) /\ Len(requests) <= MaxRequests
  /\ unsent \in Seq([request: Ids, part: {1, 2}])
  /\ to_server \in Seq([request: Ids, part: {1, 2}])
  /\ server \in ConnectionState /\ received \in 0 .. Len(server.out)
  /\ handled \in Seq(Ids) /\ calls \in Nat /\ client_closed \in BOOLEAN

\* Whatever the client sends and however little TCP takes at a time, the stream
\* is whole responses one after another, each for a request taken in its turn
\* and at most once, and only the last may be unfinished; the server closes in
\* the middle of no response but a 400.
ResponsesWhole ==
  LET out == server.out IN
  /\ \A i \in 1 .. Len(out) - 1 : out[i] <= out[i + 1]
  /\ \A i \in DOMAIN out :
       /\ out[i] = Bad \/ \E j \in DOMAIN handled : handled[j] = out[i]
       /\ IF out[i] # Last(out) THEN Count(out, out[i]) = UnitsOf(out[i])
          ELSE Count(out, out[i]) <= UnitsOf(out[i])
  /\ \A i \in 1 .. Len(handled) - 1 : handled[i] < handled[i + 1]
  /\ (server.closed /\ server.known /\ out # <<>> /\ Last(out) # Bad) =>
       Count(out, Last(out)) = UnitsOf(Last(out))

\* A client that waits for each response before it asks again is served: what it
\* has sent is either handled or still waiting for its second half, in order and
\* never refused.  The library's client is called back at most once, and once
\* when its connection has ended.
ClientsServed ==
  /\ kind = "sequential" /\ server.known =>
       /\ handled = [i \in DOMAIN handled |-> i]
       /\ Bad \notin Range(server.out) /\ server.response # Bad
       /\ (requests # <<>> /\ unsent = <<>> /\ to_server = <<>>) =>
            Len(handled) = Len(requests)
  /\ calls <= 1
  /\ kind = "http_client" /\ client_closed => calls = 1

ExchangeSound == TypeOK /\ ResponsesWhole /\ ClientsServed

\* Such a client gets every response, as long as the server is polled and the
\* client stays.
EveryRequestAnswered ==
  \A r \in Ids :
    (kind = "sequential" /\ Len(requests) = r) ~>
      (client_closed \/ Got(r))
=============================================================================

----------------------------- MODULE MCServices -----------------------------
(* Four components that share no state, checked side by side: the TCP tables,  *)
(* the DNS client, an HTTP connection and a congestion controller.  A behaviour *)
(* is of one of them, chosen by part at the start; the others stay in their    *)
(* initial state.  A product of the four would add no behaviour to any, only   *)
(* interleavings of steps that commute.                                        *)
EXTENDS TcpTable, CongestionControl, DnsClient, HttpExchange

VARIABLE part

\* 1000 * 2^alpha, for alpha in whole steps.
MCModulation == [a \in -1 .. 1 |-> IF a = -1 THEN 500 ELSE IF a = 0 THEN 1000 ELSE 2000]
MCAlphas == {-2, 0, 1}

services == <<part, tableVars, dnsVars, vars, controlVars>>

ServicesInit ==
  /\ part \in {"tables", "dns", "http", "window"}
  /\ TableInit /\ DnsInit /\ Init /\ ControlInit
  /\ part # "http" => kind = "http_client"
  /\ part # "window" => algorithm = "cubic"

\* The parts that a step of one leaves alone.
Only(one, A) ==
  /\ part = one /\ A /\ UNCHANGED part
  /\ one # "tables" => UNCHANGED tableVars
  /\ one # "dns" => UNCHANGED dnsVars
  /\ one # "http" => UNCHANGED vars
  /\ one # "window" => UNCHANGED controlVars

ServicesNext ==
  \/ Only("tables", TableNext)
  \/ Only("dns", DnsNext)
  \/ Only("http", Next)
  \/ Only("window", ControlNext)

\* The fairness of each part's own specification.
ServicesFairness ==
  /\ WF_services(Only("tables", TableTimer))
  /\ WF_services(Only("dns", Timer))
  /\ WF_services(Only("http", poll)) /\ WF_services(Only("http", receive))
  /\ WF_services(Only("http", on_close))
  /\ WF_services(Only("http", \E n \in 1 .. 2 : send(n)))
  /\ WF_services(Only("http", \E n \in 1 .. 2 * MaxRequests : deliver(n)))

ServicesSpec == ServicesInit /\ [][ServicesNext]_services /\ ServicesFairness

-----------------------------------------------------------------------------
\* TIME_WAIT ends, a query is called back and a request answered, as long as the
\* timers run and the server is polled (tcp_connection.cpp:318, dns_client.cpp:76,
\* http_server.cpp:289).
NothingWaitsForever == TimeWaitEnds /\ EveryRequestEnds /\ EveryRequestAnswered
=============================================================================

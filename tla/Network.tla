------------------------------ MODULE Network ------------------------------
(* IPv4Layer, ICMPHandler and the way UDPLayer meets a port nobody is bound    *)
(* to: hosts that run this stack exchange packets over a network that loses    *)
(* them and may use up their time to live.  What a packet says is reduced to   *)
(* what the handlers look at.                                                  *)
EXTENDS Naturals, Bags, FiniteSets

CONSTANTS Hosts,             \* the addresses of the hosts that run the stack
          Broadcast,         \* 255.255.255.255
          Unanswerable,      \* 0.0.0.0 and the multicast addresses
          MaxSent            \* bound: packets the applications and strangers send

ASSUME NetworkAssumption ==
  /\ MaxSent \in Nat /\ Unanswerable # {}
  /\ \A h \in Hosts : Hosts \ {h} # {}

VARIABLES wire,       \* a bag of packets, each with the host it will reach
          sent,       \* packets sent, other than answers
          faulty,     \* whether a packet was lost or expired on its way
          pings,      \* [from, to]: echo requests sent, to be answered
          heard       \* [from, to]: requests whose reply reached the callback

netVars == <<wire, sent, faulty, pings, heard>>

Errors == {"dest_unreachable", "time_exceeded"}
Echoes == {"echo_request", "echo_reply"}
IcmpTypes == Echoes \cup Errors \cup {"other"}

\* IPv4Packet, with the type of an ICMP message or the port of a datagram as its
\* content; short: less than the header of its protocol; about: what an ICMP
\* error quotes, and whether that was broadcast.  TCP is another protocol with a
\* handler.
Contents == IcmpTypes \cup {"bound_port", "unbound_port", "unknown"}
protocol(content) == CASE content \in IcmpTypes -> "icmp"
                       [] content \in {"bound_port", "unbound_port"} -> "udp"
                       [] OTHER -> "unknown"

IPv4Packet ==
  [src: Hosts \cup Unanswerable \cup {Broadcast}, dst: Hosts \cup {Broadcast},
   content: Contents, about: Contents \cup {"none"}, about_broadcast: BOOLEAN,
   ttl: 0 .. 1, fragment_offset: 0 .. 1, short: BOOLEAN, checksum_ok: BOOLEAN, fits: BOOLEAN]

packet(from, to, what, quoting) ==
  [src |-> from, dst |-> to, content |-> what, about |-> quoting,
   about_broadcast |-> FALSE, ttl |-> 1, fragment_offset |-> 0, short |-> FALSE, checksum_ok |-> TRUE, fits |-> TRUE]

NetInit == wire = EmptyBag /\ sent = 0 /\ faulty = FALSE /\ pings = {} /\ heard = {}

\* IPv4Layer::send: nothing larger than the MTU leaves.  The network brings a
\* packet to its destination, or to every other host; other addresses are nobody's.
reached(p) == IF p.dst = Broadcast THEN Hosts \ {p.src} ELSE {p.dst} \cap Hosts
send(p) == IF p.fits THEN SetToBag({[to |-> h, packet |-> p] : h \in reached(p)}) ELSE EmptyBag

-----------------------------------------------------------------------------
\* Whether RFC 1122 lets an ICMP error be sent about p.
should_send_icmp_error(p) ==
  /\ p.src \notin Unanswerable \cup {Broadcast}
  /\ p.dst # Broadcast
  /\ p.fragment_offset = 0

error(h, type, p) ==
  [packet(h, p.src, type, p.content) EXCEPT !.about_broadcast = (p.dst = Broadcast)]

\* (mutant) only the length is asked
send_error_any(h, type, p) ==
  IF protocol(p.content) = "icmp" /\ p.short THEN EmptyBag ELSE send(error(h, type, p))

\* send_dest_unreachable and send_time_exceeded: of ICMP messages only about an
\* echo, and not about one that is too short to tell.
send_error(h, type, p) ==
  IF protocol(p.content) = "icmp" /\ (p.short \/ p.content \notin Echoes) THEN EmptyBag
  ELSE send(error(h, type, p))

\* ICMPHandler::handle; the reply is as long as the request.
handle_echo_request(h, p) == send([packet(h, p.src, "echo_reply", "none") EXCEPT !.fits = p.fits])

\* (mutant) a reply is answered as a request is
icmp_handle_any(h, p) ==
  IF p.content \in Echoes /\ ~p.short THEN handle_echo_request(h, p)
  ELSE EmptyBag

icmp_handle(h, p) ==
  IF p.content = "echo_request" /\ ~p.short THEN handle_echo_request(h, p) ELSE EmptyBag

\* UDPLayer::handle, with no look at where the datagram was sent to.
udp_handle(h, p) ==
  IF p.content = "unbound_port" /\ ~p.short THEN send_error(h, "dest_unreachable", p) ELSE EmptyBag

\* IPv4Layer::on_receive: the answer of host h.
on_receive(h, p) ==
  CASE ~p.checksum_ok \/ p.dst \notin {h, Broadcast} -> EmptyBag
    [] p.checksum_ok /\ p.dst \in {h, Broadcast} /\ p.ttl = 0 ->
         IF should_send_icmp_error(p) THEN send_error(h, "time_exceeded", p) ELSE EmptyBag
    [] OTHER ->
         CASE protocol(p.content) = "icmp" -> icmp_handle(h, p)
           [] protocol(p.content) = "udp" -> udp_handle(h, p)
           [] OTHER -> IF should_send_icmp_error(p) THEN send_error(h, "dest_unreachable", p)
                       ELSE EmptyBag

-----------------------------------------------------------------------------
deliver(copy) ==
  LET p == copy.packet IN
  /\ wire' = (wire (-) SetToBag({copy})) (+) on_receive(copy.to, p)
  /\ heard' = IF p.content = "echo_reply" /\ ~p.short /\ p.checksum_ok /\ p.ttl > 0
              THEN heard \cup {[from |-> copy.to, to |-> p.src]} ELSE heard
  /\ UNCHANGED <<sent, faulty, pings>>

\* The applications: ping, a datagram, a packet of a protocol of their own.
send_echo_request(h, to, size_ok) ==
  /\ sent < MaxSent /\ sent' = sent + 1
  /\ wire' = wire (+) send([packet(h, to, "echo_request", "none") EXCEPT !.fits = size_ok])
  /\ pings' = IF size_ok /\ to \in Hosts THEN pings \cup {[from |-> h, to |-> to]} ELSE pings
  /\ UNCHANGED <<faulty, heard>>

sendto(h, to, content) ==
  /\ sent < MaxSent /\ sent' = sent + 1
  /\ wire' = wire (+) send(packet(h, to, content, "none"))
  /\ UNCHANGED <<faulty, pings, heard>>

\* Other hosts send what they like, under any address.
stranger(h, p) ==
  /\ sent < MaxSent /\ sent' = sent + 1
  /\ wire' = wire (+) SetToBag({[to |-> h, packet |-> p]})
  /\ UNCHANGED <<faulty, pings, heard>>

Odd(h) ==
  LET one(content) == packet(Broadcast, h, content, "none") IN
  {[one("unbound_port") EXCEPT !.src = CHOOSE u \in Unanswerable : TRUE],
   [one("echo_request") EXCEPT !.dst = Broadcast],
   [one("unknown") EXCEPT !.src = CHOOSE o \in Hosts \ {h} : TRUE, !.fragment_offset = 1],
   [one("dest_unreachable") EXCEPT !.src = CHOOSE o \in Hosts \ {h} : TRUE, !.ttl = 0],
   [one("other") EXCEPT !.src = CHOOSE o \in Hosts \ {h} : TRUE, !.ttl = 0],
   [one("echo_request") EXCEPT !.short = TRUE, !.ttl = 0],
   [one("unbound_port") EXCEPT !.checksum_ok = FALSE]}

lose(copy) ==
  /\ faulty' = TRUE
  /\ wire' = wire (-) SetToBag({copy})
  /\ UNCHANGED <<sent, pings, heard>>

\* A packet arrives with nothing left of its time to live.
expire(copy) ==
  /\ copy.packet.ttl > 0
  /\ wire' = (wire (-) SetToBag({copy})) (+) SetToBag({[copy EXCEPT !.packet.ttl = 0]})
  /\ faulty' = TRUE
  /\ UNCHANGED <<sent, pings, heard>>

NetNext ==
  \/ \E copy \in BagToSet(wire) : deliver(copy) \/ lose(copy) \/ expire(copy)
  \/ \E h \in Hosts, to \in Hosts \cup {Broadcast} :
       \/ h # to /\ \E size_ok \in BOOLEAN : send_echo_request(h, to, size_ok)
       \/ h # to /\ \E content \in {"bound_port", "unbound_port", "unknown"} : sendto(h, to, content)
  \/ \E h \in Hosts : \E p \in Odd(h) : stranger(h, p)

delivery == \E copy \in BagToSet(wire) : deliver(copy)
NetSpec == NetInit /\ [][NetNext]_netVars /\ WF_netVars(delivery)

-----------------------------------------------------------------------------
NetTypeOK ==
  /\ \A copy \in BagToSet(wire) : copy.to \in Hosts /\ copy.packet \in IPv4Packet
  /\ sent \in 0 .. MaxSent /\ faulty \in BOOLEAN /\ pings \cup heard \subseteq [from: Hosts, to: Hosts]

\* No ICMP error is about an ICMP message other than an echo, least of all about
\* an error, whoever asks for it: IPv4 or UDP (ICMPHandler::send_dest_unreachable,
\* icmp.cpp:136).
ErrorsJustified ==
  \A copy \in BagToSet(wire) : copy.packet.about \notin IcmpTypes \ Echoes

\* Nor about a packet that was broadcast, as should_send_icmp_error has it
\* (ipv4.cpp:214).  UDP does not ask it.
ErrorsSpareBroadcast == \A copy \in BagToSet(wire) : ~copy.packet.about_broadcast

\* However hosts answer each other, the network falls silent: no answer calls
\* for an answer for ever (IPv4Layer::on_receive, ipv4.cpp:263).
NetworkQuiets == <>[](wire = EmptyBag)

\* As long as the network delivers everything, every ping is heard of
\* (ICMPHandler::handle_echo_request, icmp.cpp:55).
PingsAnswered ==
  \A ping \in [from: Hosts, to: Hosts] :
    ping \in pings ~> ping \in heard \/ faulty

\* Hosts that answer each other by icmp.cpp and ipv4.cpp come to an end, with
\* every ping answered.
NetworkSettles == NetworkQuiets /\ PingsAnswered
=============================================================================

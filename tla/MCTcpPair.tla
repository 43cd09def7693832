----------------------------- MODULE MCTcpPair -----------------------------
(***************************************************************************)
(* Model checking of TcpPair.                                              *)
(***************************************************************************)
EXTENDS TcpPair

\* The numbers of A wrap on the first data.
MCIsn == [e \in Ends |-> IF e = "A" THEN SeqSpace - 2 ELSE 5]

\* An application closes when the peer has, and otherwise does nothing; an
\* echo server also sends when it is handed data.
Passive == [on_connect |-> "none", on_receive |-> "none", on_close |-> "close"]
Echo == [Passive EXCEPT !.on_receive = "send"]
OneShot == [Passive EXCEPT !.on_receive = "close"]

ASSUME {Passive, Echo, OneShot} \subseteq
         [{"on_connect", "on_receive", "on_close"} -> {"none", "send", "close"}]

\* A client that writes more than its window and closes, and an echo server.
Upload(cwnd) ==
  [both_connect |-> FALSE, closers |-> {"A"}, cwnds |-> {cwnd},
   writes |-> [e \in Ends |-> IF e = "A" THEN {1, 2} ELSE {}],
   reactions |-> [e \in Ends |-> IF e = "A" THEN {Passive} ELSE {Echo}]]

\* The same between two ends that connect to each other.
Crossed(s) == [s EXCEPT !.both_connect = TRUE]

\* Either end may close, at the same time or not; no write waits for the window.
Hangup == [Upload(4) EXCEPT !.closers = {"A", "B"}, !.writes["A"] = {2}]

MCClean == {Upload(2), Crossed(Hangup)}
\* The send buffer of the run with faults holds two bytes.  A writes three, with
\* an echo or a close, or two with both; or the ends connect to each other.
MCFaults ==
  {[Upload(4) EXCEPT !.closers = {}],
   [Upload(4) EXCEPT !.reactions["B"] = {Passive}],
   [Upload(4) EXCEPT !.writes["A"] = {2}],
   Crossed(Hangup)}

\* Both ends close, and A may still hold data for the window.
MCBothClose == {[Upload(2) EXCEPT !.closers = {"A", "B"}]}

\* Both ends write more than the window; nobody closes.
MCChatter ==
  {[Upload(4) EXCEPT !.closers = {}, !.writes = [e \in Ends |-> {2, 4}]]}

\* A sends and waits.
MCSender == {[Upload(4) EXCEPT !.closers = {}, !.writes["A"] = {2},
                               !.reactions["B"] = {Passive}]}
=============================================================================

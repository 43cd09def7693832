--------------------------- MODULE MCTcpReceiver ---------------------------
(***************************************************************************)
(* Model checking of TcpReceiver: a stream of six bytes, segments of at    *)
(* most three, and room for five out-of-order bytes, so that segments      *)
(* overlap in every way, several are held at once, and some find the       *)
(* buffer full.                                                            *)
(***************************************************************************)
EXTENDS TcpReceiver
=============================================================================

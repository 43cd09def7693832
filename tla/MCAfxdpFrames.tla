--------------------------- MODULE MCAfxdpFrames ---------------------------
(***************************************************************************)
(* Model checking of AfxdpFrames with five frames.  As in AFXDPConfig's    *)
(* defaults the fill ring has room for more than half of the frames and a  *)
(* batch is smaller than the fill ring; every ring can be full, the fill   *)
(* ring and the free list can both be empty, and a batch can be all        *)
(* packets that are not IPv4.                                              *)
(***************************************************************************)
EXTENDS AfxdpFrames
CONSTANTS f1, f2, f3, f4, f5
FiveFrames == {f1, f2, f3, f4, f5}
=============================================================================

-------------------------- MODULE CongestionControl --------------------------
(* The congestion window of one connection: TCPReno, TCPCubic and TCPOrca,     *)
(* driven by the events TCPConnectionManager passes on to them, and the switch *)
(* between CUBIC and Orca.  Windows are uint32_t: WORD is 2^32.  CUBIC's curve *)
(* depends on the clock and on floating point, and the conversion of a double  *)
(* that does not fit is undefined: its target is any value of the type.        *)
EXTENDS Integers

CONSTANTS MSS,               \* the segment size of the connection
          MIN_MSS,           \* 536, the least that Reno and CUBIC reckon with
          INITIAL_SSTHRESH,  \* 65535, also the largest window a peer can offer
          MAX_CWND,          \* 65535 * 16
          WORD,              \* 2^32
          ALPHA_ONE,         \* the steps between alpha = 0 and alpha = 1
          Modulation,        \* alpha -> 1000 * 2^alpha
          Targets,           \* the targets CUBIC's curve may give
          Alphas             \* the alphas the agent may set

\* CUBIC starts with ten segments, and reckons its least window, two, in those
\* of MIN_MSS if these are smaller: below a fifth of it a loss would widen it.
ASSUME WindowAssumption ==
  /\ MSS \in Nat \ {0} /\ INITIAL_SSTHRESH \in Nat /\ MAX_CWND \in Nat /\ WORD \in Nat
  /\ MIN_MSS \in Nat /\ MIN_MSS =< 5 * MSS
  /\ 10 * MSS =< MAX_CWND /\ 2 * INITIAL_SSTHRESH =< MAX_CWND
  /\ 2 * MSS =< INITIAL_SSTHRESH /\ 2 * MIN_MSS =< INITIAL_SSTHRESH
  /\ 4 * MAX_CWND =< WORD
  /\ Targets \subseteq 0 .. WORD - 1

AlphaRange == (0 - ALPHA_ONE) .. ALPHA_ONE

ASSUME AlphaAssumption ==
  /\ ALPHA_ONE \in Nat /\ Alphas \subseteq Int
  /\ Modulation \in [AlphaRange -> Nat]

VARIABLES algorithm,         \* "reno", "cubic" or "orca"
          cwnd, ssthresh,    \* of Reno, or of CUBIC (Orca's _cubic)
          mode,              \* "recovery": Reno's _in_fast_recovery; "slow_start":
                             \* CUBIC's _in_slow_start; "open": neither
          alpha,             \* Orca's _current_alpha, in steps of 1/ALPHA_ONE
          dup_ack_count      \* of the TCB

controlVars == <<algorithm, cwnd, ssthresh, mode, alpha, dup_ack_count>>

least(a, b) == IF a =< b THEN a ELSE b
most(a, b) == IF a >= b THEN a ELSE b

\* _mss of Reno and of CUBIC; that of Orca is MSS.
mss == most(MIN_MSS, MSS)

\* Orca's window for CUBIC's c and an alpha of a.
modulated(c, a) == most(2 * MSS, least(MAX_CWND, (c * Modulation[a]) \div 1000))

\* cwnd(): what the connection sends by.
window == IF algorithm = "orca" THEN modulated(cwnd, alpha) ELSE cwnd

\* The constructor of CUBIC, and of Orca, which holds one.
Cubic == /\ cwnd' = 10 * MSS /\ ssthresh' = INITIAL_SSTHRESH /\ mode' = "slow_start"
         /\ alpha' = 0

ControlInit ==
  /\ algorithm \in {"reno", "cubic", "orca"}
  /\ cwnd = IF algorithm = "reno" THEN mss ELSE 10 * MSS
  /\ ssthresh = INITIAL_SSTHRESH
  /\ mode = IF algorithm = "reno" THEN "open" ELSE "slow_start"
  /\ alpha = 0 /\ dup_ack_count = 0

-----------------------------------------------------------------------------
\* TCPReno::on_ack.
reno_on_ack ==
  /\ mode' = "open"
  /\ cwnd' = IF mode = "recovery" THEN ssthresh
             ELSE least(MAX_CWND, IF cwnd < ssthresh THEN cwnd + mss
                                  ELSE cwnd + (mss * mss) \div cwnd)
  /\ UNCHANGED ssthresh

\* The step towards CUBIC's target, in uint32_t.
delta(target) == (((target - cwnd) * mss) % WORD) \div cwnd

grown(target) ==
  IF target > cwnd THEN (cwnd + most(1, delta(target))) % WORD ELSE cwnd

\* TCPCubic::on_ack.
cubic_on_ack(bytes_acked, target) ==
  /\ UNCHANGED ssthresh
  /\ \/ /\ mode = "slow_start" /\ cwnd < ssthresh
        /\ cwnd' = (cwnd + bytes_acked) % WORD
        /\ UNCHANGED mode
     \/ /\ ~(mode = "slow_start" /\ cwnd < ssthresh)
        /\ cwnd' = least(MAX_CWND, grown(target))
        /\ mode' = "open"

\* An ACK of new data: process_ack.
acked(bytes_acked, target) ==
  /\ dup_ack_count' = 0
  /\ IF algorithm = "reno" THEN reno_on_ack ELSE cubic_on_ack(bytes_acked, target)
  /\ UNCHANGED <<algorithm, alpha>>

\* TCPReno::on_loss.
reno_on_loss ==
  /\ ssthresh' = most(cwnd \div 2, 2 * mss)
  /\ cwnd' = ssthresh' + 3 * mss
  /\ mode' = "recovery"

\* What seven tenths of a window of c, in doubles, truncate to: 0.7 is a little
\* less in binary, and so may be a product that would be whole.
seven_tenths(c) == {(7 * c) \div 10, (7 * c - 1) \div 10}

\* (mutant) CUBIC's window is set to the threshold before that is lowered
cubic_on_loss_swapped ==
  /\ cwnd' = ssthresh
  /\ \E reduced \in seven_tenths(cwnd) : ssthresh' = most(reduced, 2 * mss)
  /\ mode' = "open"

\* TCPCubic::on_loss.
cubic_on_loss ==
  /\ \E reduced \in seven_tenths(cwnd) : ssthresh' = most(reduced, 2 * mss)
  /\ cwnd' = ssthresh'
  /\ mode' = "open"

\* A duplicate ACK: check_dup_ack.
dup_acked ==
  /\ UNCHANGED <<algorithm, alpha>>
  /\ \/ /\ algorithm = "reno" /\ mode = "recovery"   \* on_dup_ack
        /\ cwnd' = (cwnd + mss) % WORD
        /\ UNCHANGED <<ssthresh, mode, dup_ack_count>>
     \/ /\ ~(algorithm = "reno" /\ mode = "recovery")
        /\ dup_ack_count' = (dup_ack_count + 1) % 3
        /\ IF dup_ack_count = 2
           THEN IF algorithm = "reno" THEN reno_on_loss ELSE cubic_on_loss
           ELSE UNCHANGED <<cwnd, ssthresh, mode>>

\* The timeout of check_retransmit: only a TCPReno hears of it.
timed_out ==
  /\ algorithm = "reno"
  /\ ssthresh' = most(cwnd \div 2, 2 * mss)
  /\ cwnd' = mss
  /\ mode' = "open"
  /\ UNCHANGED <<algorithm, alpha, dup_ack_count>>

\* TCPOrca::set_alpha, from apply_cwnd_adjust.
set_alpha(a) ==
  /\ algorithm = "orca"
  /\ alpha' = most(0 - ALPHA_ONE, least(ALPHA_ONE, a))
  /\ UNCHANGED <<algorithm, cwnd, ssthresh, mode, dup_ack_count>>

\* switch_all_cc_to_cubic and switch_all_cc_to_orca: a new controller.
switch(from, to) ==
  /\ algorithm = from /\ algorithm' = to
  /\ Cubic
  /\ UNCHANGED dup_ack_count

ControlNext ==
  \/ \E bytes_acked \in 1 .. INITIAL_SSTHRESH, target \in Targets : acked(bytes_acked, target)
  \/ dup_acked
  \/ timed_out
  \/ \E a \in Alphas : set_alpha(a)
  \/ switch("orca", "cubic") \/ switch("cubic", "orca")

ControlSpec == ControlInit /\ [][ControlNext]_controlVars

-----------------------------------------------------------------------------
ControlTypeOK ==
  /\ algorithm \in {"reno", "cubic", "orca"}
  /\ cwnd \in 0 .. WORD - 1 /\ ssthresh \in 0 .. WORD - 1
  /\ mode \in IF algorithm = "reno" THEN {"open", "recovery"} ELSE {"open", "slow_start"}
  /\ alpha \in AlphaRange
  /\ dup_ack_count \in 0 .. 2

\* The window a connection sends by is neither below two segments (one for
\* Reno) nor above the limit, though slow start checks no limit, the sums are
\* 32 bits wide and the target may be any value; only Reno's recovery, which
\* inflates the window by each duplicate ACK, is not limited
\* (tcp_cubic.hpp:38, tcp_orca.hpp:83, tcp_reno.hpp:34).
WindowLimited ==
  /\ algorithm = "reno" => mode = "recovery" \/ window \in mss .. MAX_CWND
  /\ algorithm = "cubic" => window \in 2 * mss .. MAX_CWND
  /\ algorithm = "orca" => window \in 2 * MSS .. MAX_CWND

\* The window of CUBIC or Orca narrows by a third duplicate ACK, by a new alpha
\* or with a new controller, never by an ACK of new data: the growth, a product
\* taken modulo 2^32, cannot wrap the sum (tcp_cubic.hpp:71).
AckNeverNarrows ==
  [][algorithm # "reno" /\ window' < window
       => dup_acked \/ alpha' # alpha \/ algorithm' # algorithm]_controlVars

\* It never widens by a duplicate ACK: the reduction at a loss, and whatever
\* alpha makes of it, do not lift a small window (tcp_cubic.hpp:84, tcp_orca.hpp:81).
LossNeverWidens ==
  [][dup_acked /\ algorithm # "reno" => window' =< window]_controlVars

\* The three together: what the sender may rely on of its controller
\* (effective_window, tcp_tcb.hpp:296).
WindowSound == []WindowLimited /\ AckNeverNarrows /\ LossNeverWidens
=============================================================================

----------------------------- MODULE MCThreads ------------------------------
(* What two threads share, checked side by side: the AI plane over its queue    *)
(* of actions, the lock-free ring that queue is, and a histogram that some     *)
(* threads observe while another reads it.  The three share no state: a        *)
(* behaviour is of one of them, chosen by part at the start, and the others    *)
(* stay as they are.                                                           *)
EXTENDS AiPlane, SpscQueue, Histogram

VARIABLE part

\* Two connections, so that one can be older and one younger than a change of
\* state.  A bandwidth of 1 is a drop from 4, and 3 is not yet a recovery to 85
\* percent of it.
CONSTANTS c1, c2

\* A ring of four slots, so that it can hold several items, and indices that wrap
\* after two rounds.
CONSTANTS v1, v2

\* Two buckets.
MCBoundaries == <<1>>

threads == <<part, vars, queueVars, histogramVars>>

ThreadsInit ==
  /\ part \in {"agent", "ring", "histogram"}
  /\ Init /\ QueueInit /\ HistogramInit
  /\ part # "ring" => buffer = [slot \in 0 .. N - 1 |-> v1]

\* The parts that a step of one leaves alone.
Only(one, A) ==
  /\ part = one /\ A /\ UNCHANGED part
  /\ one # "agent" => UNCHANGED vars
  /\ one # "ring" => UNCHANGED queueVars
  /\ one # "histogram" => UNCHANGED histogramVars

ThreadsNext ==
  \/ Only("agent", Next)
  \/ Only("ring", QueueNext)
  \/ Only("histogram", HistogramNext)

\* The fairness of AiPlane; nothing is asked of the other two.
ThreadsFairness ==
  /\ WF_threads(Only("agent", on_timer))
  /\ WF_threads(Only("agent",
       handle_cwnd_adjust \/ handle_anomaly_alert \/ handle_bw_prediction \/ found_empty))
  /\ SF_threads(Only("agent",
       \E alpha \in Alphas : pushed([type |-> "CWND_ADJUST", alpha |-> alpha])))
  /\ SF_threads(Only("agent", pushed([type |-> "ANOMALY_ALERT", alarm |-> FALSE])))

ThreadsSpec == ThreadsInit /\ [][ThreadsNext]_threads /\ ThreadsFairness
=============================================================================

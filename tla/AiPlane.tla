------------------------------ MODULE AiPlane ------------------------------
(* The AI plane's way from a model's answer to a connection's window: the      *)
(* thread of IntelligencePlane (src/src/ai/intelligence_plane.cpp) infers and  *)
(* pushes actions; TCPLayer::on_timer pops them in the data plane's thread     *)
(* (include/neustack/transport/tcp_layer.hpp), asks NetworkAgent               *)
(* (src/src/ai/ai_agent.cpp) and sets or exchanges the congestion controllers. *)
(*                                                                             *)
(* The models are opaque: any answer may come at any time, or none.  An        *)
(* anomaly score is kept as whether it exceeds the threshold, an alpha in      *)
(* tenths.  The queue is the FIFO that RingProofs shows SPSCQueue to be.       *)
EXTENDS Integers, Sequences

CONSTANTS
    Conns,           \* connections that may exist
    Alphas,          \* what the Orca model may answer, in tenths
    Bandwidths,      \* what the bandwidth model may answer
    ClearRequired,   \* ANOMALY_CLEAR_REQUIRED, 50 in the code
    TicksRequired,   \* RECOVERY_TICKS_REQUIRED, 100 in the code
    QueueSize        \* slots of _action_queue, 16 in the code

ASSUME AiPlaneAssumption ==
    /\ Alphas \subseteq Int
    /\ Bandwidths \subseteq Nat
    /\ ClearRequired \in Nat \ {0}
    /\ TicksRequired \in Nat \ {0}
    /\ QueueSize \in Nat \ {0}

VARIABLES
    ai_running,      \* the intelligence thread runs
    action_queue,    \* _action_queue
    pc,              \* the data plane: "loop", or "actions" inside process_ai_actions
    agent,           \* NetworkAgent's fields
    last_state,      \* _last_agent_state
    cc,              \* each connection's controller
    calm             \* history: clear alerts handled since the last alarm, up to
                     \* ClearRequired

vars == <<ai_running, action_queue, pc, agent, last_state, cc, calm>>

(* ---- NetworkAgent ---- *)

AgentStates == {"NORMAL", "DEGRADED", "UNDER_ATTACK", "RECOVERY"}

at_most(x, high) == IF x > high THEN high ELSE x
clamp(x, high) == IF x < -10 THEN -10 ELSE at_most(x, high)

(* Mutant: under attack the model's alpha is clamped like in the other states. *)
effective_alpha_clamped(a) ==
    CASE a.state = "NORMAL" -> clamp(a.current_alpha, 10)
      [] a.state = "DEGRADED" -> clamp(a.current_alpha, 3)
      [] a.state = "UNDER_ATTACK" -> clamp(a.current_alpha, 5)
      [] a.state = "RECOVERY" -> clamp(a.current_alpha, 5)

effective_alpha(a) ==
    CASE a.state = "NORMAL" -> clamp(a.current_alpha, 10)
      [] a.state = "DEGRADED" -> clamp(a.current_alpha, 3)
      [] a.state = "UNDER_ATTACK" -> 0
      [] a.state = "RECOVERY" -> clamp(a.current_alpha, 5)

transition_to(a, new) ==
    IF new = "RECOVERY"
      THEN [a EXCEPT !.state = new, !.recovery_ticks = 0, !.clear_count = 0]
      ELSE [a EXCEPT !.state = new]

(* Mutant: the ticks of a recovery are not counted.                            *)
on_cwnd_adjust_uncounted(a, alpha) == [a EXCEPT !.current_alpha = alpha]

on_cwnd_adjust(a, alpha) ==
    LET b == [a EXCEPT !.current_alpha = alpha]
        c == [b EXCEPT !.recovery_ticks = @ + 1]
    IN IF a.state # "RECOVERY" THEN b
       ELSE IF c.recovery_ticks >= TicksRequired THEN transition_to(c, "NORMAL") ELSE c

(* Mutant: an alarm during an attack does not restart the count.               *)
on_anomaly_uncounted(a, alarm) ==
    IF alarm THEN IF a.state = "UNDER_ATTACK" THEN a ELSE
                  transition_to([a EXCEPT !.clear_count = 0], "UNDER_ATTACK")
    ELSE IF a.state # "UNDER_ATTACK" THEN a
    ELSE LET b == [a EXCEPT !.clear_count = @ + 1]
         IN IF b.clear_count >= ClearRequired THEN transition_to(b, "RECOVERY") ELSE b

on_anomaly(a, alarm) ==
    IF alarm THEN transition_to([a EXCEPT !.clear_count = 0], "UNDER_ATTACK")
    ELSE IF a.state # "UNDER_ATTACK" THEN a
    ELSE LET b == [a EXCEPT !.clear_count = @ + 1]
         IN IF b.clear_count >= ClearRequired THEN transition_to(b, "RECOVERY") ELSE b

dropped(prev, bw) == prev > 0 /\ 2 * bw < prev             \* BW_DROP_RATIO
recovered(before, bw) == before > 0 /\ 100 * bw >= 85 * before   \* BW_RECOVER_RATIO

(* Mutant: the level remembered is the one after the drop.                     *)
on_bw_prediction_low(a, bw) ==
    LET b == [a EXCEPT !.predicted_bw = bw]
    IN IF a.state = "NORMAL" /\ dropped(a.predicted_bw, bw)
         THEN transition_to([b EXCEPT !.pre_degraded_bw = bw], "DEGRADED")
       ELSE IF a.state = "DEGRADED" /\ recovered(a.pre_degraded_bw, bw)
         THEN transition_to(b, "NORMAL")
       ELSE b

on_bw_prediction(a, bw) ==
    LET b == [a EXCEPT !.predicted_bw = bw]
    IN IF a.state = "NORMAL" /\ dropped(a.predicted_bw, bw)
         THEN transition_to([b EXCEPT !.pre_degraded_bw = a.predicted_bw], "DEGRADED")
       ELSE IF a.state = "DEGRADED" /\ recovered(a.pre_degraded_bw, bw)
         THEN transition_to(b, "NORMAL")
       ELSE b

(* ---- the intelligence thread ---- *)

Actions ==
    [type : {"CWND_ADJUST"}, alpha : Alphas]
        \cup [type : {"ANOMALY_ALERT"}, alarm : BOOLEAN]
        \cup [type : {"BW_PREDICTION"}, bw : Bandwidths]

(* A model answers and its action is pushed; the result of try_push is not     *)
(* looked at, so with a full queue the answer is lost.                         *)
infer(action) ==
    /\ ai_running
    /\ action_queue' = IF Len(action_queue) < QueueSize
                         THEN Append(action_queue, action) ELSE action_queue
    /\ UNCHANGED <<ai_running, pc, agent, last_state, cc, calm>>

process_orca == \E alpha \in Alphas : infer([type |-> "CWND_ADJUST", alpha |-> alpha])
process_anomaly == \E alarm \in BOOLEAN : infer([type |-> "ANOMALY_ALERT", alarm |-> alarm])
process_bandwidth == \E bw \in Bandwidths : infer([type |-> "BW_PREDICTION", bw |-> bw])

(* ---- the data plane ---- *)

Absent == [kind |-> "none", alpha |-> 0]
Cubic == [kind |-> "cubic", alpha |-> 0]
Orca(alpha) == [kind |-> "orca", alpha |-> alpha]

(* create_tcb always installs Orca, whatever the agent's state; nothing asks   *)
(* should_accept_connection.                                                   *)
create_tcb(c) ==
    /\ pc = "loop" /\ cc[c] = Absent
    /\ cc' = [cc EXCEPT ![c] = Orca(0)]
    /\ UNCHANGED <<ai_running, action_queue, pc, agent, last_state, calm>>

delete_tcb(c) ==
    /\ pc = "loop" /\ cc[c] # Absent
    /\ cc' = [cc EXCEPT ![c] = Absent]
    /\ UNCHANGED <<ai_running, action_queue, pc, agent, last_state, calm>>

(* stop() joins the thread, which finishes its push; start() makes a new one.  *)
(* Neither touches the queue or the agent.                                     *)
disable_ai ==
    /\ pc = "loop" /\ ai_running
    /\ ai_running' = FALSE
    /\ UNCHANGED <<action_queue, pc, agent, last_state, cc, calm>>

enable_ai ==
    /\ pc = "loop" /\ ~ai_running
    /\ ai_running' = TRUE
    /\ UNCHANGED <<action_queue, pc, agent, last_state, cc, calm>>

apply_cwnd_adjust ==
    cc' = [c \in Conns |-> IF cc[c].kind = "orca" THEN Orca(effective_alpha(agent')) ELSE cc[c]]

switch_all_cc_to_cubic == [c \in Conns |-> IF cc[c].kind = "orca" THEN Cubic ELSE cc[c]]
switch_all_cc_to_orca == [c \in Conns |-> IF cc[c].kind = "cubic" THEN Orca(0) ELSE cc[c]]

apply_state_change ==
    /\ last_state' = agent'.state
    /\ cc' = IF agent'.state = last_state THEN cc
             ELSE IF agent'.state = "UNDER_ATTACK" THEN switch_all_cc_to_cubic
             ELSE IF last_state = "UNDER_ATTACK" THEN switch_all_cc_to_orca
             ELSE cc

(* process_ai_actions pops until the queue is empty; between two pops the      *)
(* intelligence thread may push.                                               *)
on_timer ==
    /\ pc = "loop" /\ pc' = "actions"
    /\ UNCHANGED <<ai_running, action_queue, agent, last_state, cc, calm>>

popped == Head(action_queue)
pop(type) ==
    /\ pc = "actions" /\ action_queue # <<>> /\ popped.type = type
    /\ action_queue' = Tail(action_queue)
    /\ UNCHANGED <<ai_running, pc>>

handle_cwnd_adjust ==
    /\ pop("CWND_ADJUST")
    /\ agent' = on_cwnd_adjust(agent, popped.alpha)
    /\ apply_cwnd_adjust
    /\ UNCHANGED <<last_state, calm>>

handle_anomaly_alert ==
    /\ pop("ANOMALY_ALERT")
    /\ agent' = on_anomaly(agent, popped.alarm)
    /\ apply_state_change
    /\ calm' = IF popped.alarm THEN 0 ELSE at_most(calm + 1, ClearRequired)

handle_bw_prediction ==
    /\ pop("BW_PREDICTION")
    /\ agent' = on_bw_prediction(agent, popped.bw)
    /\ apply_state_change
    /\ UNCHANGED calm

found_empty ==
    /\ pc = "actions" /\ action_queue = <<>>
    /\ pc' = "loop"
    /\ UNCHANGED <<ai_running, action_queue, agent, last_state, cc, calm>>

(* ---- specification ---- *)

Init ==
    /\ ai_running = FALSE /\ action_queue = <<>> /\ pc = "loop"
    /\ agent = [state |-> "NORMAL", current_alpha |-> 0, predicted_bw |-> 0,
                clear_count |-> 0, recovery_ticks |-> 0, pre_degraded_bw |-> 0]
    /\ last_state = "NORMAL"
    /\ cc = [c \in Conns |-> Absent]
    /\ calm = ClearRequired

Next ==
    \/ process_orca \/ process_anomaly \/ process_bandwidth
    \/ \E c \in Conns : create_tcb(c) \/ delete_tcb(c)
    \/ enable_ai \/ disable_ai
    \/ on_timer
    \/ handle_cwnd_adjust \/ handle_anomaly_alert \/ handle_bw_prediction
    \/ found_empty

Spec == Init /\ [][Next]_vars

(* The run loop calls on_timer every 100 ms and a handler returns.  In that    *)
(* time the models produce ten alphas, one prediction and at most one alert    *)
(* for a queue of 16, so each model's pushes succeed again and again; of the   *)
(* anomaly model that is assumed for clear alerts only.                        *)
pushed(action) == infer(action) /\ Len(action_queue) < QueueSize

Fairness ==
    /\ WF_vars(on_timer)
    /\ WF_vars(handle_cwnd_adjust \/ handle_anomaly_alert \/ handle_bw_prediction \/ found_empty)
    /\ SF_vars(\E alpha \in Alphas : pushed([type |-> "CWND_ADJUST", alpha |-> alpha]))
    /\ SF_vars(pushed([type |-> "ANOMALY_ALERT", alarm |-> FALSE]))

FairSpec == Spec /\ Fairness

(* ---- properties ---- *)

TypeOK ==
    /\ ai_running \in BOOLEAN
    /\ action_queue \in Seq(Actions) /\ Len(action_queue) <= QueueSize
    /\ pc \in {"loop", "actions"}
    /\ agent \in [state : AgentStates, current_alpha : Int, predicted_bw : Nat,
                   clear_count : 0 .. ClearRequired - 1, recovery_ticks : 0 .. TicksRequired,
                   pre_degraded_bw : Nat]
    /\ last_state \in AgentStates
    /\ cc \in [Conns -> {Absent, Cubic} \cup {Orca(alpha) : alpha \in -10 .. 10}]
    /\ calm \in 0 .. ClearRequired

(* What the agent's state promises about the windows, for connections older    *)
(* and younger than the state alike: under attack no alpha takes effect (a     *)
(* controller is CUBIC, or an Orca made since, at alpha 0); in any other state *)
(* every connection is on Orca again, and in RECOVERY no alpha is above 0.5.   *)
ControllersFollowAgent ==
    \A c \in Conns : cc[c] # Absent =>
        IF agent.state = "UNDER_ATTACK" THEN cc[c].alpha = 0
        ELSE /\ cc[c].kind = "orca"
             /\ agent.state = "RECOVERY" => cc[c].alpha <= 5

(* The agent is in UNDER_ATTACK exactly while fewer than ClearRequired         *)
(* consecutive clear alerts have been handled since the last alarm (the count  *)
(* of ai_agent.cpp:29 and :41, over every path between the states).            *)
AttackIffRecentAlarm == agent.state = "UNDER_ATTACK" <=> calm < ClearRequired

(* DEGRADED is held only while the prediction is below 85 percent of what it   *)
(* was before the drop (ai_agent.cpp:53-74).                                   *)
DegradedJustified ==
    agent.state = "DEGRADED" =>
        100 * agent.predicted_bw < 85 * agent.pre_degraded_bw

(* Once alarms have stopped and the thread keeps running, attack and recovery  *)
(* end: no alert sequence leaves the agent stuck (ai_agent.cpp:12-19, 39-46).  *)
AttackPasses ==
    (/\ <>[]ai_running
     /\ <>[][~infer([type |-> "ANOMALY_ALERT", alarm |-> TRUE])]_vars)
        => <>[](agent.state \in {"NORMAL", "DEGRADED"})
=============================================================================

--------------------------- MODULE AiPlaneProofs ---------------------------
(* The agent's automaton and the controllers it drives, for any connections,   *)
(* models' answers, counts and queue size.                                     *)
EXTENDS AiPlane, SequenceTheorems, TLAPS

Agents ==
    [state : AgentStates, current_alpha : Int, predicted_bw : Nat,
     clear_count : 0 .. ClearRequired - 1, recovery_ticks : 0 .. TicksRequired,
     pre_degraded_bw : Nat]

Controllers == {Absent, Cubic} \cup {Orca(alpha) : alpha \in -10 .. 10}

(* What links the two threads of control inside the data plane: the copy of    *)
(* the state that apply_state_change keeps tells attack from no attack, though *)
(* it may lag behind between the other states; the agent's counts are those of *)
(* the present attack or recovery.                                             *)
Linked ==
    /\ last_state = "UNDER_ATTACK" <=> agent.state = "UNDER_ATTACK"
    /\ agent.state = "UNDER_ATTACK" => agent.clear_count = calm
    /\ agent.state = "RECOVERY" => agent.recovery_ticks < TicksRequired

IInv ==
    /\ TypeOK /\ ControllersFollowAgent /\ AttackIffRecentAlarm
    /\ DegradedJustified /\ Linked

(* ---- the agent's operations ---- *)

LEMMA EffectiveAlpha ==
  ASSUME NEW a \in Agents
  PROVE  /\ effective_alpha(a) \in -10 .. 10
         /\ a.state = "UNDER_ATTACK" => effective_alpha(a) = 0
         /\ a.state = "RECOVERY" => effective_alpha(a) <= 5
<1>1. a.current_alpha \in Int /\ a.state \in AgentStates
  BY DEF Agents
<1>2. QED
  BY <1>1 DEF effective_alpha, clamp, at_most, AgentStates

\* An agent whose counters may have reached their limits, as they do just before
\* a transition.
Counting ==
    [state : AgentStates, current_alpha : Int, predicted_bw : Nat,
     clear_count : Nat, recovery_ticks : Nat, pre_degraded_bw : Nat]

LEMMA Transition ==
  ASSUME NEW a \in Counting, NEW new \in AgentStates
  PROVE  LET b == transition_to(a, new)
         IN /\ b \in Counting
            /\ b.state = new
            /\ b.current_alpha = a.current_alpha
            /\ b.predicted_bw = a.predicted_bw
            /\ b.pre_degraded_bw = a.pre_degraded_bw
            /\ b.clear_count = IF new = "RECOVERY" THEN 0 ELSE a.clear_count
            /\ b.recovery_ticks = IF new = "RECOVERY" THEN 0 ELSE a.recovery_ticks
<1>1. CASE new = "RECOVERY"
  BY <1>1 DEF transition_to, Counting
<1>2. CASE new # "RECOVERY"
  BY <1>2 DEF transition_to, Counting
<1>3. QED
  BY <1>1, <1>2

LEMMA AgentsCount ==
  ASSUME NEW a \in Counting
  PROVE  a \in Agents <=> /\ a.clear_count < ClearRequired
                          /\ a.recovery_ticks <= TicksRequired
<1>1. TicksRequired \in Nat \ {0} /\ ClearRequired \in Nat \ {0}
  BY AiPlaneAssumption
<1>2. QED
  BY <1>1 DEF Agents, Counting

LEMMA AgentsAreCounting == Agents \subseteq Counting
<1>1. TicksRequired \in Nat \ {0} /\ ClearRequired \in Nat \ {0}
  BY AiPlaneAssumption
<1>2. QED
  BY <1>1 DEF Agents, Counting

LEMMA CwndAdjust ==
  ASSUME NEW a \in Agents, NEW alpha \in Int,
         a.state = "RECOVERY" => a.recovery_ticks < TicksRequired
  PROVE  LET b == on_cwnd_adjust(a, alpha)
         IN /\ b \in Agents
            /\ b.state = "UNDER_ATTACK" <=> a.state = "UNDER_ATTACK"
            /\ b.state = "DEGRADED" <=> a.state = "DEGRADED"
            /\ b.state = "RECOVERY" => a.state = "RECOVERY" /\ b.recovery_ticks < TicksRequired
            /\ b.clear_count = a.clear_count
            /\ b.predicted_bw = a.predicted_bw
            /\ b.pre_degraded_bw = a.pre_degraded_bw
<1>1. TicksRequired \in Nat \ {0} /\ ClearRequired \in Nat \ {0}
  BY AiPlaneAssumption
<1>2. CASE a.state # "RECOVERY"
  BY <1>2 DEF on_cwnd_adjust, Agents
<1>3. CASE a.state = "RECOVERY"
  <2>1. a.recovery_ticks + 1 \in 0 .. TicksRequired
    BY <1>1, <1>3 DEF Agents
  <2> DEFINE c == [[a EXCEPT !.current_alpha = alpha] EXCEPT !.recovery_ticks = @ + 1]
  <2>2. /\ c \in Agents /\ c.state = "RECOVERY" /\ c.recovery_ticks = a.recovery_ticks + 1
        /\ c.clear_count = a.clear_count /\ c.predicted_bw = a.predicted_bw
        /\ c.pre_degraded_bw = a.pre_degraded_bw
    BY <1>1, <1>3, <2>1 DEF Agents
  <2>3. on_cwnd_adjust(a, alpha)
          = IF c.recovery_ticks >= TicksRequired THEN transition_to(c, "NORMAL") ELSE c
    BY <1>3 DEF on_cwnd_adjust
  <2> HIDE DEF c
  <2>4. CASE c.recovery_ticks >= TicksRequired
    <3>1. c \in Counting /\ "NORMAL" \in AgentStates
      BY <2>2, AgentsAreCounting DEF AgentStates
    <3> DEFINE b == transition_to(c, "NORMAL")
    <3>2. /\ b \in Counting /\ b.state = "NORMAL"
          /\ b.predicted_bw = c.predicted_bw /\ b.pre_degraded_bw = c.pre_degraded_bw
          /\ b.clear_count = c.clear_count /\ b.recovery_ticks = c.recovery_ticks
      BY <3>1, Transition
    <3> HIDE DEF b
    <3>3. b \in Agents
      BY <2>2, <3>1, <3>2, AgentsCount
    <3>4. on_cwnd_adjust(a, alpha) = b
      BY <2>3, <2>4 DEF b
    <3>5. QED
      BY <1>3, <2>2, <3>2, <3>3, <3>4
  <2>5. CASE ~(c.recovery_ticks >= TicksRequired)
    <3>1. on_cwnd_adjust(a, alpha) = c /\ c.recovery_ticks < TicksRequired
      BY <1>1, <2>1, <2>2, <2>3, <2>5
    <3>2. QED
      BY <1>3, <2>2, <3>1
  <2>6. QED
    BY <2>4, <2>5
<1>4. QED
  BY <1>2, <1>3

LEMMA Anomaly ==
  ASSUME NEW a \in Agents, NEW alarm \in BOOLEAN
  PROVE  LET b == on_anomaly(a, alarm)
         IN /\ b \in Agents
            /\ alarm => b.state = "UNDER_ATTACK" /\ b.clear_count = 0
            /\ ~alarm /\ a.state = "UNDER_ATTACK" =>
                 IF a.clear_count + 1 < ClearRequired
                   THEN b.state = "UNDER_ATTACK" /\ b.clear_count = a.clear_count + 1
                   ELSE b.state = "RECOVERY" /\ b.recovery_ticks = 0
            /\ ~alarm /\ a.state # "UNDER_ATTACK" => b = a
<1>1. TicksRequired \in Nat \ {0} /\ ClearRequired \in Nat \ {0}
  BY AiPlaneAssumption
<1>2. CASE alarm
  <2> DEFINE c == [a EXCEPT !.clear_count = 0]
             b == transition_to(c, "UNDER_ATTACK")
  <2>1. c \in Agents /\ c.clear_count = 0
    BY <1>1 DEF Agents
  <2>2. on_anomaly(a, alarm) = b
    BY <1>2 DEF on_anomaly
  <2> HIDE DEF c
  <2>3. c \in Counting /\ "UNDER_ATTACK" \in AgentStates
    BY <2>1, AgentsAreCounting DEF AgentStates
  <2>4. /\ b \in Counting /\ b.state = "UNDER_ATTACK"
        /\ b.clear_count = 0 /\ b.recovery_ticks = c.recovery_ticks
    BY <2>1, <2>3, Transition
  <2> HIDE DEF b
  <2>5. b \in Agents
    BY <1>1, <2>1, <2>3, <2>4, AgentsCount
  <2>6. QED
    BY <1>2, <2>2, <2>4, <2>5
<1>3. CASE ~alarm /\ a.state # "UNDER_ATTACK"
  BY <1>3 DEF on_anomaly
<1>4. CASE ~alarm /\ a.state = "UNDER_ATTACK" /\ a.clear_count + 1 < ClearRequired
  BY <1>1, <1>4 DEF on_anomaly, Agents
<1>5. CASE ~alarm /\ a.state = "UNDER_ATTACK" /\ ~(a.clear_count + 1 < ClearRequired)
  <2> DEFINE c == [a EXCEPT !.clear_count = @ + 1]
             b == transition_to(c, "RECOVERY")
  <2>1. c \in Counting /\ c.clear_count = a.clear_count + 1
    BY <1>1, AgentsAreCounting DEF Agents, Counting
  <2>2. c.clear_count >= ClearRequired
    BY <1>1, <1>5, <2>1 DEF Agents
  <2>3. on_anomaly(a, alarm) = b
    BY <1>5, <2>2 DEF on_anomaly
  <2> HIDE DEF c
  <2>4. "RECOVERY" \in AgentStates
    BY DEF AgentStates
  <2>5. /\ b \in Counting /\ b.state = "RECOVERY"
        /\ b.clear_count = 0 /\ b.recovery_ticks = 0
    BY <2>1, <2>4, Transition
  <2> HIDE DEF b
  <2>6. b \in Agents
    BY <1>1, <2>5, AgentsCount
  <2>7. QED
    BY <1>5, <2>3, <2>5, <2>6
<1>6. QED
  BY <1>2, <1>3, <1>4, <1>5

LEMMA BwPrediction ==
  ASSUME NEW a \in Agents, NEW bw \in Nat,
         a.state = "DEGRADED" => 100 * a.predicted_bw < 85 * a.pre_degraded_bw
  PROVE  LET b == on_bw_prediction(a, bw)
         IN /\ b \in Agents
            /\ b.state = "UNDER_ATTACK" <=> a.state = "UNDER_ATTACK"
            /\ b.state = "RECOVERY" <=> a.state = "RECOVERY"
            /\ b.state = "DEGRADED" => 100 * b.predicted_bw < 85 * b.pre_degraded_bw
            /\ b.clear_count = a.clear_count
            /\ b.recovery_ticks = a.recovery_ticks
<1>1. a.predicted_bw \in Nat /\ a.pre_degraded_bw \in Nat
  BY DEF Agents
<1>2. CASE a.state = "NORMAL" /\ dropped(a.predicted_bw, bw)
  <2> DEFINE c == [[a EXCEPT !.predicted_bw = bw] EXCEPT !.pre_degraded_bw = a.predicted_bw]
             b == transition_to(c, "DEGRADED")
  <2>1. /\ c \in Agents /\ c.predicted_bw = bw /\ c.pre_degraded_bw = a.predicted_bw
        /\ c.clear_count = a.clear_count /\ c.recovery_ticks = a.recovery_ticks
    BY <1>1 DEF Agents
  <2>2. on_bw_prediction(a, bw) = b
    BY <1>2 DEF on_bw_prediction
  <2> HIDE DEF c
  <2>3. c \in Counting /\ "DEGRADED" \in AgentStates
    BY <2>1, AgentsAreCounting DEF AgentStates
  <2>4. /\ b \in Counting /\ b.state = "DEGRADED"
        /\ b.predicted_bw = c.predicted_bw /\ b.pre_degraded_bw = c.pre_degraded_bw
        /\ b.clear_count = c.clear_count /\ b.recovery_ticks = c.recovery_ticks
    BY <2>3, Transition
  <2> HIDE DEF b
  <2>5. b \in Agents
    BY <2>1, <2>3, <2>4, AgentsCount
  <2>6. 100 * bw < 85 * a.predicted_bw
    BY <1>1, <1>2 DEF dropped
  <2>7. QED
    BY <1>2, <2>1, <2>2, <2>4, <2>5, <2>6
<1>3. CASE a.state = "DEGRADED" /\ recovered(a.pre_degraded_bw, bw)
  <2> DEFINE c == [a EXCEPT !.predicted_bw = bw]
             b == transition_to(c, "NORMAL")
  <2>1. /\ c \in Agents
        /\ c.clear_count = a.clear_count /\ c.recovery_ticks = a.recovery_ticks
    BY <1>1 DEF Agents
  <2>2. on_bw_prediction(a, bw) = b
    BY <1>3 DEF on_bw_prediction
  <2> HIDE DEF c
  <2>3. c \in Counting /\ "NORMAL" \in AgentStates
    BY <2>1, AgentsAreCounting DEF AgentStates
  <2>4. /\ b \in Counting /\ b.state = "NORMAL"
        /\ b.clear_count = c.clear_count /\ b.recovery_ticks = c.recovery_ticks
    BY <2>3, Transition
  <2> HIDE DEF b
  <2>5. b \in Agents
    BY <2>1, <2>3, <2>4, AgentsCount
  <2>6. QED
    BY <1>3, <2>1, <2>2, <2>4, <2>5
<1>4. CASE a.state = "DEGRADED" /\ ~recovered(a.pre_degraded_bw, bw)
  <2>1. a.pre_degraded_bw > 0 /\ 100 * bw < 85 * a.pre_degraded_bw
    BY <1>1, <1>4 DEF recovered
  <2>2. QED
    BY <1>1, <1>4, <2>1 DEF on_bw_prediction, Agents
<1>5. CASE a.state # "DEGRADED" /\ ~(a.state = "NORMAL" /\ dropped(a.predicted_bw, bw))
  BY <1>1, <1>5 DEF on_bw_prediction, Agents
<1>6. QED
  BY <1>2, <1>3, <1>4, <1>5

(* ---- the invariant ---- *)

LEMMA TypeParts ==
  TypeOK <=> /\ ai_running \in BOOLEAN
             /\ action_queue \in Seq(Actions) /\ Len(action_queue) <= QueueSize
             /\ pc \in {"loop", "actions"}
             /\ agent \in Agents
             /\ last_state \in AgentStates
             /\ cc \in [Conns -> Controllers]
             /\ calm \in 0 .. ClearRequired
BY DEF TypeOK, Agents, Controllers

LEMMA ControllerFacts ==
  /\ Absent \in Controllers /\ Cubic \in Controllers
  /\ \A alpha \in -10 .. 10 : Orca(alpha) \in Controllers
  /\ \A x \in Controllers : /\ (x.kind = "none") <=> (x = Absent)
                            /\ (x.kind = "cubic") <=> (x = Cubic)
                            /\ x.kind \in {"none", "cubic", "orca"}
                            /\ (x.kind # "orca") => (x.alpha = 0)
  /\ \A alpha : Orca(alpha).kind = "orca" /\ Orca(alpha).alpha = alpha
  /\ Cubic.kind = "cubic" /\ Cubic.alpha = 0 /\ Absent.kind = "none" /\ Absent.alpha = 0
<1>1. /\ Absent \in Controllers /\ Cubic \in Controllers
      /\ \A alpha \in -10 .. 10 : Orca(alpha) \in Controllers
  BY DEF Controllers
<1>2. \A alpha : Orca(alpha).kind = "orca" /\ Orca(alpha).alpha = alpha
  BY DEF Orca
<1>3. Cubic.kind = "cubic" /\ Cubic.alpha = 0 /\ Absent.kind = "none" /\ Absent.alpha = 0
  BY DEF Cubic, Absent
<1>4. ASSUME NEW x \in Controllers
      PROVE  /\ (x.kind = "none") <=> (x = Absent)
             /\ (x.kind = "cubic") <=> (x = Cubic)
             /\ x.kind \in {"none", "cubic", "orca"}
             /\ (x.kind # "orca") => (x.alpha = 0)
  <2>1. x = Absent \/ x = Cubic \/ \E alpha \in -10 .. 10 : x = Orca(alpha)
    BY DEF Controllers
  <2>2. QED
    BY <2>1, <1>2, <1>3
<1>5. \A x \in Controllers : /\ (x.kind = "none") <=> (x = Absent)
                             /\ (x.kind = "cubic") <=> (x = Cubic)
                             /\ x.kind \in {"none", "cubic", "orca"}
                             /\ (x.kind # "orca") => (x.alpha = 0)
  BY <1>4, Zenon
<1>6. QED
  BY <1>1, <1>2, <1>3, <1>5, Zenon

LEMMA InitInv == Init => IInv
<1> SUFFICES ASSUME Init PROVE IInv
  OBVIOUS
<1>1. TicksRequired \in Nat \ {0} /\ ClearRequired \in Nat \ {0} /\ QueueSize \in Nat
  BY AiPlaneAssumption
<1>2. agent \in Agents
  BY <1>1 DEF Init, Agents, AgentStates
<1>3. TypeOK
  <2>1. action_queue \in Seq(Actions) /\ Len(action_queue) <= QueueSize
    BY <1>1, EmptySeq DEF Init
  <2>2. cc \in [Conns -> Controllers]
    BY ControllerFacts DEF Init
  <2>3. ai_running \in BOOLEAN /\ pc \in {"loop", "actions"} /\ last_state \in AgentStates
    BY DEF Init, AgentStates
  <2>4. calm \in 0 .. ClearRequired
    BY <1>1 DEF Init
  <2>5. QED
    BY <1>2, <2>1, <2>2, <2>3, <2>4, TypeParts
<1>4. ControllersFollowAgent
  BY DEF Init, ControllersFollowAgent
<1>5. AttackIffRecentAlarm /\ DegradedJustified /\ Linked
  BY <1>1 DEF Init, AttackIffRecentAlarm, DegradedJustified, Linked
<1>6. QED
  BY <1>3, <1>4, <1>5 DEF IInv

\* Steps that leave the agent, the controllers and the history alone.
LEMMA Untouched ==
  ASSUME IInv, UNCHANGED <<agent, last_state, cc, calm>>,
         ai_running' \in BOOLEAN, pc' \in {"loop", "actions"},
         action_queue' \in Seq(Actions), Len(action_queue') <= QueueSize
  PROVE  IInv'
<1>1. TypeOK'
  BY DEF IInv, TypeOK
<1>2. ControllersFollowAgent' /\ AttackIffRecentAlarm' /\ DegradedJustified' /\ Linked'
  BY DEF IInv, ControllersFollowAgent, AttackIffRecentAlarm, DegradedJustified, Linked
<1>3. QED
  BY <1>1, <1>2 DEF IInv

LEMMA InferInv ==
  ASSUME IInv, NEW action \in Actions, infer(action)
  PROVE  IInv'
<1>1. action_queue \in Seq(Actions) /\ Len(action_queue) <= QueueSize /\ QueueSize \in Nat
  BY AiPlaneAssumption DEF IInv, TypeOK
<1>2. action_queue' \in Seq(Actions) /\ Len(action_queue') <= QueueSize
  <2>1. CASE Len(action_queue) < QueueSize
    BY <1>1, <2>1 DEF infer
  <2>2. CASE ~(Len(action_queue) < QueueSize)
    BY <1>1, <2>2 DEF infer
  <2>3. QED
    BY <2>1, <2>2
<1>3. ai_running' \in BOOLEAN /\ pc' \in {"loop", "actions"}
  BY DEF infer, IInv, TypeOK
<1>4. QED
  BY <1>2, <1>3, Untouched DEF infer

\* One controller replaced by an absent one or a fresh Orca.
LEMMA ConnectionInv ==
  ASSUME IInv, NEW c \in Conns, create_tcb(c) \/ delete_tcb(c)
  PROVE  IInv'
<1>1. cc \in [Conns -> Controllers] /\ agent.state \in AgentStates
  BY TypeParts DEF IInv, Agents
<1>2. PICK x \in {Absent, Orca(0)} : cc' = [cc EXCEPT ![c] = x]
  BY DEF create_tcb, delete_tcb
<1>3. x \in Controllers /\ (x # Absent => x.kind = "orca" /\ x.alpha = 0)
  BY <1>2, ControllerFacts
<1>4. cc' \in [Conns -> Controllers]
  BY <1>1, <1>2, <1>3
<1>5. UNCHANGED <<ai_running, action_queue, pc, agent, last_state, calm>>
  BY DEF create_tcb, delete_tcb
<1>6. TypeOK'
  <2>1. TypeOK
    BY DEF IInv
  <2>2. cc' \in [Conns -> {Absent, Cubic} \cup {Orca(alpha) : alpha \in -10 .. 10}]
    BY <1>4 DEF Controllers
  <2>3. QED
    BY <2>1, <2>2, <1>5 DEF TypeOK
<1>7. ControllersFollowAgent'
  <2> SUFFICES ASSUME NEW d \in Conns, cc'[d] # Absent
               PROVE  IF agent.state = "UNDER_ATTACK" THEN cc'[d].alpha = 0
                      ELSE /\ cc'[d].kind = "orca"
                           /\ agent.state = "RECOVERY" => cc'[d].alpha <= 5
    BY <1>5 DEF ControllersFollowAgent
  <2>1. CASE d = c
    <3>1. cc'[d] = x
      BY <1>1, <1>2, <2>1
    <3>2. QED
      BY <1>3, <3>1
  <2>2. CASE d # c
    <3>1. cc'[d] = cc[d]
      BY <1>1, <1>2, <2>2
    <3>2. QED
      BY <3>1 DEF IInv, ControllersFollowAgent
  <2>3. QED
    BY <2>1, <2>2
<1>8. AttackIffRecentAlarm' /\ DegradedJustified' /\ Linked'
  BY <1>5 DEF IInv, AttackIffRecentAlarm, DegradedJustified, Linked
<1>9. QED
  BY <1>6, <1>7, <1>8 DEF IInv

\* What is popped is an action of the type asked for, and the queue stays one.
LEMMA Popped ==
  ASSUME IInv, NEW type \in {"CWND_ADJUST", "ANOMALY_ALERT", "BW_PREDICTION"}, pop(type)
  PROVE  /\ type = "CWND_ADJUST" => popped.alpha \in Int
         /\ type = "ANOMALY_ALERT" => popped.alarm \in BOOLEAN
         /\ type = "BW_PREDICTION" => popped.bw \in Nat
         /\ action_queue' \in Seq(Actions) /\ Len(action_queue') <= QueueSize
         /\ ai_running' \in BOOLEAN /\ pc' \in {"loop", "actions"}
<1>1. /\ action_queue \in Seq(Actions) /\ Len(action_queue) <= QueueSize
      /\ QueueSize \in Nat /\ action_queue # <<>>
  BY AiPlaneAssumption DEF IInv, TypeOK, pop
<1>2. /\ popped \in Actions /\ action_queue' \in Seq(Actions)
      /\ Len(action_queue') = Len(action_queue) - 1
  BY <1>1, HeadTailProperties DEF pop, popped
<1>3. Len(action_queue') <= QueueSize
  BY <1>1, <1>2
<1>4. popped.type = type
  BY DEF pop
<1>5. /\ type = "CWND_ADJUST" => popped.alpha \in Int
      /\ type = "ANOMALY_ALERT" => popped.alarm \in BOOLEAN
      /\ type = "BW_PREDICTION" => popped.bw \in Nat
  BY <1>2, <1>4, AiPlaneAssumption DEF Actions
<1>6. QED
  BY <1>2, <1>3, <1>5 DEF pop, IInv, TypeOK

\* An alpha is applied to every Orca controller.
LEMMA AdjustInv ==
  ASSUME IInv, handle_cwnd_adjust
  PROVE  IInv'
<1>0. /\ TypeOK /\ ControllersFollowAgent /\ AttackIffRecentAlarm
      /\ DegradedJustified /\ Linked
  BY DEF IInv
<1>1. /\ popped.alpha \in Int
      /\ action_queue' \in Seq(Actions) /\ Len(action_queue') <= QueueSize
      /\ ai_running' \in BOOLEAN /\ pc' \in {"loop", "actions"}
  BY Popped DEF handle_cwnd_adjust
<1>2. agent \in Agents /\ cc \in [Conns -> Controllers]
  BY <1>0, TypeParts
<1>3. /\ agent' \in Agents
      /\ agent'.state = "UNDER_ATTACK" <=> agent.state = "UNDER_ATTACK"
      /\ agent'.state = "DEGRADED" <=> agent.state = "DEGRADED"
      /\ agent'.state = "RECOVERY" =>
           agent.state = "RECOVERY" /\ agent'.recovery_ticks < TicksRequired
      /\ agent'.clear_count = agent.clear_count
      /\ agent'.predicted_bw = agent.predicted_bw
      /\ agent'.pre_degraded_bw = agent.pre_degraded_bw
  BY <1>0, <1>1, <1>2, CwndAdjust, SMTT(30) DEF handle_cwnd_adjust, Linked
<1> DEFINE e == effective_alpha(agent')
<1>4. /\ e \in -10 .. 10
      /\ agent'.state = "UNDER_ATTACK" => e = 0
      /\ agent'.state = "RECOVERY" => e <= 5
  BY <1>3, EffectiveAlpha
<1>5. cc' = [c \in Conns |-> IF cc[c].kind = "orca" THEN Orca(e) ELSE cc[c]]
  BY DEF handle_cwnd_adjust, apply_cwnd_adjust
<1>6. last_state' = last_state /\ calm' = calm
  BY DEF handle_cwnd_adjust
<1> HIDE DEF e
<1>7. Orca(e) \in Controllers /\ Orca(e).kind = "orca" /\ Orca(e).alpha = e
  BY <1>4, ControllerFacts
<1>8. TypeOK'
  <2>1. cc' \in [Conns -> Controllers]
    BY <1>2, <1>5, <1>7
  <2>2. last_state' \in AgentStates /\ calm' \in 0 .. ClearRequired
    BY <1>0, <1>6 DEF TypeOK
  <2>3. QED
    BY <1>1, <1>3, <2>1, <2>2 DEF TypeOK, Agents, Controllers
<1>9. ControllersFollowAgent'
  <2> SUFFICES ASSUME NEW c \in Conns, cc'[c] # Absent
               PROVE  IF agent'.state = "UNDER_ATTACK" THEN cc'[c].alpha = 0
                      ELSE /\ cc'[c].kind = "orca"
                           /\ agent'.state = "RECOVERY" => cc'[c].alpha <= 5
    BY DEF ControllersFollowAgent
  <2>1. CASE cc[c].kind = "orca"
    <3>1. cc'[c] = Orca(e)
      BY <1>5, <2>1
    <3>2. QED
      BY <1>4, <1>7, <3>1
  <2>2. CASE cc[c].kind # "orca"
    <3>1. cc'[c] = cc[c]
      BY <1>5, <2>2
    <3>2. cc[c].alpha = 0 /\ agent.state = "UNDER_ATTACK"
      BY <1>0, <1>2, <2>2, <3>1, ControllerFacts DEF ControllersFollowAgent
    <3>3. QED
      BY <1>3, <3>1, <3>2
  <2>3. QED
    BY <2>1, <2>2
<1>10. AttackIffRecentAlarm' /\ DegradedJustified'
  BY <1>0, <1>3, <1>6 DEF AttackIffRecentAlarm, DegradedJustified
<1>11. Linked'
  BY <1>0, <1>3, <1>6 DEF Linked
<1>12. QED
  BY <1>8, <1>9, <1>10, <1>11 DEF IInv

\* apply_state_change brings the controllers in line with whatever state the agent
\* has moved to, provided recovery is entered from an attack only.
LEMMA StateChange ==
  ASSUME IInv, agent' \in Agents, apply_state_change,
         agent'.state = "RECOVERY" => agent.state \in {"UNDER_ATTACK", "RECOVERY"}
  PROVE  /\ cc' \in [Conns -> Controllers]
         /\ ControllersFollowAgent'
         /\ last_state' = agent'.state
<1>0. /\ TypeOK /\ ControllersFollowAgent /\ Linked
      /\ agent \in Agents /\ cc \in [Conns -> Controllers]
  BY TypeParts DEF IInv
<1>1. last_state' = agent'.state
  BY DEF apply_state_change
<1>2. CASE agent'.state = "UNDER_ATTACK" /\ last_state # "UNDER_ATTACK"
  <2>1. cc' = [c \in Conns |-> IF cc[c].kind = "orca" THEN Cubic ELSE cc[c]]
    BY <1>2 DEF apply_state_change, switch_all_cc_to_cubic
  <2>2. cc' \in [Conns -> Controllers]
    BY <1>0, <2>1, ControllerFacts
  <2>3. \A c \in Conns : cc'[c].alpha = 0
    BY <1>0, <2>1, ControllerFacts
  <2>4. ControllersFollowAgent'
    BY <1>2, <2>3 DEF ControllersFollowAgent
  <2>5. QED
    BY <1>1, <2>2, <2>4
<1>3. CASE agent'.state # "UNDER_ATTACK" /\ last_state = "UNDER_ATTACK"
  <2>1. cc' = [c \in Conns |-> IF cc[c].kind = "cubic" THEN Orca(0) ELSE cc[c]]
    BY <1>3 DEF apply_state_change, switch_all_cc_to_orca
  <2>2. Orca(0) \in Controllers /\ Orca(0).kind = "orca" /\ Orca(0).alpha = 0
    BY ControllerFacts
  <2>3. cc' \in [Conns -> Controllers]
    BY <1>0, <2>1, <2>2
  <2>4. \A c \in Conns : cc[c] # Absent => cc[c].alpha = 0
    BY <1>0, <1>3 DEF ControllersFollowAgent, Linked
  <2>5. \A c \in Conns : cc'[c] # Absent => cc'[c].kind = "orca" /\ cc'[c].alpha = 0
    <3> SUFFICES ASSUME NEW c \in Conns, cc'[c] # Absent
                 PROVE  cc'[c].kind = "orca" /\ cc'[c].alpha = 0
      OBVIOUS
    <3>1. CASE cc[c].kind = "cubic"
      BY <2>1, <2>2, <3>1
    <3>2. CASE cc[c].kind # "cubic"
      <4>1. cc'[c] = cc[c]
        BY <2>1, <3>2
      <4>2. cc[c].kind = "orca"
        BY <1>0, <3>2, <4>1, ControllerFacts
      <4>3. QED
        BY <2>4, <4>1, <4>2
    <3>3. QED
      BY <3>1, <3>2
  <2>6. ControllersFollowAgent'
    BY <1>3, <2>5 DEF ControllersFollowAgent
  <2>7. QED
    BY <1>1, <2>3, <2>6
<1>4. CASE agent'.state = "UNDER_ATTACK" <=> last_state = "UNDER_ATTACK"
  <2>1. cc' = cc
    BY <1>4 DEF apply_state_change
  <2>2. agent'.state = "UNDER_ATTACK" <=> agent.state = "UNDER_ATTACK"
    BY <1>0, <1>4 DEF Linked
  <2>3. agent'.state = "RECOVERY" => agent.state = "RECOVERY"
    BY <2>2
  <2>4. ControllersFollowAgent'
    BY <1>0, <2>1, <2>2, <2>3 DEF ControllersFollowAgent
  <2>5. QED
    BY <1>0, <1>1, <2>1, <2>4
<1>5. QED
  BY <1>2, <1>3, <1>4

LEMMA AlertInv ==
  ASSUME IInv, handle_anomaly_alert
  PROVE  IInv'
<1>0. /\ TypeOK /\ AttackIffRecentAlarm /\ DegradedJustified /\ Linked
      /\ agent \in Agents /\ calm \in 0 .. ClearRequired
      /\ ClearRequired \in Nat \ {0} /\ TicksRequired \in Nat \ {0}
  BY TypeParts, AiPlaneAssumption DEF IInv
<1>1. /\ popped.alarm \in BOOLEAN
      /\ action_queue' \in Seq(Actions) /\ Len(action_queue') <= QueueSize
      /\ ai_running' \in BOOLEAN /\ pc' \in {"loop", "actions"}
  BY Popped DEF handle_anomaly_alert
<1>2. /\ agent' \in Agents
      /\ popped.alarm => agent'.state = "UNDER_ATTACK" /\ agent'.clear_count = 0
      /\ ~popped.alarm /\ agent.state = "UNDER_ATTACK" =>
           IF agent.clear_count + 1 < ClearRequired
             THEN agent'.state = "UNDER_ATTACK" /\ agent'.clear_count = agent.clear_count + 1
             ELSE agent'.state = "RECOVERY" /\ agent'.recovery_ticks = 0
      /\ ~popped.alarm /\ agent.state # "UNDER_ATTACK" => agent' = agent
  BY <1>0, <1>1, Anomaly DEF handle_anomaly_alert
<1>3. /\ cc' \in [Conns -> Controllers] /\ ControllersFollowAgent'
      /\ last_state' = agent'.state
  <2>1. agent'.state = "RECOVERY" => agent.state \in {"UNDER_ATTACK", "RECOVERY"}
    BY <1>1, <1>2
  <2>2. QED
    BY <1>2, <2>1, StateChange DEF handle_anomaly_alert
<1>4. calm' = IF popped.alarm THEN 0 ELSE IF calm + 1 > ClearRequired THEN ClearRequired
                                                                    ELSE calm + 1
  BY DEF handle_anomaly_alert, at_most
<1>5. CASE popped.alarm
  <2>1. calm' = 0 /\ agent'.state = "UNDER_ATTACK" /\ agent'.clear_count = 0
    BY <1>2, <1>4, <1>5
  <2>2. QED
    BY <1>0, <1>1, <1>2, <1>3, <2>1
       DEF IInv, TypeOK, Agents, Controllers, AttackIffRecentAlarm, DegradedJustified, Linked
<1>6. CASE ~popped.alarm /\ agent.state = "UNDER_ATTACK"
  <2>1. agent.clear_count = calm /\ calm < ClearRequired /\ calm' = calm + 1
    BY <1>0, <1>4, <1>6 DEF AttackIffRecentAlarm, Linked
  <2>2. CASE calm + 1 < ClearRequired
    <3>1. agent'.state = "UNDER_ATTACK" /\ agent'.clear_count = calm'
      BY <1>2, <1>6, <2>1, <2>2
    <3>2. QED
      BY <1>0, <1>1, <1>2, <1>3, <2>1, <2>2, <3>1
         DEF IInv, TypeOK, Agents, Controllers, AttackIffRecentAlarm, DegradedJustified, Linked
  <2>3. CASE ~(calm + 1 < ClearRequired)
    <3>1. agent'.state = "RECOVERY" /\ agent'.recovery_ticks = 0 /\ calm' = ClearRequired
      BY <1>0, <1>2, <1>6, <2>1, <2>3
    <3>2. QED
      BY <1>0, <1>1, <1>2, <1>3, <2>1, <3>1
         DEF IInv, TypeOK, Agents, Controllers, AttackIffRecentAlarm, DegradedJustified, Linked
  <2>4. QED
    BY <2>2, <2>3
<1>7. CASE ~popped.alarm /\ agent.state # "UNDER_ATTACK"
  <2>1. agent' = agent /\ calm = ClearRequired /\ calm' = ClearRequired
    BY <1>0, <1>2, <1>4, <1>7 DEF AttackIffRecentAlarm
  <2>2. QED
    BY <1>0, <1>1, <1>2, <1>3, <1>7, <2>1
       DEF IInv, TypeOK, Agents, Controllers, AttackIffRecentAlarm, DegradedJustified, Linked
<1>8. QED
  BY <1>1, <1>5, <1>6, <1>7

LEMMA PredictionInv ==
  ASSUME IInv, handle_bw_prediction
  PROVE  IInv'
<1>0. /\ TypeOK /\ AttackIffRecentAlarm /\ DegradedJustified /\ Linked
      /\ agent \in Agents
  BY TypeParts DEF IInv
<1>1. /\ popped.bw \in Nat
      /\ action_queue' \in Seq(Actions) /\ Len(action_queue') <= QueueSize
      /\ ai_running' \in BOOLEAN /\ pc' \in {"loop", "actions"}
  BY Popped DEF handle_bw_prediction
<1>2. /\ agent' \in Agents
      /\ agent'.state = "UNDER_ATTACK" <=> agent.state = "UNDER_ATTACK"
      /\ agent'.state = "RECOVERY" <=> agent.state = "RECOVERY"
      /\ agent'.state = "DEGRADED" =>
           100 * agent'.predicted_bw < 85 * agent'.pre_degraded_bw
      /\ agent'.clear_count = agent.clear_count
      /\ agent'.recovery_ticks = agent.recovery_ticks
  <2>1. agent.state = "DEGRADED" => 100 * agent.predicted_bw < 85 * agent.pre_degraded_bw
    BY <1>0 DEF DegradedJustified
  <2> DEFINE b == on_bw_prediction(agent, popped.bw)
  <2>2. /\ b \in Agents
        /\ b.state = "UNDER_ATTACK" <=> agent.state = "UNDER_ATTACK"
        /\ b.state = "RECOVERY" <=> agent.state = "RECOVERY"
        /\ b.state = "DEGRADED" => 100 * b.predicted_bw < 85 * b.pre_degraded_bw
        /\ b.clear_count = agent.clear_count
        /\ b.recovery_ticks = agent.recovery_ticks
    BY <1>0, <1>1, <2>1, BwPrediction
  <2>3. agent' = b
    BY DEF handle_bw_prediction
  <2> HIDE DEF b
  <2>4. QED
    BY <2>2, <2>3
<1>3. /\ cc' \in [Conns -> Controllers] /\ ControllersFollowAgent'
      /\ last_state' = agent'.state
  BY <1>2, StateChange DEF handle_bw_prediction
<1>4. calm' = calm
  BY DEF handle_bw_prediction
<1>5. TypeOK'
  BY <1>0, <1>1, <1>2, <1>3, <1>4 DEF TypeOK, Agents, Controllers
<1>6. AttackIffRecentAlarm' /\ DegradedJustified' /\ Linked'
  BY <1>0, <1>2, <1>3, <1>4 DEF AttackIffRecentAlarm, DegradedJustified, Linked
<1>7. QED
  BY <1>3, <1>5, <1>6 DEF IInv

LEMMA NextInv == IInv /\ [Next]_vars => IInv'
<1> SUFFICES ASSUME IInv, [Next]_vars PROVE IInv'
  OBVIOUS
<1>0. /\ ai_running \in BOOLEAN /\ pc \in {"loop", "actions"}
      /\ action_queue \in Seq(Actions) /\ Len(action_queue) <= QueueSize
  BY DEF IInv, TypeOK
<1>1. ASSUME process_orca \/ process_anomaly \/ process_bandwidth PROVE IInv'
  <2>1. \E action \in Actions : infer(action)
    BY <1>1 DEF process_orca, process_anomaly, process_bandwidth, Actions
  <2>2. QED
    BY <2>1, InferInv
<1>2. ASSUME NEW c \in Conns, create_tcb(c) \/ delete_tcb(c) PROVE IInv'
  BY <1>2, ConnectionInv
<1>3. ASSUME enable_ai \/ disable_ai PROVE IInv'
  BY <1>0, <1>3, Untouched DEF enable_ai, disable_ai
<1>4. ASSUME on_timer \/ found_empty PROVE IInv'
  BY <1>0, <1>4, Untouched DEF on_timer, found_empty
<1>5. ASSUME handle_cwnd_adjust PROVE IInv'
  BY <1>5, AdjustInv
<1>6. ASSUME handle_anomaly_alert PROVE IInv'
  BY <1>6, AlertInv
<1>7. ASSUME handle_bw_prediction PROVE IInv'
  BY <1>7, PredictionInv
<1>8. ASSUME UNCHANGED vars PROVE IInv'
  BY <1>0, <1>8, Untouched DEF vars
<1>9. QED
  BY <1>1, <1>2, <1>3, <1>4, <1>5, <1>6, <1>7, <1>8 DEF Next

LEMMA Invariance == Spec => []IInv
BY InitInv, NextInv, PTL DEF Spec

(* The agent's counters stay within their limits and the queue within its      *)
(* slots (ai_agent.cpp:9-48, 112-130).                                         *)
THEOREM TypeCorrect == Spec => []TypeOK
BY Invariance, PTL DEF IInv

(* While the agent sees an attack no alpha is in effect on any connection,     *)
(* older or younger than the attack; outside it every connection is steered by *)
(* Orca again, in RECOVERY by at most 0.5 (tcp_layer.hpp:229-275).             *)
THEOREM WindowsFollowAgent == Spec => []ControllersFollowAgent
BY Invariance, PTL DEF IInv

(* UNDER_ATTACK lasts exactly until ClearRequired clear alerts in a row have   *)
(* been handled since the last alarm (ai_agent.cpp:25-48).                     *)
THEOREM AttackLastsAsLong == Spec => []AttackIffRecentAlarm
BY Invariance, PTL DEF IInv

(* DEGRADED is held only below 85 percent of the bandwidth before the drop     *)
(* (ai_agent.cpp:53-74).                                                       *)
THEOREM DegradedOnlyBelow == Spec => []DegradedJustified
BY Invariance, PTL DEF IInv
=============================================================================

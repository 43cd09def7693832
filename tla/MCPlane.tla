------------------------------- MODULE MCPlane -------------------------------
(* Seven components checked side by side: the firewall and the rate limiter it *)
(* is built on, which is also checked alone, the send buffer, the pool of the  *)
(* firewall's events, the start-up and run loop of the stack with its device,  *)
(* the hosts of a network, and the stream of metrics samples.  As in           *)
(* MCServices a behaviour is of the one that part names, and the others stay   *)
(* in their initial state.                                                     *)
EXTENDS StreamBuffer, FixedPool, Firewall, NeuStack, Network, Metrics

VARIABLE part

NewRule(id, ip, priority, action) ==
  [id |-> id, ip |-> ip, priority |-> priority, action |-> action, enabled |-> TRUE]

\* Three rules of two priorities, two of them of one identifier.
MCRules ==
  LET one == CHOOSE ip \in Ips : TRUE IN
  {NewRule(1, AnyIp, 2, "pass"), NewRule(1, one, 1, "drop"), NewRule(2, one, 2, "alert")}

\* The AI only, rules only, the limiter with the lists.
MCSetups ==
  LET none == [limited |-> FALSE, listed |-> FALSE, ruled |-> FALSE, ai |-> FALSE] IN
  {[none EXCEPT !.ai = TRUE], [none EXCEPT !.ruled = TRUE],
   [none EXCEPT !.limited = TRUE, !.listed = TRUE]}

\* Everything on AF_XDP, a TUN device with models but neither ICMP nor UDP, and a
\* bare stack that collects.
MCConfigs ==
  LET bare == [af_xdp |-> FALSE, firewall |-> FALSE, security_model |-> FALSE,
               icmp |-> TRUE, udp |-> TRUE, model |-> FALSE, output |-> FALSE] IN
  {[bare EXCEPT !.af_xdp = TRUE, !.firewall = TRUE, !.security_model = TRUE, !.output = TRUE],
   [bare EXCEPT !.firewall = TRUE, !.security_model = TRUE, !.icmp = FALSE, !.udp = FALSE,
                !.model = TRUE],
   [bare EXCEPT !.output = TRUE]}

\* Samples whose rate is the higher and share a timestamp, or the lower and do not.
MCDrawn == {[rate |-> 2, later |-> 0], [rate |-> 1, later |-> 1]}

planeVars == <<part, streamVars, poolVars, stackVars, netVars, metricsVars, vars>>

\* In the firewall's part sources are limited to one packet at a time (a bound:
\* the limiter's own part has them all).
PlaneInit ==
  /\ part \in {"stream", "pool", "stack", "net", "telemetry", "firewall", "limiter"}
  /\ StreamInit /\ PoolInit /\ StackInit /\ NetInit /\ MetricsInit /\ Init
  /\ part # "stream" => buffer = [p \in Slots |-> CHOOSE b \in Bytes : TRUE]
  /\ part # "stack" => ~config.firewall
  /\ part # "firewall" => setup.limited
  /\ part # "limiter" => limit.rate = 1 /\ limit.burst = 1

\* The parts that a step of one leaves alone.
Rest(name) ==
  /\ name # "stream" => UNCHANGED streamVars
  /\ name # "pool" => UNCHANGED poolVars
  /\ name # "stack" => UNCHANGED stackVars
  /\ name # "net" => UNCHANGED netVars
  /\ name # "telemetry" => UNCHANGED metricsVars
  /\ name # "limiter" /\ name # "firewall" => UNCHANGED limiterVars
  /\ name # "firewall" =>
       UNCHANGED <<setup, policy, ai, current, window, since_tick, since_inference,
                   verdict, history>>

Only(name, A) == part = name /\ A /\ Rest(name) /\ UNCHANGED part

\* Two of the sources are enough for the firewall, and one of them in the
\* limiter's table (a bound).
FewSources ==
  LET two == CHOOSE S \in SUBSET Ips : Cardinality(S) = 2 IN
  /\ whitelist' \cup blacklist' \cup DOMAIN buckets' \subseteq two
  /\ Cardinality(DOMAIN buckets') <= 1

PlaneNext ==
  \/ Only("stream", StreamNext)
  \/ Only("pool", PoolNext)
  \/ Only("stack", StackNext)
  \/ Only("net", NetNext)
  \/ Only("telemetry", MetricsNext)
  \/ Only("firewall", Next /\ FewSources)
  \/ Only("limiter", LimiterNext)

\* The fairness of each part's own specification.
PlaneFairness ==
  /\ WF_planeVars(Only("stack", loop)) /\ WF_planeVars(Only("stack", time_passes))
  /\ WF_planeVars(Only("net", delivery))
  /\ WF_planeVars(Only("telemetry", run_loop))
  /\ WF_planeVars(Only("telemetry", push_written \/ push_publish))
  /\ WF_planeVars(Only("firewall", infer)) /\ WF_planeVars(Only("firewall", elapse))

PlaneSpec == PlaneInit /\ [][PlaneNext]_planeVars /\ PlaneFairness

-----------------------------------------------------------------------------
\* Drop mode ends (firewall_ai.cpp:210), the run loop serves its timers and a stop
\* (neustack.cpp:382), hosts that answer each other fall silent with every ping
\* answered (ipv4.cpp:263), and the newest sample is seen
\* (intelligence_plane.cpp:112).
NothingIsNeglected == DropModeEnds /\ LoopServes /\ NetworkSettles /\ NewestSeen
=============================================================================

------------------------------ MODULE Firewall ------------------------------
(* The firewall between the device and IPv4: rules and lists (rule_engine.hpp) *)
(* with the rate limiter, the verdict of the anomaly model that on_timer asks  *)
(* for and inspect uses (firewall_ai.cpp), the sliding window it is fed from   *)
(* (security_metrics.hpp), and the engine that ties them (firewall_engine.cpp).*)
(* One thread makes all the calls.  Times are ages, counted in calls of the    *)
(* clock and kept up to the threshold they are compared with.                  *)
EXTENDS RateLimiter, FiniteSets

CONSTANTS Rules,              \* rules the application may add: [id, ip, priority, action]
          AnyIp,                \* the address that matches every source
          MAX_RULES,
          Setups,             \* what is configured: [limited, listed, ruled, ai]
          TICK_INTERVAL,
          INFERENCE_INTERVAL,
          WINDOW_SIZE,        \* slots of the sliding window
          MaxCount,           \* bound: packets counted in a slot
          ESCALATE,           \* escalate_consecutive
          DEESCALATE,         \* deescalate_normal_count
          COOLDOWN            \* escalate_cooldown_ms

Actions == {"pass", "drop", "alert", "log"}

Rule == [id: Nat, ip: Ips \cup {AnyIp}, priority: Nat, action: Actions, enabled: BOOLEAN]

\* The thresholds are unsigned integers of the configuration.
ASSUME FirewallAssumption ==
  /\ Rules \subseteq Rule
  /\ Setups \subseteq [limited: BOOLEAN, listed: BOOLEAN, ruled: BOOLEAN, ai: BOOLEAN]
  /\ MAX_RULES \in Nat /\ TICK_INTERVAL \in Nat /\ INFERENCE_INTERVAL \in Nat
  /\ WINDOW_SIZE \in Nat /\ MaxCount \in Nat
  /\ ESCALATE \in Nat /\ DEESCALATE \in Nat /\ COOLDOWN \in Nat

VARIABLES setup,
          engine,           \* FirewallConfig: [enabled, shadow]
          rules, whitelist, blacklist,
          ai,               \* _ai: a FirewallAI or NoAI
          current, window,  \* SecurityMetrics: packets of this second, and of the last ones
          since_tick, since_inference,
          verdict,          \* on the last packet
          latest,           \* history: what the last inference that worked came to
          failing,          \* history: the last inference failed
          run,              \* history: [kind, length], equal results in a row
          since_change      \* history: the age of the last automatic change of mode

policy == <<engine, rules, whitelist, blacklist>>
history == <<latest, failing, run, since_change>>
vars == <<setup, policy, limiterVars, ai, current, window, since_tick, since_inference,
          verdict, history>>

NoAI == [loaded |-> FALSE, present |-> FALSE, shadow |-> TRUE, escalates |-> FALSE,
         cached |-> FALSE, anomalies |-> 0, normals |-> 0, cooling |-> 0]
\* cooling: what is left of the cooldown since the last change of mode.
NoRun == [kind |-> "none", length |-> 0]
NewAI(loaded, shadow, escalates) ==
  [NoAI EXCEPT !.loaded = loaded, !.present = TRUE, !.shadow = shadow, !.escalates = escalates]

Init ==
  /\ setup \in Setups
  /\ engine = [enabled |-> TRUE, shadow |-> TRUE]
  /\ rules = <<>> /\ whitelist = {} /\ blacklist = {}
  /\ LimiterInit /\ limit.enabled = setup.limited
  /\ ai = NoAI
  /\ current = 0 /\ window = <<>> /\ since_tick = 0 /\ since_inference = 0
  /\ verdict = "pass"
  /\ latest = "none" /\ failing = FALSE /\ run = NoRun /\ since_change = COOLDOWN

-----------------------------------------------------------------------------
\* The rule engine.  sort_rules is std::sort: rules of one priority come in any
\* order.
sorted(seq) == \A i, j \in DOMAIN seq : i < j => seq[i].priority <= seq[j].priority
taken(seq, places) == [k \in DOMAIN places |-> seq[places[k]]]
orders(seq) ==
  {taken(seq, places) : places \in {f \in [DOMAIN seq -> DOMAIN seq] : IsInjective(f)}}

\* (mutant) the new rule stays behind the others
add_rule_last(rule) ==
  /\ setup.ruled /\ Len(rules) < MAX_RULES
  /\ rules' = Append(rules, rule)
  /\ UNCHANGED <<engine, whitelist, blacklist>>

add_rule(rule) ==
  /\ setup.ruled /\ Len(rules) < MAX_RULES
  /\ \E seq \in orders(Append(rules, rule)) : sorted(seq) /\ rules' = seq
  /\ UNCHANGED <<engine, whitelist, blacklist>>

\* Every rule with the identifier goes; the others stay in their order.
remove_rule(id) ==
  LET staying == {i \in DOMAIN rules : rules[i].id # id} IN
  /\ staying # DOMAIN rules
  /\ \E places \in [1 .. Cardinality(staying) -> staying] :
       /\ \A i, j \in DOMAIN places : i < j => places[i] < places[j]
       /\ rules' = taken(rules, places)
  /\ UNCHANGED <<engine, whitelist, blacklist>>

\* Only the first one is switched.
set_rule_enabled(id, on) ==
  /\ \E i \in DOMAIN rules : rules[i].id = id
  /\ LET i == CHOOSE i \in DOMAIN rules :
                rules[i].id = id /\ \A j \in 1 .. i - 1 : rules[j].id # id IN
     rules' = [rules EXCEPT ![i].enabled = on]
  /\ UNCHANGED <<engine, whitelist, blacklist>>

list_ip(ip) ==
  /\ setup.listed
  /\ \/ whitelist' = whitelist \cup {ip} /\ UNCHANGED blacklist
     \/ blacklist' = blacklist \cup {ip} /\ UNCHANGED whitelist
  /\ UNCHANGED <<engine, rules>>

unlist_ip(ip) ==
  /\ setup.listed
  /\ \/ whitelist' = whitelist \ {ip} /\ UNCHANGED blacklist
     \/ blacklist' = blacklist \ {ip} /\ UNCHANGED whitelist
  /\ UNCHANGED <<engine, rules>>

engine_set_enabled(on) ==
  engine' = [engine EXCEPT !.enabled = on] /\ UNCHANGED <<rules, whitelist, blacklist>>

\* The mode of the engine, which the AI copied when it was created.
set_shadow_mode(on) ==
  engine' = [engine EXCEPT !.shadow = on] /\ UNCHANGED <<rules, whitelist, blacklist>>

configure ==
  /\ \/ \E rule \in Rules : add_rule(rule)
     \/ \E rule \in Rules : remove_rule(rule.id)
     \/ \E rule \in Rules, on \in BOOLEAN : set_rule_enabled(rule.id, on)
     \/ \E ip \in Ips : list_ip(ip) \/ unlist_ip(ip)
     \/ \E on \in BOOLEAN : engine_set_enabled(on) \/ set_shadow_mode(on)
  /\ UNCHANGED <<setup, limiterVars, ai, current, window, since_tick, since_inference,
                 verdict, history>>

matches(rule, ip) == rule.enabled /\ rule.ip \in {AnyIp, ip}

\* The first that matches, 0 if there is none.
deciding(ip) ==
  LET hits == {i \in DOMAIN rules : matches(rules[i], ip)} IN
  IF hits = {} THEN 0 ELSE CHOOSE i \in hits : \A j \in hits : i <= j

first_match(ip) ==
  IF deciding(ip) = 0 THEN [action |-> "pass", reason |-> "default"]
  ELSE [action |-> rules[deciding(ip)].action, reason |-> "rule"]

\* RuleEngine::evaluate, given whether the limiter lets the packet through.
ruled(ip, through) ==
  IF ip \in whitelist THEN [action |-> "pass", reason |-> "whitelist"]
  ELSE IF ip \in blacklist THEN [action |-> "drop", reason |-> "blacklist"]
  ELSE IF ~through THEN [action |-> "drop", reason |-> "rate"]
  ELSE first_match(ip)

\* FirewallEngine::evaluate.  The AI overrides all but a drop: what is on the
\* white list too.
decided(ip, through) ==
  LET d == ruled(ip, through) IN
  IF d.action # "drop" /\ ai.loaded /\ ai.cached
  THEN [action |-> IF ai.shadow THEN "alert" ELSE "drop", reason |-> "ai"]
  ELSE d

-----------------------------------------------------------------------------
\* inspect, for a packet that parses.  A disabled firewall lets it through and
\* counts it all the same.
counted == IF ai.present THEN smaller(current + 1, MaxCount) ELSE current

inspect(ip) ==
  LET limits == engine.enabled /\ limit.enabled /\ ip \notin whitelist \cup blacklist
      d == IF engine.enabled THEN decided(ip, limits => allowed(ip))
           ELSE [action |-> "pass", reason |-> "disabled"] IN
  /\ current' = counted
  /\ verdict' = d.action
  /\ IF limits THEN check(ip) ELSE UNCHANGED limiterVars
  /\ UNCHANGED <<setup, policy, ai, window, since_tick, since_inference, history>>

\* One that does not is dropped before anything else, if the firewall is enabled.
inspect_malformed ==
  /\ verdict' = IF engine.enabled THEN "drop" ELSE "pass"
  /\ UNCHANGED <<setup, policy, limiterVars, ai, current, window, since_tick,
                 since_inference, history>>

-----------------------------------------------------------------------------
\* enable_ai replaces the AI by one whose model is loaded, or leaves none;
\* set_ai installs one of the application's: for collection without a model, or
\* one that changes its mode by itself.
replace_ai(new) ==
  /\ ai' = new /\ current' = 0 /\ window' = <<>>
  /\ latest' = "none" /\ failing' = FALSE /\ run' = NoRun /\ since_change' = COOLDOWN
  /\ UNCHANGED <<setup, policy, limiterVars, since_tick, since_inference, verdict>>

enable_ai ==
  /\ setup.ai
  /\ \/ replace_ai(NewAI(TRUE, engine.shadow, FALSE))
     \/ replace_ai(NoAI)

set_ai == setup.ai /\ (replace_ai(NewAI(FALSE, TRUE, FALSE)) \/ replace_ai(NewAI(TRUE, TRUE, TRUE)))

disable_ai == ai.present /\ replace_ai(NoAI)

\* FirewallAI::set_shadow_mode: by hand; the counters go on.
ai_set_shadow_mode(on) ==
  /\ ai.present /\ ai' = [ai EXCEPT !.shadow = on]
  /\ UNCHANGED <<setup, policy, limiterVars, current, window, since_tick, since_inference,
                 verdict, history>>

\* SecurityMetrics::tick, and the packets per second of a snapshot: at least one
\* when the packets of the window and of this second are as many as its seconds.
ticked(w, n) == SubSeq(<<n>> \o w, 1, smaller(Len(w) + 1, WINDOW_SIZE))
busy(w, n) == FoldLeft(LAMBDA a, b : a + b, n, w) >= Len(w) + 1

\* (mutant) the counter of anomalies survives the change of mode
escalated_again(a) ==
  IF a.shadow /\ a.cooling = 0 /\ a.anomalies >= ESCALATE
  THEN [a EXCEPT !.shadow = FALSE, !.cooling = COOLDOWN] ELSE a

\* (mutant) the counter compared is the one of anomalies
deescalated_by_anomalies(a) ==
  IF ~a.shadow /\ a.cooling = 0 /\ a.anomalies >= DEESCALATE
  THEN [a EXCEPT !.shadow = TRUE, !.normals = 0, !.cooling = COOLDOWN] ELSE a

\* The automatic changes of mode, after an inference.
escalated(a) ==
  IF a.shadow /\ a.cooling = 0 /\ a.anomalies >= ESCALATE
  THEN [a EXCEPT !.shadow = FALSE, !.anomalies = 0, !.cooling = COOLDOWN] ELSE a

deescalated(a) ==
  IF ~a.shadow /\ a.cooling = 0 /\ a.normals >= DEESCALATE
  THEN [a EXCEPT !.shadow = TRUE, !.normals = 0, !.cooling = COOLDOWN] ELSE a

auto_escalate(a, anomaly) ==
  IF ~a.escalates THEN a
  ELSE IF anomaly
    THEN escalated([a EXCEPT !.anomalies = smaller(@ + 1, ESCALATE), !.normals = 0])
    ELSE deescalated([a EXCEPT !.normals = smaller(@ + 1, DEESCALATE), !.anomalies = 0])

\* run_inference: without traffic the verdict is withdrawn, and a model that
\* fails leaves it as it was; neither touches the counters.
inferred(a, w, n, r) ==
  IF ~busy(w, n) THEN [a EXCEPT !.cached = FALSE]
  ELSE IF r = "failed" THEN a
  ELSE auto_escalate([a EXCEPT !.cached = r = "anomaly"], r = "anomaly")

lengthened(r, kind) ==
  [kind |-> kind, length |-> IF r.kind = kind THEN smaller(r.length + 1, ESCALATE + DEESCALATE)
                             ELSE 1]

\* FirewallEngine::on_timer, from the 100 ms timer or the 1 s timer of the stack.
on_timer(r) ==
  LET ticks == ai.present /\ since_tick >= TICK_INTERVAL
      w == IF ticks THEN ticked(window, current) ELSE window
      n == IF ticks THEN 0 ELSE current
      infers == ai.loaded /\ since_inference >= INFERENCE_INTERVAL
      new == IF infers THEN inferred(ai, w, n, r) ELSE ai
      came_to == IF busy(w, n) THEN r ELSE "idle" IN
  /\ ticks \/ infers
  /\ window' = w /\ current' = n /\ ai' = new
  /\ since_tick' = IF ticks THEN 0 ELSE since_tick
  /\ since_inference' = IF infers THEN 0 ELSE since_inference
  /\ latest' = IF infers /\ came_to # "failed" THEN came_to ELSE latest
  /\ failing' = IF infers THEN came_to = "failed" ELSE failing
  /\ run' = IF ~(infers /\ ai.escalates /\ came_to \in {"normal", "anomaly"}) THEN run
            ELSE IF new.shadow # ai.shadow THEN NoRun
            ELSE lengthened(run, came_to)
  /\ since_change' = IF new.shadow # ai.shadow THEN 0 ELSE since_change
  /\ UNCHANGED <<setup, policy, limiterVars, verdict>>

elapse ==
  /\ since_tick < TICK_INTERVAL \/ since_inference < INFERENCE_INTERVAL \/ setup.limited
  /\ since_tick' = smaller(since_tick + 1, TICK_INTERVAL)
  /\ since_inference' = smaller(since_inference + 1, INFERENCE_INTERVAL)
  /\ ai' = [ai EXCEPT !.cooling = IF @ = 0 THEN 0 ELSE @ - 1]
  /\ limiter_elapse
  /\ since_change' = smaller(since_change + 1, COOLDOWN)
  /\ UNCHANGED <<setup, policy, current, window, verdict, latest, failing, run>>

-----------------------------------------------------------------------------
infer == \E r \in {"normal", "anomaly", "failed"} : on_timer(r)

Next ==
  \/ configure
  \/ \E ip \in Ips : inspect(ip)
  \/ inspect_malformed
  \/ enable_ai \/ set_ai \/ disable_ai
  \/ \E on \in BOOLEAN : ai_set_shadow_mode(on)
  \/ infer
  \/ elapse
Spec == Init /\ [][Next]_vars /\ WF_vars(infer) /\ WF_vars(elapse)

-----------------------------------------------------------------------------
FirewallAI ==
  [loaded: BOOLEAN, present: BOOLEAN, shadow: BOOLEAN, escalates: BOOLEAN, cached: BOOLEAN,
   anomalies: 0 .. ESCALATE, normals: 0 .. DEESCALATE, cooling: 0 .. COOLDOWN]

TypeOK ==
  /\ setup \in Setups /\ engine \in [enabled: BOOLEAN, shadow: BOOLEAN]
  /\ Len(rules) <= MAX_RULES /\ whitelist \subseteq Ips /\ blacklist \subseteq Ips
  /\ LimiterTypeOK
  /\ ai \in FirewallAI
  /\ current \in 0 .. MaxCount /\ Len(window) <= WINDOW_SIZE
  /\ since_tick \in 0 .. TICK_INTERVAL /\ since_inference \in 0 .. INFERENCE_INTERVAL
  /\ verdict \in Actions

\* Of the enabled rules that match a packet the one that decides has the least
\* priority, whatever rules were added, removed and switched in which order; a
\* listed source is dropped or passed as its list says, unless the AI has an
\* alarm; and the alarm is what the last inference that worked came to, so that
\* it outlives failures of the model and nothing else.
PolicyHolds ==
  /\ \A ip \in Ips : deciding(ip) # 0 =>
       \A i \in DOMAIN rules :
         matches(rules[i], ip) => rules[deciding(ip)].priority <= rules[i].priority
  /\ \A ip \in Ips, through \in BOOLEAN :
       /\ ip \in blacklist \ whitelist => decided(ip, through).action = "drop"
       /\ ip \in whitelist /\ ~(ai.loaded /\ ai.cached) => decided(ip, through).action = "pass"
  /\ ai.loaded => (ai.cached <=> latest = "anomaly")

FirewallSound == TypeOK /\ PolicyHolds

\* The AI changes its mode only after enough inferences in a row said the same
\* since it last did, idle seconds and failures not counted, and never twice
\* within the cooldown.
ModeChange ==
  (infer /\ ai'.shadow # ai.shadow) =>
    /\ since_change >= COOLDOWN
    /\ IF ai.shadow THEN latest' = "anomaly" /\ run.length + 1 >= ESCALATE
                         /\ (run.kind = "anomaly" \/ ESCALATE <= 1)
       ELSE latest' = "normal" /\ run.length + 1 >= DEESCALATE
            /\ (run.kind = "normal" \/ DEESCALATE <= 1)

ModeChanges == [][ModeChange]_vars

\* While the model works and finds the traffic normal, an AI that changes its
\* mode by itself comes back to shadow mode, however often it is taken out of it.
DropModeEnds ==
  <>[](ai.escalates /\ latest = "normal" /\ ~failing) => []<>ai.shadow
=============================================================================

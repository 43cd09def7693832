------------------------------ MODULE NeuStack ------------------------------
(* The facade of neustack.cpp: create builds what the configuration asks for   *)
(* around a device, run is the event loop that serves the device, the HTTP     *)
(* server and the timers, stop comes from any thread, and the destructor       *)
(* flushes and closes.  What the parts do in their turn is in their modules.   *)
EXTENDS Naturals, Sequences, FiniteSets

CONSTANTS BATCH_SIZE,
          RxRing,           \* bound: packets the device holds
          TIMER_INTERVAL, FW_TIMER_INTERVAL,   \* in units of the clock
          SECURITY_TICKS,   \* timer calls between two labelled rows
          Configs           \* the configurations tried, of Config

VARIABLES config,        \* StackConfig: what is enabled
          life,          \* "none", "failed", "ready", "running", "stopped", "destroyed"
          parts,         \* what initialize has built
          kind, held, fields, xdp_flags,        \* the device
          running,       \* the atomic flag
          pc,            \* where the loop is
          rx,            \* packets the device has
          batch,         \* rx_descs: frames lent to the loop and not yet processed
          lent,          \* frames lent and not yet returned
          since_timer, since_fw_timer,
          security_tick_count

Dev == INSTANCE Device
device == <<kind, held, fields, xdp_flags>>
timers == <<since_timer, since_fw_timer, security_tick_count>>
stackVars == <<config, life, parts, device, running, pc, rx, batch, lent, timers>>

Config == [af_xdp: BOOLEAN, firewall: BOOLEAN, security_model: BOOLEAN, icmp: BOOLEAN,
           udp: BOOLEAN, model: BOOLEAN, output: BOOLEAN]

ASSUME StackAssumption ==
  /\ BATCH_SIZE \in Nat \ {0} /\ SECURITY_TICKS \in Nat \ {0}
  /\ {RxRing, TIMER_INTERVAL, FW_TIMER_INTERVAL} \subseteq Nat /\ Configs \subseteq Config

StackInit ==
  /\ config \in Configs
  /\ life = "none" /\ parts = {} /\ Dev!DeviceInit
  /\ running = FALSE /\ pc = "receive" /\ rx = 0 /\ batch = 0 /\ lent = 0
  /\ since_timer = 0 /\ since_fw_timer = 0 /\ security_tick_count = 0

at_most(a, b) == IF a < b THEN a ELSE b

-----------------------------------------------------------------------------
\* initialize.  A model that does not load is no failure, and neither is a DNS
\* client without a port; data collection needs a FirewallAI for its metrics and
\* makes one without a model if there is none.
built(loaded) ==
  LET on(condition, part) == IF condition THEN {part} ELSE {} IN
  {"ip", "tcp", "http_server", "http_client", "telemetry"}
    \cup on(config.firewall, "firewall")
    \cup on(config.firewall /\ (config.output \/ (config.security_model /\ loaded)), "firewall_ai")
    \cup on(config.icmp, "icmp")
    \cup on(config.udp, "udp") \cup on(config.udp, "dns_client")
    \cup on(config.model, "intelligence_plane")
    \cup on(config.output, "sample_exporter") \cup on(config.output, "metrics_exporter")
    \cup on(config.output /\ config.firewall, "security_exporter")

chosen ==
  /\ life = "none" /\ kind = "none" /\ kind' \in Dev!create(config.af_xdp)
  /\ life' = IF kind' = "none" THEN "failed" ELSE life
  /\ UNCHANGED <<config, parts, held, fields, xdp_flags, running, pc, rx, batch, lent, timers>>

\* When the device does not open the whole is destroyed at once.
initialize(first, bpf, flags, loaded) ==
  /\ life = "none" /\ kind # "none"
  /\ Dev!open(first, bpf, flags)
  /\ IF Dev!failing(first) THEN life' = "opening_failed" /\ UNCHANGED parts
     ELSE life' = "ready" /\ parts' = built(loaded)
  /\ UNCHANGED <<config, running, pc, rx, batch, lent, timers>>

\* The destructors: of the NeuStack that was made, or of the Impl alone.
destroyed ==
  /\ life \in {"opening_failed", "ready", "stopped"}
  /\ Dev!destroy
  /\ life' = IF life = "opening_failed" THEN "failed" ELSE "destroyed"
  /\ parts' = {} /\ running' = FALSE /\ rx' = 0
  /\ UNCHANGED <<config, pc, batch, lent, timers>>

-----------------------------------------------------------------------------
\* run.  It sets the flag itself: a stop that came before is lost.
start ==
  /\ life \in {"ready", "stopped"}
  /\ life' = "running" /\ running' = TRUE
  /\ pc' = "receive" /\ since_timer' = 0 /\ since_fw_timer' = 0
  /\ UNCHANGED <<config, parts, device, rx, batch, lent, security_tick_count>>

stop == running' = FALSE /\ UNCHANGED <<config, life, parts, device, pc, rx, batch, lent, timers>>

at(here) == life = "running" /\ pc = here

\* The while condition and the reception: a batch from AF_XDP if poll announced
\* it, one packet from a TUN device; an error counts as nothing received.
receive ==
  /\ at("receive") /\ running
  /\ \E n \in 0 .. at_most(rx, IF kind = "af_xdp" THEN BATCH_SIZE ELSE 1) :
       /\ batch' = n /\ lent' = IF kind = "af_xdp" THEN n ELSE 0
       /\ rx' = rx - n
  /\ pc' = "process"
  /\ UNCHANGED <<config, life, parts, device, running, timers>>

leave ==
  /\ at("receive") /\ ~running
  /\ life' = "stopped"
  /\ UNCHANGED <<config, parts, device, running, pc, rx, batch, lent, timers>>

\* Each packet: the firewall, and IPv4 if it lets it pass.
process ==
  /\ at("process") /\ batch > 0
  /\ batch' = batch - 1
  /\ UNCHANGED <<config, life, parts, device, running, pc, rx, lent, timers>>

\* (mutant) the next packets are received before the timers are looked at
release_rx_draining ==
  /\ at("process") /\ batch = 0
  /\ lent' = 0 /\ pc' = IF rx > 0 THEN "receive" ELSE "timers"
  /\ UNCHANGED <<config, life, parts, device, running, rx, batch, timers>>

\* release_rx, for a batch; then HttpServer::poll.
release_rx ==
  /\ at("process") /\ batch = 0
  /\ lent' = 0 /\ pc' = "timers"
  /\ UNCHANGED <<config, life, parts, device, running, rx, batch, timers>>

\* Both timers, with one reading of the clock: TCP, DNS, the firewall and the
\* exporters at the first; the firewall again, with an unlabelled row, at the
\* second.
due == since_timer >= TIMER_INTERVAL
fw_due == "firewall" \in parts /\ since_fw_timer >= FW_TIMER_INTERVAL

on_timers ==
  /\ at("timers")
  /\ since_timer' = IF due THEN 0 ELSE since_timer
  /\ since_fw_timer' = IF fw_due THEN 0 ELSE since_fw_timer
  /\ security_tick_count' =
       IF due /\ "security_exporter" \in parts
       THEN (security_tick_count + 1) % SECURITY_TICKS ELSE security_tick_count
  /\ pc' = "receive"
  /\ UNCHANGED <<config, life, parts, device, running, rx, batch, lent>>

-----------------------------------------------------------------------------
\* The network, and the clock.
arrive ==
  /\ life = "running" /\ rx < RxRing /\ rx' = rx + 1
  /\ UNCHANGED <<config, life, parts, device, running, pc, batch, lent, timers>>

time_passes ==
  /\ life = "running" /\ (since_timer < TIMER_INTERVAL \/ since_fw_timer < FW_TIMER_INTERVAL)
  /\ since_timer' = at_most(since_timer + 1, TIMER_INTERVAL)
  /\ since_fw_timer' = at_most(since_fw_timer + 1, FW_TIMER_INTERVAL)
  /\ UNCHANGED <<config, life, parts, device, running, pc, rx, batch, lent, security_tick_count>>

loop == receive \/ leave \/ process \/ release_rx \/ on_timers

StackNext ==
  \/ chosen
  \/ \E first \in 1 .. 15, bpf \in 1 .. 7, flags \in {"mode", "generic"}, loaded \in BOOLEAN :
       initialize(first, bpf, flags, loaded)
  \/ destroyed
  \/ start \/ stop
  \/ loop
  \/ arrive \/ time_passes

StackSpec == StackInit /\ [][StackNext]_stackVars /\ WF_stackVars(loop) /\ WF_stackVars(time_passes)

-----------------------------------------------------------------------------
StackTypeOK ==
  /\ config \in Configs /\ kind \in Dev!Kinds \cup {"none"} /\ fields \subseteq held
  /\ life \in {"none", "opening_failed", "failed", "ready", "running", "stopped", "destroyed"}
  /\ pc \in {"receive", "process", "timers"} /\ running \in BOOLEAN
  /\ rx \in 0 .. RxRing /\ batch \in 0 .. BATCH_SIZE /\ lent \in 0 .. BATCH_SIZE
  /\ since_timer \in 0 .. TIMER_INTERVAL /\ since_fw_timer \in 0 .. FW_TIMER_INTERVAL
  /\ security_tick_count \in 0 .. SECURITY_TICKS - 1

\* Whatever step of the start-up failed, nothing stays with the system once the
\* stack is gone; a running one has all of its device; and the loop holds no
\* frame of the device when it asks for more (close, hal_linux_afxdp.cpp:136,
\* and ~NeuStack, neustack.cpp:201).
NothingLeaks ==
  /\ life \in {"failed", "destroyed"} => held = {}
  /\ life \in {"ready", "running", "stopped"} =>
       /\ Dev!given(Len(Dev!Steps)) \subseteq held
       /\ fields = held
  /\ pc = "receive" => lent = 0

\* As long as the stack runs its timers are served, however many packets come
\* (neustack.cpp:382).
TimersServed == (<>[](life = "running" /\ running)) => []<>(since_timer = 0)

\* Once stopped, run returns (the while condition, neustack.cpp:339).
StopEnds == (life = "running" /\ ~running) ~> (life = "stopped")

\* The event loop of run neglects neither.
LoopServes == TimersServed /\ StopEnds
=============================================================================

---------------------------- MODULE MonitorStores ----------------------------
(***************************************************************************)
(* What monitord remembers: the alerts with their cooldowns, the history   *)
(* of health scores, the metric history and the traces.  Each is a bounded *)
(* store behind a lock of its own; time is counted in their resolution.    *)
(***************************************************************************)
EXTENDS Integers, Sequences, FiniteSets, SequencesExt

CONSTANTS CriticalKeys,     \* pairs of component and condition that alert_rules.c tests as critical
          WarningKeys,      \* those it tests as warnings
          CriticalCooldown, WarningCooldown,    \* ALERT_COOLDOWN_CRITICAL_MS, ALERT_COOLDOWN_WARNING_MS
          MaxAlerts,        \* ALERT_MAX_ACTIVE
          Capacity,         \* HEALTH_HISTORY_CAPACITY, the metric history's capacity, TRACE_STORE_MAX
          TraceIds,         \* trace ids, which may come again
          EndOfTime,        \* bound on the clock
          MaxEntries        \* bound on the firings and traces

ASSUME StoreAssumption == Capacity \in Nat \ {0}

VARIABLES store,            \* the store this behaviour is about: they share nothing
          time,             \* the monotonic clock
          alerts,           \* alert_state_t: the records in their order
          health, metric,   \* health_history_t and metrics_history_t
          traces,           \* trace_store_t
          past              \* history: the firings, and what was pushed into each store

storeVars == <<store, time, alerts, health, metric, traces, past>>

Index == 0 .. Capacity - 1
Empty == [at |-> 0, value |-> 0]

StoreInit ==
    /\ store \in {"alerts", "health", "metric", "traces"}
    /\ time = 1
    /\ alerts = << >>
    /\ health = [ring |-> [i \in Index |-> Empty], head |-> 0, last |-> 0]
    /\ metric = [ring |-> [i \in Index |-> Empty], head |-> 0, count |-> 0, last |-> 0]
    /\ traces = [ring |-> [i \in Index |-> Empty], head |-> 0, count |-> 0]
    /\ past = [fired |-> << >>, health |-> << >>, metric |-> << >>, traces |-> << >>]

-----------------------------------------------------------------------------
(* Alerts.                                                                 *)

get_cooldown_ms(key) == IF key \in CriticalKeys THEN CriticalCooldown ELSE WarningCooldown

Repeated(as, key, t) == {i \in DOMAIN as : as[i].key = key /\ t - as[i].last < get_cooldown_ms(key)}
Oldest(as)  == CHOOSE i \in DOMAIN as : /\ \A j \in DOMAIN as : as[i].last =< as[j].last
                                        /\ \A j \in 1 .. i - 1 : as[j].last > as[i].last

\* Mutant: a repeated alert keeps the time of its first firing.
alert_fire_unextended(as, key, t) ==
    LET same == Repeated(as, key, t)
        room == IF Len(as) >= MaxAlerts THEN RemoveAt(as, Oldest(as)) ELSE as
    IN  IF same # {} THEN [as EXCEPT ![CHOOSE i \in same : \A j \in same : i =< j].occurrences = @ + 1]
        ELSE Append(room, [key |-> key, first |-> t, last |-> t, occurrences |-> 1])

\* A record of the same alert within its cooldown counts it and is prolonged;
\* otherwise a new record follows the others, for which a full table gives
\* up the one that was seen longest ago.
alert_fire(as, key, t) ==
    LET same == Repeated(as, key, t)
        room == IF Len(as) >= MaxAlerts THEN RemoveAt(as, Oldest(as)) ELSE as
    IN  IF same # {}
        THEN LET i == CHOOSE k \in same : \A j \in same : k =< j
             IN  [as EXCEPT ![i].last = t, ![i].occurrences = @ + 1]
        ELSE Append(room, [key |-> key, first |-> t, last |-> t, occurrences |-> 1])

\* alert_rules_evaluate: the critical rules whose condition holds in the
\* snapshot fire first ...
CriticalRules(facts) == SetToSeq(facts \cap CriticalKeys)

\* ... then the warnings.
WarningRules(facts) == SetToSeq(facts \cap WarningKeys)

\* One pass of the main loop over a snapshot in which facts hold.
alert_rules_evaluate(facts) ==
    LET fire == CriticalRules(facts) \o WarningRules(facts)
    IN  /\ alerts' = FoldLeft(LAMBDA as, k : alert_fire(as, k, time), alerts, fire)
        /\ past' = [past EXCEPT !.fired = @ \o [i \in DOMAIN fire |-> [key |-> fire[i], at |-> time]]]
        /\ UNCHANGED <<store, time, health, metric, traces>>

alert_get_active == {i \in DOMAIN alerts : time - alerts[i].last < get_cooldown_ms(alerts[i].key)}

alert_clear_all ==
    /\ alerts # << >>
    /\ alerts' = << >> /\ past' = [past EXCEPT !.fired = << >>]
    /\ UNCHANGED <<store, time, health, metric, traces>>

-----------------------------------------------------------------------------
(* The rings.                                                              *)

\* Mutant: a full history overwrites its newest entry.
Pushed_stuck(r, entry) == [r EXCEPT !.ring[r.head] = entry, !.head = IF @ + 1 < Capacity THEN @ + 1 ELSE @]

Pushed(r, entry) == [r EXCEPT !.ring[r.head] = entry, !.head = (@ + 1) % Capacity]

Counted1(n) == IF n < Capacity THEN n + 1 ELSE n

\* One push for each time; a second within the resolution is dropped.
health_history_push(v) ==
    /\ health.last = 0 \/ time - health.last >= 1
    /\ health' = [Pushed(health, [at |-> time, value |-> v]) EXCEPT !.last = time]
    /\ past' = [past EXCEPT !.health = Append(@, v)]
    /\ UNCHANGED <<store, time, alerts, metric, traces>>

metrics_history_push(v) ==
    /\ metric.count = 0 \/ time - metric.last >= 1
    /\ metric' = [Pushed(metric, [at |-> time, value |-> v]) EXCEPT !.last = time, !.count = Counted1(@)]
    /\ past' = [past EXCEPT !.metric = Append(@, v)]
    /\ UNCHANGED <<store, time, alerts, health, traces>>

trace_store_add_trace(id) ==
    /\ Len(past.traces) < MaxEntries
    /\ traces' = [Pushed(traces, [at |-> time, value |-> id]) EXCEPT !.count = Counted1(@)]
    /\ past' = [past EXCEPT !.traces = Append(@, id)]
    /\ UNCHANGED <<store, time, alerts, health, metric>>

From(r, n) == [i \in 1 .. n |-> r.ring[(r.head + Capacity - n + i - 1) % Capacity]]

\* The n entries before the head, up to the first that was never written:
\* until n were pushed the first one is.
health_history_get_latest(n) ==
    LET all   == From(health, n)
        blank == {i \in 1 .. n : all[i].at = 0}
        stop  == IF blank = {} THEN n ELSE (CHOOSE i \in blank : \A j \in blank : i =< j) - 1
    IN  [i \in 1 .. stop |-> all[i].value]

metrics_history_get_last(n) ==
    LET all == From(metric, IF metric.count < n THEN metric.count ELSE n)
    IN  [i \in DOMAIN all |-> all[i].value]

trace_store_get_recent(n) ==
    LET all == From(traces, IF traces.count < n THEN traces.count ELSE n)
    IN  [i \in DOMAIN all |-> all[i].value]

trace_store_find(id) == \E i \in 0 .. traces.count - 1 : traces.ring[i].value = id

\* delta_detect_fd_leak: the longest run of rises, ended by anything else.
delta_detect_fd_leak(h, window) ==
    LET step(acc, i) == IF h[i] > h[i - 1]
                        THEN [streak |-> acc.streak + 1, hit |-> acc.hit \/ acc.streak + 1 >= window]
                        ELSE [acc EXCEPT !.streak = 0]
    IN  /\ Len(h) >= 2 /\ window >= 2
        /\ FoldLeft(step, [streak |-> 0, hit |-> FALSE], [k \in 1 .. Len(h) - 1 |-> k + 1]).hit

ClockTicks ==
    /\ time < EndOfTime
    /\ time' = time + 1
    /\ UNCHANGED <<store, alerts, health, metric, traces, past>>

StoreNext ==
    \/ /\ store = "alerts" /\ Len(past.fired) < MaxEntries
       /\ \E facts \in SUBSET (CriticalKeys \cup WarningKeys) : alert_rules_evaluate(facts)
    \/ store = "alerts" /\ alert_clear_all
    \/ store = "health" /\ \E v \in {0, 100} : health_history_push(v)
    \/ store = "metric" /\ \E v \in {0, 100} : metrics_history_push(v)
    \/ store = "traces" /\ \E id \in TraceIds : trace_store_add_trace(id)
    \/ ClockTicks

-----------------------------------------------------------------------------
FiredAt(key) == {past.fired[k].at : k \in {j \in DOMAIN past.fired : past.fired[j].key = key}}

\* The firings of an alert that come within a cooldown of one another are
\* one record; between two records of the same alert lies at least one
\* cooldown, and a record's last firing is one that really happened.
CooldownRespected ==
    \A i \in DOMAIN alerts :
        /\ alerts[i].last \in FiredAt(alerts[i].key) /\ alerts[i].first \in FiredAt(alerts[i].key)
        /\ \A j \in i + 1 .. Len(alerts) :
              alerts[j].key = alerts[i].key => alerts[j].first - alerts[i].last >= get_cooldown_ms(alerts[i].key)
        /\ \A t \in FiredAt(alerts[i].key) :
              t > alerts[i].last => t - alerts[i].last >= get_cooldown_ms(alerts[i].key)

\* What fired within its cooldown is active, unless the table was full since.
RecentIsActive ==
    Len(alerts) < MaxAlerts =>
        \A k \in DOMAIN past.fired :
            time - past.fired[k].at < get_cooldown_ms(past.fired[k].key)
                => \E i \in alert_get_active : alerts[i].key = past.fired[k].key

Newest(s, n) == SubSeq(s, Len(s) - n + 1, Len(s))

\* A reader of a store gets the newest entries in the order in which they
\* came, as many as it asked for and the store holds; the health history
\* gives nothing before it holds as many as were asked for.
ReadersGetNewest ==
    \A n \in 1 .. Capacity :
        /\ metrics_history_get_last(n) = Newest(past.metric, IF Len(past.metric) < n THEN Len(past.metric) ELSE n)
        /\ trace_store_get_recent(n) = Newest(past.traces, IF Len(past.traces) < n THEN Len(past.traces) ELSE n)
        /\ health_history_get_latest(n) = IF Len(past.health) < n THEN << >> ELSE Newest(past.health, n)

\* A trace can be found as long as it is among the last ones added.
FoundIffRecent ==
    \A id \in TraceIds :
        trace_store_find(id) <=> id \in Range(Newest(past.traces, IF Len(past.traces) < Capacity THEN Len(past.traces) ELSE Capacity))

\* A leak is a run of as many rises as the window has.
LeakIsRun ==
    \A w \in 1 .. 3 :
        delta_detect_fd_leak(past.traces, w) <=>
            w >= 2 /\ \E b \in 0 .. Len(past.traces) - w - 1 :
                          \A i \in 1 .. w : past.traces[b + i + 1] > past.traces[b + i]
=============================================================================

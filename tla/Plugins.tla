------------------------------- MODULE Plugins ------------------------------
(***************************************************************************)
(* enterprise/sm_plugin.c and sm_container.c.  A script is executed in a   *)
(* child process, which is waited for without the lock and killed when it  *)
(* takes too long; the counters are updated under the lock afterwards, and *)
(* plugins are registered, enabled and disabled meanwhile.  Services are   *)
(* mapped to the containers they run in.                                   *)
(***************************************************************************)
EXTENDS Integers, Sequences, FiniteSets, SequencesExt

CONSTANTS PluginNames, Callers,
          MaxPlugins,       \* MAX_PLUGINS
          MaxRuns,          \* bound on the executions
          Contained,        \* services that may run in a container
          Containers,
          MaxMappings       \* MAX_SERVICE_MAPPINGS

VARIABLES plugins,          \* the table, in the order of registration
          caller,           \* what each caller of sm_plugin_execute does
          child,            \* the child each caller has forked: none, runs, ended or killed
          runs,             \* history: executions begun, and ended by entry
          mappings,         \* service_mappings: service_name and container_id
          where             \* history: the services registered, with their containers

pluginVars == <<plugins, caller, child, runs, mappings, where>>

NotCalling == [at |-> "idle", entry |-> 0, exit_code |-> 0]

PluginInit ==
    /\ plugins = << >> /\ mappings = << >> /\ where = {}
    /\ caller = [c \in Callers |-> NotCalling]
    /\ child = [c \in Callers |-> "none"]
    /\ runs = [begun |-> 0, ended |-> << >>]

\* The first entry with a name is the one that is found.
IndexOf(name) == SelectInSeq(plugins, LAMBDA e : e.name = name)

NewPlugin(name, script) ==
    [name |-> name, is_script |-> script, enabled |-> TRUE, execution_count |-> 0, failure_count |-> 0]

\* sm_plugin_register_script: a name that is taken is refused.
RegisterScript(name) ==
    /\ Len(plugins) < MaxPlugins /\ IndexOf(name) = 0
    /\ plugins' = Append(plugins, NewPlugin(name, TRUE))
    /\ runs' = [runs EXCEPT !.ended = Append(@, 0)]
    /\ UNCHANGED <<caller, child, mappings, where>>

\* sm_plugin_register_library: it is not.  The library was opened before;
\* a full table closes it again.
RegisterLibrary(name) ==
    /\ Len(plugins) < MaxPlugins
    /\ plugins' = Append(plugins, NewPlugin(name, FALSE))
    /\ runs' = [runs EXCEPT !.ended = Append(@, 0)]
    /\ UNCHANGED <<caller, child, mappings, where>>

\* sm_plugin_enable and sm_plugin_disable.
SetEnabled(name, enabled) ==
    /\ IndexOf(name) # 0
    /\ plugins' = [plugins EXCEPT ![IndexOf(name)].enabled = enabled]
    /\ UNCHANGED <<caller, child, runs, mappings, where>>

\* sm_plugin_execute, up to the unlock and fork.  A library is not called.
Execute(c, name) ==
    LET i == IndexOf(name)
    IN  /\ caller[c].at = "idle" /\ runs.begun < MaxRuns
        /\ i # 0 /\ plugins[i].enabled
        /\ runs' = [runs EXCEPT !.begun = @ + 1]
        /\ caller' = [caller EXCEPT ![c] = [at |-> IF plugins[i].is_script THEN "waiting" ELSE "counting",
                                            entry |-> i, exit_code |-> 0]]
        /\ child' = [child EXCEPT ![c] = IF plugins[i].is_script THEN "runs" ELSE "none"]
        /\ UNCHANGED <<plugins, mappings, where>>

\* fork fails: the execution is not counted.
ForkFails(c, name) ==
    LET i == IndexOf(name)
    IN  /\ caller[c].at = "idle" /\ runs.begun < MaxRuns
        /\ i # 0 /\ plugins[i].enabled /\ plugins[i].is_script
        /\ UNCHANGED pluginVars

\* The child ends by itself.
ChildEnds(c) ==
    /\ child[c] = "runs"
    /\ child' = [child EXCEPT ![c] = "ended"]
    /\ UNCHANGED <<plugins, caller, runs, mappings, where>>

\* waitpid returns the child, with the code it ended with.
Reap(c, code) ==
    /\ caller[c].at = "waiting" /\ child[c] = "ended"
    /\ child' = [child EXCEPT ![c] = "none"]
    /\ caller' = [caller EXCEPT ![c].at = "counting", ![c].exit_code = code]
    /\ UNCHANGED <<plugins, runs, mappings, where>>

\* Mutant: the child is killed and not waited for.
TimeoutUnreaped(c) ==
    /\ caller[c].at = "waiting"
    /\ child' = [child EXCEPT ![c] = "killed"]
    /\ caller' = [caller EXCEPT ![c].at = "counting", ![c].exit_code = -1]
    /\ UNCHANGED <<plugins, runs, mappings, where>>

\* The deadline: the child is killed, or has ended just now, and is waited
\* for; its exit code is not looked at.
Timeout(c) ==
    /\ caller[c].at = "waiting"
    /\ child' = [child EXCEPT ![c] = "none"]
    /\ caller' = [caller EXCEPT ![c].at = "counting", ![c].exit_code = -1]
    /\ UNCHANGED <<plugins, runs, mappings, where>>

\* The counters; the entry is looked up again by its name.
Count(c) ==
    LET i == IndexOf(plugins[caller[c].entry].name)
    IN  /\ caller[c].at = "counting"
        /\ plugins' = [plugins EXCEPT ![i].execution_count = @ + 1,
                                      ![i].failure_count = IF caller[c].exit_code # 0 THEN @ + 1 ELSE @]
        /\ caller' = [caller EXCEPT ![c] = NotCalling]
        /\ runs' = [runs EXCEPT !.ended[caller[c].entry] = @ + 1]
        /\ UNCHANGED <<child, mappings, where>>

\* sm_plugin_cleanup, when the threads of the manager have ended.
CleanupPlugins ==
    /\ \A c \in Callers : caller[c].at = "idle"
    /\ plugins' = << >> /\ runs' = [begun |-> 0, ended |-> << >>]
    /\ UNCHANGED <<caller, child, mappings, where>>

-----------------------------------------------------------------------------
Mapped(s) == SelectInSeq(mappings, LAMBDA m : m.service_name = s)

\* sm_container_register_service.
MapService(s, container) ==
    /\ Len(mappings) < MaxMappings /\ Mapped(s) = 0
    /\ mappings' = Append(mappings, [service_name |-> s, container_id |-> container])
    /\ where' = where \cup {<<s, container>>}
    /\ UNCHANGED <<plugins, caller, child, runs>>

\* Mutant: what follows the entry is not moved down.
UnmapServiceHole(s) ==
    /\ Mapped(s) # 0
    /\ mappings' = Front(mappings)
    /\ where' = {w \in where : w[1] # s}
    /\ UNCHANGED <<plugins, caller, child, runs>>

\* sm_container_unregister_service: the entries behind it move down.
UnmapService(s) ==
    /\ Mapped(s) # 0
    /\ mappings' = RemoveAt(mappings, Mapped(s))
    /\ where' = {w \in where : w[1] # s}
    /\ UNCHANGED <<plugins, caller, child, runs>>

\* sm_container_get_services_in_container.
ServicesIn(container) ==
    LET in == SelectSeq(mappings, LAMBDA m : m.container_id = container)
    IN  [i \in DOMAIN in |-> in[i].service_name]

PluginNext ==
    \/ \E n \in PluginNames : RegisterScript(n) \/ RegisterLibrary(n) \/ \E b \in BOOLEAN : SetEnabled(n, b)
    \/ \E c \in Callers, n \in PluginNames : Execute(c, n) \/ ForkFails(c, n)
    \/ \E c \in Callers : ChildEnds(c) \/ Timeout(c) \/ Count(c) \/ \E code \in {0, 1} : Reap(c, code)
    \/ CleanupPlugins
    \/ \E s \in Contained : UnmapService(s) \/ \E k \in Containers : MapService(s, k)

-----------------------------------------------------------------------------
\* A child is reaped by the caller that forked it before the call returns,
\* however its end, the deadline and the calls of others are ordered.
NoZombies == \A c \in Callers : (child[c] # "none") <=> (caller[c].at = "waiting")

\* Every execution that ended is counted once, at the entry it executed,
\* though the table changed meanwhile.
ExecutionsCounted ==
    \A i \in DOMAIN plugins : /\ plugins[i].execution_count = runs.ended[i]
                              /\ plugins[i].failure_count =< plugins[i].execution_count

\* The table of the containers answers as a map from services to containers
\* would, after any removals from its middle.
MappingAgrees ==
    /\ \A i, j \in DOMAIN mappings : mappings[i].service_name = mappings[j].service_name => i = j
    /\ \A k \in Containers : Range(ServicesIn(k)) = {s \in Contained : <<s, k>> \in where}

\* Plugins are correct.
PluginSafe == NoZombies /\ ExecutionsCounted /\ MappingAgrees
=============================================================================

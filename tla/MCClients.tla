----------------------------- MODULE MCClients ------------------------------
(***************************************************************************)
(* What is around the services, for TLC: the monitors, the proxies through *)
(* which applications use the services, the operator's tools, and the      *)
(* confinement a process puts on itself.  part is the one that moves; they *)
(* share no state, and each invariant is asked where its part moves.       *)
(***************************************************************************)
EXTENDS MonitorViewers, MonitorDaemon, MonitorStores, ProxyConnection,
        ProxyService, OperatorTools, Confinement, TLC

CONSTANT Twins  \* the two viewers, callers, posters, keys or capabilities

VARIABLE part

Symmetry == Permutations(Twins)

monitorVars == <<monVars, mdVars, storeVars, viewVars>>
clientVars  == <<proxyVars, serviceVars>>
edgeVars    == <<toolVars, confVars>>
allVars     == <<monitorVars, clientVars, edgeVars, part>>

Parts == {"monitor", "monitord", "stores", "view", "proxy", "typed", "tools", "confinement"}

ClientsInit ==
    /\ part \in Parts
    /\ MonInit /\ MonitordInit /\ StoreInit /\ ViewInit
    /\ ProxyInit /\ PsInit /\ ToolInit /\ ConfInit
    /\ part # "monitor" => term = CHOOSE h \in Heights : TRUE
    /\ part # "stores" => store = "alerts"
    /\ part # "view" => about = "stream"
    /\ part # "typed" => area = "queue"
    /\ part # "tools" => bankai.at = "line" /\ bankai.path = "primary" /\ bankai.found = 0
    /\ part # "confinement" =>
         /\ config = [user |-> "user", skip |-> {}, policy |-> [required |-> {}, optional |-> {}], cgroup |-> FALSE]
         /\ task.at # "other"

MonitorNext ==
    \/ part = "monitor"  /\ MonNext      /\ UNCHANGED <<mdVars, storeVars, viewVars>>
    \/ part = "monitord" /\ MonitordNext /\ UNCHANGED <<monVars, storeVars, viewVars>>
    \/ part = "stores"   /\ StoreNext    /\ UNCHANGED <<monVars, mdVars, viewVars>>
    \/ part = "view"     /\ ViewNext     /\ UNCHANGED <<monVars, mdVars, storeVars>>

ProxiesNext ==
    \/ part = "proxy" /\ ProxyNext /\ UNCHANGED serviceVars
    \/ part = "typed" /\ PsNext    /\ UNCHANGED proxyVars

EdgeNext ==
    \/ part = "tools"       /\ ToolNext /\ UNCHANGED confVars
    \/ part = "confinement" /\ ConfNext /\ UNCHANGED toolVars

ClientsNext ==
    /\ UNCHANGED part
    /\ \/ MonitorNext /\ UNCHANGED <<clientVars, edgeVars>>
       \/ ProxiesNext /\ UNCHANGED <<monitorVars, edgeVars>>
       \/ EdgeNext    /\ UNCHANGED <<monitorVars, clientVars>>

ClientsSpec == ClientsInit /\ [][ClientsNext]_allVars

-----------------------------------------------------------------------------
\* An operator is told the truth, whatever the interleaving: monitord's data
\* never gets older and a connection is held once, a torn stream is back in
\* step at the next whole message and the screen shows what was read last,
\* the stores give the newest entries and find exactly the traces they still
\* hold, and the tools show an answer only with the command that asked for it.
OperatorsSafe ==
    /\ part = "monitord" => MonitordSafe
    /\ part = "view"     => BackInStep /\ ScreenCurrent
    /\ part = "stores"   => ReadersGetNewest /\ FoundIffRecent
    /\ part = "tools"    => ToolsSafe

\* What is computed from a whole history is what the history says: the lines
\* and snapshots of middleware_monitor.c, the alerts that a cooldown merges,
\* the runs of a leak, the window of the log, and the words of a command line.
ReportsSafe ==
    /\ part = "monitor" => MonitorAppSafe
    /\ part = "stores"  => CooldownRespected /\ RecentIsActive /\ LeakIsRun
    /\ part = "view"    => LogRowsInOrder
    /\ part = "tools"   => CutAtSpaces
=============================================================================

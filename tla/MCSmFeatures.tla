---------------------------- MODULE MCSmFeatures ----------------------------
(***************************************************************************)
(* The parts of the service manager around the registry, for TLC: what a   *)
(* request passes, the message authentication, and the optional features.  *)
(* part is the one that moves; they share no state, and each invariant is  *)
(* asked where its part moves.                                             *)
(***************************************************************************)
EXTENDS RequestGate, MessageAuth, EventBus, WorkerPool, SmControl, SmStart,
        OrderedShutdown, Plugins, Observability, TLC

CONSTANTS Twins,   \* the two threads or contexts of every part
          Triples  \* the tasks, connections or services of those with three

VARIABLE part

Symmetry == Permutations(Twins) \cup Permutations(Triples)

lifeVars    == <<rrVars, startVars, mgmtVars, shutVars>>
featureVars == <<pluginVars, discVars, watchVars, obsVars>>
infraVars   == <<replayVars, busVars, wpVars, connVars>>
smfVars     == <<gateVars, authVars, infraVars, lifeVars, featureVars, part>>

Parts == {"gate", "auth", "replay", "bus", "workers", "connections", "restart", "start",
          "management", "shutdown", "plugins", "discovery", "watch", "observability"}

SmfInit ==
    /\ part \in Parts
    /\ GateInit /\ AuthInit /\ ReplayInit /\ BusInit /\ WpInit /\ ConnInit
    /\ RrInit /\ StartInit /\ MgmtInit /\ ShutInit
    /\ PluginInit /\ DiscInit /\ WatchInit /\ ObsInit
    /\ part # "workers" => size = CHOOSE s \in QueueSizes : \A q \in QueueSizes : s =< q
    /\ part # "management" => shared.names = {}

InfraNext ==
    \/ part = "replay"      /\ ReplayNext /\ UNCHANGED <<busVars, wpVars, connVars>>
    \/ part = "bus"         /\ BusNext    /\ UNCHANGED <<replayVars, wpVars, connVars>>
    \/ part = "workers"     /\ WpNext     /\ UNCHANGED <<replayVars, busVars, connVars>>
    \/ part = "connections" /\ ConnNext   /\ UNCHANGED <<replayVars, busVars, wpVars>>

LifeNext ==
    \/ part = "restart"    /\ RrNext    /\ UNCHANGED <<startVars, mgmtVars, shutVars>>
    \/ part = "start"      /\ StartNext /\ UNCHANGED <<rrVars, mgmtVars, shutVars>>
    \/ part = "management" /\ MgmtNext  /\ UNCHANGED <<rrVars, startVars, shutVars>>
    \/ part = "shutdown"   /\ ShutNext  /\ UNCHANGED <<rrVars, startVars, mgmtVars>>

FeatureNext ==
    \/ part = "plugins"       /\ PluginNext /\ UNCHANGED <<discVars, watchVars, obsVars>>
    \/ part = "discovery"     /\ DiscNext   /\ UNCHANGED <<pluginVars, watchVars, obsVars>>
    \/ part = "watch"         /\ WatchNext  /\ UNCHANGED <<pluginVars, discVars, obsVars>>
    \/ part = "observability" /\ ObsNext    /\ UNCHANGED <<pluginVars, discVars, watchVars>>

SmfNext ==
    /\ UNCHANGED part
    /\ \/ part = "gate" /\ GateNext /\ UNCHANGED <<authVars, infraVars, lifeVars, featureVars>>
       \/ part = "auth" /\ AuthNext /\ UNCHANGED <<gateVars, infraVars, lifeVars, featureVars>>
       \/ InfraNext   /\ UNCHANGED <<gateVars, authVars, lifeVars, featureVars>>
       \/ LifeNext    /\ UNCHANGED <<gateVars, authVars, infraVars, featureVars>>
       \/ FeatureNext /\ UNCHANGED <<gateVars, authVars, infraVars, lifeVars>>

SmfSpec == SmfInit /\ [][SmfNext]_smfVars

-----------------------------------------------------------------------------
\* What a request passes and what passes a signature: no more requests reach
\* the registry than the buckets of sm_rate_limit.c allow, bans keep to their
\* duration, and a damaged message is told from a genuine one (verify.c).
RequestsSafe == (part = "gate" => GateSafe) /\ (part = "auth" => AuthSafe)

\* The infrastructure threads share: a replayed token is found until the ring
\* of sm_replay.c has gone round, the event bus calls each subscriber once,
\* the thread pool runs each task once, and each pooled connection has one
\* holder.
InfraSafe ==
    /\ part = "replay"      => ReplaySafe
    /\ part = "bus"         => BusSafe
    /\ part = "workers"     => WpSafe
    /\ part = "connections" => ConnSafe

\* Starting and acting on a running manager: the key in use is on disk and
\* sockets are accounted for after every failed or killed start
\* (sm_crypto.c, sm_socket.c), rolling restarts report true progress
\* (sm_rolling_restart.c), and the management interface outlives cleanup
\* without using what is gone (sm_management.c).
LifecycleSafe ==
    /\ part = "restart"    => RestartSafe
    /\ part = "start"      => StartSafe
    /\ part = "management" => MgmtSafe

\* Shutdown and the optional features: dependents are asked to end first and
\* nobody who was registered survives, plugins leave no zombies and count
\* executions once, discovery tells each listener what it asked for, the
\* self-watch judges from the oldest sample it kept, and the logs and meters
\* lose nothing.
FeatureSafe ==
    /\ part = "shutdown"      => ShutdownSafe
    /\ part = "plugins"       => PluginSafe
    /\ part = "discovery"     => DiscoverySafe
    /\ part = "watch"         => WatchSafe
    /\ part = "observability" => ObsSafe
=============================================================================

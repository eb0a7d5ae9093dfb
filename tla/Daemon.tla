------------------------------- MODULE Daemon -------------------------------
(***************************************************************************)
(* The life of the service manager process: sm_run and cleanup of          *)
(* lifecycle/sm_main.c, the registry file of lifecycle/sm_persistence.c    *)
(* and the optional features of enterprise/sm_main_integration.c, around   *)
(* the work queue.                                                         *)
(*                                                                         *)
(* The process may be started again after it has stopped, failed to start, *)
(* or crashed at any point; only the registry file outlives it.  What a    *)
(* worker does with a request is modelled in ServiceManager: here it adds  *)
(* a service, removes one, or changes nothing.                             *)
(***************************************************************************)
EXTENDS WorkQueue

CONSTANT Services  \* the names that can be registered

VARIABLES phase,     \* what the main thread is doing
          step,      \* its place in Startup or Shutdown
          up,        \* the subsystems in Tracked that are initialised
          running,   \* the flag of the event loop
          sigterm,   \* a SIGTERM or SIGINT waits in the signalfd
          events,    \* what epoll_wait returned and was not yet looked at
          registry,  \* the registered services
          file,      \* the registry file
          acked,     \* history: the services whose last request was a register
          forgetful  \* history: the file was lost, or not brought up to date

mainVars   == <<phase, step, up, running, sigterm, events>>
daemonVars == <<wqVars, mainVars, registry, file, acked, forgetful>>

Phases    == {"off", "start", "unwind", "loop", "stop"}
FileKinds == {"absent", "torn", "saved"}

(***************************************************************************)
(* The order of sm_run and of cleanup.                                     *)
(***************************************************************************)
Startup == <<"limits", "config", "crypto", "privileges", "signals", "registry", "rate_limit", "metrics",
             "audit", "connpool", "load", "socket", "threads", "features", "seccomp",
             "management", "epoll">>

\* Steps of sm_run whose failure is logged and otherwise ignored.
NotFatal == {"config", "audit", "connpool", "load", "features", "management"}

\* Mutant: the registry and the key go before the workers are joined.
ShutdownHasty == <<"registry", "rate_limit", "crypto", "threads", "features", "save_open",
                   "save_write", "management", "connpool", "audit", "metrics", "socket">>

Shutdown == <<"threads", "features", "save_open", "save_write", "management", "connpool",
              "audit", "metrics", "socket", "registry", "rate_limit", "crypto">>

\* What a request handler uses, and what else another thread can tell.
Needed  == {"crypto", "registry", "rate_limit", "metrics"}
Tracked == Needed \cup {"signals", "socket", "threads"}

Init ==
    /\ WqInit
    /\ phase = "off" /\ step = 0
    /\ up = {}
    /\ running = TRUE /\ sigterm = FALSE
    /\ events = {}
    /\ registry = {}
    /\ file = [kind |-> "absent", names |-> {}]
    /\ acked = {}
    /\ forgetful = FALSE

At(ph, k) == phase' = ph /\ step' = k

Doing(ph, seq, what) == phase = ph /\ seq[step] = what

-----------------------------------------------------------------------------
(***************************************************************************)
(* Starting.                                                               *)
(***************************************************************************)
Launch ==
    /\ phase = "off"
    /\ At("start", 1)
    /\ UNCHANGED <<wqVars, up, running, sigterm, events, registry, file, acked, forgetful>>

Proceed == IF step < Len(Startup) THEN At("start", step + 1) ELSE At("loop", 0)

\* A step that only brings a subsystem up.
StartStep ==
    /\ phase = "start" /\ Startup[step] \notin {"load", "threads"}
    /\ up' = up \cup ({Startup[step]} \cap Tracked)
    /\ Proceed
    /\ UNCHANGED <<wqVars, running, sigterm, events, registry, file, acked, forgetful>>

LoadAt == CHOOSE k \in 1 .. Len(Startup) : Startup[k] = "load"

\* A failed step: go on without it, or clean up and return.  Setting the
\* signal mask cannot fail.
StartFails ==
    /\ phase = "start" /\ Startup[step] \notin {"load", "signals"}
    /\ IF Startup[step] \in NotFatal
         THEN Proceed /\ UNCHANGED forgetful
         ELSE At("stop", 1) /\ forgetful' = (forgetful \/ step < LoadAt)
    /\ UNCHANGED <<wqVars, up, running, sigterm, events, registry, file, acked>>

\* sm_persistence_load: a missing file is no error, a torn one is, and in
\* both cases the daemon starts with an empty registry.
StartLoad ==
    /\ Doing("start", Startup, "load")
    /\ registry' = registry \cup file.names
    /\ Proceed
    /\ UNCHANGED <<wqVars, up, running, sigterm, events, file, acked, forgetful>>

\* threadpool_init.
StartThreads ==
    /\ Doing("start", Startup, "threads")
    /\ Created(Workers)
    /\ up' = up \cup {"threads"}
    /\ Proceed
    /\ UNCHANGED <<queueVars, serving, conn, running, sigterm, events,
                   registry, file, acked, forgetful>>

\* pthread_create fails after the threads in ws: stop and join those.
StartThreadsPartly(ws) ==
    /\ Doing("start", Startup, "threads")
    /\ Created(ws)
    /\ shutdown' = TRUE
    /\ At("unwind", step)
    /\ UNCHANGED <<fds, serving, conn, up, running, sigterm, events,
                   registry, file, acked, forgetful>>

Unwound ==
    /\ phase = "unwind" /\ AllJoined
    /\ At("stop", 1)
    /\ UNCHANGED <<wqVars, up, running, sigterm, events, registry, file, acked, forgetful>>

(***************************************************************************)
(* The event loop.                                                         *)
(***************************************************************************)
Ready == {e \in {"server", "signal"} : \/ e = "signal" /\ sigterm
                                       \/ e = "server" /\ \E c \in Conns : conn[c] = "pending"}

EpollWait ==
    /\ phase = "loop" /\ running /\ events = {}
    /\ Ready # {}
    /\ events' = Ready
    /\ UNCHANGED <<wqVars, phase, step, up, running, sigterm, registry, file, acked, forgetful>>

\* One connection is accepted per event; EAGAIN when the client has left.
Accept ==
    /\ phase = "loop" /\ "server" \in events
    /\ events' = events \ {"server"}
    /\ IF \E c \in Conns : conn[c] = "pending"
         THEN \E c \in Conns : conn[c] = "pending" /\ (Push(c) \/ Drop(c))
         ELSE UNCHANGED wqVars
    /\ UNCHANGED <<phase, step, up, running, sigterm, registry, file, acked, forgetful>>

\* Mutant: the event loop is not told to stop.
ReadSignalKept ==
    /\ phase = "loop" /\ "signal" \in events
    /\ events'  = events \ {"signal"}
    /\ sigterm' = FALSE
    /\ UNCHANGED <<wqVars, phase, step, up, running, registry, file, acked, forgetful>>

\* SIGTERM or SIGINT; a SIGHUP only rereads the configuration file.
ReadSignal ==
    /\ phase = "loop" /\ "signal" \in events
    /\ events'  = events \ {"signal"}
    /\ running' = FALSE
    /\ sigterm' = FALSE
    /\ UNCHANGED <<wqVars, phase, step, up, registry, file, acked, forgetful>>

LeaveLoop ==
    /\ phase = "loop" /\ ~running /\ events = {}
    /\ At("stop", 1)
    /\ UNCHANGED <<wqVars, up, running, sigterm, events, registry, file, acked, forgetful>>

\* epoll_wait fails for another reason than EINTR.
EpollFails ==
    /\ phase = "loop" /\ running /\ events = {}
    /\ At("stop", 1)
    /\ UNCHANGED <<wqVars, up, running, sigterm, events, registry, file, acked, forgetful>>

(***************************************************************************)
(* cleanup.                                                                *)
(***************************************************************************)
OnwardTo(k) == At("stop", k + 1)

\* threadpool_shutdown, when there is a pool: wq_shutdown, then join.
StopPool ==
    /\ Doing("stop", Shutdown, "threads") /\ "threads" \in up /\ ~shutdown
    /\ StopWorkers
    /\ UNCHANGED <<mainVars, registry, file, acked, forgetful>>

PoolStopped ==
    /\ Doing("stop", Shutdown, "threads")
    /\ "threads" \in up => shutdown /\ AllJoined
    /\ up' = up \ {"threads"}
    /\ OnwardTo(step)
    /\ UNCHANGED <<wqVars, running, sigterm, events, registry, file, acked, forgetful>>

\* sm_persistence_save truncates the file before it writes it.
SaveOpen ==
    /\ Doing("stop", Shutdown, "save_open")
    /\ file' = [kind |-> "torn", names |-> {}]
    /\ OnwardTo(step)
    /\ UNCHANGED <<wqVars, up, running, sigterm, events, registry, acked, forgetful>>

\* Mutant: the header is written and the entries are not.
SaveWriteHeader ==
    /\ Doing("stop", Shutdown, "save_write")
    /\ file' = [kind |-> "saved", names |-> {}]
    /\ OnwardTo(step)
    /\ UNCHANGED <<wqVars, up, running, sigterm, events, registry, acked, forgetful>>

SaveWrite ==
    /\ Doing("stop", Shutdown, "save_write")
    /\ file' = [kind |-> "saved", names |-> registry]
    /\ OnwardTo(step)
    /\ UNCHANGED <<wqVars, up, running, sigterm, events, registry, acked, forgetful>>

\* The file cannot be opened: it keeps its old contents.
SaveFails ==
    /\ Doing("stop", Shutdown, "save_open")
    /\ forgetful' = TRUE
    /\ OnwardTo(step + 1)
    /\ UNCHANGED <<wqVars, up, running, sigterm, events, registry, file, acked>>

\* The other cleanup functions.  Closing the listening socket resets the
\* connections in its backlog; sm_registry_cleanup empties the registry.
StopStep ==
    /\ phase = "stop" /\ Shutdown[step] \notin {"threads", "save_open", "save_write"}
    /\ LET what == Shutdown[step]
       IN  /\ up' = up \ {what}
           /\ registry' = IF what = "registry" THEN {} ELSE registry
           /\ conn' = IF what = "socket"
                        THEN [c \in Conns |-> IF conn[c] = "pending" THEN "none" ELSE conn[c]]
                        ELSE conn
    /\ step < Len(Shutdown)
    /\ OnwardTo(step)
    /\ UNCHANGED <<queueVars, wpc, serving, running, sigterm, events, file, acked, forgetful>>

\* Memory, threads and sockets end with the process.
ProcessGone ==
    /\ fds'      = <<>>
    /\ shutdown' = FALSE
    /\ wpc'      = [w \in Workers |-> "none"]
    /\ serving'  = [w \in Workers |-> NoFd]
    /\ conn'     = [c \in Conns |-> "none"]
    /\ up'       = {}
    /\ running'  = TRUE
    /\ sigterm'  = FALSE
    /\ events'   = {}
    /\ registry' = {}
    /\ At("off", 0)

\* The last step of cleanup; sm_run returns.
Exit ==
    /\ phase = "stop" /\ step = Len(Shutdown)
    /\ ProcessGone
    /\ UNCHANGED <<file, acked, forgetful>>

(***************************************************************************)
(* The workers, and the world outside.                                     *)
(***************************************************************************)
\* A request registers services, unregisters services, or does neither.
Serve(w, added, removed) ==
    /\ Close(w)
    /\ registry' = (registry \cup added) \ removed
    /\ acked'    = (acked \cup added) \ removed
    /\ UNCHANGED <<mainVars, file, forgetful>>

Effects == {<<{}, {}>>} \cup {<<{s}, {}>> : s \in Services} \cup {<<{}, {s}>> : s \in Services}

WorkerStep(w) ==
    \/ /\ PopWait(w) \/ PopStop(w) \/ Pop(w)
       /\ UNCHANGED <<mainVars, registry, file, acked, forgetful>>
    \/ \E e \in Effects : Serve(w, e[1], e[2])

Connect(c) ==
    /\ "socket" \in up /\ conn[c] = "none"
    /\ Becomes(c, "pending")
    /\ UNCHANGED <<queueVars, wpc, serving, mainVars, registry, file, acked, forgetful>>

GiveUp(c) ==
    /\ conn[c] = "pending"
    /\ Becomes(c, "none")
    /\ UNCHANGED <<queueVars, wpc, serving, mainVars, registry, file, acked, forgetful>>

Wakeup(w) ==
    /\ SpuriousWakeup(w)
    /\ UNCHANGED <<mainVars, registry, file, acked, forgetful>>

\* Blocked from setup_signals on, so it waits for the event loop.
Terminate ==
    /\ "signals" \in up /\ ~sigterm
    /\ sigterm' = TRUE
    /\ UNCHANGED <<wqVars, phase, step, up, running, events, registry, file, acked, forgetful>>

Crash ==
    /\ phase # "off"
    /\ ProcessGone
    /\ forgetful' = TRUE
    /\ UNCHANGED <<file, acked>>

MainStep ==
    \/ StartStep \/ StartLoad \/ StartThreads
    \/ Unwound
    \/ EpollWait \/ Accept \/ ReadSignal \/ LeaveLoop
    \/ StopPool \/ PoolStopped \/ SaveOpen \/ SaveWrite \/ StopStep \/ Exit

Next ==
    \/ Launch
    \/ MainStep
    \/ StartFails \/ \E ws \in SUBSET Workers \ {Workers} : StartThreadsPartly(ws)
    \/ EpollFails \/ SaveFails
    \/ \E w \in Workers : WorkerStep(w) \/ Wakeup(w)
    \/ \E c \in Conns : Connect(c) \/ GiveUp(c)
    \/ Terminate
    \/ Crash

Spec == Init /\ [][Next]_daemonVars

\* The main thread and the workers are scheduled, and every handler returns:
\* both recv calls of sm_handle_client have a timeout.
FairSpec ==
    /\ Spec
    /\ WF_daemonVars(MainStep)
    /\ \A w \in Workers : WF_daemonVars(WorkerStep(w))

-----------------------------------------------------------------------------
\* Every variable has its type.
TypeOK ==
    /\ WqTypeOK
    /\ phase \in Phases
    /\ step \in 0 .. Len(Startup)
    /\ up \subseteq Tracked
    /\ running \in BOOLEAN /\ sigterm \in BOOLEAN
    /\ events \subseteq {"server", "signal"}
    /\ registry \subseteq Services
    /\ file.kind \in FileKinds /\ file.names \subseteq Services
    /\ acked \subseteq Services
    /\ forgetful \in BOOLEAN

\* No request is served before the subsystems it uses are up or after they
\* are gone, on the orderly path and on every failed start alike: the order
\* of sm_run and of cleanup, and the join in threadpool_shutdown.
ServedWhileUp ==
    \A w \in Workers : wpc[w] = "busy" => Needed \subseteq up

\* Every connection that was accepted is served, those still queued when the
\* daemon is told to stop included: wq_pop looks at the queue before it looks
\* at the shutdown flag, and cleanup joins the workers.  Only a crash, after
\* which forgetful holds, discards them.
AcceptedIsServed ==
    \A c \in Conns : (conn[c] = "queued") ~> (conn[c] = "busy" \/ forgetful)

\* A SIGTERM that finds the daemon in its event loop ends the process: no
\* worker is left waiting and every join returns.
TermEnds == (sigterm /\ phase = "loop") ~> (phase = "off")

\* The registry of a daemon that was stopped in order and started again
\* holds every service registered before, through any number of restarts and
\* of starts that fail once the file is loaded.
CleanRestartRemembers ==
    phase = "loop" /\ ~forgetful => registry = acked

\* The daemon at any moment: each accepted connection is in one place, the
\* workers are awake for those queued, and none is served without the
\* subsystems its handler uses.
DaemonSafe == TypeOK /\ EachConnOnce /\ NoLostWakeup /\ ServedWhileUp
=============================================================================

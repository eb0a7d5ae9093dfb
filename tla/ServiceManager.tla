--------------------------- MODULE ServiceManager ---------------------------
(***************************************************************************)
(* The service manager daemon at work: service processes send requests,    *)
(* worker threads handle them, and the health check of the main thread     *)
(* marks and kills services that have stopped beating                      *)
(* (infrastructure/sm_handlers.c, observability/sm_health.c,               *)
(* lifecycle/sm_service_tier.c, and the processes as services/common/      *)
(* service_ipc.c lets them behave).                                        *)
(*                                                                         *)
(* The registry is the map that Registry implements.  The health check     *)
(* works on a copy of it, entry by entry, while requests go on being       *)
(* handled: every access to the registry is a step of its own.             *)
(***************************************************************************)
EXTENDS RegistryMap, TLC

CONSTANTS Main,              \* the thread that runs the health check
          Svc,               \* the service each process belongs to
          HeartbeatTimeout,  \* SM_HEARTBEAT_TIMEOUT
          RestartDelay,      \* SM_HEALTH_RESTART_DELAY
          MaxRestarts,       \* SM_HEALTH_MAX_RESTARTS
          TierAttempts,      \* max_attempts of SVC_TIER_NORMAL
          MaxAttempts,       \* bound on the kills counted for an entry
          Lossy,             \* whether requests may be refused or dropped
          PidReuse           \* whether a pid is used again after its process

\* A value of Svc: all processes are of one service.
OneService == [p \in Pids |-> CHOOSE n \in Names : TRUE]

ASSUME ManagerAssumption ==
    /\ Main \in Threads
    /\ Svc \in [Pids -> Names]
    /\ {HeartbeatTimeout, RestartDelay, MaxRestarts, TierAttempts, MaxAttempts} \subseteq Nat
    /\ HeartbeatTimeout < AgeCap /\ MaxRestarts =< RestartCap
    /\ Lossy \in BOOLEAN /\ PidReuse \in BOOLEAN

VARIABLES proc,      \* what each process is doing
          queue,     \* the requests accepted and not yet handled
          check,     \* the health check: its step, its copy, the entry at hand
          attempts   \* history: the kills sent for each registered entry

smVars == <<reg, live, op, proc, queue, check, attempts>>

Workers   == Threads \ {Main}
ProcState == {"new", "out", "starting", "serving", "hung", "leaving"}
Request   == [type : {"register", "heartbeat", "unregister"}, pid : Pids]
Resting   == [step |-> "idle"]

\* The state of a pid that a new process may get.
Unused == IF PidReuse THEN "out" ELSE "new"

NoAttempts == [n \in Names |-> 0]

SmInit ==
    /\ MapInit
    /\ live     = {}
    /\ proc     = [p \in Pids |-> Unused]
    /\ queue    = {}
    /\ check    = Resting
    /\ attempts = NoAttempts

Send(p, type) == queue' = queue \cup {[type |-> type, pid |-> p]}

Becomes(p, s) == proc' = [proc EXCEPT ![p] = s]

-----------------------------------------------------------------------------
(***************************************************************************)
(* Service processes.  A service registers once when it starts, gives up   *)
(* when it is refused, beats while its loop turns, and unregisters when it *)
(* leaves.  With PidReuse a pid is used again once it is free.             *)
(***************************************************************************)
Launch(p) ==
    /\ proc[p] = Unused
    /\ Start(p)
    /\ Becomes(p, "starting")
    /\ Send(p, "register")
    /\ UNCHANGED <<check, attempts>>

Beat(p) ==
    /\ proc[p] = "serving"
    /\ Send(p, "heartbeat")
    /\ UNCHANGED <<mapVars, proc, check, attempts>>

Hang(p) ==
    /\ proc[p] = "serving"
    /\ Becomes(p, "hung")
    /\ UNCHANGED <<mapVars, queue, check, attempts>>

Resume(p) ==
    /\ proc[p] = "hung"
    /\ Becomes(p, "serving")
    /\ UNCHANGED <<mapVars, queue, check, attempts>>

Quit(p) ==
    /\ proc[p] = "serving"
    /\ Becomes(p, "leaving")
    /\ Send(p, "unregister")
    /\ UNCHANGED <<mapVars, check, attempts>>

\* The process is gone, with requests of its own perhaps still queued.
Die(p) ==
    /\ Exit(p)
    /\ Becomes(p, "out")
    /\ UNCHANGED <<queue, check, attempts>>

(***************************************************************************)
(* The handlers, run by the worker threads.                                *)
(***************************************************************************)
Taken(r) == queue' = queue \ {r}

\* What the register reply does to the process that waits for it.
Answer(p, s) == proc' = IF proc[p] = "starting" THEN [proc EXCEPT ![p] = s] ELSE proc

\* sm_handle_register: SM_OK.
Register(w, r) ==
    /\ r.type = "register" /\ op[w] = Idle
    /\ Add(Svc[r.pid], r.pid)
    /\ Answer(r.pid, "serving")
    /\ attempts' = [attempts EXCEPT ![Svc[r.pid]] = 0]
    /\ Taken(r)
    /\ UNCHANGED check

\* SM_ERR_EXISTS or SM_ERR_FULL: the service exits without unregistering.
RegisterRefused(w, r) ==
    /\ r.type = "register" /\ op[w] = Idle /\ Unread
    /\ ~Available(Svc[r.pid]) \/ Cardinality(DOMAIN reg \ {Svc[r.pid]}) >= MaxServices
    /\ Answer(r.pid, "leaving")
    /\ Taken(r)
    /\ UNCHANGED <<mapVars, check, attempts>>

\* sm_handle_heartbeat, in its two stores.  Who sends it is not looked at.
Heartbeat(w, r) ==
    /\ r.type = "heartbeat"
    /\ BeatBegin(w, Svc[r.pid])
    /\ Taken(r)
    /\ UNCHANGED <<proc, check, attempts>>

HeartbeatStored(w) ==
    /\ BeatEnd(w)
    /\ UNCHANGED <<proc, queue, check, attempts>>

\* sm_handle_unregister.
Unregister(w, r) ==
    /\ r.type = "unregister" /\ op[w] = Idle
    /\ RemoveIfOwner(Svc[r.pid], r.pid)
    /\ Taken(r)
    /\ UNCHANGED <<proc, check, attempts>>

\* SM_ERR_NOT_FOUND and SM_ERR_PERMISSION change nothing.
Ignored(w, r) ==
    /\ op[w] = Idle
    /\ \/ r.type = "heartbeat" /\ Svc[r.pid] \notin DOMAIN reg
       \/ r.type = "unregister" /\ Unread
          /\ (Svc[r.pid] \in DOMAIN reg => reg[Svc[r.pid]].pid # r.pid)
    /\ Taken(r)
    /\ UNCHANGED <<mapVars, proc, check, attempts>>

\* A full work queue, a rate limit or a failed validation: no reply to work
\* with, and a service that was registering gives up.
Refuse(r) ==
    /\ Lossy
    /\ Answer(r.pid, IF r.type = "register" THEN "leaving" ELSE proc[r.pid])
    /\ Taken(r)
    /\ UNCHANGED <<mapVars, check, attempts>>

(***************************************************************************)
(* sm_health_check.                                                        *)
(***************************************************************************)
\* sm_tier_get_restart_delay for SVC_TIER_NORMAL in units of its base delay,
\* and the fallback of sm_health_check when it answers -1.
TierDelay(count) == IF count =< 1 THEN RestartDelay ELSE RestartDelay * 2 ^ (count - 1)

Backoff(count) == IF count >= TierAttempts THEN RestartDelay ELSE TierDelay(count)

TimedOutAgain(e) == e.status = "crashed" /\ e.beat > HeartbeatTimeout  \* mutant: wrong state

TimedOut(e) == e.status = "running" /\ e.beat > HeartbeatTimeout

\* The copy of sm_registry_get_all; ages are as of the call to time().
CheckBegin ==
    /\ check = Resting
    /\ DOMAIN reg # {}
    /\ check' = [step |-> "scan", todo |-> reg]
    /\ UNCHANGED <<mapVars, proc, queue, attempts>>

\* The loop is done with entry n of the copy.
Rest(n) ==
    LET left == DOMAIN check.todo \ {n}
    IN  IF left = {} THEN Resting
        ELSE [step |-> "scan", todo |-> [m \in left |-> check.todo[m]]]

At(step, n) == [step |-> step, todo |-> check.todo, name |-> n]

\* Nothing to do for a dead entry or one that beats in time.
CheckSkip(n) ==
    /\ check.step = "scan" /\ n \in DOMAIN check.todo
    /\ LET e == check.todo[n] IN e.status = "dead" \/ (e.status = "running" /\ ~TimedOut(e))
    /\ check' = Rest(n)
    /\ UNCHANGED <<mapVars, proc, queue, attempts>>

\* Mark the service crashed, if it is still registered.
CheckTimeout(n) ==
    /\ check.step = "scan" /\ n \in DOMAIN check.todo
    /\ TimedOut(check.todo[n])
    /\ IF n \in DOMAIN reg THEN StatusBegin(Main, n, "crashed") ELSE UNCHANGED mapVars
    /\ check' = At("crashed", n)
    /\ UNCHANGED <<proc, queue, attempts>>

CheckStore ==
    /\ CrashTime(Main) \/ CrashCount(Main)
    /\ UNCHANGED <<proc, queue, check, attempts>>

CheckCrashed(n) ==
    /\ check.step = "scan" /\ n \in DOMAIN check.todo
    /\ check.todo[n].status = "crashed"
    /\ check' = At("crashed", n)
    /\ UNCHANGED <<mapVars, proc, queue, attempts>>

\* From here on the decision is taken from the copy: the restart count and
\* the crash time are those from before the entry was marked.
\* Mutant: SERVICE_STOPPED, a state nothing else knows.
CheckGiveUpStopped ==
    /\ check.step = "crashed" /\ op[Main] = Idle
    /\ check.todo[check.name].restarts >= MaxRestarts
    /\ IF check.name \in DOMAIN reg THEN StatusBegin(Main, check.name, "stopped")
       ELSE UNCHANGED mapVars
    /\ check' = Rest(check.name)
    /\ UNCHANGED <<proc, queue, attempts>>

CheckGiveUp ==
    /\ check.step = "crashed" /\ op[Main] = Idle
    /\ check.todo[check.name].restarts >= MaxRestarts
    /\ IF check.name \in DOMAIN reg THEN StatusBegin(Main, check.name, "dead")
       ELSE UNCHANGED mapVars
    /\ check' = Rest(check.name)
    /\ UNCHANGED <<proc, queue, attempts>>

CheckWait ==
    /\ check.step = "crashed" /\ op[Main] = Idle
    /\ LET e == check.todo[check.name]
       IN  e.restarts < MaxRestarts /\ e.crash < Backoff(e.restarts)
    /\ check' = Rest(check.name)
    /\ UNCHANGED <<mapVars, proc, queue, attempts>>

\* SIGTERM: the service may or may not be able to leave.
CheckTerm ==
    LET e == check.todo[check.name]
        n == check.name
    IN  /\ check.step = "crashed" /\ op[Main] = Idle
        /\ e.restarts < MaxRestarts /\ e.crash >= Backoff(e.restarts)
        /\ attempts' = [attempts EXCEPT ![n] = IF @ < MaxAttempts THEN @ + 1 ELSE @]
        /\ \/ UNCHANGED <<proc, queue>>
           \/ proc[e.pid] = "serving" /\ Becomes(e.pid, "leaving") /\ Send(e.pid, "unregister")
        /\ check' = At("term", n)
        /\ UNCHANGED mapVars

\* 100 ms later: SIGKILL if the pid still exists.
CheckKill ==
    /\ check.step = "term"
    /\ LET p == check.todo[check.name].pid
       IN  IF p \in live THEN Exit(p) /\ Becomes(p, "out") ELSE UNCHANGED <<mapVars, proc>>
    /\ check' = Rest(check.name)
    /\ UNCHANGED <<queue, attempts>>

TimePasses == Tick /\ UNCHANGED <<proc, queue, check, attempts>>

-----------------------------------------------------------------------------
HandleStep(w) ==
    \/ \E r \in queue : \/ Register(w, r)
                        \/ RegisterRefused(w, r)
                        \/ Heartbeat(w, r)
                        \/ Unregister(w, r)
                        \/ Ignored(w, r)
    \/ HeartbeatStored(w)

CheckStep ==
    \/ \E n \in Names : CheckSkip(n) \/ CheckTimeout(n) \/ CheckCrashed(n)
    \/ CheckBegin \/ CheckStore \/ CheckGiveUp \/ CheckWait \/ CheckTerm \/ CheckKill

SmNext ==
    \/ \E p \in Pids : Launch(p) \/ Beat(p) \/ Hang(p) \/ Resume(p) \/ Quit(p) \/ Die(p)
    \/ \E w \in Workers : HandleStep(w)
    \/ \E r \in queue : Refuse(r)
    \/ CheckStep
    \/ TimePasses

SmSpec == SmInit /\ [][SmNext]_smVars

(***************************************************************************)
(* Fairness.  The workers and the main loop are scheduled, time passes, a  *)
(* service that serves keeps beating (its loop timer), and the backlog of  *)
(* the socket and the work queue, both first in first out, do not put off  *)
(* one process's heartbeats forever.                                       *)
(* Nothing is assumed of processes starting, hanging or dying.             *)
(***************************************************************************)
BeatHandled(p) ==
    \E w \in Workers, r \in queue : r.pid = p /\ (Heartbeat(w, r) \/ (r.type = "heartbeat" /\ Ignored(w, r)))

Fairness ==
    /\ WF_smVars(\E w \in Workers : HandleStep(w))
    /\ WF_smVars(CheckStep)
    /\ WF_smVars(TimePasses)
    /\ \A p \in Pids : WF_smVars(Beat(p)) /\ SF_smVars(BeatHandled(p))

SmFairSpec == SmSpec /\ Fairness

-----------------------------------------------------------------------------
\* Every variable has its type, and live is the processes that exist.
SmTypeOK ==
    /\ DOMAIN reg \subseteq Names
    /\ \A n \in DOMAIN reg : reg[n] \in Entry
    /\ op \in [Threads -> {Idle} \cup Op]
    /\ proc \in [Pids -> ProcState]
    /\ live = {p \in Pids : proc[p] \notin {"new", "out"}}
    /\ queue \subseteq Request
    /\ attempts \in [Names -> 0 .. MaxAttempts]
    /\ check = Resting \/ check.step \in {"scan", "crashed", "term"}

\* A process that is alive loses its registration only by its own request:
\* no delayed unregister, replacement or health decision of another process
\* takes it away (the owner check of sm_registry_remove_if_owner and the
\* liveness check of sm_registry_add, whatever is still queued).
LiveOwnerKeepsName ==
    [][\A n \in DOMAIN reg :
         \/ n \in DOMAIN reg' /\ reg'[n].pid = reg[n].pid
         \/ reg[n].pid \notin live
         \/ [type |-> "unregister", pid |-> reg[n].pid] \in queue]_smVars

\* The entry of a service is in the running state although its process p is
\* gone: lookups hand out a socket nobody listens on.
Ghost(n, p) == n \in DOMAIN reg /\ reg[n].pid = p /\ p \notin live /\ reg[n].status = "running"

\* A service whose process is gone does not stay in the running state,
\* whatever requests of it are still to be handled: sm_health_check marks the
\* entry, or a new process takes it over, unless another process of the name
\* is serving, whose heartbeats sm_handle_heartbeat takes for the entry's.
GoneIsNoticed ==
    \A n \in Names, p \in Pids :
        Ghost(n, p) ~> ~Ghost(n, p) \/ \E q \in Pids : Svc[q] = n /\ proc[q] = "serving"

\* A service that goes on beating is put back to running when it was marked
\* crashed or dead: while it hung, or by a pass of sm_health_check that had
\* copied the entry of the process before it.
BeatingIsRunning ==
    \A p \in Pids :
        (proc[p] = "serving") ~> (proc[p] # "serving" \/ Svc[p] \notin DOMAIN reg
                                  \/ reg[Svc[p]].status = "running")

\* A service is killed at most MaxRestarts times before it is given up.
RestartsLimited == \A n \in Names : attempts[n] =< MaxRestarts
=============================================================================

---------------------------- MODULE RegistryMap -----------------------------
(***************************************************************************)
(* What the service registry promises: a bounded map from service names to *)
(* entries.  Structural changes (add, remove) are atomic.  The health and  *)
(* heartbeat updates are not: they store one field after another under the *)
(* read lock, where other updates interleave and structural changes wait.  *)
(*                                                                         *)
(* Times are ages: beat and crash are the time since last_heartbeat and    *)
(* last_crash_time, up to AgeCap, which also stands for "never".           *)
(***************************************************************************)
EXTENDS Naturals, FiniteSets

CONSTANTS Names, Pids, Threads,
          MaxServices,  \* SM_MAX_SERVICES
          AgeCap,       \* bound on an age
          RestartCap    \* bound on restart_count

ASSUME MapAssumption ==
    MaxServices \in Nat \ {0} /\ AgeCap \in Nat \ {0} /\ RestartCap \in Nat \ {0}

VARIABLES reg,   \* the entry of each registered name
          live,  \* the processes that exist, as kill(pid, 0) sees them
          op     \* per thread, the update it has begun and not finished

mapVars == <<reg, live, op>>

Status == {"running", "crashed", "dead"}  \* nothing ever sets SERVICE_STOPPED
Ages   == 0 .. AgeCap
Entry  == [pid : Pids, status : Status, restarts : 0 .. RestartCap, beat : Ages, crash : Ages]

\* A thread's unfinished update: kind says which store comes next.
Idle    == [kind |-> "none"]
OpKinds == {"beat", "time", "count"}
Op      == [kind : OpKinds, name : Names]

FreshEntry(p) ==
    [pid |-> p, status |-> "running", restarts |-> 0, beat |-> 0, crash |-> AgeCap]

Older(age)     == IF age < AgeCap THEN age + 1 ELSE age
Counted(count) == IF count < RestartCap THEN count + 1 ELSE count

\* The write lock is free of readers.
Unread == \A t \in Threads : op[t] = Idle

MapInit ==
    /\ reg  = [n \in {} |-> FreshEntry(CHOOSE p \in Pids : TRUE)]
    /\ live \in SUBSET Pids
    /\ op   = [t \in Threads |-> Idle]

-----------------------------------------------------------------------------
\* A name is free to register: unknown, or held by a process that is gone.
Available(n) == n \in DOMAIN reg => reg[n].pid \notin live

Add(n, p) ==
    /\ Unread
    /\ Available(n)
    /\ Cardinality(DOMAIN reg \ {n}) < MaxServices
    /\ reg' = [m \in DOMAIN reg \cup {n} |-> IF m = n THEN FreshEntry(p) ELSE reg[m]]
    /\ UNCHANGED <<live, op>>

Without(n) == [m \in DOMAIN reg \ {n} |-> reg[m]]

Remove(n) ==
    /\ Unread
    /\ n \in DOMAIN reg
    /\ reg' = Without(n)
    /\ UNCHANGED <<live, op>>

\* Mutant: anyone may remove a name.
RemoveIfKnown(n, p) == Remove(n)

RemoveIfOwner(n, p) ==
    /\ n \in DOMAIN reg /\ reg[n].pid = p
    /\ Remove(n)

\* A heartbeat stores last_heartbeat, then the status.
BeatBegin(t, n) ==
    /\ op[t] = Idle
    /\ n \in DOMAIN reg
    /\ reg' = [reg EXCEPT ![n].beat = 0]
    /\ op'  = [op EXCEPT ![t] = [kind |-> "beat", name |-> n]]
    /\ UNCHANGED live

\* Mutant: only the time is stored.
BeatEndTimeOnly(t) ==
    /\ op[t].kind = "beat"
    /\ op' = [op EXCEPT ![t] = Idle]
    /\ UNCHANGED <<reg, live>>

BeatEnd(t) ==
    /\ op[t].kind = "beat"
    /\ reg' = [reg EXCEPT ![op[t].name].status = "running"]
    /\ op'  = [op EXCEPT ![t] = Idle]
    /\ UNCHANGED live

\* A status update stores the status, and for a crash two fields more.
StatusBegin(t, n, s) ==
    /\ op[t] = Idle
    /\ n \in DOMAIN reg
    /\ reg' = [reg EXCEPT ![n].status = s]
    /\ op'  = [op EXCEPT ![t] = IF s = "crashed" THEN [kind |-> "time", name |-> n] ELSE Idle]
    /\ UNCHANGED live

CrashTime(t) ==
    /\ op[t].kind = "time"
    /\ reg' = [reg EXCEPT ![op[t].name].crash = 0]
    /\ op'  = [op EXCEPT ![t].kind = "count"]
    /\ UNCHANGED live

CrashCount(t) ==
    /\ op[t].kind = "count"
    /\ reg' = [reg EXCEPT ![op[t].name].restarts = Counted(@)]
    /\ op'  = [op EXCEPT ![t] = Idle]
    /\ UNCHANGED live

\* sm_registry_cleanup, sm_registry_init.
Clear ==
    /\ Unread
    /\ reg' = [n \in {} |-> reg[n]]
    /\ UNCHANGED <<live, op>>

\* Outside the registry: time passes, processes come and go.
Tick ==
    /\ reg' = [n \in DOMAIN reg |-> [reg[n] EXCEPT !.beat = Older(@), !.crash = Older(@)]]
    /\ UNCHANGED <<live, op>>

Exit(p)  == p \in live /\ live' = live \ {p} /\ UNCHANGED <<reg, op>>

Start(p) == p \notin live /\ live' = live \cup {p} /\ UNCHANGED <<reg, op>>

MapNext ==
    \/ \E n \in Names, p \in Pids : Add(n, p) \/ RemoveIfOwner(n, p)
    \/ \E n \in Names : Remove(n)
    \/ \E t \in Threads : \/ \E n \in Names : BeatBegin(t, n)
                          \/ BeatEnd(t)
                          \/ \E n \in Names, s \in {"crashed", "dead"} : StatusBegin(t, n, s)
                          \/ CrashTime(t)
                          \/ CrashCount(t)
    \/ Clear
    \/ Tick
    \/ \E p \in Pids : Exit(p) \/ Start(p)

MapSpec == MapInit /\ [][MapNext]_mapVars
=============================================================================

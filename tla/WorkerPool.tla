----------------------------- MODULE WorkerPool -----------------------------
(***************************************************************************)
(* enterprise/sm_threadpool.c, with the resizing of its queue and its two  *)
(* ways to stop.                                                           *)
(*                                                                         *)
(* The queue is the array with queue_front and queue_used, as in the code; *)
(* what a task is beyond its descriptor is left out.  A worker that has    *)
(* found nothing to do is "checked" until it waits on queue_cond, and      *)
(* holds queue_mutex as long; it may wake up for no reason.  One thread    *)
(* starts the pool and stops it, once.                                     *)
(***************************************************************************)
EXTENDS Integers, FiniteSets

CONSTANTS PoolWorkers, Tasks,
          QueueSizes      \* the sizes the queue may have

ASSUME WpAssumption ==
    /\ QueueSizes \subseteq Nat \ {0} /\ IsFiniteSet(PoolWorkers)
    /\ Tasks \cap {"none", "idle", "checked", "waiting"} = {}

VARIABLES tasks,          \* the array
          front, used, size,
          stopping,       \* shutdown_requested
          phase,          \* of the thread that starts and stops the pool
          hand,           \* what each worker is doing
          fd,             \* history: what became of each descriptor
          order           \* history: tasks queued, oldest first

wpVars == <<tasks, front, used, size, stopping, phase, hand, fd, order>>

NoTask == "none"
Blank(n) == [i \in 0 .. n - 1 |-> NoTask]

WpInit ==
    /\ size \in QueueSizes /\ tasks = Blank(size)
    /\ front = 0 /\ used = 0 /\ stopping = FALSE /\ phase = "down"
    /\ hand = [w \in PoolWorkers |-> "none"]
    /\ fd = [t \in Tasks |-> "caller"]
    /\ order = {}

MutexFree == \A w \in PoolWorkers : hand[w] # "checked"
AllGone   == \A w \in PoolWorkers : hand[w] = "none"
Woken     == [w \in PoolWorkers |-> IF hand[w] = "waiting" THEN "idle" ELSE hand[w]]

\* sm_threadpool_init.
InitPool ==
    /\ phase = "down"
    /\ \E n \in QueueSizes : size' = n /\ tasks' = Blank(n)
    /\ front' = 0 /\ used' = 0 /\ stopping' = FALSE
    /\ phase' = "creating"
    /\ UNCHANGED <<hand, fd, order>>

CreateWorker(w) ==
    /\ phase = "creating" /\ hand[w] = "none"
    /\ hand' = [hand EXCEPT ![w] = "idle"]
    /\ phase' = IF \A v \in PoolWorkers \ {w} : hand[v] # "none" THEN "up" ELSE phase
    /\ UNCHANGED <<tasks, front, used, size, stopping, fd, order>>

\* A thread cannot be created: the others are told, without the mutex.
CreateFails ==
    /\ phase = "creating"
    /\ stopping' = TRUE /\ hand' = Woken
    /\ phase' = "failing"
    /\ UNCHANGED <<tasks, front, used, size, fd, order>>

CreateUnwound ==
    /\ phase = "failing" /\ AllGone
    /\ phase' = "down" /\ stopping' = FALSE
    /\ UNCHANGED <<tasks, front, used, size, hand, fd, order>>

\* Mutant: the new task goes where the queue used to end.
BackUnwrapped == front + used

Back == (front + used) % size

\* sm_threadpool_submit.
Submit(t) ==
    /\ phase \in {"up", "stopped", "forced"} /\ MutexFree /\ fd[t] = "caller" /\ used < size
    /\ tasks' = [tasks EXCEPT ![Back] = t]
    /\ used' = used + 1
    /\ fd' = [fd EXCEPT ![t] = "queued"]
    /\ order' = {<<s[1] + 1, s[2]>> : s \in order} \cup {<<1, t>>}
    /\ \/ \E w \in PoolWorkers : hand[w] = "waiting" /\ hand' = [hand EXCEPT ![w] = "idle"]
       \/ (\A w \in PoolWorkers : hand[w] # "waiting") /\ UNCHANGED hand
    /\ UNCHANGED <<front, size, stopping, phase>>

\* worker_thread: wait while there is nothing to do.
FindNothing(w) ==
    /\ hand[w] = "idle" /\ MutexFree /\ used = 0 /\ ~stopping
    /\ hand' = [hand EXCEPT ![w] = "checked"]
    /\ UNCHANGED <<tasks, front, used, size, stopping, phase, fd, order>>

Wait(w) ==
    /\ hand[w] = "checked"
    /\ hand' = [hand EXCEPT ![w] = "waiting"]
    /\ UNCHANGED <<tasks, front, used, size, stopping, phase, fd, order>>

Wake(w) ==
    /\ hand[w] = "waiting"
    /\ hand' = [hand EXCEPT ![w] = "idle"]
    /\ UNCHANGED <<tasks, front, used, size, stopping, phase, fd, order>>

\* worker_thread takes the oldest task.
Fetch(w) ==
    /\ hand[w] = "idle" /\ MutexFree /\ used > 0
    /\ hand' = [hand EXCEPT ![w] = tasks[front]]
    /\ fd' = [fd EXCEPT ![tasks[front]] = "worker"]
    /\ order' = {s \in order : s[2] # tasks[front]}
    /\ front' = (front + 1) % size /\ used' = used - 1
    /\ UNCHANGED <<tasks, size, stopping, phase>>

\* It runs the handler and closes the descriptor.
Finish(w) ==
    /\ hand[w] \in Tasks
    /\ fd' = [fd EXCEPT ![hand[w]] = "closed"]
    /\ hand' = [hand EXCEPT ![w] = "idle"]
    /\ UNCHANGED <<tasks, front, used, size, stopping, phase, order>>

Leave(w) ==
    /\ hand[w] = "idle" /\ MutexFree /\ stopping /\ used = 0
    /\ hand' = [hand EXCEPT ![w] = "none"]
    /\ UNCHANGED <<tasks, front, used, size, stopping, phase, fd, order>>

\* sm_threadpool_set_max_queue: the tasks are copied to the front of a new
\* array.
Resize(n) ==
    /\ phase = "up" /\ MutexFree /\ used =< n /\ n # size
    /\ tasks' = [i \in 0 .. n - 1 |-> IF i < used THEN tasks[(front + i) % size] ELSE NoTask]
    /\ size' = n /\ front' = 0
    /\ UNCHANGED <<used, stopping, phase, hand, fd, order>>

\* sm_threadpool_shutdown.  The pool still takes tasks afterwards, which
\* only a worker that is still there will see.
Shutdown ==
    /\ phase = "up" /\ MutexFree
    /\ phase' = "stopped" /\ stopping' = TRUE /\ hand' = Woken
    /\ UNCHANGED <<tasks, front, used, size, fd, order>>

\* sm_threadpool_force_shutdown: what is queued is forgotten, and when the
\* workers are gone so is the pool.
ForceShutdown ==
    /\ phase = "up" /\ MutexFree
    /\ phase' = "forced" /\ stopping' = TRUE /\ hand' = Woken
    /\ used' = 0 /\ order' = {}
    /\ fd' = [t \in Tasks |-> IF fd[t] = "queued" THEN "lost" ELSE fd[t]]
    /\ UNCHANGED <<tasks, front, size>>

ForceShutdownEnds ==
    /\ phase = "forced" /\ AllGone
    /\ phase' = "down" /\ stopping' = FALSE
    /\ used' = 0 /\ front' = 0 /\ order' = {}
    /\ fd' = [t \in Tasks |-> IF fd[t] = "queued" THEN "lost" ELSE fd[t]]
    /\ UNCHANGED <<tasks, size, hand>>

WpNext ==
    \/ InitPool \/ CreateFails \/ CreateUnwound \/ Shutdown \/ ForceShutdown \/ ForceShutdownEnds
    \/ \E t \in Tasks : Submit(t)
    \/ \E w \in PoolWorkers : CreateWorker(w) \/ FindNothing(w) \/ Wait(w) \/ Wake(w) \/ Fetch(w) \/ Finish(w) \/ Leave(w)
    \/ \E n \in QueueSizes : Resize(n)

-----------------------------------------------------------------------------
Queued == {tasks[(front + i) % size] : i \in 0 .. used - 1}

WpTypeOK ==
    /\ DOMAIN tasks = 0 .. size - 1 /\ front \in 0 .. size - 1 /\ used \in 0 .. size
    /\ \A w \in PoolWorkers : hand[w] \in Tasks \cup {"none", "idle", "checked", "waiting"}

\* A descriptor is in one place: the queue holds exactly those submitted and
\* not yet taken, oldest first, through wrap-around and resizing, and a
\* worker those it has taken and not yet closed.
EachTaskOnce ==
    /\ \A i \in 0 .. used - 1 : <<used - i, tasks[(front + i) % size]>> \in order
    /\ Queued = {t \in Tasks : fd[t] = "queued"} /\ Cardinality(Queued) = used
    /\ {t \in Tasks : fd[t] = "worker"} = {hand[w] : w \in {v \in PoolWorkers : hand[v] \in Tasks}}
    /\ \A v, w \in PoolWorkers : hand[v] = hand[w] /\ hand[v] \in Tasks => v = w

\* No worker sleeps through a task or through the end of the pool: with
\* tasks queued and workers waiting, as many are awake as there are tasks.
\* (A start that fails gives its notice without the mutex, and a worker may
\* miss that one.)
NobodySleeps ==
    /\ phase \in {"stopped", "forced"} => \A w \in PoolWorkers : hand[w] # "waiting"
    /\ (\E w \in PoolWorkers : hand[w] = "waiting") =>
          Cardinality({w \in PoolWorkers : hand[w] = "idle"}) >= used

\* The thread pool is correct.
WpSafe == WpTypeOK /\ EachTaskOnce /\ NobodySleeps

-----------------------------------------------------------------------------
(***************************************************************************)
(* infrastructure/sm_connection_pool.c: idle connections to the manager    *)
(* that threads borrow and give back.  The two counters are kept by hand;  *)
(* a connection is opened after the mutex was released.                    *)
(***************************************************************************)
CONSTANTS Borrowers, Conns,
          MaxSlots       \* the argument of sm_connpool_init

ASSUME ConnAssumption ==
    MaxSlots \in Nat /\ IsFiniteSet(Borrowers) /\ Conns \cap {"none", "creating"} = {}

VARIABLES slots,         \* fd of each slot
          available, in_use,
          pooled,        \* initialized
          conn,          \* state of each descriptor: closed, open or dead (the peer is gone, or idle too long)
          held           \* what each borrower has

connVars == <<slots, available, in_use, pooled, conn, held>>

NoConn == "none"

ConnInit ==
    /\ slots = [i \in 1 .. MaxSlots |-> NoConn]
    /\ available = 0 /\ in_use = 0 /\ pooled = FALSE
    /\ conn = [c \in Conns |-> "closed"]
    /\ held = [b \in Borrowers |-> NoConn]

\* sm_connpool_init.
InitConns ==
    /\ ~pooled
    /\ pooled' = TRUE /\ available' = 0 /\ in_use' = 0
    /\ slots' = [i \in 1 .. MaxSlots |-> NoConn]
    /\ UNCHANGED <<conn, held>>

Filled == {i \in 1 .. MaxSlots : slots[i] # NoConn}

\* connection_is_alive.
Alive(i) == conn[slots[i]] = "open"

\* The slots sm_connpool_get empties on its way to the first live one.
StaleBefore(i) == {j \in Filled : j < i}
FirstAlive     == {i \in Filled : Alive(i) /\ \A j \in StaleBefore(i) : ~Alive(j)}

Discarded(dead) == [c \in Conns |-> IF \E i \in dead : slots[i] = c THEN "closed" ELSE conn[c]]

\* Mutant: the slot keeps the connection it has lent.
GetPooledShared(b) ==
    /\ pooled /\ held[b] = NoConn
    /\ \E i \in FirstAlive :
         /\ held' = [held EXCEPT ![b] = slots[i]]
         /\ slots' = [j \in DOMAIN slots |-> IF j \in StaleBefore(i) THEN NoConn ELSE slots[j]]
         /\ conn' = Discarded(StaleBefore(i))
         /\ available' = available - Cardinality(StaleBefore(i)) - 1
    /\ in_use' = in_use + 1
    /\ UNCHANGED pooled

\* sm_connpool_get finds a live connection.
GetPooled(b) ==
    /\ pooled /\ held[b] = NoConn
    /\ \E i \in FirstAlive :
         /\ held' = [held EXCEPT ![b] = slots[i]]
         /\ slots' = [j \in DOMAIN slots |-> IF j \in StaleBefore(i) \cup {i} THEN NoConn ELSE slots[j]]
         /\ conn' = Discarded(StaleBefore(i))
         /\ available' = available - Cardinality(StaleBefore(i)) - 1
    /\ in_use' = in_use + 1
    /\ UNCHANGED pooled

\* It finds none, counts one and releases the mutex.
GetNone(b) ==
    /\ pooled /\ held[b] = NoConn /\ FirstAlive = {}
    /\ slots' = [i \in DOMAIN slots |-> NoConn]
    /\ conn' = Discarded(Filled)
    /\ available' = available - Cardinality(Filled)
    /\ in_use' = in_use + 1
    /\ held' = [held EXCEPT ![b] = "creating"]
    /\ UNCHANGED pooled

\* create_connection; in_use is taken back when it fails.
Created(b, c) ==
    /\ held[b] = "creating" /\ conn[c] = "closed"
    /\ conn' = [conn EXCEPT ![c] = "open"]
    /\ held' = [held EXCEPT ![b] = c]
    /\ UNCHANGED <<slots, available, in_use, pooled>>

CreateFailed(b) ==
    /\ held[b] = "creating"
    /\ in_use' = in_use - 1
    /\ held' = [held EXCEPT ![b] = NoConn]
    /\ UNCHANGED <<slots, available, pooled, conn>>

\* sm_connpool_put: into the first empty slot; a full pool closes it.
Put(b) ==
    /\ pooled /\ held[b] \in Conns
    /\ \/ \E i \in DOMAIN slots \ Filled :
            /\ \A j \in DOMAIN slots \ Filled : i =< j
            /\ slots' = [slots EXCEPT ![i] = held[b]]
            /\ available' = available + 1
            /\ UNCHANGED conn
       \/ /\ Filled = DOMAIN slots
          /\ conn' = [conn EXCEPT ![held[b]] = "closed"]
          /\ UNCHANGED <<slots, available>>
    /\ in_use' = in_use - 1
    /\ held' = [held EXCEPT ![b] = NoConn]
    /\ UNCHANGED pooled

\* sm_connpool_cleanup; sm_run calls it when nobody borrows any more.
CleanupConns ==
    /\ pooled /\ \A b \in Borrowers : held[b] = NoConn
    /\ conn' = Discarded(Filled)
    /\ slots' = [i \in DOMAIN slots |-> NoConn]
    /\ pooled' = FALSE
    /\ UNCHANGED <<available, in_use, held>>

\* The peer closes a connection, or it has been idle for too long.
GoesStale(c) ==
    /\ conn[c] = "open"
    /\ conn' = [conn EXCEPT ![c] = "dead"]
    /\ UNCHANGED <<slots, available, in_use, pooled, held>>

ConnNext ==
    \/ InitConns \/ CleanupConns
    \/ \E b \in Borrowers : GetPooled(b) \/ GetNone(b) \/ CreateFailed(b) \/ Put(b) \/ \E c \in Conns : Created(b, c)
    \/ \E c \in Conns : GoesStale(c)

-----------------------------------------------------------------------------
ConnTypeOK ==
    /\ \A i \in DOMAIN slots : slots[i] \in Conns \cup {NoConn}
    /\ \A b \in Borrowers : held[b] \in Conns \cup {NoConn, "creating"}

\* A descriptor that is not closed is in exactly one place, a slot or one
\* borrower's hands, and one that is closed is nowhere: no thread is given
\* another's connection, and none is forgotten.
OneHolder ==
    \A c \in Conns :
        Cardinality({i \in DOMAIN slots : slots[i] = c}) + Cardinality({b \in Borrowers : held[b] = c})
            = IF conn[c] = "closed" THEN 0 ELSE 1

\* The counters that sm_connpool_stats reports are exact.
CountsAgree ==
    pooled => /\ available = Cardinality(Filled)
              /\ in_use = Cardinality({b \in Borrowers : held[b] # NoConn})

\* The connection pool is correct.
ConnSafe == ConnTypeOK /\ OneHolder /\ CountsAgree
=============================================================================

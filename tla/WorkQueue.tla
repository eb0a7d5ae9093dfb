----------------------------- MODULE WorkQueue ------------------------------
(***************************************************************************)
(* dev/core/service_manager/lifecycle/sm_main.c: the queue of accepted     *)
(* connections and the worker threads that serve them.                     *)
(*                                                                         *)
(* What happens under the queue's mutex is one step.  A worker that waits  *)
(* on the condition variable gives up the mutex in that same step; it is   *)
(* woken by a signal, a broadcast, or for no reason, and then looks at the *)
(* queue again.  The ring of descriptors is the sequence of those between  *)
(* head and tail, oldest first.                                            *)
(***************************************************************************)
EXTENDS Naturals, Sequences

CONSTANTS Conns,     \* the client sockets
          Workers,   \* the worker threads
          QueueSize, \* q->capacity
          NoFd       \* no connection

ASSUME QueueAssumption == QueueSize \in Nat \ {0} /\ NoFd \notin Conns /\ Workers # {}

VARIABLES fds,      \* work_queue.fds, from head to tail
          shutdown, \* work_queue.shutdown
          wpc,      \* where each worker is
          serving,  \* the connection a busy worker has popped
          conn      \* how far each connection has come

queueVars == <<fds, shutdown>>
wqVars    == <<fds, shutdown, wpc, serving, conn>>

WorkerPc   == {"none", "ready", "wait", "busy", "gone"}
ConnState  == {"none", "pending", "queued", "busy"}

\* wq_init.
EmptyQueue ==
    /\ fds      = <<>>
    /\ shutdown = FALSE

WqInit ==
    /\ EmptyQueue
    /\ wpc     = [w \in Workers |-> "none"]
    /\ serving = [w \in Workers |-> NoFd]
    /\ conn    = [c \in Conns |-> "none"]

Becomes(c, s) == conn' = [conn EXCEPT ![c] = s]

\* pthread_cond_signal: one of the waiting workers, if there is any.
SignalOne ==
    IF \E w \in Workers : wpc[w] = "wait"
      THEN \E w \in Workers : wpc[w] = "wait" /\ wpc' = [wpc EXCEPT ![w] = "ready"]
      ELSE UNCHANGED wpc

\* Mutant: the condition is not signalled.
PushSilently(c) ==
    /\ Len(fds) < QueueSize
    /\ fds' = Append(fds, c)
    /\ Becomes(c, "queued")
    /\ UNCHANGED <<shutdown, wpc, serving>>

\* Mutant: a full queue takes one more.
PushUnbounded(c) ==
    /\ fds' = Append(fds, c)
    /\ SignalOne
    /\ Becomes(c, "queued")
    /\ UNCHANGED <<shutdown, serving>>

\* wq_push of a connection that was just accepted.
Push(c) ==
    /\ Len(fds) < QueueSize
    /\ fds' = Append(fds, c)
    /\ SignalOne
    /\ Becomes(c, "queued")
    /\ UNCHANGED <<shutdown, serving>>

\* The queue is full: the main loop closes the connection.
Drop(c) ==
    /\ Len(fds) >= QueueSize
    /\ Becomes(c, "none")
    /\ UNCHANGED <<queueVars, wpc, serving>>

(***************************************************************************)
(* worker_thread: wq_pop, serve, close, and again.                         *)
(***************************************************************************)
PopWait(w) ==
    /\ wpc[w] = "ready"
    /\ fds = <<>> /\ ~shutdown
    /\ wpc' = [wpc EXCEPT ![w] = "wait"]
    /\ UNCHANGED <<queueVars, serving, conn>>

\* Mutant: shutdown is looked at before the queue is.
PopStopEarly(w) ==
    /\ wpc[w] = "ready"
    /\ shutdown
    /\ wpc' = [wpc EXCEPT ![w] = "gone"]
    /\ UNCHANGED <<queueVars, serving, conn>>

PopStop(w) ==
    /\ wpc[w] = "ready"
    /\ fds = <<>> /\ shutdown
    /\ wpc' = [wpc EXCEPT ![w] = "gone"]
    /\ UNCHANGED <<queueVars, serving, conn>>

\* Mutant: the head is not moved past the connection taken.
PopAgain(w) ==
    /\ wpc[w] = "ready"
    /\ fds # <<>>
    /\ serving' = [serving EXCEPT ![w] = Head(fds)]
    /\ wpc'     = [wpc EXCEPT ![w] = "busy"]
    /\ Becomes(Head(fds), "busy")
    /\ UNCHANGED queueVars

Pop(w) ==
    /\ wpc[w] = "ready"
    /\ fds # <<>>
    /\ fds'     = Tail(fds)
    /\ serving' = [serving EXCEPT ![w] = Head(fds)]
    /\ wpc'     = [wpc EXCEPT ![w] = "busy"]
    /\ Becomes(Head(fds), "busy")
    /\ UNCHANGED shutdown

\* sm_handle_client has returned; close(fd).
Close(w) ==
    /\ wpc[w] = "busy"
    /\ Becomes(serving[w], "none")
    /\ serving' = [serving EXCEPT ![w] = NoFd]
    /\ wpc'     = [wpc EXCEPT ![w] = "ready"]
    /\ UNCHANGED queueVars

SpuriousWakeup(w) ==
    /\ wpc[w] = "wait"
    /\ wpc' = [wpc EXCEPT ![w] = "ready"]
    /\ UNCHANGED <<queueVars, serving, conn>>

\* wq_shutdown, with its broadcast.
StopWorkers ==
    /\ shutdown' = TRUE
    /\ wpc' = [w \in Workers |-> IF wpc[w] = "wait" THEN "ready" ELSE wpc[w]]
    /\ UNCHANGED <<fds, serving, conn>>

\* The threads in ws have been created, the others have not.
Created(ws) == wpc' = [w \in Workers |-> IF w \in ws THEN "ready" ELSE "none"]

AllJoined == \A w \in Workers : wpc[w] \in {"none", "gone"}

-----------------------------------------------------------------------------
\* Every variable has its type, and the queue keeps to its capacity.
WqTypeOK ==
    /\ fds      \in Seq(Conns) /\ Len(fds) =< QueueSize
    /\ shutdown \in BOOLEAN
    /\ wpc      \in [Workers -> WorkerPc]
    /\ serving  \in [Workers -> Conns \cup {NoFd}]
    /\ conn     \in [Conns -> ConnState]

\* The queue holds exactly the connections that were accepted
\* and not yet taken, each once, and every taken one has exactly one worker:
\* no connection is served twice, closed while it is queued, or forgotten.
EachConnOnce ==
    /\ \A c \in Conns :
         /\ (conn[c] = "queued") <=> (\E k \in 1 .. Len(fds) : fds[k] = c)
         /\ (conn[c] = "busy")   <=> (\E w \in Workers : serving[w] = c)
    /\ \A j, k \in 1 .. Len(fds) : fds[j] = fds[k] => j = k
    /\ \A v, w \in Workers : serving[v] = serving[w] /\ serving[v] # NoFd => v = w

\* No wake-up is lost: while a connection is queued some worker is awake to
\* take it, although wq_push signals one worker only and another may get
\* there first.
NoLostWakeup ==
    fds # <<>> => \E w \in Workers : wpc[w] \in {"ready", "busy"}
=============================================================================

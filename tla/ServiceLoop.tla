---------------------------- MODULE ServiceLoop ----------------------------
(***************************************************************************)
(* The event loop of a device service: dev/core/io_uring_loop.c as driven  *)
(* by audio_, sensor_, camera_ and gpio_service_loop.c, which all have the *)
(* shape modelled here.                                                    *)
(*                                                                         *)
(* The process is one thread plus its signal handlers; the kernel completes*)
(* requests on its own.  A request is prepared in the submission queue,    *)
(* travels to the kernel with the next successful io_uring_submit, and     *)
(* comes back in the completion queue.  Requests survive the end of the    *)
(* io_loop_run that made them.  A request is known by the kind of its      *)
(* operation: the op table is rebuilt in the same order for every run, so  *)
(* an index always means the same kind.                                    *)
(*                                                                         *)
(* Left out: the failure of malloc, and operations no service uses         *)
(* (IO_OP_READ, io_loop_submit_write, io_loop_unregister_fd,               *)
(* io_loop_wakeup), so the wakeup request never completes.                 *)
(***************************************************************************)
EXTENDS Naturals, SequencesExt

CONSTANTS QueueDepth,  \* entries of the submission queue
          MaxOps,      \* MAX_OPS, entries of the op table
          MaxFailures  \* bound on failing system calls of io_uring

ASSUME DepthAssumption == QueueDepth \in Nat \ {0} /\ MaxOps \in Nat \ {0}

VARIABLES hal,           \* dev && dev->fd >= 0: there is a device to poll
          g_running, g_reload,  \* the flags of the signal handlers
          loop_running,  \* lctx.loop_running, the stop_flag of io_loop_run
          pc,            \* where the thread is
          ops,           \* the op table
          queued,        \* per kind, requests prepared and not submitted
          armed,         \* per kind, requests the kernel holds
          completed,     \* the completion queue
          cur,           \* the completion being processed
          data,          \* the device has something to read
          stale,         \* the configuration file changed since it was read
          hb,            \* flips with every heartbeat sent
          halErr,        \* a poll of the device came back with an error
          failures       \* failing system calls so far

flags    == <<g_running, g_reload>>
requests == <<queued, armed, completed>>
vars     == <<hal, flags, loop_running, pc, ops, requests, cur, data, stale,
              hb, halErr, failures>>

Kinds == {"poll", "timeout", "wakeup"}
Steps == {"top", "submit", "wait", "callback", "clear_flag", "beat", "rearm",
          "clear", "done"}

-----------------------------------------------------------------------------
(***************************************************************************)
(* The op table and the queues.                                            *)
(***************************************************************************)

\* io_loop_register_op: only the timeout's fd is negative, so only its slot
\* is ever taken over by a new operation of its kind.
Register(table, kind) ==
    IF \/ kind = "timeout" /\ Contains(table, kind)
       \/ Len(table) = MaxOps
      THEN table
      ELSE Append(table, kind)

Total(counts) == counts["poll"] + counts["timeout"] + counts["wakeup"]

\* submit_poll_op, submit_timeout_op, submit_wakeup_read: io_uring_get_sqe
\* finds no entry in a full queue, which the callers ignore.
Prepare(q, kind) ==
    IF Total(q) < QueueDepth THEN [q EXCEPT ![kind] = @ + 1] ELSE q

None == [k \in Kinds |-> 0]

\* io_uring_submit: everything prepared so far goes to the kernel.
Submitted(q) ==
    /\ armed'  = [k \in Kinds |-> armed[k] + q[k]]
    /\ queued' = None
    /\ UNCHANGED failures

SubmitFailed(q) ==
    /\ failures < MaxFailures
    /\ failures' = failures + 1
    /\ queued' = q
    /\ UNCHANGED armed

\* The head of the dispatch loop tests the stop_flag.
LoopHead == IF loop_running THEN "wait" ELSE "clear"

-----------------------------------------------------------------------------
(***************************************************************************)
(* The outer loop of *_service_loop_run.                                   *)
(***************************************************************************)

Enter ==
    /\ pc = "top"
    /\ g_running
    /\ loop_running' = TRUE
    /\ ops' = Register(IF hal THEN Register(ops, "poll") ELSE ops, "timeout")
    /\ pc' = "submit"
    /\ UNCHANGED <<hal, flags, requests, cur, data, stale, hb, halErr, failures>>

\* io_loop_destroy releases what has completed; requests the kernel still
\* holds go with the ring.
Leave ==
    /\ pc = "top"
    /\ ~g_running
    /\ completed' = <<>>
    /\ pc' = "done"
    /\ UNCHANGED <<hal, flags, loop_running, ops, queued, armed, cur, data,
                   stale, hb, halErr, failures>>

\* Mutant: the op table is kept for the next run.
ClearOpsForgotten ==
    /\ pc = "clear"
    /\ pc' = "top"
    /\ UNCHANGED <<hal, flags, loop_running, ops, requests, cur, data, stale,
                   hb, halErr, failures>>

ClearOps ==
    /\ pc = "clear"
    /\ ops' = <<>>
    /\ pc' = "top"
    /\ UNCHANGED <<hal, flags, loop_running, requests, cur, data, stale, hb,
                   halErr, failures>>

(***************************************************************************)
(* io_loop_run.                                                            *)
(***************************************************************************)
InitialSubmit ==
    /\ pc = "submit"
    /\ LET q == FoldLeft(Prepare, queued, Append(ops, "wakeup"))
       IN  \/ Submitted(q) /\ pc' = LoopHead
           \/ SubmitFailed(q) /\ pc' = "clear"
    /\ UNCHANGED <<hal, flags, loop_running, ops, completed, cur, data, stale,
                   hb, halErr>>

\* io_uring_wait_cqe or, for the rest of a batch, io_uring_peek_cqe; an
\* interruption by a signal goes round the loop and changes nothing.
TakeCompletion ==
    /\ pc = "wait"
    /\ completed # <<>>
    /\ cur' = Head(completed)
    /\ completed' = Tail(completed)
    /\ pc' = "callback"
    /\ UNCHANGED <<hal, flags, loop_running, ops, queued, armed, data, stale,
                   hb, halErr, failures>>

WaitFails ==
    /\ pc = "wait"
    /\ failures < MaxFailures
    /\ failures' = failures + 1
    /\ pc' = "clear"
    /\ UNCHANGED <<hal, flags, loop_running, ops, requests, cur, data, stale,
                   hb, halErr>>

\* Mutant: a timeout is taken to repeat by itself.
RearmPollOnly ==
    /\ pc = "rearm"
    /\ LET q == IF cur.kind = "poll" THEN Prepare(queued, cur.kind) ELSE queued
       IN  Submitted(q) \/ SubmitFailed(q)
    /\ pc' = LoopHead
    /\ UNCHANGED <<hal, flags, loop_running, ops, completed, cur, data, stale,
                   hb, halErr>>

\* The end of process_cqe, after a callback that returned 0.
Rearm ==
    /\ pc = "rearm"
    /\ IF loop_running
         THEN LET q == Prepare(queued, cur.kind) IN Submitted(q) \/ SubmitFailed(q)
         ELSE UNCHANGED <<queued, armed, failures>>
    /\ pc' = LoopHead
    /\ UNCHANGED <<hal, flags, loop_running, ops, completed, cur, data, stale,
                   hb, halErr>>

(***************************************************************************)
(* on_health_timeout.                                                      *)
(***************************************************************************)

\* apply_config_reload: a file that cannot be read leaves the settings.
ApplyReload ==
    /\ pc = "callback"
    /\ cur.kind = "timeout"
    /\ g_reload
    /\ stale' \in {stale, FALSE}
    /\ pc' = "clear_flag"
    /\ UNCHANGED <<hal, flags, loop_running, ops, requests, cur, data, hb,
                   halErr, failures>>

ClearReloadFlag ==
    /\ pc = "clear_flag"
    /\ g_reload' = FALSE
    /\ pc' = "beat"
    /\ UNCHANGED <<hal, g_running, loop_running, ops, requests, cur, data,
                   stale, hb, halErr, failures>>

\* Mutant: a heartbeat is sent only after a reload.
NoReloadNoBeat ==
    /\ pc = "callback"
    /\ cur.kind = "timeout"
    /\ ~g_reload
    /\ pc' = "rearm"
    /\ UNCHANGED <<hal, flags, loop_running, ops, requests, cur, data, stale,
                   hb, halErr, failures>>

NoReload ==
    /\ pc = "callback"
    /\ cur.kind = "timeout"
    /\ ~g_reload
    /\ pc' = "beat"
    /\ UNCHANGED <<hal, flags, loop_running, ops, requests, cur, data, stale,
                   hb, halErr, failures>>

\* The answer of the manager is only logged.
Heartbeat ==
    /\ pc = "beat"
    /\ hb' = ~hb
    /\ pc' = "rearm"
    /\ UNCHANGED <<hal, flags, loop_running, ops, requests, cur, data, stale,
                   halErr, failures>>

(***************************************************************************)
(* on_hal_data.  What is done with the data is left to AudioRing.          *)
(***************************************************************************)
HalRead ==
    /\ pc = "callback"
    /\ cur = [kind |-> "poll", ok |-> TRUE]
    /\ data
    /\ data' = FALSE
    /\ pc' = "rearm"
    /\ UNCHANGED <<hal, flags, loop_running, ops, requests, cur, stale, hb,
                   halErr, failures>>

\* Mutant: a failed read gives the poll up.
HalReadGivesUp ==
    /\ pc = "callback"
    /\ cur = [kind |-> "poll", ok |-> TRUE]
    /\ pc' = LoopHead
    /\ UNCHANGED <<hal, flags, loop_running, ops, requests, cur, data, stale,
                   hb, halErr, failures>>

\* An error of the device, or nothing there for a second poll of the same
\* data, also returns 0.
HalReadFails ==
    /\ pc = "callback"
    /\ cur = [kind |-> "poll", ok |-> TRUE]
    /\ pc' = "rearm"
    /\ UNCHANGED <<hal, flags, loop_running, ops, requests, cur, data, stale,
                   hb, halErr, failures>>

\* A negative result makes the callback return -1: no new poll.
HalGone ==
    /\ pc = "callback"
    /\ cur = [kind |-> "poll", ok |-> FALSE]
    /\ pc' = LoopHead
    /\ UNCHANGED <<hal, flags, loop_running, ops, requests, cur, data, stale,
                   hb, halErr, failures>>

-----------------------------------------------------------------------------
(***************************************************************************)
(* The kernel, the device and the signals.                                 *)
(***************************************************************************)
Complete(kind, ok) ==
    /\ armed[kind] > 0
    /\ armed' = [armed EXCEPT ![kind] = @ - 1]
    /\ completed' = Append(completed, [kind |-> kind, ok |-> ok])
    /\ UNCHANGED <<hal, flags, loop_running, pc, ops, queued, cur, data, stale,
                   hb, failures>>

TimerFires == pc # "done" /\ Complete("timeout", TRUE) /\ UNCHANGED halErr

PollFires == pc # "done" /\ data /\ Complete("poll", TRUE) /\ UNCHANGED halErr

PollBreaks ==
    /\ pc # "done"
    /\ ~halErr
    /\ halErr' = TRUE
    /\ Complete("poll", FALSE)

DataArrives ==
    /\ hal
    /\ pc # "done"
    /\ data' = TRUE
    /\ UNCHANGED <<hal, flags, loop_running, pc, ops, requests, cur, stale, hb,
                   halErr, failures>>

Sigterm ==
    /\ g_running' = FALSE
    /\ UNCHANGED <<hal, g_reload, loop_running, pc, ops, requests, cur, data,
                   stale, hb, halErr, failures>>

Sighup ==
    /\ pc # "done"
    /\ g_reload' = TRUE
    /\ stale' = TRUE
    /\ UNCHANGED <<hal, g_running, loop_running, pc, ops, requests, cur, data,
                   hb, halErr, failures>>

-----------------------------------------------------------------------------
\* io_loop_create: an empty op table and ring.
Init ==
    /\ hal \in BOOLEAN
    /\ g_running = TRUE
    /\ g_reload = FALSE
    /\ loop_running = FALSE
    /\ pc = "top"
    /\ ops = <<>>
    /\ queued = None
    /\ armed = None
    /\ completed = <<>>
    /\ cur = [kind |-> "wakeup", ok |-> TRUE]
    /\ data = FALSE
    /\ stale = FALSE
    /\ hb = FALSE
    /\ halErr = FALSE
    /\ failures = 0

Thread ==
    \/ Enter \/ Leave \/ ClearOps
    \/ InitialSubmit \/ TakeCompletion \/ Rearm
    \/ ApplyReload \/ ClearReloadFlag \/ NoReload \/ Heartbeat
    \/ HalRead \/ HalReadFails \/ HalGone

Next ==
    \/ Thread \/ WaitFails
    \/ TimerFires \/ PollFires \/ PollBreaks
    \/ DataArrives \/ Sigterm \/ Sighup

Spec == Init /\ [][Next]_vars

\* The thread runs, a timer that was set fires, a poll of a readable device
\* completes, and a readable device can be read after finitely many tries.
FairSpec ==
    /\ Spec
    /\ WF_vars(Thread)
    /\ WF_vars(TimerFires)
    /\ WF_vars(PollFires)
    /\ SF_vars(HalRead)

-----------------------------------------------------------------------------
(***************************************************************************)
(* Properties.                                                             *)
(***************************************************************************)

\* Requests of a kind that have been made and not been answered.
Pending(kind) ==
    queued[kind] + armed[kind]
      + Len(SelectSeq(completed, LAMBDA c : c.kind = kind /\ c.ok))

Runs == failures + 1

\* Every variable has its type.
TypeOK ==
    /\ {hal, g_running, g_reload, loop_running, data, stale, hb, halErr} \subseteq BOOLEAN
    /\ pc \in Steps
    /\ ops \in {<<>>, <<"timeout">>, <<"poll", "timeout">>}
    /\ queued \in [Kinds -> 0 .. QueueDepth]
    /\ armed \in [Kinds -> 0 .. QueueDepth * (MaxFailures + 1)]
    /\ \A i \in DOMAIN completed : completed[i].kind \in Kinds
    /\ cur.kind \in Kinds
    /\ failures \in 0 .. MaxFailures

\* However io_loop_run failed and was entered again, and whatever a callback
\* met, a thread that waits has a timeout request and a poll of its device
\* outstanding (unless that poll failed), and no more of them than the number
\* of times the loop was entered: requests are never lost, and are only
\* multiplied by the runs that ended early and left theirs in the ring.
StaysArmed ==
    /\ pc = "wait" =>
         /\ Pending("timeout") \in 1 .. Runs
         /\ hal /\ ~halErr => Pending("poll") \in 1 .. Runs
    /\ ~hal => Pending("poll") = 0

\* The loop at any moment: its variables have their types and a thread that
\* waits has its requests outstanding.
LoopSafe == TypeOK /\ StaysArmed

\* A timer that has been set leads to a heartbeat, across failed and repeated
\* runs of the loop, as long as the loop is not left: on_health_timeout is the
\* only sender of heartbeats, so a service that stopped here would be taken
\* for dead by the manager.
KeepsBeating ==
    \A b \in BOOLEAN :
       armed["timeout"] > 0 /\ hb = b ~> hb # b \/ pc = "done"

\* Data on a device that is being polled is read, also when the poll is
\* spurious, when reads fail for a while, and across runs of the loop, unless
\* the submission of a new poll fails and leaves it behind in the queue.
HalDrained ==
    armed["poll"] > 0 /\ data ~> ~data \/ halErr \/ queued["poll"] > 0 \/ pc = "done"

\* The header of the loop: it returns when g_running is 0.
TermStops == ~g_running ~> pc = "done"
=============================================================================

----------------------------- MODULE SmControl ------------------------------
(***************************************************************************)
(* The two ways to act on the services of a manager that runs: rolling     *)
(* restarts and the management interface, each with a thread of its own.   *)
(* They share no state.                                                    *)
(***************************************************************************)
EXTENDS Integers, Sequences, FiniteSets

-----------------------------------------------------------------------------
(***************************************************************************)
(* enterprise/sm_rolling_restart.c: a background thread restarts a list of *)
(* services one by one.  It works without the lock while it restarts one,  *)
(* so that callers can cancel the list, and start another, meanwhile.      *)
(* restart_single_service always succeeds; its branch for a failure is     *)
(* left out, as it cannot be taken.                                        *)
(***************************************************************************)

CONSTANTS MaxListed,    \* MAX_ROLLING_SERVICES
          MaxStarts     \* bound on the lists

ASSUME RrAssumption == MaxListed \in Nat

VARIABLES rr,           \* g_rolling_restart: services, current_idx, is_active,
                        \* thread_running, and g_rolling_restart_initialized
          thread,       \* the thread: where it is, and the entry it restarts
          cleaning,     \* sm_rolling_restart_cleanup is waiting for the thread
          restarts,     \* history: the entries of this list that were restarted
          overlap,      \* history: a list began while an entry of an older one was restarted
          lists         \* history: number of lists

rrVars == <<rr, thread, cleaning, restarts, overlap, lists>>

RrZero == [services |-> << >>, current_idx |-> 1, is_active |-> FALSE,
           thread_running |-> FALSE, initialized |-> FALSE]
NoThread == [at |-> "none", entry |-> 0]

RrInit ==
    /\ rr = RrZero /\ thread = NoThread /\ cleaning = FALSE
    /\ restarts = {} /\ overlap = FALSE /\ lists = 0

\* sm_rolling_restart_init.
InitRestarts ==
    /\ ~rr.initialized
    /\ rr' = [RrZero EXCEPT !.thread_running = TRUE, !.initialized = TRUE]
    /\ thread' = [NoThread EXCEPT !.at = "looking"]
    /\ restarts' = {} /\ overlap' = FALSE
    /\ UNCHANGED <<cleaning, lists>>

\* sm_rolling_restart_start: refused while a list is active.
StartList(count) ==
    /\ rr.initialized /\ ~rr.is_active /\ lists < MaxStarts
    /\ rr' = [rr EXCEPT !.services = [i \in 1 .. count |-> "PENDING"], !.current_idx = 1, !.is_active = TRUE]
    /\ restarts' = {} /\ lists' = lists + 1
    /\ overlap' = (overlap \/ thread.at = "restarting")
    /\ UNCHANGED <<thread, cleaning>>

\* Mutant: the entries that have not been restarted stay as they are.
CancelledOnlyStops ==
    [rr EXCEPT !.is_active = FALSE]

Cancelled ==
    [rr EXCEPT !.is_active = FALSE,
               !.services = [i \in DOMAIN rr.services |->
                                IF rr.services[i] = "PENDING" THEN "SKIPPED" ELSE rr.services[i]]]

\* sm_rolling_restart_cancel.
CancelList ==
    /\ rr.initialized /\ rr' = Cancelled
    /\ UNCHANGED <<thread, cleaning, restarts, overlap, lists>>

PendingFrom == {i \in DOMAIN rr.services : i >= rr.current_idx /\ rr.services[i] = "PENDING"}

\* rolling_restart_thread_main up to restart_single_service.
BeginEntry ==
    /\ thread.at = "looking" /\ rr.thread_running /\ rr.is_active /\ PendingFrom # {}
    /\ LET i == CHOOSE i \in PendingFrom : \A j \in PendingFrom : i =< j
       IN  /\ rr' = [rr EXCEPT !.services[i] = "IN_PROGRESS"]
           /\ thread' = [at |-> "restarting", entry |-> i]
           /\ restarts' = restarts \cup {i}
    /\ UNCHANGED <<cleaning, overlap, lists>>

\* The end of a list is the end of the thread.
EndList ==
    /\ thread.at = "looking" /\ rr.thread_running /\ rr.is_active /\ PendingFrom = {}
    /\ rr' = [rr EXCEPT !.is_active = FALSE]
    /\ thread' = [thread EXCEPT !.at = "exited"]
    /\ UNCHANGED <<cleaning, restarts, overlap, lists>>

\* After restart_single_service.  The entry is an address: it is written
\* also when the array holds another list by now, or a shorter one.
EndEntry ==
    /\ thread.at = "restarting"
    /\ rr' = [rr EXCEPT !.services = [i \in DOMAIN rr.services |->
                                         IF i = thread.entry THEN "SUCCESS" ELSE rr.services[i]],
                        !.current_idx = thread.entry + 1]
    /\ thread' = [at |-> "looking", entry |-> 0]
    /\ UNCHANGED <<cleaning, restarts, overlap, lists>>

\* The thread sees thread_running cleared.
LeaveRestarts ==
    /\ thread.at = "looking" /\ ~rr.thread_running
    /\ thread' = [thread EXCEPT !.at = "exited"]
    /\ UNCHANGED <<rr, cleaning, restarts, overlap, lists>>

\* sm_rolling_restart_cleanup, up to pthread_join.
CleanupBegin ==
    /\ rr.initialized /\ ~cleaning
    /\ rr' = [Cancelled EXCEPT !.thread_running = FALSE]
    /\ cleaning' = TRUE
    /\ UNCHANGED <<thread, restarts, overlap, lists>>

CleanupEnd ==
    /\ cleaning /\ thread.at = "exited"
    /\ rr' = RrZero /\ thread' = NoThread /\ cleaning' = FALSE
    /\ restarts' = {} /\ overlap' = FALSE
    /\ UNCHANGED lists

RrNext ==
    \/ InitRestarts \/ CancelList \/ CleanupBegin \/ CleanupEnd
    \/ \E count \in 1 .. MaxListed : StartList(count)
    \/ BeginEntry \/ EndEntry \/ EndList \/ LeaveRestarts

-----------------------------------------------------------------------------
In(state) == {i \in DOMAIN rr.services : rr.services[i] = state}

RrTypeOK ==
    /\ \A i \in DOMAIN rr.services : rr.services[i] \in {"PENDING", "IN_PROGRESS", "SUCCESS", "SKIPPED"}
    /\ rr.current_idx \in 1 .. MaxListed + 1 /\ Len(rr.services) =< MaxListed

\* What sm_rolling_restart_get_progress reports is true, unless a list was
\* started while an entry of the one before was still being restarted: the
\* successes are the entries that were restarted, one at a time and in
\* order, and a list that is not active has nothing left to do.
ProgressIsTrue ==
    ~overlap => /\ restarts = In("SUCCESS") \cup In("IN_PROGRESS")
                /\ In("IN_PROGRESS") = IF thread.at = "restarting" THEN {thread.entry} ELSE {}
                /\ \A i \in In("PENDING") : i >= rr.current_idx
                /\ ~rr.is_active => In("PENDING") = {}

\* The rolling restart is correct.
RestartSafe == RrTypeOK /\ ProgressIsTrue

-----------------------------------------------------------------------------
(***************************************************************************)
(* lifecycle/sm_management.c: the HTTP interface of the service manager,   *)
(* served by one detached thread.  sm_run starts it once; cleanup stops it *)
(* and goes on to free the registry and the key while the thread may still *)
(* be at work, as nobody joins it.                                         *)
(***************************************************************************)

CONSTANTS MgmtNames,        \* services that may be registered
          MaxRequests       \* bound on the requests

VARIABLES mgmt,             \* mgmt_running, mgmt_fd (TRUE: open) and what the worker does
          mgmtRequest,      \* the request the worker has accepted
          answers,          \* the answers sent: their status, with what was asked and known then
          shared,           \* what the worker shares with sm_run: the key and the registry
          opened            \* history: the requests accepted, and those after the stop

mgmtVars == <<mgmt, mgmtRequest, answers, shared, opened>>

Endpoints == {"/status", "/metrics", "/services"}
\* What a client may send: something that is not a request, or a request
\* for a path, signed with the key or not.
MgmtRequests == [whole : BOOLEAN, path : Endpoints \cup {"/other"}, signed : BOOLEAN]
NoMgmtRequest == [whole |-> FALSE, path |-> "/other", signed |-> FALSE]

MgmtInit ==
    /\ mgmt = [running |-> FALSE, fd |-> FALSE, at |-> "none"]
    /\ mgmtRequest = NoMgmtRequest /\ answers = {}
    /\ shared \in [key : {TRUE}, names : SUBSET MgmtNames, stage : {"up"}]
    /\ opened = [requests |-> 0, late |-> 0]

\* sm_management_start; its thread has not run yet.
MgmtStart ==
    /\ mgmt.at = "none" /\ ~mgmt.running /\ shared.stage = "up"
    /\ mgmt' = [mgmt EXCEPT !.running = TRUE, !.at = "socket"]
    /\ UNCHANGED <<mgmtRequest, answers, shared, opened>>

\* management_worker: the socket.  A failure ends the thread and leaves
\* mgmt_running set.
WorkerSocket(ok) ==
    /\ mgmt.at = "socket"
    /\ mgmt' = [mgmt EXCEPT !.fd = ok, !.at = IF ok THEN "listen" ELSE "ended"]
    /\ UNCHANGED <<mgmtRequest, answers, shared, opened>>

\* bind and listen, on mgmt_fd as it is by now.
WorkerListen(ok) ==
    /\ mgmt.at = "listen" /\ (ok => mgmt.fd)
    /\ mgmt' = [mgmt EXCEPT !.fd = ok, !.at = IF ok THEN "loop" ELSE "ended"]
    /\ UNCHANGED <<mgmtRequest, answers, shared, opened>>

\* The worker finds mgmt_running set and calls accept4 on mgmt_fd.  The
\* kernel keeps a socket that is closed meanwhile open until accept4 returns.
CallAccept ==
    /\ mgmt.at = "loop" /\ mgmt.running /\ mgmt.fd
    /\ mgmt' = [mgmt EXCEPT !.at = "accept"]
    /\ UNCHANGED <<mgmtRequest, answers, shared, opened>>

AcceptRequest(r) ==
    /\ mgmt.at = "accept" /\ opened.requests < MaxRequests
    /\ mgmtRequest' = r /\ mgmt' = [mgmt EXCEPT !.at = "serving"]
    /\ opened' = [opened EXCEPT !.requests = @ + 1, !.late = IF mgmt.running THEN @ ELSE @ + 1]
    /\ UNCHANGED <<answers, shared>>

AcceptTimeout ==
    /\ mgmt.at = "accept"
    /\ mgmt' = [mgmt EXCEPT !.at = "loop"]
    /\ UNCHANGED <<mgmtRequest, answers, shared, opened>>

\* Mutant: the signature is not looked at.
StatusUnverified(r, key) ==
    IF ~r.whole THEN 400 ELSE IF r.path \notin Endpoints THEN 404 ELSE 200

\* parse_http_request, verify_request_auth and the table of endpoints.
\* Without a key every request is refused.
Status(r, key) ==
    IF ~r.whole THEN 400
    ELSE IF ~(r.signed /\ key) THEN 401
    ELSE IF r.path \notin Endpoints THEN 404 ELSE 200

\* handle_services copies the registry at this moment.
Body(r, status) == IF status = 200 /\ r.path = "/services" THEN shared.names ELSE {}

\* process_management_request sends one answer, and the connection is closed.
AnswerRequest ==
    /\ mgmt.at = "serving"
    /\ LET status == Status(mgmtRequest, shared.key)
       IN  answers' = answers \cup {[asked |-> mgmtRequest, status |-> status, names |-> Body(mgmtRequest, status),
                                     stage |-> shared.stage]}
    /\ mgmtRequest' = NoMgmtRequest /\ mgmt' = [mgmt EXCEPT !.at = "loop"]
    /\ UNCHANGED <<shared, opened>>

\* recv fails or times out: no answer.
SilentRequest ==
    /\ mgmt.at = "serving"
    /\ mgmtRequest' = NoMgmtRequest /\ mgmt' = [mgmt EXCEPT !.at = "loop"]
    /\ UNCHANGED <<answers, shared, opened>>

WorkerEnds ==
    /\ mgmt.at = "loop" /\ ~mgmt.running
    /\ mgmt' = [mgmt EXCEPT !.at = "ended"]
    /\ UNCHANGED <<mgmtRequest, answers, shared, opened>>

\* sm_management_stop, from cleanup.
MgmtStop ==
    /\ shared.stage = "up"
    /\ mgmt' = [mgmt EXCEPT !.running = FALSE, !.fd = FALSE]
    /\ shared' = [shared EXCEPT !.stage = "stopped"]
    /\ UNCHANGED <<mgmtRequest, answers, opened>>

\* What cleanup frees afterwards: sm_registry_cleanup, then sm_crypto_cleanup.
FreeRegistry ==
    /\ shared.stage = "stopped"
    /\ shared' = [shared EXCEPT !.stage = "freed", !.names = {}]
    /\ UNCHANGED <<mgmt, mgmtRequest, answers, opened>>

FreeKey ==
    /\ shared.stage = "freed"
    /\ shared' = [shared EXCEPT !.stage = "ended", !.key = FALSE]
    /\ UNCHANGED <<mgmt, mgmtRequest, answers, opened>>

MgmtNext ==
    \/ MgmtStart \/ MgmtStop \/ FreeRegistry \/ FreeKey
    \/ \E ok \in BOOLEAN : WorkerSocket(ok) \/ WorkerListen(ok)
    \/ \E r \in MgmtRequests : AcceptRequest(r)
    \/ CallAccept \/ AcceptTimeout \/ AnswerRequest \/ SilentRequest \/ WorkerEnds

-----------------------------------------------------------------------------
\* The names of services leave the manager only in an answer to a signed
\* request, and only while it still had them: a thread that outlives
\* cleanup answers from what is left, never from freed memory.
AnswersAreEntitled ==
    \A a \in answers :
        /\ a.names # {} => a.asked.signed /\ a.asked.path = "/services" /\ a.stage \in {"up", "stopped"}
        /\ a.status = 200 => a.asked.signed /\ a.stage # "ended"

\* After the stop at most the one request is accepted for which accept4
\* had already been called; the socket is closed by then, or is never used.
StopIsPrompt ==
    /\ opened.late =< 1
    /\ mgmt.at \in {"accept", "serving"} /\ ~mgmt.running => ~mgmt.fd

\* The management interface is correct.
MgmtSafe == AnswersAreEntitled /\ StopIsPrompt
=============================================================================

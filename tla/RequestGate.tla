---------------------------- MODULE RequestGate -----------------------------
(***************************************************************************)
(* What a request has to pass before the manager acts on it: the rate      *)
(* limits and the checks of its form, and the nonces of sm_replay.c, which *)
(* nothing asks yet.  The two share no state.                              *)
(***************************************************************************)
EXTENDS Integers, Sequences, FiniteSets

-----------------------------------------------------------------------------
(***************************************************************************)
(* What a request passes before it reaches the registry: sm_handlers.c     *)
(* with sm_request_id.c, sm_protocol.c, sm_rate_limit.c and                *)
(* sm_advanced_ratelimit.c.                                                *)
(*                                                                         *)
(* A message is its client, the service it names, and the set of things    *)
(* that are wrong with it.  The token buckets are counted in whole tokens  *)
(* and the clock in the time one token takes; each mutex-protected section *)
(* is one step, so that the steps of two workers interleave between them.  *)
(***************************************************************************)

CONSTANTS GateWorkers, Clients, Services,
          GlobalCapacity, GlobalRefill,   \* SM_RATE_GLOBAL_*
          PidCapacity, PidRefill,         \* SM_RATE_PID_*
          TableSize,                      \* SM_RATE_TABLE_SIZE
          BoxSize,                        \* MAX_SERVICE_BUCKETS
          Threshold, Window, Duration,    \* PENALTY_*
          MaxTime                         \* bound on the clock

ASSUME GateAssumption ==
    /\ GlobalCapacity \in Nat /\ GlobalRefill \in Nat /\ PidCapacity \in Nat \ {0} /\ PidRefill \in Nat
    /\ TableSize \in Nat \ {0} /\ BoxSize \in Nat
    /\ Threshold \in Nat \ {0} /\ Window \in Nat /\ Duration \in Nat /\ MaxTime \in Nat

VARIABLES now, g_tokens, pid_table,       \* sm_rate_limit.c
          buckets, penalties,             \* sm_advanced_ratelimit.c
          request,                        \* what each worker is doing
          charged, admitted,              \* history: tokens taken, in all and by client
          reached                         \* history: what was wrong with the last message that passed

gateVars == <<now, g_tokens, pid_table, buckets, penalties, request, charged, admitted, reached>>

Key       == Clients \X Services
NoRequest == [stage |-> "none"]

\* The checks of sm_handle_client in their order, with the reply of each;
\* a receive that fails or comes up short is not answered.
Checks == << <<"header", "silent">>, <<"length", "protocol">>, <<"payload", "silent">>,
             <<"fields", "protocol">>, <<"size", "invalid">>, <<"hmac", "auth">> >>

\* What a message may have wrong with it: those, and what the handlers look at.
Faults == {"fields", "hmac", "name"}

\* sm_validate_header, _header_hmac and _message_size: the reply of the first
\* check it fails.  There is a key: sm_run does not get here without.
FirstFailed(m) ==
    LET failed == {i \in DOMAIN Checks : Checks[i][1] \in m.faults}
    IN  IF failed = {} THEN "passed" ELSE Checks[CHOOSE i \in failed : \A j \in failed : i =< j][2]

\* sm_validate_service_name, sm_validate_socket_path.
NameIsValid(m) == "name" \notin m.faults

-----------------------------------------------------------------------------
(* sm_rate_limit.c: a bucket is [tokens, last_refill].                     *)

Least(a, b) == IF a < b THEN a ELSE b

\* Mutant: the elapsed time is credited again at every check.
RefillKept(b, rate, capacity) == [b EXCEPT !.tokens = Least(@ + (now - b.last_refill) * rate, capacity)]

refill_bucket(b, rate, capacity) ==
    [b EXCEPT !.tokens = Least(@ + (now - b.last_refill) * rate, capacity), !.last_refill = now]

FullBucket(p) == [pid |-> p, tokens |-> PidCapacity, last_refill |-> now]

\* The slot whose bucket was refilled longest ago.
Lru == CHOOSE i \in DOMAIN pid_table : \A j \in DOMAIN pid_table :
          \/ pid_table[i].last_refill < pid_table[j].last_refill
          \/ pid_table[i].last_refill = pid_table[j].last_refill /\ i =< j

SlotOf(p) == {i \in DOMAIN pid_table : pid_table[i].pid = p}

\* The table with an entry for p: its own, an appended or the evicted one.
WithEntry(p) ==
    IF SlotOf(p) # {} THEN pid_table
    ELSE IF Len(pid_table) < TableSize THEN Append(pid_table, FullBucket(p))
    ELSE [pid_table EXCEPT ![Lru] = FullBucket(p)]

\* The place of p in the table, its bucket and the global one, as
\* sm_rate_limit_check finds them after the refill.
PlaceOf(p)  == CHOOSE i \in DOMAIN WithEntry(p) : WithEntry(p)[i].pid = p
BucketOf(p) == refill_bucket(WithEntry(p)[PlaceOf(p)], PidRefill, PidCapacity)
Global      == refill_bucket(g_tokens, GlobalRefill, GlobalCapacity)

\* sm_rate_limit_check returns SM_OK and has charged both buckets.  A client
\* that is new to the table starts with a full one.
sm_rate_limit_pass(p) ==
    /\ Global.tokens >= 1 /\ BucketOf(p).tokens >= 1
    /\ g_tokens' = [Global EXCEPT !.tokens = @ - 1]
    /\ pid_table' = [WithEntry(p) EXCEPT ![PlaceOf(p)] = [BucketOf(p) EXCEPT !.tokens = @ - 1]]
    /\ charged' = charged + 1
    /\ admitted' = [admitted EXCEPT ![p] =
         IF SlotOf(p) = {} THEN [since |-> now, count |-> 1] ELSE [since |-> @.since, count |-> @.count + 1]]

\* It returns SM_ERR_RATELIMIT: an empty global bucket is found before the
\* client is looked up.
sm_rate_limit_refuse(p) ==
    /\ Global.tokens < 1 \/ BucketOf(p).tokens < 1
    /\ g_tokens' = Global
    /\ pid_table' = IF Global.tokens < 1 THEN pid_table ELSE [WithEntry(p) EXCEPT ![PlaceOf(p)] = BucketOf(p)]
    /\ UNCHANGED <<charged, admitted>>

-----------------------------------------------------------------------------
(* sm_advanced_ratelimit.c.                                                *)

NoPenalty == [violations |-> 0, window_start |-> -1, ban_until |-> -1]

\* _record_violation, on one entry: a window that is over starts again, and
\* the last violation of a window becomes a ban.
Counted(p) ==
    LET q == IF p.window_start = -1 \/ now - p.window_start > Window
             THEN [p EXCEPT !.violations = 0, !.window_start = now] ELSE p
    IN  IF q.violations + 1 >= Threshold
        THEN [violations |-> 0, window_start |-> -1, ban_until |-> now + Duration]
        ELSE [q EXCEPT !.violations = @ + 1]

\* _record_violation with _find_or_create_penalty: no entry when the array
\* is full.
_record_violation(box, k) ==
    IF k \in DOMAIN box THEN [box EXCEPT ![k] = Counted(@)]
    ELSE IF Cardinality(DOMAIN box) >= BoxSize THEN box
    ELSE [j \in DOMAIN box \cup {k} |-> IF j = k THEN Counted(NoPenalty) ELSE box[j]]

Banned(k) == k \in DOMAIN penalties /\ now < penalties[k].ban_until

\* _is_in_penalty_box, when it answers no: a ban that is over is forgotten.
Released(k) ==
    IF k \in DOMAIN penalties /\ penalties[k].ban_until # -1
    THEN [penalties EXCEPT ![k] = NoPenalty] ELSE penalties

\* sm_ratelimit_set_service_limit.
SetServiceLimit(k, capacity) ==
    /\ k \in DOMAIN buckets \/ Cardinality(DOMAIN buckets) < BoxSize
    /\ buckets' = [j \in DOMAIN buckets \cup {k} |-> IF j = k THEN capacity ELSE buckets[j]]
    /\ UNCHANGED <<now, g_tokens, pid_table, penalties, request, charged, admitted, reached>>

\* sm_ratelimit_reset_service.
ResetService(s) ==
    /\ buckets' = [k \in DOMAIN buckets |-> IF k[2] = s THEN 2 ELSE buckets[k]]
    /\ penalties' = [k \in DOMAIN penalties |-> IF k[2] = s THEN NoPenalty ELSE penalties[k]]
    /\ UNCHANGED <<now, g_tokens, pid_table, request, charged, admitted, reached>>

-----------------------------------------------------------------------------
(* sm_handle_client, in a worker.                                          *)

Stage(w, s) == request' = [request EXCEPT ![w].stage = s]
Done(w)     == request' = [request EXCEPT ![w] = NoRequest]

\* sm_handle_client up to its rate limit, which takes a first token.  (A
\* socket whose timeouts cannot be set is closed before that.)
Admit(w, m) ==
    /\ request[w].stage = "none"
    /\ sm_rate_limit_pass(m.pid)
    /\ request' = [request EXCEPT ![w] = [stage |-> "receive", msg |-> m]]
    /\ UNCHANGED <<now, buckets, penalties, reached>>

\* The connection is closed without an answer.
TurnAway(p) ==
    /\ \E w \in GateWorkers : request[w].stage = "none"
    /\ sm_rate_limit_refuse(p)
    /\ UNCHANGED <<now, buckets, penalties, request, reached>>

\* Mutant: a message that fails a check is answered and handled all the same.
ReceiveAndGoOn(w) ==
    /\ request[w].stage = "receive"
    /\ Stage(w, "limit")
    /\ UNCHANGED <<now, g_tokens, pid_table, buckets, penalties, charged, admitted, reached>>

\* Header and payload are received and validated.
Receive(w) ==
    /\ request[w].stage = "receive"
    /\ IF FirstFailed(request[w].msg) = "passed" THEN Stage(w, "limit") ELSE Done(w)
    /\ UNCHANGED <<now, g_tokens, pid_table, buckets, penalties, charged, admitted, reached>>

\* sm_ratelimit_check_extended, first part: a second token.
LimitClient(w) ==
    /\ request[w].stage = "limit"
    /\ sm_rate_limit_pass(request[w].msg.pid)
    /\ Stage(w, "box")
    /\ UNCHANGED <<now, buckets, penalties, reached>>

LimitExceeded(w) ==
    /\ request[w].stage = "limit"
    /\ sm_rate_limit_refuse(request[w].msg.pid)
    /\ Stage(w, "violation")
    /\ UNCHANGED <<now, buckets, penalties, reached>>

\* Its second part, after a refusal: the violation is recorded and the
\* handler answers SM_ERR_RATELIMIT.
LimitViolated(w) ==
    /\ request[w].stage = "violation"
    /\ penalties' = _record_violation(penalties, <<request[w].msg.pid, request[w].msg.service>>)
    /\ Done(w)
    /\ UNCHANGED <<now, g_tokens, pid_table, buckets, charged, admitted, reached>>

\* Its second part otherwise: the penalty box, and the client's bucket for
\* the service.
LimitService(w) ==
    LET k == <<request[w].msg.pid, request[w].msg.service>>
    IN  /\ request[w].stage = "box"
        /\ \/ Banned(k) /\ Done(w) /\ UNCHANGED <<buckets, penalties>>
           \/ /\ ~Banned(k) /\ k \notin DOMAIN buckets
              /\ penalties' = Released(k) /\ Stage(w, "handle") /\ UNCHANGED buckets
           \/ /\ ~Banned(k) /\ k \in DOMAIN buckets /\ buckets[k] >= 1
              /\ buckets' = [buckets EXCEPT ![k] = @ - 1]
              /\ penalties' = Released(k) /\ Stage(w, "handle")
           \/ /\ ~Banned(k) /\ k \in DOMAIN buckets /\ buckets[k] < 1
              /\ penalties' = _record_violation(Released(k), k) /\ Done(w) /\ UNCHANGED buckets
        /\ UNCHANGED <<now, g_tokens, pid_table, charged, admitted, reached>>

\* sm_handle_register, _lookup, _heartbeat, _unregister: validate what the
\* request names, then the registry.
Handle(w) ==
    /\ request[w].stage = "handle"
    /\ Done(w)
    /\ reached' = IF NameIsValid(request[w].msg) THEN request[w].msg.faults ELSE reached
    /\ UNCHANGED <<now, g_tokens, pid_table, buckets, penalties, charged, admitted>>

ClockTicks ==
    /\ now < MaxTime
    /\ now' = now + 1
    /\ UNCHANGED <<g_tokens, pid_table, buckets, penalties, request, charged, admitted, reached>>
Messages == [pid : Clients, service : Services, faults : {{}} \cup {{f} : f \in Faults}]

\* sm_rate_limit_init; g_limits is zero.
GateInit ==
    /\ now = 0
    /\ g_tokens = [tokens |-> GlobalCapacity, last_refill |-> 0]
    /\ pid_table = <<>>
    /\ buckets = << >> /\ penalties = << >>
    /\ request = [w \in GateWorkers |-> NoRequest]
    /\ charged = 0
    /\ admitted = [p \in Clients |-> [since |-> 0, count |-> 0]]
    /\ reached = {}

GateNext ==
    \/ \E w \in GateWorkers :
         \/ \E m \in Messages : Admit(w, m)
         \/ Receive(w) \/ LimitClient(w) \/ LimitExceeded(w) \/ LimitViolated(w)
         \/ LimitService(w) \/ Handle(w)
    \/ \E k \in Key, capacity \in {1} : SetServiceLimit(k, capacity)
    \/ \E s \in Services : ResetService(s)
    \/ \E p \in Clients : TurnAway(p)
    \/ ClockTicks

-----------------------------------------------------------------------------
GateTypeOK ==
    /\ g_tokens.tokens \in 0 .. GlobalCapacity /\ g_tokens.last_refill \in 0 .. now
    /\ Len(pid_table) =< TableSize
    /\ \A i \in DOMAIN pid_table : pid_table[i].tokens \in 0 .. PidCapacity
    /\ Cardinality(DOMAIN penalties) =< BoxSize /\ Cardinality(DOMAIN buckets) =< BoxSize

\* Whatever the clients do, and however often the full table evicts one and
\* hands out a fresh bucket, no more requests pass than the global bucket
\* held and gained; and while a client keeps its entry it gets no more than
\* its own bucket held and gained.
LimitsHold ==
    /\ charged =< GlobalCapacity + GlobalRefill * now
    /\ \A i \in DOMAIN pid_table : LET a == admitted[pid_table[i].pid]
                                   IN  a.count =< PidCapacity + PidRefill * (now - a.since)
    /\ \A i, j \in DOMAIN pid_table : pid_table[i].pid = pid_table[j].pid => i = j

\* A ban is never longer than the documented duration, is not held together
\* with a count, and no window holds as many violations as make a ban.
BansFollowRules ==
    \A k \in DOMAIN penalties :
        /\ penalties[k].ban_until =< now + Duration
        /\ penalties[k].violations < Threshold
        /\ penalties[k].violations > 0 => penalties[k].window_start \in 0 .. now

\* What reaches the registry has nothing wrong with it.
ReachedIsValid == reached = {}

\* The gate is correct: the limits, the bans and the validation of requests
\* hold however the workers interleave.
GateSafe == GateTypeOK /\ LimitsHold /\ BansFollowRules /\ ReachedIsValid

-----------------------------------------------------------------------------
(***************************************************************************)
(* security/sm_replay.c: the tokens a receiver has accepted, remembered by *)
(* their nonces in a ring.  The clock is the time of day, which may be set *)
(* back.  A token that was stamped may arrive any number of times.         *)
(***************************************************************************)

CONSTANTS Nonces,       \* what getrandom returns; 0 marks an unused slot
          RingSize,     \* SM_REPLAY_RING_SIZE, a power of two
          HeadRange,    \* the range of g_ring_head, 2^32 in the code
          ReplayWindow, \* SM_REPLAY_WINDOW_SECS
          Skew,         \* how far ahead a token may be, 200 ms in the code
          MaxDay,       \* bound on the clock
          MaxAccepted   \* bound on the tokens accepted

ASSUME ReplayAssumption ==
    RingSize \in Nat \ {0} /\ HeadRange \in Nat \ {0} /\ HeadRange % RingSize = 0 /\ 0 \in Nonces

VARIABLES g_ring, g_ring_head, day,
          accepted      \* history: the tokens accepted, in order

replayVars == <<g_ring, g_ring_head, day, accepted>>

\* sm_replay_init.
ReplayInit ==
    /\ g_ring = [i \in 0 .. RingSize - 1 |-> [nonce |-> 0, timestamp |-> 0]]
    /\ g_ring_head = 0
    /\ day = 0 /\ accepted = << >>

\* What sm_replay_stamp makes, by the clock of the sender.
Stamps == [nonce : Nonces, timestamp : 0 .. MaxDay]

Age(t) == IF t > day THEN 0 ELSE day - t

\* Neither too far ahead nor too old.
InTime(tok) == tok.timestamp - day =< Skew /\ Age(tok.timestamp) =< ReplayWindow

\* A slot with the same nonce whose token is still inside the window.
Known(tok) ==
    \E i \in DOMAIN g_ring : /\ g_ring[i].nonce # 0 /\ g_ring[i].nonce = tok.nonce
                             /\ Age(g_ring[i].timestamp) =< ReplayWindow

\* Mutant: the ring is written from the newest entry backwards.
SlotKept == 0

Slot == g_ring_head % RingSize

\* sm_replay_check returns 0.
Accept(tok) ==
    /\ Len(accepted) < MaxAccepted
    /\ InTime(tok) /\ ~Known(tok)
    /\ g_ring' = [g_ring EXCEPT ![Slot] = tok]
    /\ g_ring_head' = (g_ring_head + 1) % HeadRange
    /\ accepted' = Append(accepted, tok)
    /\ UNCHANGED day

SetClock ==
    /\ \E d \in 0 .. MaxDay : day' = d
    /\ UNCHANGED <<g_ring, g_ring_head, accepted>>

ReplayNext ==
    \/ \E tok \in Stamps : Accept(tok)
    \/ SetClock

-----------------------------------------------------------------------------
ReplayTypeOK == g_ring_head \in 0 .. HeadRange - 1 /\ DOMAIN g_ring = 0 .. RingSize - 1

\* A token is accepted a second time only when as many others as the ring
\* holds were accepted in between, whatever happens to the clock, also when
\* the head wraps around its range.  (A nonce of 0 is not remembered.)
ReplayNeedsEviction ==
    \A i, j \in DOMAIN accepted :
        i < j /\ accepted[i] = accepted[j] /\ accepted[i].nonce # 0 => j - i > RingSize

\* The ring is correct.
ReplaySafe == ReplayTypeOK /\ ReplayNeedsEviction
=============================================================================

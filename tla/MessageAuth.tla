----------------------------- MODULE MessageAuth ----------------------------
(***************************************************************************)
(* security/verify: two contexts with one key that sign messages for each  *)
(* other and issue tokens (verify.c, verify_replay.c, verify_token.c,      *)
(* verify_hmac.c), as ProxyAuth uses them.                                 *)
(*                                                                         *)
(* A signature is the key it was made with; a message or token that is     *)
(* damaged on its way is no longer intact.  The wire keeps what it has     *)
(* delivered, so that messages arrive late, again and in any order.        *)
(***************************************************************************)
EXTENDS Integers, FiniteSets

CONSTANTS Ends,             \* the contexts
          TimestampWindow,  \* TIMESTAMP_WINDOW
          MaxKey,           \* bound on the rotations
          MaxClock,         \* bound on the monotonic clock
          MaxWire           \* bound on the messages, and the tokens, that are about

VARIABLES ctx, clock, wire, tokens,
          verdict           \* history: the last check, and what was checked

authVars == <<ctx, clock, wire, tokens, verdict>>

NoVerdict == [result |-> 0, genuine |-> FALSE, recent |-> FALSE]

\* verify_init, with replay_context_init; the same for a key from a file or
\* from the environment.
verify_init(key) ==
    [master_key |-> key, prev_key |-> 0, last_timestamp |-> 0, last_sequence |-> 0,
     strict_ordering |-> TRUE, enable_timestamp_check |-> TRUE,
     rate_limit |-> 0, rate_count |-> 0, rate_window |-> 0]

AuthInit ==
    /\ ctx = [e \in Ends |-> verify_init(1)]
    /\ clock = 1 /\ wire = {} /\ tokens = {} /\ verdict = NoVerdict

\* verify_check_rate_limit: whether it lets one more pass, and what it counts.
RateCount(c)  == IF c.rate_window = clock THEN c.rate_count ELSE 0
RateOpen(c)   == c.rate_limit = 0 \/ RateCount(c) < c.rate_limit
RateTaken(c)  == IF c.rate_limit = 0 THEN c ELSE [c EXCEPT !.rate_window = clock, !.rate_count = RateCount(c) + 1]

\* verify_sign_message: the sequence number follows the last one that was
\* checked.  hmac_sign is the key.
Sign(e) ==
    /\ RateOpen(ctx[e]) /\ Cardinality(wire) < MaxWire
    /\ wire' = wire \cup {[timestamp |-> clock, sequence |-> ctx[e].last_sequence + 1,
                           key |-> ctx[e].master_key, intact |-> TRUE]}
    /\ ctx' = [ctx EXCEPT ![e] = RateTaken(@)]
    /\ UNCHANGED <<clock, tokens, verdict>>

\* replay_check, in a context, for what was sent at t with number n.
replay_check(c, t, n) ==
    /\ c.enable_timestamp_check => clock - t =< TimestampWindow /\ t - clock =< TimestampWindow
    /\ (c.strict_ordering /\ c.last_timestamp > 0) => n > c.last_sequence

\* Mutant: any signature will do.
hmac_verify_any(c, m) == IF m.intact THEN 0 ELSE -1

\* hmac_verify returns what sm_hmac_verify does: 0 for a match.
hmac_verify(c, m) == IF m.intact /\ m.key = c.master_key THEN 0 ELSE -1

\* replay_update.
replay_update(c, m) == [c EXCEPT !.last_timestamp = m.timestamp, !.last_sequence = m.sequence]

\* verify_check_message: 0 when the replay check refuses, otherwise what
\* hmac_verify returns; only a 1 would be remembered.
verify_check_message(c, m) ==
    IF (c.enable_timestamp_check \/ c.strict_ordering) /\ ~replay_check(c, m.timestamp, m.sequence)
    THEN 0 ELSE hmac_verify(c, m)

Check(e, m) ==
    LET result == verify_check_message(ctx[e], m)
    IN  /\ m \in wire
        /\ ctx' = IF result = 1 THEN [ctx EXCEPT ![e] = replay_update(@, m)] ELSE ctx
        /\ verdict' = [result |-> result, genuine |-> m.intact /\ m.key = ctx[e].master_key,
                       recent |-> replay_check(ctx[e], m.timestamp, m.sequence)]
        /\ UNCHANGED <<clock, wire, tokens>>

\* token_issue.
IssueToken(e, validity) ==
    /\ Cardinality(tokens) < MaxWire
    /\ tokens' = tokens \cup {[expires_at |-> clock + validity, key |-> ctx[e].master_key, intact |-> TRUE]}
    /\ UNCHANGED <<ctx, clock, wire, verdict>>

\* token_verify: 0 for one that has expired, otherwise what hmac_verify returns.
token_verify(c, t) == IF clock >= t.expires_at THEN 0 ELSE hmac_verify(c, t)

CheckToken(e, t) ==
    /\ t \in tokens
    /\ verdict' = [result |-> token_verify(ctx[e], t), genuine |-> t.intact /\ t.key = ctx[e].master_key,
                   recent |-> clock < t.expires_at]
    /\ UNCHANGED <<ctx, clock, wire, tokens>>

\* verify_rotate_key; the previous key is kept, and never looked at.
RotateKey(e) ==
    /\ ctx[e].master_key < MaxKey
    /\ ctx' = [ctx EXCEPT ![e].prev_key = ctx[e].master_key, ![e].master_key = @ + 1]
    /\ UNCHANGED <<clock, wire, tokens, verdict>>

\* verify_set_rate_limit, _strict_ordering, _timestamp_check.  A switch that
\* is set to what it was is a stuttering step.
SetRateLimit(e, n) ==
    /\ ctx' = [ctx EXCEPT ![e] = [@ EXCEPT !.rate_limit = n, !.rate_count = 0, !.rate_window = 0]]
    /\ UNCHANGED <<clock, wire, tokens, verdict>>

SetStrictOrdering(e, on) ==
    /\ on # ctx[e].strict_ordering
    /\ ctx' = [ctx EXCEPT ![e].strict_ordering = on]
    /\ UNCHANGED <<clock, wire, tokens, verdict>>

SetTimestampCheck(e, on) ==
    /\ on # ctx[e].enable_timestamp_check
    /\ ctx' = [ctx EXCEPT ![e].enable_timestamp_check = on]
    /\ UNCHANGED <<clock, wire, tokens, verdict>>

\* The wire loses or damages a message, or its holder a token.
Lose ==
    /\ \E m \in wire \cup tokens : wire' = wire \ {m} /\ tokens' = tokens \ {m}
    /\ UNCHANGED <<ctx, clock, verdict>>

Damage ==
    /\ \/ \E m \in wire   : wire' = (wire \ {m}) \cup {[m EXCEPT !.intact = FALSE]} /\ UNCHANGED tokens
       \/ \E t \in tokens : tokens' = (tokens \ {t}) \cup {[t EXCEPT !.intact = FALSE]} /\ UNCHANGED wire
    /\ UNCHANGED <<ctx, clock, verdict>>

SecondPasses == clock < MaxClock /\ clock' = clock + 1 /\ UNCHANGED <<ctx, wire, tokens, verdict>>

AuthNext ==
    \/ \E e \in Ends :
         \/ Sign(e) \/ RotateKey(e)
         \/ \E m \in wire : Check(e, m)
         \/ \E v \in {1} : IssueToken(e, v)
         \/ \E t \in tokens : CheckToken(e, t)
         \/ \E n \in {0, 1} : SetRateLimit(e, n)
         \/ \E on \in BOOLEAN : SetStrictOrdering(e, on) \/ SetTimestampCheck(e, on)
    \/ Lose \/ Damage \/ SecondPasses

AuthSpec == AuthInit /\ [][AuthNext]_authVars

-----------------------------------------------------------------------------
AuthTypeOK ==
    \A e \in Ends : /\ ctx[e].rate_limit > 0 => ctx[e].rate_count =< ctx[e].rate_limit
                    /\ ctx[e].rate_window =< clock /\ ctx[e].prev_key < ctx[e].master_key

\* A message or token that was damaged, or signed with another key than the
\* context holds now, is told from a genuine one, unless it was already
\* refused for its age or order: hmac_verify is asked, and its answer kept.
DamageIsTold == verdict.recent /\ ~verdict.genuine => verdict.result = -1

\* The verification is correct in what it refuses.
AuthSafe == AuthTypeOK /\ DamageIsTold

\* SECURITY_DOCUMENTATION.md, on verify_check_message: "== 1" is a valid
\* message.  A genuine message or token that is neither old nor out of order
\* is answered 1.
GenuineIsValid == verdict.genuine /\ verdict.recent => verdict.result = 1
=============================================================================

--------------------------- MODULE SmFeatureProofs --------------------------
(***************************************************************************)
(* Proofs about the parts of the service manager around the registry, for  *)
(* any number of clients, services, threads, tasks, connections and        *)
(* subscribers, and any sizes of the tables.  The parts share no state, so *)
(* each has an inductive invariant of its own; the theorems at the end put *)
(* them together for SmfSpec.                                              *)
(***************************************************************************)
EXTENDS MCSmFeatures, FiniteSetTheorems, SequenceTheorems, TLAPS

(***************************************************************************)
(* Message authentication.                                                 *)
(***************************************************************************)
CtxRec == [master_key : Nat, prev_key : Nat, last_timestamp : Nat, last_sequence : Nat,
           strict_ordering : BOOLEAN, enable_timestamp_check : BOOLEAN,
           rate_limit : Nat, rate_count : Nat, rate_window : Nat]

\* What AuthTypeOK says of one context, at time t.
CtxOK(c, t) ==
    /\ c \in CtxRec
    /\ c.rate_limit > 0 => c.rate_count =< c.rate_limit
    /\ c.rate_window =< t /\ c.prev_key < c.master_key

TokenRec == [expires_at : Nat, key : Nat, intact : BOOLEAN]

AuthInv ==
    /\ clock \in Nat /\ tokens \subseteq TokenRec
    /\ ctx = [e \in Ends |-> ctx[e]] /\ \A e \in Ends : CtxOK(ctx[e], clock)
    /\ DamageIsTold

\* A step of one context leaves the others as they were.
LEMMA CtxStep ==
  ASSUME AuthInv, NEW e \in Ends, NEW c, CtxOK(c, clock), ctx' = [ctx EXCEPT ![e] = c],
         UNCHANGED <<clock, tokens, verdict>>
  PROVE  AuthInv'
BY DEF AuthInv, CtxOK, DamageIsTold

\* The updates of several fields of a context.
Recounted(c, w, n) == [c EXCEPT !.rate_window = w, !.rate_count = n]
Limited(c, n)      == [c EXCEPT !.rate_limit = n, !.rate_count = 0, !.rate_window = 0]

LEMMA CtxCounts ==
  ASSUME NEW c \in CtxRec, NEW w \in Nat, NEW n \in Nat
  PROVE  LET d == Recounted(c, w, n)
         IN  /\ d \in CtxRec /\ d.rate_limit = c.rate_limit /\ d.rate_count = n /\ d.rate_window = w
             /\ d.prev_key = c.prev_key /\ d.master_key = c.master_key
<1> DEFINE e == [c EXCEPT !.rate_window = w]
<1>1. /\ e \in CtxRec /\ e.rate_limit = c.rate_limit /\ e.rate_window = w
      /\ e.prev_key = c.prev_key /\ e.master_key = c.master_key
  BY DEF CtxRec
<1>2. Recounted(c, w, n) = [e EXCEPT !.rate_count = n]
  BY DEF Recounted
<1> HIDE DEF e
<1> QED BY <1>1, <1>2 DEF CtxRec

LEMMA CtxLimit ==
  ASSUME NEW c \in CtxRec, NEW n \in Nat
  PROVE  LET d == Limited(c, n)
         IN  /\ d \in CtxRec /\ d.prev_key = c.prev_key /\ d.master_key = c.master_key
             /\ d.rate_limit = n /\ d.rate_count = 0 /\ d.rate_window = 0
<1> DEFINE e == [c EXCEPT !.rate_limit = n]
           f == [e EXCEPT !.rate_count = 0]
<1>1. e \in CtxRec /\ e.prev_key = c.prev_key /\ e.master_key = c.master_key /\ e.rate_limit = n
  BY DEF CtxRec
<1>2. Limited(c, n) = [f EXCEPT !.rate_window = 0]
  BY DEF CtxRec, Limited
<1> HIDE DEF e
<1>3. /\ f \in CtxRec /\ f.prev_key = c.prev_key /\ f.master_key = c.master_key /\ f.rate_limit = n
      /\ f.rate_count = 0
  BY <1>1 DEF CtxRec
<1> HIDE DEF f
<1> QED BY <1>2, <1>3 DEF CtxRec

LEMMA CtxKeys ==
  ASSUME NEW c \in CtxRec, NEW d, d = [c EXCEPT !.prev_key = c.master_key, !.master_key = @ + 1]
  PROVE  /\ d \in CtxRec /\ d.prev_key = c.master_key /\ d.master_key = c.master_key + 1
         /\ d.rate_limit = c.rate_limit /\ d.rate_count = c.rate_count /\ d.rate_window = c.rate_window
<1> DEFINE e == [c EXCEPT !.prev_key = c.master_key]
<1>1. /\ e \in CtxRec /\ e.prev_key = c.master_key /\ e.master_key = c.master_key
      /\ e.rate_limit = c.rate_limit /\ e.rate_count = c.rate_count /\ e.rate_window = c.rate_window
  BY DEF CtxRec
<1>2. d = [e EXCEPT !.master_key = @ + 1]
  BY DEF CtxRec
<1> HIDE DEF e
<1> QED BY <1>1, <1>2 DEF CtxRec

\* verify_check_rate_limit counts no further than the limit.
LEMMA RateTakenOK ==
  ASSUME NEW c, CtxOK(c, clock), RateOpen(c), clock \in Nat
  PROVE  CtxOK(RateTaken(c), clock)
<1>1. CASE c.rate_limit = 0
  BY <1>1 DEF RateTaken
<1>2. CASE c.rate_limit # 0
  <2>1. RateCount(c) \in Nat /\ RateCount(c) < c.rate_limit
    BY <1>2 DEF RateOpen, RateCount, CtxOK, CtxRec
  <2>2. c \in CtxRec /\ RateCount(c) + 1 \in Nat
    BY <2>1 DEF CtxOK
  <2>3. RateTaken(c) = Recounted(c, clock, RateCount(c) + 1)
    BY <1>2 DEF RateTaken, Recounted
  <2> DEFINE d == Recounted(c, clock, RateCount(c) + 1)
  <2>4. /\ d \in CtxRec /\ d.rate_limit = c.rate_limit /\ d.rate_count = RateCount(c) + 1 /\ d.rate_window = clock
        /\ d.prev_key = c.prev_key /\ d.master_key = c.master_key
    BY ZenonT(60), <2>2, CtxCounts
  <2> HIDE DEF d
  <2> QED BY <2>1, <2>3, <2>4 DEF CtxOK, CtxRec, d
<1> QED BY <1>1, <1>2

\* verify_check_message and token_verify never answer 1, and answer -1 to
\* what is not genuine unless they refused it before.
LEMMA CheckAnswers ==
  ASSUME AuthInv, NEW e \in Ends
  PROVE  /\ \A m : Check(e, m) => AuthInv'
         /\ \A t \in tokens : CheckToken(e, t) => AuthInv'
<1>1. ASSUME NEW m, Check(e, m) PROVE AuthInv'
  <2> DEFINE r == verify_check_message(ctx[e], m)
             g == m.intact /\ m.key = ctx[e].master_key
             q == replay_check(ctx[e], m.timestamp, m.sequence)
  <2>1. /\ verdict' = [result |-> r, genuine |-> g, recent |-> q] /\ UNCHANGED <<clock, tokens>>
        /\ ctx' = IF r = 1 THEN [ctx EXCEPT ![e] = replay_update(@, m)] ELSE ctx
    BY <1>1 DEF Check
  <2>2. r # 1
    BY DEF verify_check_message, hmac_verify
  <2>3. q /\ ~g => r = -1
    BY DEF verify_check_message, hmac_verify
  <2> HIDE DEF r, g, q
  <2>4. ctx' = ctx
    BY <2>1, <2>2
  <2>5. DamageIsTold'
    BY <2>1, <2>3 DEF DamageIsTold
  <2> QED BY <2>1, <2>4, <2>5 DEF AuthInv, CtxOK
<1>2. ASSUME NEW t \in tokens, CheckToken(e, t) PROVE AuthInv'
  <2> DEFINE r == token_verify(ctx[e], t)
             g == t.intact /\ t.key = ctx[e].master_key
             q == clock < t.expires_at
  <2>1. verdict' = [result |-> r, genuine |-> g, recent |-> q] /\ UNCHANGED <<ctx, clock, tokens>>
    BY <1>2 DEF CheckToken
  <2>2. q /\ ~g => r = -1
    <3>1. ASSUME q, ~g PROVE r = -1
      <4>1. ~(clock >= t.expires_at)
        BY <3>1 DEF AuthInv, TokenRec
      <4> QED BY <3>1, <4>1 DEF token_verify, hmac_verify
    <3> QED BY <3>1
  <2> HIDE DEF r, g, q
  <2>3. DamageIsTold'
    BY <2>1, <2>2 DEF DamageIsTold
  <2> QED BY <2>1, <2>3 DEF AuthInv, CtxOK
<1> QED BY <1>1, <1>2

\* The switches, the rotation and the limit of one context.
LEMMA ContextStep ==
  ASSUME AuthInv, NEW e \in Ends,
         \/ Sign(e) \/ RotateKey(e)
         \/ \E n \in {0, 1} : SetRateLimit(e, n)
         \/ \E on \in BOOLEAN : SetStrictOrdering(e, on) \/ SetTimestampCheck(e, on)
  PROVE  AuthInv'
<1>0. CtxOK(ctx[e], clock) /\ ctx[e] \in CtxRec /\ clock \in Nat
  BY DEF AuthInv, CtxOK
<1>1. CASE Sign(e)
  <2>1. CtxOK(RateTaken(ctx[e]), clock)
    BY <1>0, <1>1, RateTakenOK DEF Sign
  <2>2. ctx' = [ctx EXCEPT ![e] = RateTaken(ctx[e])] /\ UNCHANGED <<clock, tokens, verdict>>
    BY <1>1 DEF Sign
  <2> QED BY <2>1, <2>2, CtxStep
<1>2. CASE RotateKey(e)
  <2> DEFINE c == [ctx[e] EXCEPT !.prev_key = ctx[e].master_key, !.master_key = @ + 1]
  <2>1. ctx' = [ctx EXCEPT ![e] = c] /\ UNCHANGED <<clock, tokens, verdict>>
    BY <1>2 DEF RotateKey, AuthInv
  <2>2. /\ c \in CtxRec /\ c.prev_key = ctx[e].master_key /\ c.master_key = ctx[e].master_key + 1
        /\ c.rate_limit = ctx[e].rate_limit /\ c.rate_count = ctx[e].rate_count /\ c.rate_window = ctx[e].rate_window
    BY <1>0, CtxKeys
  <2> HIDE DEF c
  <2>3. CtxOK(c, clock)
    BY <1>0, <2>2 DEF CtxOK, CtxRec
  <2> QED BY <2>1, <2>3, CtxStep
<1>3. ASSUME NEW n \in {0, 1}, SetRateLimit(e, n) PROVE AuthInv'
  <2>1. n \in Nat
    OBVIOUS
  <2>2. ctx' = [ctx EXCEPT ![e] = Limited(ctx[e], n)] /\ UNCHANGED <<clock, tokens, verdict>>
    BY <1>3 DEF SetRateLimit, Limited
  <2>3. CtxOK(Limited(ctx[e], n), clock)
    <3> DEFINE d == Limited(ctx[e], n)
    <3>1. /\ d \in CtxRec /\ d.prev_key = ctx[e].prev_key /\ d.master_key = ctx[e].master_key
          /\ d.rate_limit = n /\ d.rate_count = 0 /\ d.rate_window = 0
      BY <1>0, <2>1, CtxLimit
    <3> QED BY <1>0, <2>1, <3>1 DEF CtxOK, CtxRec
  <2> QED BY <2>2, <2>3, CtxStep
<1>4. ASSUME NEW on \in BOOLEAN, SetStrictOrdering(e, on) \/ SetTimestampCheck(e, on) PROVE AuthInv'
  <2>1. PICK c : /\ ctx' = [ctx EXCEPT ![e] = c]
                 /\ c \in {[ctx[e] EXCEPT !.strict_ordering = on], [ctx[e] EXCEPT !.enable_timestamp_check = on]}
    BY <1>4 DEF SetStrictOrdering, SetTimestampCheck, AuthInv
  <2>2. /\ c \in CtxRec /\ c.prev_key = ctx[e].prev_key /\ c.master_key = ctx[e].master_key
        /\ c.rate_limit = ctx[e].rate_limit /\ c.rate_count = ctx[e].rate_count /\ c.rate_window = ctx[e].rate_window
    BY <1>0, <2>1 DEF CtxRec
  <2>3. CtxOK(c, clock)
    BY <1>0, <2>2 DEF CtxOK
  <2> QED BY <1>4, <2>1, <2>3, CtxStep DEF SetStrictOrdering, SetTimestampCheck
<1> QED BY <1>1, <1>2, <1>3, <1>4

LEMMA AuthInitHolds == AuthInit => AuthInv
<1> SUFFICES ASSUME AuthInit PROVE AuthInv
  OBVIOUS
<1>1. CtxOK(verify_init(1), 1)
  BY DEF verify_init, CtxOK, CtxRec
<1> QED BY <1>1 DEF AuthInit, AuthInv, NoVerdict, DamageIsTold

LEMMA AuthStep == AuthInv /\ [AuthNext]_authVars => AuthInv'
<1> SUFFICES ASSUME AuthInv, [AuthNext]_authVars PROVE AuthInv'
  OBVIOUS
<1>1. ASSUME UNCHANGED <<ctx, clock, verdict>>, tokens' \subseteq TokenRec PROVE AuthInv'
  BY <1>1 DEF AuthInv, CtxOK, DamageIsTold
<1>2. CASE SecondPasses
  BY <1>2 DEF SecondPasses, AuthInv, CtxOK, CtxRec, DamageIsTold
<1>3. ASSUME NEW e \in Ends, \/ \E m \in wire : Check(e, m)
                             \/ \E t \in tokens : CheckToken(e, t)
      PROVE AuthInv'
  BY <1>3, CheckAnswers
<1>4. CASE Lose \/ UNCHANGED authVars
  BY <1>1, <1>4 DEF Lose, authVars, AuthInv
<1>5. CASE Damage
  <2>1. \A t \in TokenRec : [t EXCEPT !.intact = FALSE] \in TokenRec
    BY DEF TokenRec
  <2>2. tokens' \subseteq TokenRec
    BY <1>5, <2>1 DEF Damage, AuthInv
  <2> QED BY <1>1, <1>5, <2>2 DEF Damage
<1>6. ASSUME NEW e \in Ends, NEW v \in {1}, IssueToken(e, v) PROVE AuthInv'
  <2>1. clock + v \in Nat /\ ctx[e].master_key \in Nat
    BY DEF AuthInv, CtxOK, CtxRec
  <2>2. tokens' \subseteq TokenRec
    <3>1. [expires_at |-> clock + v, key |-> ctx[e].master_key, intact |-> TRUE] \in TokenRec
      BY <2>1 DEF TokenRec
    <3> QED BY <1>6, <3>1 DEF IssueToken, AuthInv
  <2> QED BY <1>1, <1>6, <2>2 DEF IssueToken
<1> QED BY <1>2, <1>3, <1>4, <1>5, <1>6, ContextStep DEF AuthNext

LEMMA AuthInvSafe == AuthInv => AuthSafe
BY DEF AuthInv, AuthSafe, AuthTypeOK, CtxOK

(***************************************************************************)
(* Facts about numbers, sets and sequences.                                *)
(***************************************************************************)
LEMMA TimesOrder ==
  ASSUME NEW c \in Nat, NEW x \in Int, NEW y \in Int, x =< y
  PROVE  c * x =< c * y
<1>1. PICK d \in Nat : y = x + d
  <2>1. y - x \in Nat /\ y = x + (y - x)
    OBVIOUS
  <2> QED BY <2>1
<1>2. c * y = c * x + c * d /\ c * d \in Nat
  BY <1>1
<1> QED BY <1>2

LEMMA TimesSplit ==
  ASSUME NEW c \in Nat, NEW x \in Int, NEW y \in Int, NEW z \in Int
  PROVE  c * (x - z) = c * (y - z) + (x - y) * c
OBVIOUS

\* A set of numbers that is not empty has a least one.
LEMMA LeastExists ==
  ASSUME NEW K \in SUBSET Nat, K # {}
  PROVE  \E k \in K : \A j \in K : k =< j
<1>1. IsWellFoundedOn(OpToRel(<, Nat), Nat)
  BY NatLessThanWellFounded
<1>2. PICK k \in K : \A j \in K : ~ (<<j, k>> \in OpToRel(<, Nat))
  BY <1>1, WFMin
<1>3. \A i, j \in Nat : i < j => <<i, j>> \in OpToRel(<, Nat)
  BY Zenon DEF OpToRel
<1>4. \A j \in K : ~ (j < k)
  BY <1>2, <1>3, Zenon
<1>5. \A j \in K : k =< j
  BY <1>4
<1> QED BY <1>5

\* Remainders, for the rings.
LEMMA DivMod ==
  ASSUME NEW a \in Nat, NEW b \in Nat \ {0}
  PROVE  a = (a \div b) * b + (a % b) /\ a % b \in 0 .. b - 1 /\ a \div b \in Nat
OBVIOUS

LEMMA ModOf ==
  ASSUME NEW q \in Nat, NEW b \in Nat \ {0}, NEW r \in 0 .. b - 1
  PROVE  (q * b + r) % b = r
OBVIOUS

LEMMA ModAdd ==
  ASSUME NEW a \in Nat, NEW c \in Nat, NEW b \in Nat \ {0}
  PROVE  ((a % b) + c) % b = (a + c) % b
<1> DEFINE q == a \div b
           r == a % b
           p == (r + c) \div b
           s == (r + c) % b
<1>1. a = q * b + r /\ r \in 0 .. b - 1 /\ q \in Nat
  BY DivMod
<1>2. r + c \in Nat
  BY <1>1
<1> HIDE DEF q, r
<1>3. r + c = p * b + s /\ s \in 0 .. b - 1 /\ p \in Nat
  BY <1>2, DivMod
<1> HIDE DEF p, s
<1> DEFINE m == q + p
<1>4. a + c = m * b + s /\ m \in Nat
  BY <1>1, <1>3
<1> HIDE DEF m
<1>5. (m * b + s) % b = s
  BY <1>3, <1>4, ModOf
<1>6. (a + c) % b = s
  BY <1>4, <1>5
<1> QED BY <1>6 DEF s, r

LEMMA ModNear ==
  ASSUME NEW a \in Nat, NEW c \in Nat, NEW b \in Nat \ {0}, a < c, c - a < b
  PROVE  a % b # c % b
<1> DEFINE q == a \div b
           r == a % b
           p == c \div b
<1> SUFFICES ASSUME r = c % b PROVE FALSE
  OBVIOUS
<1>1. a = q * b + r /\ r \in 0 .. b - 1 /\ q \in Nat
  BY DivMod
<1>2. c = p * b + r /\ p \in Nat
  BY DivMod
<1> HIDE DEF q, r, p
<1>3. CASE p =< q
  BY <1>1, <1>2, <1>3
<1>4. CASE q < p
  <2>1. q + 1 =< p
    BY <1>1, <1>2, <1>4
  <2>2. (q + 1) * b =< p * b
    BY <1>1, <1>2, <2>1
  <2>3. q * b + b =< p * b
    BY <1>1, <2>2
  <2> QED BY <1>1, <1>2, <2>3
<1> QED BY <1>1, <1>2, <1>3, <1>4

LEMMA ModSmall ==
  ASSUME NEW b \in Nat \ {0}, NEW r \in 0 .. b - 1
  PROVE  r % b = r
<1>1. r = 0 * b + r
  OBVIOUS
<1> QED BY <1>1, ModOf

\* A range that is a multiple of the ring is the ring many times over.
LEMMA ModModulo ==
  ASSUME NEW n \in Nat, NEW R \in Nat \ {0}, NEW H \in Nat \ {0}, H % R = 0
  PROVE  (n % H) % R = n % R
<1> DEFINE k == H \div R
           q == n \div H
           h == n % H
           p == h \div R
           s == h % R
<1>1. H = k * R /\ k \in Nat
  BY DivMod
<1>2. n = q * H + h /\ h \in Nat /\ q \in Nat
  BY DivMod
<1> HIDE DEF k, q, h
<1>3. h = p * R + s /\ s \in 0 .. R - 1 /\ p \in Nat
  BY <1>2, DivMod
<1> HIDE DEF p, s
<1>4. q * H = (q * k) * R
  BY <1>1, <1>2
<1>5. n = (q * k + p) * R + s /\ q * k + p \in Nat
  BY <1>1, <1>2, <1>3, <1>4
<1>6. n % R = s
  BY <1>3, <1>5, ModOf
<1> QED BY <1>6 DEF s, h

(***************************************************************************)
(* The rate limits of sm_rate_limit.c.                                     *)
(***************************************************************************)
PidRec    == [pid : Clients, tokens : Nat, last_refill : Nat]
GlobalRec == [tokens : Nat, last_refill : Nat]
Share     == [since : Nat, count : Nat]

\* What a client has had and has left is what its bucket held and gained
\* until its last refill.
EntryOK(b, a, t) ==
    /\ b \in PidRec /\ b.tokens =< PidCapacity /\ b.last_refill =< t
    /\ a.since =< b.last_refill
    /\ a.count + b.tokens =< PidCapacity + PidRefill * (b.last_refill - a.since)

OnePlaceEach(tab) == \A i, j \in DOMAIN tab : tab[i].pid = tab[j].pid => i = j

TableInv ==
    /\ pid_table \in Seq(PidRec) /\ Len(pid_table) =< TableSize
    /\ admitted \in [Clients -> Share]
    /\ OnePlaceEach(pid_table)
    /\ \A i \in DOMAIN pid_table : EntryOK(pid_table[i], admitted[pid_table[i].pid], now)

\* The same for the global bucket and all requests.
GlobalInv ==
    /\ now \in Nat /\ charged \in Nat
    /\ g_tokens \in GlobalRec /\ g_tokens.tokens =< GlobalCapacity /\ g_tokens.last_refill =< now
    /\ charged + g_tokens.tokens =< GlobalCapacity + GlobalRefill * g_tokens.last_refill

LEMMA GlobalRefilled ==
  ASSUME GlobalInv
  PROVE  /\ Global \in GlobalRec /\ Global.tokens =< GlobalCapacity /\ Global.last_refill = now
         /\ charged + Global.tokens =< GlobalCapacity + GlobalRefill * now
<1> DEFINE gain == (now - g_tokens.last_refill) * GlobalRefill
           left == Least(g_tokens.tokens + gain, GlobalCapacity)
<1>0. /\ now \in Nat /\ g_tokens \in GlobalRec /\ g_tokens.tokens \in Nat /\ g_tokens.last_refill \in Nat
      /\ GlobalCapacity \in Nat /\ GlobalRefill \in Nat /\ charged \in Nat /\ g_tokens.last_refill =< now
  BY GateAssumption DEF GlobalInv, GlobalRec
<1>1. gain \in Nat
  BY <1>0
<1>2. GlobalRefill * (now - 0) = GlobalRefill * (g_tokens.last_refill - 0) + gain
  BY <1>0, TimesSplit
<1>3. /\ GlobalRefill * now = GlobalRefill * g_tokens.last_refill + gain
      /\ GlobalRefill * now \in Nat /\ GlobalRefill * g_tokens.last_refill \in Nat
  BY <1>0, <1>2
<1>4. left \in Nat /\ left =< GlobalCapacity /\ left =< g_tokens.tokens + gain
  BY <1>0, <1>1 DEF Least
<1>5. Global = [g_tokens EXCEPT !.tokens = left, !.last_refill = now]
  BY DEF Global, refill_bucket
<1> HIDE DEF gain, left
<1>6. Global \in GlobalRec /\ Global.tokens = left /\ Global.last_refill = now
  BY <1>0, <1>4, <1>5 DEF GlobalRec
<1> QED BY <1>0, <1>1, <1>3, <1>4, <1>6 DEF GlobalInv

\* Any bucket that was refilled keeps to what it held and gained.
LEMMA BucketRefilled ==
  ASSUME TableInv, now \in Nat, NEW b, NEW a \in Share, EntryOK(b, a, now)
  PROVE  LET c == refill_bucket(b, PidRefill, PidCapacity)
         IN  EntryOK(c, a, now) /\ c.pid = b.pid /\ c.last_refill = now
<1> DEFINE gain == (now - b.last_refill) * PidRefill
           left == Least(b.tokens + gain, PidCapacity)
           c    == refill_bucket(b, PidRefill, PidCapacity)
<1>0. /\ b \in PidRec /\ b.tokens \in Nat /\ b.last_refill \in Nat /\ PidCapacity \in Nat /\ PidRefill \in Nat
      /\ a.since \in Nat /\ a.count \in Nat /\ b.last_refill =< now
  BY GateAssumption DEF EntryOK, PidRec, Share
<1>1. gain \in Nat
  BY <1>0
<1>2. PidRefill * (now - a.since) = PidRefill * (b.last_refill - a.since) + gain
  BY <1>0, TimesSplit
<1>3. left \in Nat /\ left =< PidCapacity /\ left =< b.tokens + gain
  BY <1>0, <1>1 DEF Least
<1>4. c = [b EXCEPT !.tokens = left, !.last_refill = now]
  BY DEF refill_bucket
<1>5. PidRefill * (b.last_refill - a.since) \in Int /\ PidRefill * (now - a.since) \in Int
  BY <1>0
<1> HIDE DEF gain, left, c
<1>6. c \in PidRec /\ c.tokens = left /\ c.last_refill = now /\ c.pid = b.pid
  BY <1>0, <1>3, <1>4 DEF PidRec
<1>7. a.count + left =< PidCapacity + PidRefill * (now - a.since)
  BY <1>0, <1>1, <1>2, <1>3, <1>5 DEF EntryOK
<1> QED BY <1>0, <1>3, <1>6, <1>7 DEF EntryOK, c

\* The slot that is evicted is one of the table.
LEMMA LruInTable ==
  ASSUME pid_table \in Seq(PidRec), pid_table # << >>
  PROVE  Lru \in DOMAIN pid_table
<1> DEFINE T == {pid_table[i].last_refill : i \in DOMAIN pid_table}
<1>0. /\ Len(pid_table) \in Nat \ {0} /\ DOMAIN pid_table = 1 .. Len(pid_table)
      /\ \A i \in DOMAIN pid_table : pid_table[i] \in PidRec
  OBVIOUS
<1>1. /\ DOMAIN pid_table \subseteq Nat /\ DOMAIN pid_table # {}
      /\ \A i \in DOMAIN pid_table : pid_table[i].last_refill \in Nat
  BY <1>0 DEF PidRec
<1>2. T \in SUBSET Nat /\ T # {}
  BY <1>1
<1>3. PICK t \in T : \A u \in T : t =< u
  BY <1>2, LeastExists
<1> DEFINE K == {i \in DOMAIN pid_table : pid_table[i].last_refill = t}
<1>4. K \in SUBSET Nat /\ K # {}
  BY <1>1, <1>3
<1>5. PICK k \in K : \A j \in K : k =< j
  BY <1>4, LeastExists
<1>6. k \in DOMAIN pid_table /\ pid_table[k].last_refill = t
  BY <1>5
<1>7. ASSUME NEW j \in DOMAIN pid_table
      PROVE  \/ pid_table[k].last_refill < pid_table[j].last_refill
             \/ pid_table[k].last_refill = pid_table[j].last_refill /\ k =< j
  <2>1. t =< pid_table[j].last_refill
    BY <1>3
  <2>2. CASE pid_table[j].last_refill = t
    BY <1>5, <1>6, <2>2
  <2>3. CASE pid_table[j].last_refill # t
    BY <1>1, <1>6, <2>1, <2>3
  <2> QED BY <2>2, <2>3
<1> QED BY <1>6, <1>7 DEF Lru

\* The table with an entry for p, wherever it came from.
LEMMA WithEntryTable ==
  ASSUME TableInv, now \in Nat, NEW p \in Clients
  PROVE  LET tab == WithEntry(p)
             k   == PlaceOf(p)
         IN  /\ tab \in Seq(PidRec) /\ Len(tab) =< TableSize /\ OnePlaceEach(tab)
             /\ k \in DOMAIN tab /\ tab[k].pid = p
             /\ tab[k] = IF SlotOf(p) = {} THEN FullBucket(p) ELSE tab[k]
             /\ SlotOf(p) # {} => tab = pid_table
             /\ \A i \in DOMAIN tab \ {k} : i \in DOMAIN pid_table /\ tab[i] = pid_table[i] /\ tab[i].pid # p
<1> DEFINE tab == WithEntry(p)
           k   == PlaceOf(p)
<1>0. TableSize \in Nat \ {0} /\ PidCapacity \in Nat
  BY GateAssumption
<1>1. FullBucket(p) \in PidRec /\ FullBucket(p).pid = p
  BY <1>0 DEF FullBucket, PidRec
<1>2. ASSUME NEW s \in Seq(PidRec), NEW m \in DOMAIN s, s[m].pid = p, OnePlaceEach(s), tab = s
      PROVE  k = m
  BY <1>2 DEF PlaceOf, OnePlaceEach
<1>3. CASE SlotOf(p) # {}
  <2>1. tab = pid_table
    BY <1>3 DEF WithEntry
  <2>2. PICK m \in DOMAIN pid_table : pid_table[m].pid = p
    BY <1>3 DEF SlotOf
  <2>3. k = m
    BY <1>2, <2>1, <2>2 DEF TableInv
  <2> HIDE DEF tab, k
  <2>4. \A i \in DOMAIN tab \ {k} : i \in DOMAIN pid_table /\ tab[i] = pid_table[i] /\ tab[i].pid # p
    BY <2>1, <2>2, <2>3 DEF TableInv, OnePlaceEach
  <2> QED BY <1>3, <2>1, <2>2, <2>3, <2>4 DEF TableInv, tab, k
<1>4. CASE SlotOf(p) = {} /\ Len(pid_table) < TableSize
  <2> DEFINE m == Len(pid_table) + 1
  <2>1. tab = Append(pid_table, FullBucket(p))
    BY <1>4 DEF WithEntry
  <2>2. pid_table \in Seq(PidRec) /\ Len(pid_table) \in Nat /\ DOMAIN pid_table = 1 .. Len(pid_table)
    BY DEF TableInv
  <2> HIDE DEF tab
  <2>3. /\ tab \in Seq(PidRec) /\ Len(tab) = m /\ DOMAIN tab = 1 .. m /\ tab[m] = FullBucket(p)
        /\ \A i \in 1 .. Len(pid_table) : tab[i] = pid_table[i]
    BY <1>1, <2>1, <2>2
  <2>4. \A i \in DOMAIN pid_table : pid_table[i].pid # p
    BY <1>4 DEF SlotOf
  <2>5. OnePlaceEach(tab)
    BY <1>1, <2>2, <2>3, <2>4 DEF TableInv, OnePlaceEach
  <2>6. m \in DOMAIN tab /\ tab[m].pid = p
    BY <1>1, <2>2, <2>3
  <2>7. k = m
    BY <1>2, <2>3, <2>5, <2>6
  <2> HIDE DEF k
  <2>8. \A i \in DOMAIN tab \ {k} : i \in DOMAIN pid_table /\ tab[i] = pid_table[i] /\ tab[i].pid # p
    BY <2>2, <2>3, <2>4, <2>7
  <2>9. Len(tab) =< TableSize
    BY <1>0, <1>4, <2>2, <2>3
  <2> QED BY <1>4, <2>3, <2>5, <2>6, <2>7, <2>8, <2>9 DEF tab, k
<1>5. CASE SlotOf(p) = {} /\ ~(Len(pid_table) < TableSize)
  <2> DEFINE m == Lru
  <2>1. tab = [pid_table EXCEPT ![m] = FullBucket(p)]
    BY <1>5 DEF WithEntry
  <2>2. pid_table \in Seq(PidRec) /\ Len(pid_table) \in Nat /\ DOMAIN pid_table = 1 .. Len(pid_table) /\ Len(pid_table) =< TableSize
    BY DEF TableInv
  <2>3. pid_table # << >>
    BY <1>0, <1>5, <2>2
  <2>4. m \in DOMAIN pid_table
    BY <2>2, <2>3, LruInTable
  <2> HIDE DEF tab, m
  <2>5. /\ tab \in Seq(PidRec) /\ Len(tab) = Len(pid_table) /\ DOMAIN tab = DOMAIN pid_table /\ tab[m] = FullBucket(p)
        /\ \A i \in DOMAIN pid_table \ {m} : tab[i] = pid_table[i]
    BY <1>1, <2>1, <2>2, <2>4
  <2>6. \A i \in DOMAIN pid_table : pid_table[i].pid # p
    BY <1>5 DEF SlotOf
  <2>7. OnePlaceEach(tab)
    BY <1>1, <2>4, <2>5, <2>6 DEF TableInv, OnePlaceEach
  <2>8. k = m
    BY <1>1, <1>2, <2>4, <2>5, <2>7
  <2> HIDE DEF k
  <2>9. \A i \in DOMAIN tab \ {k} : i \in DOMAIN pid_table /\ tab[i] = pid_table[i] /\ tab[i].pid # p
    BY <2>5, <2>6, <2>8
  <2> QED BY <1>1, <1>5, <2>2, <2>4, <2>5, <2>7, <2>8, <2>9 DEF tab, k
<1> QED BY <1>3, <1>4, <1>5

\* The bucket sm_rate_limit_check finds for a client: its own, or a full one
\* for a client that is new to the table.
LEMMA BucketFound ==
  ASSUME TableInv, now \in Nat, NEW p \in Clients
  PROVE  /\ SlotOf(p) # {} => EntryOK(BucketOf(p), admitted[p], now)
         /\ SlotOf(p) = {} => BucketOf(p).tokens = PidCapacity
         /\ BucketOf(p) \in PidRec /\ BucketOf(p).pid = p /\ BucketOf(p).last_refill = now
         /\ BucketOf(p).tokens =< PidCapacity
<1> DEFINE tab == WithEntry(p)
           k   == PlaceOf(p)
           a   == IF SlotOf(p) = {} THEN [since |-> now, count |-> 0] ELSE admitted[p]
<1>0. PidCapacity \in Nat /\ PidRefill \in Nat
  BY GateAssumption
<1>1. /\ k \in DOMAIN tab /\ tab[k].pid = p
      /\ tab[k] = IF SlotOf(p) = {} THEN FullBucket(p) ELSE tab[k]
      /\ SlotOf(p) # {} => tab = pid_table
  BY WithEntryTable
<1>2. BucketOf(p) = refill_bucket(tab[k], PidRefill, PidCapacity)
  BY DEF BucketOf
<1> HIDE DEF tab, k
<1>3. a \in Share
  BY DEF TableInv, Share
<1>4. EntryOK(tab[k], a, now)
  <2>1. CASE SlotOf(p) # {}
    BY <1>1, <2>1 DEF TableInv
  <2>2. CASE SlotOf(p) = {}
    <3>1. FullBucket(p) \in PidRec /\ FullBucket(p).tokens = PidCapacity /\ FullBucket(p).last_refill = now
      BY <1>0 DEF FullBucket, PidRec
    <3>2. a.since = now /\ a.count = 0 /\ PidRefill * (now - now) = 0
      BY <1>0, <2>2
    <3> QED BY <1>0, <1>1, <2>2, <3>1, <3>2 DEF EntryOK
  <2> QED BY <2>1, <2>2
<1>5. EntryOK(BucketOf(p), a, now) /\ BucketOf(p).pid = p /\ BucketOf(p).last_refill = now
  BY <1>1, <1>2, <1>3, <1>4, BucketRefilled
<1>6. ASSUME SlotOf(p) = {} PROVE BucketOf(p).tokens = PidCapacity
  <2>1. /\ tab[k] = [pid |-> p, tokens |-> PidCapacity, last_refill |-> now]
    BY <1>1, <1>6 DEF FullBucket
  <2>2. (now - now) * PidRefill = 0
    BY <1>0
  <2>3. Least(PidCapacity + (now - now) * PidRefill, PidCapacity) = PidCapacity
    BY <1>0, <2>2 DEF Least
  <2>4. BucketOf(p).tokens = Least(PidCapacity + (now - now) * PidRefill, PidCapacity)
    BY <1>2, <2>1 DEF refill_bucket
  <2> QED BY <2>3, <2>4
<1> QED BY <1>5, <1>6 DEF EntryOK

\* A table in which one client's bucket was replaced.
LEMMA EntryReplaced ==
  ASSUME TableInv, now \in Nat, NEW p \in Clients, NEW STATE b, NEW STATE a, a \in Share, b.pid = p,
         EntryOK(b, a, now), admitted' = [admitted EXCEPT ![p] = a], now' = now,
         pid_table' = [WithEntry(p) EXCEPT ![PlaceOf(p)] = b]
  PROVE  TableInv'
<1> DEFINE tab == WithEntry(p)
           k   == PlaceOf(p)
<1>1. /\ tab \in Seq(PidRec) /\ Len(tab) =< TableSize /\ OnePlaceEach(tab)
      /\ k \in DOMAIN tab /\ tab[k].pid = p
      /\ \A i \in DOMAIN tab \ {k} : i \in DOMAIN pid_table /\ tab[i] = pid_table[i] /\ tab[i].pid # p
  BY WithEntryTable
<1> HIDE DEF tab, k
<1>2. b \in PidRec
  BY DEF EntryOK
<1>3. /\ pid_table' \in Seq(PidRec) /\ Len(pid_table') = Len(tab) /\ DOMAIN pid_table' = DOMAIN tab /\ pid_table'[k] = b
      /\ \A i \in DOMAIN tab \ {k} : pid_table'[i] = tab[i]
  BY <1>1, <1>2 DEF tab, k
<1>4. /\ admitted' \in [Clients -> Share] /\ admitted'[p] = a
      /\ \A q \in Clients \ {p} : admitted'[q] = admitted[q]
  BY DEF TableInv
<1>5. OnePlaceEach(pid_table')
  BY <1>1, <1>3 DEF OnePlaceEach
<1>6. ASSUME NEW i \in DOMAIN pid_table' PROVE EntryOK(pid_table'[i], admitted'[pid_table'[i].pid], now)
  <2>1. CASE i = k
    BY <1>3, <1>4, <2>1
  <2>2. CASE i # k
    <3>1. i \in DOMAIN pid_table /\ pid_table'[i] = pid_table[i] /\ pid_table[i].pid # p
      BY <1>1, <1>3, <2>2
    <3>2. EntryOK(pid_table[i], admitted[pid_table[i].pid], now) /\ pid_table[i].pid \in Clients
      BY <3>1 DEF TableInv, EntryOK, PidRec
    <3> QED BY <1>4, <3>1, <3>2
  <2> QED BY <2>1, <2>2
<1>7. \A i \in DOMAIN pid_table' : EntryOK(pid_table'[i], admitted'[pid_table'[i].pid], now')
  BY <1>6
<1>8. Len(pid_table') =< TableSize
  BY <1>1, <1>3
<1> QED BY <1>3, <1>4, <1>5, <1>7, <1>8 DEF TableInv, OnePlaceEach

LEMMA PassKeepsLimits ==
  ASSUME TableInv, GlobalInv, NEW p \in Clients, sm_rate_limit_pass(p), now' = now
  PROVE  TableInv' /\ GlobalInv'
<1>0. now \in Nat /\ PidCapacity \in Nat /\ PidRefill \in Nat /\ charged \in Nat
  BY GateAssumption DEF GlobalInv
<1>1. /\ Global \in GlobalRec /\ Global.tokens =< GlobalCapacity /\ Global.last_refill = now
      /\ charged + Global.tokens =< GlobalCapacity + GlobalRefill * now
  BY GlobalRefilled
<1>2. GlobalInv'
  <2>1. Global.tokens \in Nat /\ Global.tokens >= 1
    BY <1>1 DEF sm_rate_limit_pass, GlobalRec
  <2>2. g_tokens' \in GlobalRec /\ g_tokens'.tokens = Global.tokens - 1 /\ g_tokens'.last_refill = now
    BY <1>1, <2>1 DEF sm_rate_limit_pass, GlobalRec
  <2>3. charged' = charged + 1
    BY DEF sm_rate_limit_pass
  <2>4. GlobalCapacity \in Nat /\ GlobalRefill * now \in Nat
    BY <1>0, GateAssumption
  <2> QED BY <1>0, <1>1, <2>1, <2>2, <2>3, <2>4 DEF GlobalInv
<1> DEFINE c == BucketOf(p)
           b == [c EXCEPT !.tokens = @ - 1]
           a == IF SlotOf(p) = {} THEN [since |-> now, count |-> 1] ELSE [since |-> admitted[p].since, count |-> admitted[p].count + 1]
<1>3. /\ SlotOf(p) # {} => EntryOK(c, admitted[p], now)
      /\ c \in PidRec /\ c.pid = p /\ c.last_refill = now
      /\ c.tokens =< PidCapacity /\ c.tokens >= 1 /\ c.tokens \in Nat
  BY <1>0, BucketFound DEF sm_rate_limit_pass, PidRec
<1>4. admitted' = [admitted EXCEPT ![p] = a] /\ pid_table' = [WithEntry(p) EXCEPT ![PlaceOf(p)] = b]
  <2>1. pid_table' = [WithEntry(p) EXCEPT ![PlaceOf(p)] = b]
    BY DEF sm_rate_limit_pass
  <2>2. p \in DOMAIN admitted
    BY DEF TableInv
  <2>3. admitted' = [admitted EXCEPT ![p] = a]
    <3> HIDE DEF c, b
    <3>1. CASE SlotOf(p) = {}
      BY <2>2, <3>1 DEF sm_rate_limit_pass
    <3>2. CASE SlotOf(p) # {}
      BY <2>2, <3>2 DEF sm_rate_limit_pass
    <3> QED BY <3>1, <3>2
  <2> QED BY <2>1, <2>3
<1> HIDE DEF c
<1>5. b \in PidRec /\ b.pid = p /\ b.last_refill = now /\ b.tokens = c.tokens - 1
  BY <1>3 DEF PidRec
<1> HIDE DEF b
<1>6. a \in Share /\ EntryOK(b, a, now)
  <2>1. CASE SlotOf(p) = {}
    <3>1. a \in Share /\ a.since = now /\ a.count = 1 /\ PidRefill * (now - now) = 0
      BY <1>0, <2>1 DEF Share
    <3> QED BY <1>0, <1>3, <1>5, <3>1 DEF EntryOK
  <2>2. CASE SlotOf(p) # {}
    <3>1. admitted[p] \in Share
      BY DEF TableInv
    <3>2. a \in Share /\ a.since = admitted[p].since /\ a.count = admitted[p].count + 1
      BY <2>2, <3>1 DEF Share
    <3>3. /\ admitted[p].since =< now
          /\ admitted[p].count + c.tokens =< PidCapacity + PidRefill * (now - admitted[p].since)
      BY <1>3, <2>2 DEF EntryOK
    <3>4. admitted[p].count \in Nat /\ admitted[p].since \in Nat /\ PidRefill * (now - admitted[p].since) \in Int
      BY <1>0, <3>1 DEF Share
    <3>5. a.count + b.tokens =< PidCapacity + PidRefill * (b.last_refill - a.since)
      BY <1>0, <1>3, <1>5, <3>2, <3>3, <3>4
    <3> QED BY <1>0, <1>3, <1>5, <3>2, <3>3, <3>5 DEF EntryOK
  <2> QED BY <2>1, <2>2
<1> HIDE DEF a
<1>7. TableInv'
  BY <1>0, <1>4, <1>5, <1>6, EntryReplaced
<1> QED BY <1>2, <1>7

LEMMA RefuseKeepsLimits ==
  ASSUME TableInv, GlobalInv, NEW p \in Clients, sm_rate_limit_refuse(p), now' = now
  PROVE  TableInv' /\ GlobalInv'
<1>0. now \in Nat /\ PidCapacity \in Nat \ {0} /\ charged \in Nat
  BY GateAssumption DEF GlobalInv
<1>1. /\ Global \in GlobalRec /\ Global.tokens =< GlobalCapacity /\ Global.last_refill = now
      /\ charged + Global.tokens =< GlobalCapacity + GlobalRefill * now
  BY GlobalRefilled
<1>2. GlobalInv'
  BY <1>0, <1>1 DEF sm_rate_limit_refuse, GlobalInv
<1>3. CASE Global.tokens < 1
  <2>1. UNCHANGED <<pid_table, admitted, now>>
    BY <1>3 DEF sm_rate_limit_refuse
  <2> QED BY <1>2, <2>1 DEF TableInv, OnePlaceEach, EntryOK
<1>4. CASE ~(Global.tokens < 1)
  <2> DEFINE c == BucketOf(p)
  <2>1. c.tokens < 1 /\ UNCHANGED admitted /\ pid_table' = [WithEntry(p) EXCEPT ![PlaceOf(p)] = c]
    BY <1>4 DEF sm_rate_limit_refuse
  <2>2. /\ SlotOf(p) # {} => EntryOK(c, admitted[p], now)
        /\ SlotOf(p) = {} => c.tokens = PidCapacity
        /\ c \in PidRec /\ c.pid = p
    BY <1>0, BucketFound
  <2> HIDE DEF c
  <2>3. SlotOf(p) # {}
    BY <1>0, <2>1, <2>2
  <2>4. admitted[p] \in Share /\ admitted' = [admitted EXCEPT ![p] = admitted[p]]
    BY <2>1 DEF TableInv
  <2>5. TableInv'
    BY <1>0, <2>1, <2>2, <2>3, <2>4, EntryReplaced
  <2> QED BY <1>2, <2>5
<1> QED BY <1>3, <1>4

\* The clock only goes forward.
LEMMA LimitsAge ==
  ASSUME TableInv, GlobalInv, now' \in Nat, now =< now', UNCHANGED <<g_tokens, pid_table, charged, admitted>>
  PROVE  TableInv' /\ GlobalInv'
<1>1. GlobalInv'
  BY DEF GlobalInv, GlobalRec
<1>2. ASSUME NEW i \in DOMAIN pid_table PROVE EntryOK(pid_table[i], admitted[pid_table[i].pid], now)'
  BY DEF TableInv, EntryOK, PidRec, GlobalInv
<1>3. TableInv'
  BY <1>2 DEF TableInv, OnePlaceEach
<1> QED BY <1>1, <1>3

LEMMA LimitsFollow == TableInv /\ GlobalInv => LimitsHold
<1> SUFFICES ASSUME TableInv, GlobalInv PROVE LimitsHold
  OBVIOUS
<1>0. /\ now \in Nat /\ GlobalRefill \in Nat /\ PidRefill \in Nat /\ GlobalCapacity \in Nat /\ PidCapacity \in Nat /\ charged \in Nat
  BY GateAssumption DEF GlobalInv
<1>1. charged =< GlobalCapacity + GlobalRefill * now
  <2>1. g_tokens.last_refill \in Nat /\ g_tokens.tokens \in Nat
    BY DEF GlobalInv, GlobalRec
  <2>2. GlobalRefill * g_tokens.last_refill =< GlobalRefill * now
    BY <1>0, <2>1, TimesOrder DEF GlobalInv
  <2>3. GlobalRefill * g_tokens.last_refill \in Nat /\ GlobalRefill * now \in Nat
    BY <1>0, <2>1
  <2> QED BY <1>0, <2>1, <2>2, <2>3 DEF GlobalInv
<1>2. ASSUME NEW i \in DOMAIN pid_table
      PROVE  admitted[pid_table[i].pid].count =< PidCapacity + PidRefill * (now - admitted[pid_table[i].pid].since)
  <2> DEFINE b == pid_table[i]
             a == admitted[b.pid]
  <2>1. EntryOK(b, a, now) /\ b \in PidRec
    BY DEF TableInv, EntryOK
  <2>2. a \in Share
    BY <2>1 DEF TableInv, PidRec
  <2> HIDE DEF a, b
  <2>3. b.last_refill \in Nat /\ b.tokens \in Nat /\ a.since \in Nat /\ a.count \in Nat
    BY <2>1, <2>2 DEF PidRec, Share
  <2>4. b.last_refill - a.since =< now - a.since
    BY <1>0, <2>1, <2>3 DEF EntryOK
  <2>5. PidRefill * (b.last_refill - a.since) =< PidRefill * (now - a.since)
    BY <1>0, <2>3, <2>4, TimesOrder
  <2>6. PidRefill * (b.last_refill - a.since) \in Int /\ PidRefill * (now - a.since) \in Int
    BY <1>0, <2>3
  <2>7. a.count =< PidCapacity + PidRefill * (now - a.since)
    BY <1>0, <2>1, <2>3, <2>5, <2>6 DEF EntryOK
  <2> QED BY <2>7 DEF a, b
<1> QED BY <1>1, <1>2 DEF LimitsHold, TableInv, OnePlaceEach

(***************************************************************************)
(* The penalty box of sm_advanced_ratelimit.c, its per-service buckets, and*)
(* what the workers of sm_handle_client hold.                              *)
(***************************************************************************)
PenaltyRec == [violations : Nat, window_start : Int, ban_until : Int]

PenaltyOK(q, t) ==
    /\ q \in PenaltyRec /\ q.violations < Threshold
    /\ -1 =< q.window_start /\ q.window_start =< t /\ q.ban_until =< t + Duration
    /\ q.violations > 0 => q.window_start \in 0 .. t

Boxed(box) == IsFiniteSet(DOMAIN box) /\ Cardinality(DOMAIN box) =< BoxSize

PenaltyInv == Boxed(penalties) /\ \A k \in DOMAIN penalties : PenaltyOK(penalties[k], now)

\* A request that is past "receive" passed every check.
InWork == {r \in [stage : {"receive", "limit", "violation", "box", "handle"}, msg : Messages] :
             r.stage # "receive" => FirstFailed(r.msg) = "passed"}

RequestInv == request \in [GateWorkers -> {NoRequest} \cup InWork]

\* Inductive for the gate: see LimitsHold, BansFollowRules and ReachedIsValid
\* for what it implies.
GateInv ==
    /\ TableInv /\ GlobalInv /\ PenaltyInv /\ Boxed(buckets) /\ RequestInv
    /\ reached = {}

LEMMA CountedKeeps ==
  ASSUME now \in Nat, NEW q, PenaltyOK(q, now)
  PROVE  PenaltyOK(Counted(q), now)
<1> DEFINE r == IF q.window_start = -1 \/ now - q.window_start > Window
                THEN [q EXCEPT !.violations = 0, !.window_start = now] ELSE q
<1>0. Threshold \in Nat \ {0} /\ Window \in Nat /\ Duration \in Nat
  BY GateAssumption
<1>1. /\ r \in PenaltyRec /\ r.violations < Threshold /\ r.ban_until =< now + Duration
      /\ r.window_start \in 0 .. now
  <2>1. CASE q.window_start = -1 \/ now - q.window_start > Window
    <3> DEFINE z == [q EXCEPT !.violations = 0]
    <3>1. r = [z EXCEPT !.window_start = now]
      BY <2>1
    <3>2. q \in PenaltyRec
      BY DEF PenaltyOK
    <3>4. z \in PenaltyRec /\ z.violations = 0 /\ z.ban_until = q.ban_until
      BY <3>2 DEF PenaltyRec
    <3> HIDE DEF r, z
    <3>3. r \in PenaltyRec /\ r.violations = 0 /\ r.window_start = now /\ r.ban_until = q.ban_until
      BY <3>1, <3>4 DEF PenaltyRec
    <3> QED BY <1>0, <3>3 DEF PenaltyOK
  <2>2. CASE ~(q.window_start = -1 \/ now - q.window_start > Window)
    <3>1. r = q
      BY <2>2
    <3>2. q \in PenaltyRec /\ q.window_start # -1 /\ -1 =< q.window_start /\ q.window_start =< now
      BY <2>2 DEF PenaltyOK
    <3>3. q.window_start \in Int
      BY <3>2 DEF PenaltyRec
    <3>4. q.window_start \in 0 .. now
      BY <3>2, <3>3
    <3> HIDE DEF r
    <3> QED BY <3>1, <3>2, <3>4 DEF PenaltyOK
  <2> QED BY <2>1, <2>2
<1>2. Counted(q) = IF r.violations + 1 >= Threshold
                   THEN [violations |-> 0, window_start |-> -1, ban_until |-> now + Duration]
                   ELSE [r EXCEPT !.violations = @ + 1]
  BY DEF Counted
<1> HIDE DEF r
<1>3. CASE r.violations + 1 >= Threshold
  <2>1. Counted(q) = [violations |-> 0, window_start |-> -1, ban_until |-> now + Duration]
    BY <1>2, <1>3
  <2> QED BY <1>0, <2>1 DEF PenaltyOK, PenaltyRec
<1>4. CASE ~(r.violations + 1 >= Threshold)
  <2>1. Counted(q) = [r EXCEPT !.violations = @ + 1]
    BY <1>2, <1>4
  <2>2. /\ Counted(q) \in PenaltyRec /\ Counted(q).violations = r.violations + 1
        /\ Counted(q).window_start = r.window_start /\ Counted(q).ban_until = r.ban_until
    BY <1>1, <2>1 DEF PenaltyRec
  <2>3. r.violations \in Nat /\ r.violations + 1 < Threshold
    BY <1>0, <1>1, <1>4 DEF PenaltyRec
  <2> QED BY <1>0, <1>1, <2>2, <2>3 DEF PenaltyOK
<1> QED BY <1>3, <1>4

LEMMA NoPenaltyOK ==
  ASSUME now \in Nat
  PROVE  PenaltyOK(NoPenalty, now)
BY GateAssumption DEF NoPenalty, PenaltyOK, PenaltyRec

\* One more key, where the array has room.
LEMMA BoxGrows ==
  ASSUME NEW S, NEW k, IsFiniteSet(S), k \in S \/ Cardinality(S) < BoxSize, Cardinality(S) =< BoxSize
  PROVE  IsFiniteSet(S \cup {k}) /\ Cardinality(S \cup {k}) =< BoxSize
<1>1. Cardinality(S) \in Nat /\ BoxSize \in Nat
  BY FS_CardinalityType, GateAssumption
<1>2. /\ IsFiniteSet(S \cup {k})
      /\ Cardinality(S \cup {k}) = IF k \in S THEN Cardinality(S) ELSE Cardinality(S) + 1
  BY FS_AddElement
<1> QED BY <1>1, <1>2

LEMMA ViolationKeeps ==
  ASSUME now \in Nat, NEW box, Boxed(box), \A j \in DOMAIN box : PenaltyOK(box[j], now), NEW k
  PROVE  LET new == _record_violation(box, k)
         IN  Boxed(new) /\ \A j \in DOMAIN new : PenaltyOK(new[j], now)
<1> DEFINE new == _record_violation(box, k)
<1>1. CASE k \in DOMAIN box
  <2>1. new = [box EXCEPT ![k] = Counted(box[k])]
    BY <1>1 DEF _record_violation
  <2>2. PenaltyOK(Counted(box[k]), now)
    BY <1>1, CountedKeeps
  <2> HIDE DEF new
  <2>3. DOMAIN new = DOMAIN box /\ \A j \in DOMAIN box : new[j] = IF j = k THEN Counted(box[k]) ELSE box[j]
    BY <2>1
  <2>4. \A j \in DOMAIN new : PenaltyOK(new[j], now)
    BY <2>2, <2>3
  <2> QED BY <2>3, <2>4 DEF Boxed, new
<1>2. CASE k \notin DOMAIN box /\ Cardinality(DOMAIN box) >= BoxSize
  <2>1. new = box
    BY <1>2 DEF _record_violation
  <2> QED BY <2>1
<1>3. CASE k \notin DOMAIN box /\ ~(Cardinality(DOMAIN box) >= BoxSize)
  <2>1. new = [j \in DOMAIN box \cup {k} |-> IF j = k THEN Counted(NoPenalty) ELSE box[j]]
    BY <1>3 DEF _record_violation
  <2>2. PenaltyOK(Counted(NoPenalty), now)
    BY CountedKeeps, NoPenaltyOK
  <2> HIDE DEF new
  <2>3. DOMAIN new = DOMAIN box \cup {k} /\ \A j \in DOMAIN box \cup {k} : new[j] = IF j = k THEN Counted(NoPenalty) ELSE box[j]
    BY <2>1
  <2>4. Cardinality(DOMAIN box) < BoxSize
    BY <1>3, FS_CardinalityType, GateAssumption DEF Boxed
  <2>5. IsFiniteSet(DOMAIN box \cup {k}) /\ Cardinality(DOMAIN box \cup {k}) =< BoxSize
    BY <2>4, BoxGrows DEF Boxed
  <2>6. \A j \in DOMAIN new : PenaltyOK(new[j], now)
    BY <2>2, <2>3
  <2> QED BY <2>3, <2>5, <2>6 DEF Boxed, new
<1> QED BY <1>1, <1>2, <1>3

LEMMA ReleasedKeeps ==
  ASSUME now \in Nat, PenaltyInv, NEW k
  PROVE  Boxed(Released(k)) /\ \A j \in DOMAIN Released(k) : PenaltyOK(Released(k)[j], now)
<1>1. CASE k \in DOMAIN penalties /\ penalties[k].ban_until # -1
  <2>1. Released(k) = [penalties EXCEPT ![k] = NoPenalty]
    BY <1>1 DEF Released
  <2>2. DOMAIN Released(k) = DOMAIN penalties /\ \A j \in DOMAIN penalties : Released(k)[j] = IF j = k THEN NoPenalty ELSE penalties[j]
    BY <2>1
  <2> QED BY <2>2, NoPenaltyOK DEF PenaltyInv, Boxed
<1>2. CASE ~(k \in DOMAIN penalties /\ penalties[k].ban_until # -1)
  <2>1. Released(k) = penalties
    BY <1>2 DEF Released
  <2> QED BY <2>1 DEF PenaltyInv
<1> QED BY <1>1, <1>2

\* What passes the checks of sm_handle_client has at most a bad name.
LEMMA PassedIsClean ==
  ASSUME NEW m \in Messages, FirstFailed(m) = "passed", NameIsValid(m)
  PROVE  m.faults = {}
<1> DEFINE failed == {i \in DOMAIN Checks : Checks[i][1] \in m.faults}
<1>1. /\ DOMAIN Checks = 1 .. 6 /\ Checks[4][1] = "fields" /\ Checks[6][1] = "hmac"
      /\ \A i \in 1 .. 6 : Checks[i][2] # "passed"
  BY DEF Checks
<1>2. ASSUME failed # {} PROVE FALSE
  <2>1. failed \in SUBSET Nat
    BY <1>1
  <2>2. PICK k \in failed : \A j \in failed : k =< j
    BY <1>2, <2>1, LeastExists
  <2> DEFINE c == CHOOSE i \in failed : \A j \in failed : i =< j
  <2>3. c \in failed
    BY <2>2
  <2>4. FirstFailed(m) = Checks[c][2]
    BY <1>2 DEF FirstFailed
  <2> HIDE DEF c
  <2>5. c \in 1 .. 6
    BY <1>1, <2>3
  <2> QED BY <1>1, <2>4, <2>5
<1>3. "fields" \notin m.faults /\ "hmac" \notin m.faults
  BY <1>1, <1>2
<1>4. "name" \notin m.faults
  BY DEF NameIsValid
<1>5. m.faults \in {{}} \cup {{f} : f \in Faults}
  BY DEF Messages
<1> QED BY <1>3, <1>4, <1>5 DEF Faults

LEMMA StageKept ==
  ASSUME RequestInv, NEW w \in GateWorkers, NEW s \in {"limit", "violation", "box", "handle"}, Stage(w, s),
         request[w].stage # "none", FirstFailed(request[w].msg) = "passed"
  PROVE  RequestInv'
<1> DEFINE r == [request[w] EXCEPT !.stage = s]
<1>1. request[w] \in InWork
  BY DEF RequestInv, NoRequest
<1>2. r \in InWork
  <2>1. request[w] \in [stage : {"receive", "limit", "violation", "box", "handle"}, msg : Messages]
    BY <1>1 DEF InWork
  <2> HIDE DEF Messages
  <2>2. r \in [stage : {"receive", "limit", "violation", "box", "handle"}, msg : Messages] /\ r.msg = request[w].msg
    BY <2>1
  <2> QED BY <2>2 DEF InWork
<1>3. request' = [request EXCEPT ![w] = r]
  BY DEF Stage, RequestInv
<1> HIDE DEF r
<1> QED BY <1>2, <1>3 DEF RequestInv

LEMMA RequestDone ==
  ASSUME RequestInv, NEW w \in GateWorkers, Done(w)
  PROVE  RequestInv'
BY DEF RequestInv, Done

\* A worker that is past "receive" holds a message that passed.
LEMMA WorkHeld ==
  ASSUME RequestInv, NEW w \in GateWorkers, request[w].stage # "none"
  PROVE  /\ request[w].msg \in Messages /\ request[w].msg.pid \in Clients
         /\ request[w].stage # "receive" => FirstFailed(request[w].msg) = "passed"
<1>1. request[w] \in InWork
  BY DEF RequestInv, NoRequest
<1>2. request[w].msg \in Messages /\ (request[w].stage # "receive" => FirstFailed(request[w].msg) = "passed")
  BY <1>1 DEF InWork
<1> QED BY <1>2 DEF Messages

LEMMA GateInitHolds == GateInit => GateInv
<1> SUFFICES ASSUME GateInit PROVE GateInv
  OBVIOUS
<1>0. /\ GlobalCapacity \in Nat /\ GlobalRefill \in Nat /\ TableSize \in Nat /\ BoxSize \in Nat
  BY GateAssumption
<1>1. GlobalInv
  <2>1. GlobalRefill * 0 = 0
    BY <1>0
  <2>2. g_tokens \in GlobalRec /\ g_tokens.tokens = GlobalCapacity /\ g_tokens.last_refill = 0
    BY <1>0 DEF GateInit, GlobalRec
  <2> QED BY <1>0, <2>1, <2>2 DEF GateInit, GlobalInv
<1>2. TableInv
  <2>1. pid_table = << >> /\ pid_table \in Seq(PidRec) /\ Len(pid_table) = 0 /\ DOMAIN pid_table = {}
    BY DEF GateInit
  <2>2. admitted \in [Clients -> Share]
    BY DEF GateInit, Share
  <2> QED BY <1>0, <2>1, <2>2 DEF TableInv, OnePlaceEach
<1>3. PenaltyInv /\ Boxed(buckets)
  <2>1. DOMAIN penalties = {} /\ DOMAIN buckets = {}
    BY DEF GateInit
  <2> QED BY <1>0, <2>1, FS_EmptySet DEF PenaltyInv, Boxed
<1>4. RequestInv
  BY DEF GateInit, RequestInv
<1> QED BY <1>1, <1>2, <1>3, <1>4 DEF GateInit, GateInv

LEMMA GateStep == GateInv /\ [GateNext]_gateVars => GateInv'
<1> SUFFICES ASSUME GateInv, [GateNext]_gateVars PROVE GateInv'
  OBVIOUS
<1> USE DEF GateInv
<1>0. now \in Nat
  BY DEF GlobalInv
<1>l. ASSUME now' = now, UNCHANGED <<g_tokens, pid_table, charged, admitted>> PROVE TableInv' /\ GlobalInv'
  BY <1>l, <1>0, LimitsAge
<1>p. ASSUME now' = now, UNCHANGED penalties PROVE PenaltyInv'
  BY <1>p DEF PenaltyInv, Boxed
<1>b. ASSUME UNCHANGED buckets PROVE Boxed(buckets)'
  BY <1>b DEF Boxed
<1>1. ASSUME NEW w \in GateWorkers, NEW m \in Messages, Admit(w, m) PROVE GateInv'
  <2>1. m.pid \in Clients
    BY DEF Messages
  <2>2. TableInv' /\ GlobalInv'
    BY <1>1, <2>1, PassKeepsLimits DEF Admit
  <2> DEFINE r == [stage |-> "receive", msg |-> m]
  <2>3. r \in InWork
    BY DEF InWork
  <2>4. RequestInv'
    BY <1>1, <2>3 DEF Admit, RequestInv
  <2> QED BY <1>1, <2>2, <2>4, <1>p, <1>b DEF Admit
<1>2. ASSUME NEW w \in GateWorkers, Receive(w) PROVE GateInv'
  <2>1. RequestInv'
    BY <1>2, StageKept, RequestDone DEF Receive
  <2> QED BY <1>2, <2>1, <1>l, <1>p, <1>b DEF Receive
<1>3. ASSUME NEW w \in GateWorkers, LimitClient(w) PROVE GateInv'
  <2>1. request[w].stage = "limit"
    BY <1>3 DEF LimitClient
  <2>2. request[w].msg.pid \in Clients /\ FirstFailed(request[w].msg) = "passed"
    BY <2>1, WorkHeld
  <2>3. TableInv' /\ GlobalInv'
    BY <1>3, <2>2, PassKeepsLimits DEF LimitClient
  <2>4. RequestInv'
    BY <1>3, <2>1, <2>2, StageKept DEF LimitClient
  <2> QED BY <1>3, <2>3, <2>4, <1>p, <1>b DEF LimitClient
<1>4. ASSUME NEW w \in GateWorkers, LimitExceeded(w) PROVE GateInv'
  <2>1. request[w].stage = "limit"
    BY <1>4 DEF LimitExceeded
  <2>2. request[w].msg.pid \in Clients /\ FirstFailed(request[w].msg) = "passed"
    BY <2>1, WorkHeld
  <2>3. TableInv' /\ GlobalInv'
    BY <1>4, <2>2, RefuseKeepsLimits DEF LimitExceeded
  <2>4. RequestInv'
    BY <1>4, <2>1, <2>2, StageKept DEF LimitExceeded
  <2> QED BY <1>4, <2>3, <2>4, <1>p, <1>b DEF LimitExceeded
<1>5. ASSUME NEW w \in GateWorkers, LimitViolated(w) PROVE GateInv'
  <2>1. PenaltyInv'
    <3> DEFINE new == _record_violation(penalties, <<request[w].msg.pid, request[w].msg.service>>)
    <3>1. penalties' = new /\ now' = now
      BY <1>5 DEF LimitViolated
    <3>2. Boxed(new) /\ \A j \in DOMAIN new : PenaltyOK(new[j], now)
      BY <1>0, ViolationKeeps DEF PenaltyInv
    <3> HIDE DEF new
    <3> QED BY <3>1, <3>2 DEF PenaltyInv, Boxed
  <2>2. RequestInv'
    BY <1>5, RequestDone DEF LimitViolated
  <2> QED BY <1>5, <2>1, <2>2, <1>l, <1>b DEF LimitViolated
<1>6. ASSUME NEW w \in GateWorkers, LimitService(w) PROVE GateInv'
  <2> DEFINE k == <<request[w].msg.pid, request[w].msg.service>>
             rel == Released(k)
             new == _record_violation(rel, k)
  <2>1. request[w].stage = "box" /\ now' = now /\ UNCHANGED <<g_tokens, pid_table, charged, admitted, reached>>
    BY <1>6 DEF LimitService
  <2>2. request[w].msg.pid \in Clients /\ FirstFailed(request[w].msg) = "passed"
    BY <2>1, WorkHeld
  <2>3. Boxed(rel) /\ \A j \in DOMAIN rel : PenaltyOK(rel[j], now)
    BY <1>0, ReleasedKeeps
  <2>4. Boxed(new) /\ \A j \in DOMAIN new : PenaltyOK(new[j], now)
    <3> HIDE DEF rel
    <3> QED BY <1>0, <2>3, ViolationKeeps
  <2>5. \/ Done(w) /\ UNCHANGED <<buckets, penalties>>
        \/ penalties' = rel /\ Stage(w, "handle") /\ UNCHANGED buckets
        \/ buckets' = [buckets EXCEPT ![k] = @ - 1] /\ penalties' = rel /\ Stage(w, "handle")
        \/ penalties' = new /\ Done(w) /\ UNCHANGED buckets
    BY <1>6 DEF LimitService
  <2> HIDE DEF rel, new, k
  <2>6. Boxed(buckets)'
    <3>1. DOMAIN buckets' = DOMAIN buckets
      BY <2>5
    <3> QED BY <3>1 DEF Boxed
  <2>7. PenaltyInv'
    BY <2>1, <2>3, <2>4, <2>5 DEF PenaltyInv, Boxed
  <2>8. RequestInv'
    BY <2>1, <2>2, <2>5, StageKept, RequestDone
  <2> QED BY <2>1, <2>6, <2>7, <2>8, <1>l
<1>7. ASSUME NEW w \in GateWorkers, Handle(w) PROVE GateInv'
  <2>1. request[w].stage = "handle"
    BY <1>7 DEF Handle
  <2>2. request[w].msg \in Messages /\ FirstFailed(request[w].msg) = "passed"
    BY <2>1, WorkHeld
  <2>3. reached' = {}
    BY <1>7, <2>2, PassedIsClean DEF Handle
  <2>4. RequestInv'
    BY <1>7, RequestDone DEF Handle
  <2> QED BY <1>7, <2>3, <2>4, <1>l, <1>p, <1>b DEF Handle
<1>8. ASSUME NEW k \in Key, NEW capacity \in {1}, SetServiceLimit(k, capacity) PROVE GateInv'
  <2>1. DOMAIN buckets' = DOMAIN buckets \cup {k}
    BY <1>8 DEF SetServiceLimit
  <2>2. k \in DOMAIN buckets \/ Cardinality(DOMAIN buckets) < BoxSize
    BY <1>8 DEF SetServiceLimit
  <2>3. Boxed(buckets)'
    BY <2>1, <2>2, BoxGrows DEF Boxed
  <2>4. RequestInv'
    BY <1>8 DEF SetServiceLimit, RequestInv
  <2> QED BY <1>8, <2>3, <2>4, <1>l, <1>p DEF SetServiceLimit
<1>9. ASSUME NEW s \in Services, ResetService(s) PROVE GateInv'
  <2>1. /\ DOMAIN buckets' = DOMAIN buckets /\ DOMAIN penalties' = DOMAIN penalties /\ now' = now
        /\ \A k \in DOMAIN penalties : penalties'[k] \in {NoPenalty, penalties[k]}
    BY <1>9 DEF ResetService
  <2>2. PenaltyInv' /\ Boxed(buckets)'
    BY <1>0, <2>1, NoPenaltyOK DEF PenaltyInv, Boxed
  <2>3. RequestInv'
    BY <1>9 DEF ResetService, RequestInv
  <2> QED BY <1>9, <2>2, <2>3, <1>l DEF ResetService
<1>10. ASSUME NEW p \in Clients, TurnAway(p) PROVE GateInv'
  <2>1. TableInv' /\ GlobalInv'
    BY <1>10, RefuseKeepsLimits DEF TurnAway
  <2>2. RequestInv'
    BY <1>10 DEF TurnAway, RequestInv
  <2> QED BY <1>10, <2>1, <2>2, <1>p, <1>b DEF TurnAway
<1>11. ASSUME ClockTicks PROVE GateInv'
  <2>1. now' \in Nat /\ now =< now'
    BY <1>0, <1>11 DEF ClockTicks
  <2>2. TableInv' /\ GlobalInv'
    BY <1>11, <2>1, LimitsAge DEF ClockTicks
  <2>3. ASSUME NEW q, PenaltyOK(q, now) PROVE PenaltyOK(q, now')
    BY <1>0, <2>1, <2>3, GateAssumption DEF PenaltyOK, PenaltyRec
  <2>4. PenaltyInv' /\ Boxed(buckets)'
    BY <1>11, <2>3 DEF ClockTicks, PenaltyInv, Boxed
  <2>5. RequestInv' /\ UNCHANGED reached
    BY <1>11 DEF ClockTicks, RequestInv
  <2> QED BY <2>2, <2>4, <2>5
<1>12. ASSUME UNCHANGED gateVars PROVE GateInv'
  <2>1. RequestInv' /\ UNCHANGED reached
    BY <1>12 DEF gateVars, RequestInv
  <2> QED BY <1>12, <2>1, <1>l, <1>p, <1>b DEF gateVars
<1> QED BY <1>1, <1>2, <1>3, <1>4, <1>5, <1>6, <1>7, <1>8, <1>9, <1>10, <1>11, <1>12 DEF GateNext

LEMMA GateInvSafe == GateInv => GateSafe
<1> SUFFICES ASSUME GateInv PROVE GateSafe
  OBVIOUS
<1>1. GateTypeOK
  <2>1. /\ g_tokens.tokens \in Nat /\ g_tokens.last_refill \in Nat /\ g_tokens.tokens =< GlobalCapacity
        /\ g_tokens.last_refill =< now
    BY DEF GateInv, GlobalInv, GlobalRec
  <2>2. \A i \in DOMAIN pid_table : pid_table[i].tokens \in Nat /\ pid_table[i].tokens =< PidCapacity
    BY DEF GateInv, TableInv, EntryOK, PidRec
  <2>3. now \in Nat /\ GlobalCapacity \in Nat /\ PidCapacity \in Nat
    BY GateAssumption DEF GateInv, GlobalInv
  <2>4. g_tokens.tokens \in 0 .. GlobalCapacity /\ g_tokens.last_refill \in 0 .. now
    BY <2>1, <2>3
  <2>5. \A i \in DOMAIN pid_table : pid_table[i].tokens \in 0 .. PidCapacity
    BY <2>2, <2>3
  <2>6. Len(pid_table) =< TableSize /\ Cardinality(DOMAIN penalties) =< BoxSize /\ Cardinality(DOMAIN buckets) =< BoxSize
    BY DEF GateInv, TableInv, PenaltyInv, Boxed
  <2> QED BY <2>4, <2>5, <2>6 DEF GateTypeOK
<1>2. LimitsHold
  BY LimitsFollow DEF GateInv
<1>3. BansFollowRules
  BY DEF GateInv, PenaltyInv, PenaltyOK, BansFollowRules
<1> QED BY <1>1, <1>2, <1>3 DEF GateSafe, GateInv, ReachedIsValid

(***************************************************************************)
(* The nonces of sm_replay.c.                                              *)
(***************************************************************************)
\* The ring holds the newest tokens, each at its number modulo the size.
ReplayInv ==
    /\ accepted \in Seq(Stamps)
    /\ DOMAIN g_ring = 0 .. RingSize - 1
    /\ g_ring_head = Len(accepted) % HeadRange
    /\ \A i \in DOMAIN accepted : i > Len(accepted) - RingSize => g_ring[(i - 1) % RingSize] = accepted[i]
    /\ ReplayNeedsEviction

LEMMA ReplayInitHolds == ReplayInit => ReplayInv
<1> SUFFICES ASSUME ReplayInit PROVE ReplayInv
  OBVIOUS
<1>1. accepted = << >> /\ accepted \in Seq(Stamps) /\ Len(accepted) = 0 /\ DOMAIN accepted = {}
  BY DEF ReplayInit
<1>2. 0 % HeadRange = 0
  BY ReplayAssumption, ModSmall
<1>3. DOMAIN g_ring = 0 .. RingSize - 1 /\ g_ring_head = 0
  BY DEF ReplayInit
<1> QED BY <1>1, <1>2, <1>3 DEF ReplayInv, ReplayNeedsEviction

LEMMA AcceptKeeps ==
  ASSUME ReplayInv, NEW tok \in Stamps, Accept(tok)
  PROVE  ReplayInv'
<1> DEFINE n == Len(accepted)
<1>0. RingSize \in Nat \ {0} /\ HeadRange \in Nat \ {0} /\ HeadRange % RingSize = 0
  BY ReplayAssumption
<1>1. /\ accepted \in Seq(Stamps) /\ n \in Nat /\ DOMAIN accepted = 1 .. n
  BY DEF ReplayInv
<1>2. accepted' = Append(accepted, tok)
  BY DEF Accept
<1>3. /\ accepted' \in Seq(Stamps) /\ Len(accepted') = n + 1 /\ DOMAIN accepted' = 1 .. n + 1
      /\ accepted'[n + 1] = tok /\ \A i \in 1 .. n : accepted'[i] = accepted[i]
  BY <1>1, <1>2
<1>h. g_ring_head = n % HeadRange /\ g_ring_head' = (g_ring_head + 1) % HeadRange
  BY DEF Accept, ReplayInv
<1> HIDE DEF n
<1>a. (n % HeadRange) % RingSize = n % RingSize /\ n % RingSize \in 0 .. RingSize - 1
  BY ZenonT(60), <1>0, <1>1, ModModulo, DivMod
<1>4. Slot = n % RingSize /\ Slot \in 0 .. RingSize - 1
  BY <1>h, <1>a DEF Slot
<1>b. ((n % HeadRange) + 1) % HeadRange = (n + 1) % HeadRange
  <2>1. \A c \in Nat : ((n % HeadRange) + c) % HeadRange = (n + c) % HeadRange
    BY <1>0, <1>1, ModAdd
  <2> QED BY <2>1
<1>5. g_ring_head' = (n + 1) % HeadRange
  BY <1>h, <1>b
<1>6. /\ DOMAIN g_ring' = 0 .. RingSize - 1 /\ g_ring'[Slot] = tok
      /\ \A k \in 0 .. RingSize - 1 : k # Slot => g_ring'[k] = g_ring[k]
  BY <1>4 DEF Accept, ReplayInv
<1>7. ASSUME NEW i \in 1 .. n + 1, i > n + 1 - RingSize PROVE g_ring'[(i - 1) % RingSize] = accepted'[i]
  <2>1. CASE i = n + 1
    BY <1>1, <1>3, <1>4, <1>6, <2>1
  <2>2. CASE i # n + 1
    <3>1. i \in 1 .. n /\ i > n - RingSize /\ i - 1 \in Nat /\ i - 1 < n /\ n - (i - 1) < RingSize
      BY <1>0, <1>1, <1>7, <2>2
    <3>2. (i - 1) % RingSize # n % RingSize
      BY <1>0, <1>1, <3>1, ModNear
    <3>3. (i - 1) % RingSize \in 0 .. RingSize - 1
      BY <1>0, <3>1, DivMod
    <3>4. g_ring[(i - 1) % RingSize] = accepted[i]
      BY <1>1, <3>1 DEF ReplayInv, n
    <3> QED BY <1>3, <1>4, <1>6, <3>1, <3>2, <3>3, <3>4
  <2> QED BY <2>1, <2>2
<1>8. ASSUME NEW i \in 1 .. n, accepted[i] = tok, tok.nonce # 0 PROVE n + 1 - i > RingSize
  <2> SUFFICES ASSUME ~(n + 1 - i > RingSize) PROVE FALSE
    OBVIOUS
  <2>1. i > n - RingSize /\ i - 1 \in Nat
    BY <1>0, <1>1
  <2>2. g_ring[(i - 1) % RingSize] = tok
    BY <1>1, <1>8, <2>1 DEF ReplayInv, n
  <2>3. (i - 1) % RingSize \in DOMAIN g_ring
    BY <1>0, <2>1, DivMod DEF ReplayInv
  <2>4. Age(tok.timestamp) =< ReplayWindow
    BY DEF Accept, InTime
  <2>5. Known(tok)
    BY <1>8, <2>2, <2>3, <2>4 DEF Known
  <2> QED BY <2>5 DEF Accept
<1>9. ReplayNeedsEviction'
  <2> SUFFICES ASSUME NEW i \in 1 .. n + 1, NEW j \in 1 .. n + 1, i < j, accepted'[i] = accepted'[j], accepted'[i].nonce # 0
               PROVE  j - i > RingSize
    BY <1>3 DEF ReplayNeedsEviction
  <2>1. i \in 1 .. n
    BY <1>1
  <2>2. CASE j = n + 1
    <3>1. accepted[i] = tok /\ tok.nonce # 0
      BY <1>3, <2>1, <2>2
    <3>2. n + 1 - i > RingSize
      BY <1>8, <2>1, <3>1
    <3> QED BY <1>0, <1>1, <2>2, <3>2
  <2>3. CASE j # n + 1
    <3>1. j \in 1 .. n
      BY <1>1, <2>3
    <3>2. i \in DOMAIN accepted /\ j \in DOMAIN accepted /\ accepted[i] = accepted[j] /\ accepted[i].nonce # 0
      BY <1>1, <1>3, <2>1, <3>1
    <3> QED BY <3>2 DEF ReplayInv, ReplayNeedsEviction
  <2> QED BY <2>2, <2>3
<1>10. \A i \in DOMAIN accepted' : i > Len(accepted') - RingSize => g_ring'[(i - 1) % RingSize] = accepted'[i]
  <2> SUFFICES ASSUME NEW i \in DOMAIN accepted', i > Len(accepted') - RingSize
               PROVE  g_ring'[(i - 1) % RingSize] = accepted'[i]
    OBVIOUS
  <2>1. i \in 1 .. n + 1 /\ i > n + 1 - RingSize
    BY <1>0, <1>1, <1>3
  <2> QED BY <1>7, <2>1
<1>11. g_ring_head' = Len(accepted') % HeadRange
  BY <1>3, <1>5
<1> QED BY <1>3, <1>6, <1>9, <1>10, <1>11 DEF ReplayInv

LEMMA ReplayStep == ReplayInv /\ [ReplayNext]_replayVars => ReplayInv'
<1> SUFFICES ASSUME ReplayInv, [ReplayNext]_replayVars PROVE ReplayInv'
  OBVIOUS
<1>1. ASSUME UNCHANGED <<g_ring, g_ring_head, accepted>> PROVE ReplayInv'
  BY <1>1 DEF ReplayInv, ReplayNeedsEviction
<1>2. CASE \E tok \in Stamps : Accept(tok)
  BY <1>2, AcceptKeeps
<1>3. CASE SetClock
  BY <1>1, <1>3 DEF SetClock
<1>4. CASE UNCHANGED replayVars
  BY <1>1, <1>4 DEF replayVars
<1> QED BY <1>2, <1>3, <1>4 DEF ReplayNext

LEMMA ReplayInvSafe == ReplayInv => ReplaySafe
<1> SUFFICES ASSUME ReplayInv PROVE ReplaySafe
  OBVIOUS
<1>1. Len(accepted) \in Nat
  BY DEF ReplayInv
<1>2. g_ring_head \in 0 .. HeadRange - 1
  BY <1>1, ReplayAssumption, DivMod DEF ReplayInv
<1> QED BY <1>2 DEF ReplayInv, ReplaySafe, ReplayTypeOK

(***************************************************************************)
(* The event bus of sm_eventbus.c.                                         *)
(***************************************************************************)
SubRec == [event_type : Kinds \cup {"*"}, active : BOOLEAN]
PubRec == [at : Nat, event : [id : Nat, kind : Kinds \cup {"none"}], called : SUBSET Nat, delivered : Nat]

\* All of H are still subscribed to what q publishes, in the array ss.
StillWant(q, H, ss) ==
    \A i \in H : i \in DOMAIN ss /\ ss[i].active /\ ss[i].event_type \in {"*", q.event.kind}

Counts(q) == IsFiniteSet(q.called) /\ q.delivered = Cardinality(q.called)

\* A publication that has called up to its place, and one that is about to
\* call the subscriber there.
BehindPlace(q, H, ss) ==
    /\ q \in PubRec /\ Counts(q) /\ StillWant(q, H, ss)
    /\ \A c \in q.called : c =< q.at
    /\ \A i \in H : i =< q.at => i \in q.called

AtPlace(q, H, ss) ==
    /\ q \in PubRec /\ Counts(q) /\ StillWant(q, H, ss)
    /\ q.at \in DOMAIN ss
    /\ \A c \in q.called : c < q.at
    /\ \A i \in H : i < q.at => i \in q.called

SubsInv ==
    /\ subs \in Seq(SubRec) /\ Len(subs) =< MaxSubscribers
    /\ pub \in [Publishers -> PubRec] /\ mayHear \in [Publishers -> SUBSET Nat]
    /\ \A p \in Publishers : pub[p].at # 0 => AtPlace(pub[p], mayHear[p], subs)

\* Until it has filled up, the history is numbered from its first slot on.
HistInv ==
    /\ next_event_id \in Nat
    /\ DOMAIN hist.events = 0 .. HistorySize - 1
    /\ hist.event_count \in 0 .. HistorySize
    /\ hist.event_count < HistorySize => hist.current_idx = hist.event_count
    /\ hist.event_count < HistorySize =>
         \A i \in 0 .. hist.event_count - 1 : hist.events[i + 1].id = next_event_id - hist.event_count + i

BusInv == SubsInv /\ HistInv

LEMMA IdleIsPub == Idle \in PubRec /\ Idle.at = 0 /\ Idle.called = {} /\ Idle.delivered = 0
BY DEF Idle, PubRec, NoEvent

LEMMA NoHistoryHolds ==
  ASSUME hist = NoHistory, next_event_id \in Nat
  PROVE  HistInv
<1>1. HistorySize \in Nat \ {0}
  BY BusAssumption
<1>2. DOMAIN hist.events = 0 .. HistorySize - 1 /\ hist.event_count = 0 /\ hist.current_idx = 0
  BY DEF NoHistory
<1> QED BY <1>1, <1>2 DEF HistInv

LEMMA BusInitHolds == BusInit => BusInv
<1> SUFFICES ASSUME BusInit PROVE BusInv
  OBVIOUS
<1>1. HistInv
  BY NoHistoryHolds DEF BusInit
<1>2. subs \in Seq(SubRec) /\ Len(subs) =< MaxSubscribers
  BY BusAssumption DEF BusInit
<1>3. pub \in [Publishers -> PubRec] /\ (\A p \in Publishers : pub[p].at = 0) /\ mayHear \in [Publishers -> SUBSET Nat]
  BY IdleIsPub DEF BusInit
<1> QED BY <1>1, <1>2, <1>3 DEF BusInv, SubsInv

\* The scan of sm_eventbus_publish stops at the first subscriber behind its
\* place, and passes over none that was there all the time.
LEMMA AdvanceKeeps ==
  ASSUME subs \in Seq(SubRec), pub \in [Publishers -> PubRec], NEW p \in Publishers, NEW STATE q, NEW STATE H,
         BehindPlace(q, H, subs), Advance(p, q)
  PROVE  /\ pub' \in [Publishers -> PubRec]
         /\ \A r \in Publishers \ {p} : pub'[r] = pub[r]
         /\ pub'[p].at # 0 => AtPlace(pub'[p], H, subs)
<1> DEFINE next == {i \in DOMAIN subs : i > q.at /\ Wants(i, q.event.kind)}
           m == CHOOSE i \in next : \A j \in next : i =< j
           new == [q EXCEPT !.at = m]
<1>1. CASE next = {}
  <2>1. pub' = [pub EXCEPT ![p] = Idle]
    BY <1>1 DEF Advance
  <2> QED BY <2>1, IdleIsPub
<1>2. CASE next # {}
  <2>1. pub' = [pub EXCEPT ![p] = new]
    BY <1>2 DEF Advance
  <2>2. next \in SUBSET Nat
    OBVIOUS
  <2>3. \E i \in next : \A j \in next : i =< j
    BY <1>2, <2>2, LeastExists
  <2>4. m \in next /\ \A j \in next : m =< j
    BY <2>3
  <2> HIDE DEF m
  <2>5. m \in DOMAIN subs /\ m \in Nat /\ m > q.at
    BY <2>2, <2>4
  <2>6. q \in PubRec /\ q.at \in Nat
    BY DEF BehindPlace, PubRec
  <2> HIDE DEF m
  <2>7. /\ new \in PubRec /\ new.at = m /\ new.called = q.called /\ new.delivered = q.delivered
        /\ new.event = q.event
    BY <2>5, <2>6 DEF PubRec
  <2> HIDE DEF new
  <2>8. \A c \in q.called : c < m
    <3>1. q.called \subseteq Nat
      BY <2>6 DEF PubRec
    <3> QED BY <2>5, <2>6, <3>1 DEF BehindPlace
  <2>9. ASSUME NEW i \in H, i < m PROVE i \in q.called
    <3>1. i \in DOMAIN subs /\ Wants(i, q.event.kind)
      BY DEF BehindPlace, StillWant, Wants
    <3>2. i \in Nat
      BY <3>1
    <3>3. ~(i > q.at)
      BY <2>4, <2>5, <2>9, <3>1, <3>2
    <3> QED BY <2>6, <3>2, <3>3 DEF BehindPlace
  <2>10. AtPlace(new, H, subs)
    <3>1. Counts(new)
      BY <2>7 DEF BehindPlace, Counts
    <3>2. StillWant(new, H, subs)
      BY <2>7 DEF BehindPlace, StillWant
    <3> QED BY <2>5, <2>7, <2>8, <2>9, <3>1, <3>2 DEF AtPlace
  <2>11. pub'[p] = new /\ pub' \in [Publishers -> PubRec] /\ \A r \in Publishers \ {p} : pub'[r] = pub[r]
    BY <2>1, <2>7
  <2> QED BY <2>10, <2>11
<1> QED BY <1>1, <1>2

LEMMA RecordedKeeps ==
  ASSUME HistInv, NEW k, hist' = Recorded([id |-> next_event_id, kind |-> k]), next_event_id' = next_event_id + 1
  PROVE  HistInv'
<1> DEFINE n == hist.event_count
           e == [id |-> next_event_id, kind |-> k]
           s == (hist.current_idx + 1) % HistorySize
<1>0. HistorySize \in Nat \ {0} /\ n \in Nat /\ n =< HistorySize /\ next_event_id \in Nat
  BY BusAssumption DEF HistInv
<1>1. /\ hist'.events = [hist.events EXCEPT ![s] = e]
      /\ hist'.current_idx = s
      /\ hist'.event_count = IF n < HistorySize THEN n + 1 ELSE n
  BY DEF Recorded
<1>2. DOMAIN hist'.events = 0 .. HistorySize - 1
  BY <1>1 DEF HistInv
<1>3. hist'.event_count \in 0 .. HistorySize
  BY <1>0, <1>1
<1>4. ASSUME hist'.event_count < HistorySize
      PROVE  /\ hist'.current_idx = hist'.event_count
             /\ \A i \in 0 .. hist'.event_count - 1 : hist'.events[i + 1].id = next_event_id' - hist'.event_count + i
  <2>1. n < HistorySize /\ hist'.event_count = n + 1 /\ n + 1 < HistorySize
    BY <1>0, <1>1, <1>4
  <2>2. hist.current_idx = n
    BY <2>1 DEF HistInv
  <2>3. (n + 1) % HistorySize = n + 1
    <3>1. n + 1 \in 0 .. HistorySize - 1
      BY <1>0, <2>1
    <3> QED BY <1>0, <3>1, ModSmall
  <2>4. s = n + 1
    BY <2>2, <2>3
  <2>5. ASSUME NEW i \in 0 .. n PROVE hist'.events[i + 1].id = next_event_id' - (n + 1) + i
    <3>1. CASE i = n
      <4>1. hist'.events[n + 1] = e
        BY <1>0, <1>1, <2>1, <2>4 DEF HistInv
      <4> QED BY <1>0, <3>1, <4>1
    <3>2. CASE i # n
      <4>1. i \in 0 .. n - 1 /\ i + 1 # n + 1 /\ i + 1 \in 0 .. HistorySize - 1
        BY <1>0, <2>1, <3>2
      <4>2. hist'.events[i + 1] = hist.events[i + 1]
        BY <1>1, <2>4, <4>1 DEF HistInv
      <4>3. hist.events[i + 1].id = next_event_id - n + i
        BY <2>1, <4>1 DEF HistInv
      <4> QED BY <1>0, <4>1, <4>2, <4>3
    <3> QED BY <3>1, <3>2
  <2> HIDE DEF n, s
  <2>6. hist'.current_idx = hist'.event_count
    BY <1>1, <2>1, <2>4
  <2>7. ASSUME NEW i \in 0 .. hist'.event_count - 1 PROVE hist'.events[i + 1].id = next_event_id' - hist'.event_count + i
    <3>1. i \in 0 .. n
      BY <1>0, <2>1
    <3> QED BY <2>1, <2>5, <3>1
  <2> QED BY <2>6, <2>7
<1>5. next_event_id' \in Nat
  BY <1>0
<1> QED BY <1>2, <1>3, <1>4, <1>5 DEF HistInv

LEMMA PublishKeeps ==
  ASSUME BusInv, NEW p \in Publishers, NEW k \in Kinds, Publish(p, k)
  PROVE  BusInv'
<1> DEFINE e == [id |-> next_event_id, kind |-> k]
           q == [Idle EXCEPT !.event = e]
           H == {i \in DOMAIN subs : Wants(i, k)}
<1>1. HistInv'
  BY RecordedKeeps DEF Publish, BusInv
<1>2. q \in PubRec /\ q.at = 0 /\ q.called = {} /\ q.delivered = 0 /\ q.event.kind = k
  <2>1. e \in [id : Nat, kind : Kinds \cup {"none"}] /\ e.kind = k
    BY DEF BusInv, HistInv
  <2> HIDE DEF e
  <2> QED BY <2>1 DEF Idle, PubRec, NoEvent
<1>3. Advance(p, q) /\ mayHear' = [mayHear EXCEPT ![p] = H] /\ UNCHANGED subs
  BY DEF Publish
<1>4. H \subseteq Nat /\ \A i \in H : i > 0
  BY DEF BusInv, SubsInv
<1>5. Counts(q)
  BY <1>2, FS_EmptySet DEF Counts
<1> HIDE DEF q
<1>6. StillWant(q, H, subs)
  BY <1>2 DEF StillWant, Wants
<1> HIDE DEF H
<1>7. BehindPlace(q, H, subs)
  BY <1>2, <1>4, <1>5, <1>6 DEF BehindPlace
<1>8. subs \in Seq(SubRec) /\ pub \in [Publishers -> PubRec] /\ mayHear \in [Publishers -> SUBSET Nat]
  BY DEF BusInv, SubsInv
<1>9. /\ pub' \in [Publishers -> PubRec]
      /\ \A r \in Publishers \ {p} : pub'[r] = pub[r]
      /\ pub'[p].at # 0 => AtPlace(pub'[p], H, subs)
  BY <1>3, <1>7, <1>8, AdvanceKeeps
<1>10. mayHear' \in [Publishers -> SUBSET Nat] /\ mayHear'[p] = H /\ \A r \in Publishers \ {p} : mayHear'[r] = mayHear[r]
  BY <1>3, <1>4, <1>8
<1>11. \A r \in Publishers : pub'[r].at # 0 => AtPlace(pub'[r], mayHear'[r], subs')
  BY <1>3, <1>9, <1>10 DEF BusInv, SubsInv
<1> QED BY <1>1, <1>3, <1>9, <1>10, <1>11 DEF BusInv, SubsInv

LEMMA DeliverKeeps ==
  ASSUME BusInv, NEW p \in Publishers, Deliver(p)
  PROVE  BusInv'
<1> DEFINE a == pub[p].at
           z == [pub[p] EXCEPT !.called = pub[p].called \cup {a}]
           q == [z EXCEPT !.delivered = pub[p].delivered + 1]
           H == mayHear[p]
<1>0. subs \in Seq(SubRec) /\ pub \in [Publishers -> PubRec] /\ mayHear \in [Publishers -> SUBSET Nat]
  BY DEF BusInv, SubsInv
<1>1. AtPlace(pub[p], H, subs) /\ pub[p] \in PubRec
  BY DEF Deliver, BusInv, SubsInv, AtPlace
<1>2. Advance(p, q) /\ UNCHANGED <<subs, hist, next_event_id, mayHear>>
  BY DEF Deliver
<1>3. a \in Nat /\ pub[p].called \in SUBSET Nat /\ pub[p].delivered \in Nat
  BY <1>1 DEF PubRec
<1>4. /\ z \in PubRec /\ z.at = a /\ z.called = pub[p].called \cup {a} /\ z.delivered = pub[p].delivered
      /\ z.event = pub[p].event
  BY <1>1, <1>3 DEF PubRec
<1> HIDE DEF z
<1>5. q \in PubRec /\ q.at = a /\ q.called = pub[p].called \cup {a} /\ q.delivered = pub[p].delivered + 1 /\ q.event = pub[p].event
  BY <1>3, <1>4 DEF PubRec
<1> HIDE DEF q, a, H
<1>6. a \notin pub[p].called
  BY <1>1, <1>3 DEF AtPlace, a
<1>7. Counts(q)
  <2>1. IsFiniteSet(pub[p].called) /\ pub[p].delivered = Cardinality(pub[p].called)
    BY <1>1 DEF AtPlace, Counts
  <2>2. IsFiniteSet(pub[p].called \cup {a}) /\ Cardinality(pub[p].called \cup {a}) = Cardinality(pub[p].called) + 1
    BY <1>6, <2>1, FS_AddElement
  <2> QED BY <1>5, <2>1, <2>2 DEF Counts
<1>8. StillWant(q, H, subs)
  BY <1>1, <1>5 DEF AtPlace, StillWant
<1>9. \A c \in q.called : c =< q.at
  BY <1>1, <1>3, <1>5 DEF AtPlace, a
<1>10. \A i \in H : i =< q.at => i \in q.called
  <2>1. H \in SUBSET Nat
    BY <1>0 DEF H
  <2> QED BY <1>1, <1>3, <1>5, <2>1 DEF AtPlace, a
<1>11. BehindPlace(q, H, subs)
  BY <1>5, <1>7, <1>8, <1>9, <1>10 DEF BehindPlace
<1>12. /\ pub' \in [Publishers -> PubRec]
       /\ \A r \in Publishers \ {p} : pub'[r] = pub[r]
       /\ pub'[p].at # 0 => AtPlace(pub'[p], H, subs)
  BY <1>0, <1>2, <1>11, AdvanceKeeps
<1>13. \A r \in Publishers : pub'[r].at # 0 => AtPlace(pub'[r], mayHear'[r], subs')
  BY <1>2, <1>12 DEF BusInv, SubsInv, H
<1>14. HistInv'
  BY <1>2 DEF BusInv, HistInv
<1> QED BY <1>0, <1>2, <1>12, <1>13, <1>14 DEF BusInv, SubsInv

LEMMA BusStep == BusInv /\ [BusNext]_busVars => BusInv'
<1> SUFFICES ASSUME BusInv, [BusNext]_busVars PROVE BusInv'
  OBVIOUS
<1>0. subs \in Seq(SubRec) /\ pub \in [Publishers -> PubRec] /\ mayHear \in [Publishers -> SUBSET Nat]
  BY DEF BusInv, SubsInv
<1>1. ASSUME NEW p \in Publishers, Deliver(p) PROVE BusInv'
  BY <1>1, DeliverKeeps
<1>2. ASSUME NEW p \in Publishers, NEW k \in Kinds, Publish(p, k) PROVE BusInv'
  BY <1>2, PublishKeeps
<1>3. ASSUME NEW k \in Kinds \cup {"*"}, Subscribe(k) PROVE BusInv'
  <2> DEFINE s == [event_type |-> k, active |-> TRUE]
  <2>1. s \in SubRec
    BY DEF SubRec
  <2>2. subs' = Append(subs, s) /\ Len(subs) < MaxSubscribers /\ UNCHANGED <<hist, next_event_id, pub, mayHear>>
    BY <1>3 DEF Subscribe
  <2> HIDE DEF s
  <2>3. /\ subs' \in Seq(SubRec) /\ Len(subs') = Len(subs) + 1 /\ Len(subs) \in Nat
        /\ DOMAIN subs \subseteq DOMAIN subs' /\ \A i \in DOMAIN subs : subs'[i] = subs[i]
    BY <1>0, <2>1, <2>2
  <2>4. Len(subs') =< MaxSubscribers
    BY <2>2, <2>3, BusAssumption
  <2>5. \A p \in Publishers : pub'[p].at # 0 => AtPlace(pub'[p], mayHear'[p], subs')
    BY <2>2, <2>3 DEF BusInv, SubsInv, AtPlace, StillWant
  <2> QED BY <2>2, <2>3, <2>4, <2>5 DEF BusInv, SubsInv, HistInv
<1>4. ASSUME NEW i \in 1 .. MaxSubscribers, Unsubscribe(i) PROVE BusInv'
  <2>1. /\ i \in DOMAIN subs /\ subs' = [subs EXCEPT ![i].active = FALSE] /\ UNCHANGED <<hist, next_event_id, pub>>
        /\ mayHear' = [p \in Publishers |-> mayHear[p] \ {i}]
    BY <1>4 DEF Unsubscribe
  <2>2. subs[i] \in SubRec /\ [subs[i] EXCEPT !.active = FALSE] \in SubRec
    <3>1. subs[i] \in SubRec
      BY <1>0, <2>1
    <3> QED BY <3>1 DEF SubRec
  <2>3. /\ subs' \in Seq(SubRec) /\ Len(subs') = Len(subs) /\ DOMAIN subs' = DOMAIN subs
        /\ \A j \in DOMAIN subs \ {i} : subs'[j] = subs[j]
    BY <1>0, <2>1, <2>2
  <2>4. mayHear' \in [Publishers -> SUBSET Nat] /\ \A p \in Publishers : mayHear'[p] = mayHear[p] \ {i}
    BY <1>0, <2>1
  <2>5. \A p \in Publishers : pub'[p].at # 0 => AtPlace(pub'[p], mayHear'[p], subs')
    BY <2>1, <2>3, <2>4 DEF BusInv, SubsInv, AtPlace, StillWant
  <2> QED BY <2>1, <2>3, <2>4, <2>5 DEF BusInv, SubsInv, HistInv
<1>5. ASSUME ClearHistory PROVE BusInv'
  <2>1. hist' = NoHistory /\ next_event_id' \in Nat /\ UNCHANGED <<subs, pub, mayHear>>
    BY <1>5 DEF ClearHistory, BusInv, HistInv
  <2>2. HistInv'
    BY <2>1, NoHistoryHolds, BusAssumption DEF HistInv, NoHistory
  <2> QED BY <2>1, <2>2 DEF BusInv, SubsInv
<1>6. ASSUME CleanupBus PROVE BusInv'
  <2>1. /\ hist' = NoHistory /\ next_event_id' = 1 /\ subs' = << >> /\ UNCHANGED pub /\ mayHear' = [p \in Publishers |-> {}]
        /\ \A p \in Publishers : pub[p].at = 0
    BY <1>6 DEF CleanupBus
  <2>2. HistInv'
    BY <2>1, NoHistoryHolds, BusAssumption DEF HistInv, NoHistory
  <2>3. subs' \in Seq(SubRec) /\ Len(subs') =< MaxSubscribers /\ mayHear' \in [Publishers -> SUBSET Nat]
    BY <2>1, BusAssumption
  <2> QED BY <1>0, <2>1, <2>2, <2>3 DEF BusInv, SubsInv
<1>7. ASSUME UNCHANGED busVars PROVE BusInv'
  BY <1>7 DEF busVars, BusInv, SubsInv, HistInv
<1> QED BY <1>1, <1>2, <1>3, <1>4, <1>5, <1>6, <1>7 DEF BusNext

LEMMA BusInvSafe == BusInv => BusSafe
<1> SUFFICES ASSUME BusInv PROVE BusSafe
  OBVIOUS
<1>1. subs \in Seq(SubRec) /\ pub \in [Publishers -> PubRec] /\ mayHear \in [Publishers -> SUBSET Nat] /\ Len(subs) =< MaxSubscribers
  BY DEF BusInv, SubsInv
<1>2. Len(subs) \in Nat /\ DOMAIN subs = 1 .. Len(subs)
  BY <1>1
<1>3. ASSUME NEW p \in Publishers PROVE pub[p].at \in 0 .. Len(subs)
  <2>1. CASE pub[p].at = 0
    BY <1>2, <2>1
  <2>2. CASE pub[p].at # 0
    BY <1>2, <2>2 DEF BusInv, SubsInv, AtPlace
  <2> QED BY <2>1, <2>2
<1>4. BusTypeOK
  BY <1>1, <1>3 DEF BusTypeOK, BusInv, HistInv
<1>5. DeliversOnce
  <2> SUFFICES ASSUME NEW p \in Publishers, pub[p].at # 0
               PROVE  /\ pub[p].at \notin pub[p].called
                      /\ pub[p].delivered = Cardinality(pub[p].called)
                      /\ {i \in mayHear[p] : i < pub[p].at} \subseteq pub[p].called
    BY DEF DeliversOnce
  <2>1. AtPlace(pub[p], mayHear[p], subs)
    BY DEF BusInv, SubsInv
  <2>2. pub[p].at \in Nat
    BY <1>1 DEF PubRec
  <2>3. pub[p].at \notin pub[p].called
    BY <2>1, <2>2 DEF AtPlace
  <2> QED BY <2>1, <2>3 DEF AtPlace, Counts
<1>6. HistoryReads
  <2> DEFINE n == hist.event_count
  <2> SUFFICES ASSUME n < HistorySize, NEW i \in 0 .. n - 1
               PROVE  hist.events[HistoryIndex(i)].id = next_event_id - n + i
    BY DEF HistoryReads
  <2>1. n \in Nat /\ HistorySize \in Nat \ {0} /\ hist.current_idx = n
    BY BusAssumption DEF BusInv, HistInv
  <2>2. hist.events[i + 1].id = next_event_id - n + i
    BY DEF BusInv, HistInv
  <2>3. hist.current_idx - hist.event_count + i + 1 = i + 1 /\ i + 1 >= 0 /\ i + 1 \in 0 .. HistorySize - 1
    BY <2>1
  <2>4. (i + 1) % HistorySize = i + 1
    BY <2>1, <2>3, ModSmall
  <2>5. HistoryIndex(i) = i + 1
    BY <2>3, <2>4 DEF HistoryIndex, Rem
  <2> QED BY <2>2, <2>5
<1> QED BY <1>4, <1>5, <1>6 DEF BusSafe

(***************************************************************************)
(* The thread pool of sm_threadpool.c.                                     *)
(***************************************************************************)
Marks   == {"none", "idle", "checked", "waiting"}
FdState == {"caller", "queued", "worker", "closed", "lost"}
Nth(i)  == tasks[(front + i) % size]
InQueue == {t \in Tasks : fd[t] = "queued"}
IdleSet == {w \in PoolWorkers : hand[w] = "idle"}

QueueInv ==
    /\ size \in Nat \ {0} /\ DOMAIN tasks = 0 .. size - 1 /\ front \in 0 .. size - 1 /\ used \in 0 .. size
    /\ fd \in [Tasks -> FdState]
    /\ \A i \in 0 .. used - 1 : Nth(i) \in InQueue /\ <<used - i, Nth(i)>> \in order
    /\ \A i, j \in 0 .. used - 1 : Nth(i) = Nth(j) => i = j
    /\ \A t \in InQueue : \E i \in 0 .. used - 1 : Nth(i) = t
    /\ IsFiniteSet(InQueue) /\ Cardinality(InQueue) = used

HandInv ==
    /\ hand \in [PoolWorkers -> Tasks \cup Marks]
    /\ \A w \in PoolWorkers : hand[w] \in Tasks => fd[hand[w]] = "worker"
    /\ \A t \in Tasks : fd[t] = "worker" => \E w \in PoolWorkers : hand[w] = t
    /\ \A v, w \in PoolWorkers : hand[v] = hand[w] /\ hand[v] \in Tasks => v = w

\* Whoever has found the queue empty holds the mutex until it waits; before
\* and after the life of the pool nothing is queued.
SleepInv ==
    /\ phase \in {"down", "creating", "up", "failing", "stopped", "forced"}
    /\ phase = "down" => AllGone
    /\ phase \in {"down", "creating", "failing"} => used = 0
    /\ phase \in {"stopped", "forced"} => stopping /\ \A w \in PoolWorkers : hand[w] \notin {"waiting", "checked"}
    /\ ~MutexFree => used = 0
    /\ (\E w \in PoolWorkers : hand[w] = "waiting") => Cardinality(IdleSet) >= used

WpInv == QueueInv /\ HandInv /\ SleepInv

LEMMA IdleFinite == IsFiniteSet(IdleSet) /\ Cardinality(IdleSet) \in Nat
BY WpAssumption, FS_Subset, FS_CardinalityType DEF IdleSet

LEMMA TasksAreNoMarks == ASSUME NEW t \in Tasks PROVE t \notin Marks
BY WpAssumption DEF Marks

\* Nothing is queued.
LEMMA EmptyQueue ==
  ASSUME size \in Nat \ {0}, DOMAIN tasks = 0 .. size - 1, front \in 0 .. size - 1, used = 0,
         fd \in [Tasks -> FdState], InQueue = {}
  PROVE  QueueInv
BY FS_EmptySet DEF QueueInv

LEMMA UsedZero ==
  ASSUME QueueInv, used = 0
  PROVE  InQueue = {}
BY DEF QueueInv

LEMMA WpInitHolds == WpInit => WpInv
<1> SUFFICES ASSUME WpInit PROVE WpInv
  OBVIOUS
<1>1. size \in Nat \ {0}
  BY WpAssumption DEF WpInit
<1>2. /\ DOMAIN tasks = 0 .. size - 1 /\ front \in 0 .. size - 1 /\ used = 0
      /\ fd \in [Tasks -> FdState] /\ InQueue = {}
  BY <1>1 DEF WpInit, Blank, FdState, InQueue
<1>3. QueueInv
  BY <1>1, <1>2, EmptyQueue
<1>4. HandInv
  BY TasksAreNoMarks DEF WpInit, HandInv, Marks
<1>5. SleepInv
  BY <1>2, IdleFinite DEF WpInit, SleepInv, AllGone, MutexFree
<1> QED BY <1>3, <1>4, <1>5 DEF WpInv

LEMMA QueueUntouched ==
  ASSUME QueueInv, UNCHANGED <<tasks, front, used, size, fd, order>>
  PROVE  QueueInv'
BY DEF QueueInv, Nth, InQueue

\* Workers that only wait, wake up or leave.
LEMMA MarksMove ==
  ASSUME HandInv, hand' \in [PoolWorkers -> Tasks \cup Marks],
         \A w \in PoolWorkers : hand'[w] = hand[w] \/ (hand[w] \in Marks /\ hand'[w] \in Marks),
         \A t \in Tasks : fd'[t] = "worker" <=> fd[t] = "worker"
  PROVE  HandInv'
<1>1. \A w \in PoolWorkers : hand'[w] \in Tasks => hand'[w] = hand[w]
  BY TasksAreNoMarks
<1>2. \A w \in PoolWorkers : hand[w] \in Tasks => hand'[w] = hand[w]
  BY TasksAreNoMarks
<1> QED BY <1>1, <1>2 DEF HandInv

LEMMA SubmitKeeps ==
  ASSUME WpInv, NEW t \in Tasks, Submit(t)
  PROVE  WpInv'
<1>0. /\ size \in Nat \ {0} /\ DOMAIN tasks = 0 .. size - 1 /\ front \in 0 .. size - 1 /\ used \in 0 .. size
      /\ used < size /\ fd \in [Tasks -> FdState] /\ front \in Nat /\ used \in Nat
  BY DEF WpInv, QueueInv, Submit
<1>1. /\ tasks' = [tasks EXCEPT ![Back] = t] /\ used' = used + 1 /\ fd' = [fd EXCEPT ![t] = "queued"]
      /\ UNCHANGED <<front, size, stopping, phase>> /\ fd[t] = "caller" /\ MutexFree
      /\ phase \in {"up", "stopped", "forced"}
  BY DEF Submit
<1>2. Back \in 0 .. size - 1
  BY <1>0, DivMod DEF Back
<1>3. ASSUME NEW i \in 0 .. used - 1 PROVE Nth(i)' = Nth(i)
  <2>1. front + i \in Nat /\ front + used \in Nat /\ front + i < front + used /\ (front + used) - (front + i) < size
    BY <1>0
  <2>2. (front + i) % size # Back
    BY <1>0, <2>1, ModNear DEF Back
  <2> QED BY <1>0, <1>1, <2>2 DEF Nth
<1>4. ASSUME NEW i, i = used PROVE Nth(i)' = t
  <2>1. Nth(i)' = tasks'[Back]
    BY <1>1, <1>4 DEF Nth, Back
  <2> QED BY <1>0, <1>1, <1>2, <2>1
<1>5. InQueue' = InQueue \cup {t} /\ t \notin InQueue
  BY <1>0, <1>1 DEF InQueue
<1>6. QueueInv'
  <2>1. DOMAIN tasks' = 0 .. size' - 1 /\ fd' \in [Tasks -> FdState] /\ used' \in 0 .. size'
    BY <1>0, <1>1 DEF FdState
  <2>2. IsFiniteSet(InQueue') /\ Cardinality(InQueue') = used'
    BY <1>1, <1>5, FS_AddElement DEF WpInv, QueueInv
  <2>3. ASSUME NEW i \in 0 .. used' - 1 PROVE Nth(i)' \in InQueue' /\ <<used' - i, Nth(i)'>> \in order'
    <3>1. CASE i = used
      <4>1. used' - i = 1
        BY <1>0, <1>1, <3>1
      <4>2. <<1, t>> \in order'
        BY DEF Submit
      <4> QED BY <1>4, <1>5, <3>1, <4>1, <4>2
    <3>2. CASE i # used
      <4>1. i \in 0 .. used - 1
        BY <1>0, <1>1, <3>2
      <4>2. Nth(i) \in InQueue /\ <<used - i, Nth(i)>> \in order
        BY <4>1 DEF WpInv, QueueInv
      <4> DEFINE s == <<used - i, Nth(i)>>
      <4>3. <<s[1] + 1, s[2]>> \in order'
        BY <4>2 DEF Submit
      <4>4. <<(used - i) + 1, Nth(i)>> \in order'
        BY <4>3
      <4>5. used' - i = (used - i) + 1
        BY <1>0, <1>1, <4>1
      <4> QED BY <1>3, <1>5, <4>1, <4>2, <4>4, <4>5
    <3> QED BY <3>1, <3>2
  <2>4. ASSUME NEW i \in 0 .. used' - 1, NEW j \in 0 .. used' - 1, Nth(i)' = Nth(j)' PROVE i = j
    <3>1. \A k \in 0 .. used' - 1 : k = used \/ k \in 0 .. used - 1
      BY <1>0, <1>1
    <3>2. \A k \in 0 .. used - 1 : Nth(k)' \in InQueue
      BY <1>3 DEF WpInv, QueueInv
    <3>a. ASSUME NEW k \in 0 .. used - 1 PROVE Nth(k)' # t
      BY <1>5, <3>2
    <3>3. CASE i = used \/ j = used
      BY <1>4, <2>4, <3>1, <3>a, <3>3
    <3>4. CASE i \in 0 .. used - 1 /\ j \in 0 .. used - 1
      BY <1>3, <2>4, <3>4 DEF WpInv, QueueInv
    <3> QED BY <3>1, <3>3, <3>4
  <2>5. ASSUME NEW u \in InQueue' PROVE \E i \in 0 .. used' - 1 : Nth(i)' = u
    <3>1. CASE u = t
      <4>1. PICK i \in 0 .. used' - 1 : i = used
        BY <1>0, <1>1
      <4> QED BY <1>4, <3>1, <4>1
    <3>2. CASE u # t
      <4>1. PICK i \in 0 .. used - 1 : Nth(i) = u
        BY <1>5, <3>2 DEF WpInv, QueueInv
      <4>2. i \in 0 .. used' - 1
        BY <1>0, <1>1
      <4> QED BY <1>3, <4>1, <4>2
    <3> QED BY <3>1, <3>2
  <2> QED BY <1>0, <1>1, <2>1, <2>2, <2>3, <2>4, <2>5 DEF QueueInv
<1>7. \/ \E w \in PoolWorkers : hand[w] = "waiting" /\ hand' = [hand EXCEPT ![w] = "idle"]
      \/ (\A w \in PoolWorkers : hand[w] # "waiting") /\ UNCHANGED hand
  BY DEF Submit
<1>8. hand \in [PoolWorkers -> Tasks \cup Marks]
  BY DEF WpInv, HandInv
<1>9. HandInv'
  <2>1. hand' \in [PoolWorkers -> Tasks \cup Marks]
    BY <1>7, <1>8 DEF Marks
  <2>2. \A w \in PoolWorkers : hand'[w] = hand[w] \/ (hand[w] \in Marks /\ hand'[w] \in Marks)
    BY <1>7, <1>8 DEF Marks
  <2>3. \A u \in Tasks : fd'[u] = "worker" <=> fd[u] = "worker"
    BY <1>0, <1>1
  <2> QED BY <2>1, <2>2, <2>3, MarksMove DEF WpInv
<1>10. SleepInv'
  <2>1. CASE \A w \in PoolWorkers : hand[w] # "waiting" /\ UNCHANGED hand
    BY <1>1, <2>1 DEF WpInv, SleepInv, MutexFree
  <2>2. ASSUME NEW w \in PoolWorkers, hand[w] = "waiting", hand' = [hand EXCEPT ![w] = "idle"] PROVE SleepInv'
    <3>1. IdleSet' = IdleSet \cup {w} /\ w \notin IdleSet
      BY <1>8, <2>2 DEF IdleSet
    <3>2. Cardinality(IdleSet') = Cardinality(IdleSet) + 1
      BY <3>1, IdleFinite, FS_AddElement
    <3>3. Cardinality(IdleSet) >= used
      BY <2>2 DEF WpInv, SleepInv
    <3>4. Cardinality(IdleSet') >= used'
      BY <1>0, <1>1, <3>2, <3>3, IdleFinite
    <3>5. MutexFree'
      BY <1>1, <1>8, <2>2 DEF MutexFree
    <3>6. phase = "up"
      BY <1>1, <2>2 DEF WpInv, SleepInv
    <3> QED BY <1>1, <3>4, <3>5, <3>6 DEF SleepInv
  <2> QED BY <1>7, <2>1, <2>2
<1> QED BY <1>6, <1>9, <1>10 DEF WpInv

LEMMA FetchKeeps ==
  ASSUME WpInv, NEW w \in PoolWorkers, Fetch(w)
  PROVE  WpInv'
<1> DEFINE x == tasks[front]
<1>0. /\ size \in Nat \ {0} /\ DOMAIN tasks = 0 .. size - 1 /\ front \in 0 .. size - 1 /\ used \in 0 .. size
      /\ used > 0 /\ fd \in [Tasks -> FdState] /\ front \in Nat /\ used \in Nat
  BY DEF WpInv, QueueInv, Fetch
<1>1. /\ hand[w] = "idle" /\ MutexFree /\ hand' = [hand EXCEPT ![w] = x] /\ fd' = [fd EXCEPT ![x] = "worker"]
      /\ order' = {s \in order : s[2] # x}
      /\ front' = (front + 1) % size /\ used' = used - 1 /\ UNCHANGED <<tasks, size, stopping, phase>>
  BY DEF Fetch
<1>2. (front + 0) % size = front
  BY <1>0, ModSmall
<1>3. Nth(0) = x /\ 0 \in 0 .. used - 1
  BY <1>0, <1>2 DEF Nth
<1>4. x \in InQueue /\ x \in Tasks /\ fd[x] = "queued"
  BY <1>3 DEF WpInv, QueueInv, InQueue
<1> HIDE DEF x
<1>5. ASSUME NEW i \in 0 .. used' - 1 PROVE Nth(i)' = Nth(i + 1) /\ i + 1 \in 0 .. used - 1 /\ Nth(i + 1) # x
  <2>1. i + 1 \in 0 .. used - 1 /\ i \in Nat /\ i + 1 # 0
    BY <1>0, <1>1
  <2>2. \A c \in Nat : (((front + 1) % size) + c) % size = ((front + 1) + c) % size
    <3>1. front + 1 \in Nat
      BY <1>0
    <3> QED BY <1>0, <3>1, ModAdd
  <2>3. (front' + i) % size = (front + (i + 1)) % size
    <3>1. (front + 1) + i = front + (i + 1)
      BY <1>0, <2>1
    <3> QED BY <1>1, <2>1, <2>2, <3>1
  <2>4. Nth(i)' = Nth(i + 1)
    BY <1>1, <2>3 DEF Nth
  <2>5. Nth(i + 1) # x
    BY <1>3, <2>1 DEF WpInv, QueueInv
  <2> QED BY <2>1, <2>4, <2>5
<1>6. InQueue' = InQueue \ {x}
  BY <1>0, <1>1, <1>4 DEF InQueue
<1>7. QueueInv'
  <2>1. DOMAIN tasks' = 0 .. size' - 1 /\ front' \in 0 .. size' - 1 /\ fd' \in [Tasks -> FdState] /\ used' \in 0 .. size'
    <3>1. front' \in 0 .. size - 1
      BY <1>0, <1>1, DivMod
    <3>2. fd' \in [Tasks -> FdState]
      BY <1>0, <1>1, <1>4 DEF FdState
    <3> QED BY <1>0, <1>1, <3>1, <3>2
  <2>2. IsFiniteSet(InQueue') /\ Cardinality(InQueue') = used'
    <3>1. IsFiniteSet(InQueue) /\ Cardinality(InQueue) = used
      BY DEF WpInv, QueueInv
    <3>2. IsFiniteSet(InQueue \ {x}) /\ Cardinality(InQueue \ {x}) = Cardinality(InQueue) - 1
      BY <1>4, <3>1, FS_RemoveElement
    <3> QED BY <1>1, <1>6, <3>1, <3>2
  <2>3. ASSUME NEW i \in 0 .. used' - 1 PROVE Nth(i)' \in InQueue' /\ <<used' - i, Nth(i)'>> \in order'
    <3>1. Nth(i + 1) \in InQueue /\ <<used - (i + 1), Nth(i + 1)>> \in order
      BY <1>5 DEF WpInv, QueueInv
    <3>2. used' - i = used - (i + 1)
      BY <1>0, <1>1
    <3>3. <<used - (i + 1), Nth(i + 1)>>[2] # x
      BY <1>5
    <3>4. <<used - (i + 1), Nth(i + 1)>> \in order'
      BY <1>1, <3>1, <3>3
    <3> QED BY <1>5, <1>6, <3>1, <3>2, <3>4
  <2>4. ASSUME NEW i \in 0 .. used' - 1, NEW j \in 0 .. used' - 1, Nth(i)' = Nth(j)' PROVE i = j
    <3>1. i + 1 = j + 1
      BY <1>5, <2>4 DEF WpInv, QueueInv
    <3> QED BY <1>0, <1>1, <3>1
  <2>5. ASSUME NEW u \in InQueue' PROVE \E i \in 0 .. used' - 1 : Nth(i)' = u
    <3>1. PICK k \in 0 .. used - 1 : Nth(k) = u
      BY <1>6 DEF WpInv, QueueInv
    <3>2. k # 0
      BY <1>3, <1>6, <3>1
    <3>3. k - 1 \in 0 .. used' - 1 /\ (k - 1) + 1 = k
      BY <1>0, <1>1, <3>2
    <3>4. Nth(k - 1)' = Nth((k - 1) + 1)
      BY <1>5, <3>3
    <3> QED BY <3>1, <3>3, <3>4
  <2> QED BY <1>0, <1>1, <2>1, <2>2, <2>3, <2>4, <2>5 DEF QueueInv
<1>8. hand \in [PoolWorkers -> Tasks \cup Marks] /\ hand' \in [PoolWorkers -> Tasks \cup Marks] /\ hand'[w] = x
      /\ \A v \in PoolWorkers \ {w} : hand'[v] = hand[v]
  BY <1>1, <1>4 DEF WpInv, HandInv
<1>9. HandInv'
  <2>1. \A v \in PoolWorkers : hand[v] # x
    BY <1>4 DEF WpInv, HandInv
  <2>2. \A t \in Tasks : fd'[t] = IF t = x THEN "worker" ELSE fd[t]
    BY <1>0, <1>1, <1>4
  <2>3. hand[w] \notin Tasks
    BY <1>1, TasksAreNoMarks DEF Marks
  <2>4. \A v \in PoolWorkers : hand'[v] \in Tasks => fd'[hand'[v]] = "worker"
    BY <1>8, <2>2 DEF WpInv, HandInv
  <2>5. \A t \in Tasks : fd'[t] = "worker" => \E v \in PoolWorkers : hand'[v] = t
    BY <1>8, <2>2, <2>3 DEF WpInv, HandInv
  <2>6. \A u, v \in PoolWorkers : hand'[u] = hand'[v] /\ hand'[u] \in Tasks => u = v
    BY <1>8, <2>1 DEF WpInv, HandInv
  <2> QED BY <1>8, <2>4, <2>5, <2>6 DEF HandInv
<1>10. SleepInv'
  <2>1. x \notin Marks
    BY <1>4, TasksAreNoMarks
  <2>2. IdleSet' = IdleSet \ {w} /\ w \in IdleSet
    BY <1>1, <1>8, <2>1 DEF IdleSet, Marks
  <2>3. Cardinality(IdleSet') = Cardinality(IdleSet) - 1
    BY <2>2, IdleFinite, FS_RemoveElement
  <2>4. MutexFree' /\ \A v \in PoolWorkers : hand'[v] = "waiting" => hand[v] = "waiting"
    BY <1>1, <1>8, <2>1 DEF MutexFree, Marks
  <2>5. (\E v \in PoolWorkers : hand'[v] = "waiting") => Cardinality(IdleSet') >= used'
    <3>1. SUFFICES ASSUME \E v \in PoolWorkers : hand[v] = "waiting" PROVE Cardinality(IdleSet') >= used'
      BY <2>4
    <3>2. Cardinality(IdleSet) >= used
      BY <3>1 DEF WpInv, SleepInv
    <3> QED BY <1>0, <1>1, <2>3, <3>2, IdleFinite
  <2>6. phase \in {"up", "stopped", "forced"}
    BY <1>0 DEF WpInv, SleepInv
  <2>7. phase \in {"stopped", "forced"} => stopping /\ \A v \in PoolWorkers : hand'[v] \notin {"waiting", "checked"}
    BY <2>4, <2>6 DEF WpInv, SleepInv, MutexFree
  <2> QED BY <1>1, <2>4, <2>5, <2>6, <2>7 DEF SleepInv
<1> QED BY <1>7, <1>9, <1>10 DEF WpInv

LEMMA ResizeKeeps ==
  ASSUME WpInv, NEW n \in QueueSizes, Resize(n)
  PROVE  WpInv'
<1>0. /\ size \in Nat \ {0} /\ n \in Nat \ {0} /\ used \in Nat /\ used =< n /\ front \in Nat
  BY WpAssumption DEF WpInv, QueueInv, Resize
<1>1. /\ tasks' = [i \in 0 .. n - 1 |-> IF i < used THEN tasks[(front + i) % size] ELSE NoTask]
      /\ size' = n /\ front' = 0 /\ UNCHANGED <<used, stopping, phase, hand, fd, order>>
  BY DEF Resize
<1>2. ASSUME NEW i \in 0 .. used - 1 PROVE Nth(i)' = Nth(i)
  <2>1. i \in 0 .. n - 1 /\ i < used
    BY <1>0
  <2>2. (0 + i) % n = i
    BY <1>0, <2>1, ModSmall
  <2>3. Nth(i)' = tasks'[i]
    BY <1>1, <2>2 DEF Nth
  <2> QED BY <1>1, <2>1, <2>3 DEF Nth
<1>3. InQueue' = InQueue
  BY <1>1 DEF InQueue
<1>4. DOMAIN tasks' = 0 .. size' - 1 /\ front' \in 0 .. size' - 1 /\ used' \in 0 .. size'
  BY <1>0, <1>1
<1>5. QueueInv'
  BY <1>0, <1>1, <1>2, <1>3, <1>4 DEF WpInv, QueueInv
<1>6. HandInv'
  BY <1>1 DEF WpInv, HandInv
<1>7. SleepInv'
  BY <1>1 DEF WpInv, SleepInv, IdleSet, MutexFree, AllGone
<1> QED BY <1>5, <1>6, <1>7 DEF WpInv

\* What is queued is forgotten.
LEMMA ForgetKeeps ==
  ASSUME QueueInv, used' = 0, front' \in {front, 0}, UNCHANGED <<tasks, size>>,
         fd' = [t \in Tasks |-> IF fd[t] = "queued" THEN "lost" ELSE fd[t]]
  PROVE  QueueInv' /\ \A t \in Tasks : fd'[t] = "worker" <=> fd[t] = "worker"
<1>1. size \in Nat \ {0} /\ front \in 0 .. size - 1 /\ fd \in [Tasks -> FdState] /\ DOMAIN tasks = 0 .. size - 1
  BY DEF QueueInv
<1>2. fd' \in [Tasks -> FdState] /\ InQueue' = {}
  BY <1>1 DEF FdState, InQueue
<1>3. size' \in Nat \ {0} /\ DOMAIN tasks' = 0 .. size' - 1 /\ front' \in 0 .. size' - 1
  BY <1>1
<1>4. QueueInv'
  BY <1>2, <1>3, FS_EmptySet DEF QueueInv
<1>5. \A t \in Tasks : fd'[t] = "worker" <=> fd[t] = "worker"
  BY <1>1
<1> QED BY <1>4, <1>5

LEMMA FinishKeeps ==
  ASSUME WpInv, NEW w \in PoolWorkers, Finish(w)
  PROVE  WpInv'
<1> DEFINE x == hand[w]
<1>0. /\ x \in Tasks /\ fd' = [fd EXCEPT ![x] = "closed"] /\ hand' = [hand EXCEPT ![w] = "idle"]
      /\ UNCHANGED <<tasks, front, used, size, stopping, phase, order>>
  BY DEF Finish
<1>1. fd[x] = "worker" /\ fd \in [Tasks -> FdState] /\ hand \in [PoolWorkers -> Tasks \cup Marks]
  BY <1>0 DEF WpInv, HandInv, QueueInv
<1> HIDE DEF x
<1>2. fd' \in [Tasks -> FdState] /\ \A t \in Tasks : fd'[t] = IF t = x THEN "closed" ELSE fd[t]
  BY <1>0, <1>1 DEF FdState
<1>3. InQueue' = InQueue
  BY <1>1, <1>2 DEF InQueue
<1>4. QueueInv'
  BY <1>0, <1>2, <1>3 DEF WpInv, QueueInv, Nth
<1>5. hand' \in [PoolWorkers -> Tasks \cup Marks] /\ hand'[w] = "idle" /\ \A v \in PoolWorkers \ {w} : hand'[v] = hand[v]
  BY <1>0, <1>1 DEF Marks
<1>6. "idle" \notin Tasks
  BY TasksAreNoMarks DEF Marks
<1>7. \A v \in PoolWorkers \ {w} : hand[v] # x
  BY <1>0 DEF WpInv, HandInv, x
<1>8. HandInv'
  <2>1. \A v \in PoolWorkers : hand'[v] \in Tasks => fd'[hand'[v]] = "worker"
    BY <1>2, <1>5, <1>6, <1>7 DEF WpInv, HandInv
  <2>2. \A t \in Tasks : fd'[t] = "worker" => \E v \in PoolWorkers : hand'[v] = t
    BY <1>2, <1>5 DEF WpInv, HandInv, x
  <2>3. \A u, v \in PoolWorkers : hand'[u] = hand'[v] /\ hand'[u] \in Tasks => u = v
    BY <1>5, <1>6 DEF WpInv, HandInv
  <2> QED BY <1>5, <2>1, <2>2, <2>3 DEF HandInv
<1>9. SleepInv'
  <2>1. x \notin Marks
    BY <1>0, TasksAreNoMarks
  <2>2. IdleSet' = IdleSet \cup {w}
    BY <1>5 DEF IdleSet
  <2>3. Cardinality(IdleSet') >= Cardinality(IdleSet)
    BY <2>2, IdleFinite, FS_AddElement
  <2>4. \A v \in PoolWorkers : hand'[v] \in {"waiting", "checked"} => hand'[v] = hand[v]
    BY <1>5
  <2>5. phase # "down"
    BY <2>1 DEF WpInv, SleepInv, AllGone, Marks, x
  <2>6. (\E v \in PoolWorkers : hand'[v] = "waiting") => Cardinality(IdleSet') >= used'
    <3>1. SUFFICES ASSUME \E v \in PoolWorkers : hand[v] = "waiting" PROVE Cardinality(IdleSet') >= used'
      BY <2>4
    <3>2. Cardinality(IdleSet) >= used /\ used \in Int
      BY <3>1 DEF WpInv, SleepInv, QueueInv
    <3>3. Cardinality(IdleSet') \in Nat
      BY <2>2, IdleFinite, FS_AddElement, FS_CardinalityType
    <3> QED BY <1>0, <2>3, <3>2, <3>3, IdleFinite
  <2> QED BY <1>0, <2>4, <2>5, <2>6 DEF WpInv, SleepInv, MutexFree
<1> QED BY <1>4, <1>8, <1>9 DEF WpInv

LEMMA WpStep == WpInv /\ [WpNext]_wpVars => WpInv'
<1> SUFFICES ASSUME WpInv, [WpNext]_wpVars PROVE WpInv'
  OBVIOUS
<1>0. hand \in [PoolWorkers -> Tasks \cup Marks] /\ used \in Nat
  BY DEF WpInv, HandInv, QueueInv
<1>h. ASSUME UNCHANGED <<hand, fd>> PROVE HandInv'
  BY <1>h DEF WpInv, HandInv
<1>k. /\ Woken \in [PoolWorkers -> Tasks \cup Marks]
      /\ \A w \in PoolWorkers : Woken[w] = hand[w] \/ (hand[w] \in Marks /\ Woken[w] \in Marks)
      /\ \A w \in PoolWorkers : Woken[w] # "waiting" /\ (Woken[w] = "checked" => hand[w] = "checked")
  BY <1>0 DEF Woken, Marks
<1>c. IsFiniteSet(IdleSet') /\ Cardinality(IdleSet') \in Nat
  BY WpAssumption, FS_Subset, FS_CardinalityType DEF IdleSet
<1>1. ASSUME InitPool PROVE WpInv'
  <2>1. /\ size' \in Nat \ {0} /\ DOMAIN tasks' = 0 .. size' - 1 /\ front' = 0 /\ used' = 0 /\ UNCHANGED <<hand, fd>>
        /\ phase' = "creating" /\ phase = "down"
    BY <1>1, WpAssumption DEF InitPool, Blank
  <2>2. used = 0 /\ AllGone
    BY <2>1 DEF WpInv, SleepInv
  <2>6. InQueue' = InQueue /\ InQueue = {}
    BY <2>1, <2>2, UsedZero DEF WpInv, InQueue
  <2>7. size' \in Nat \ {0} /\ DOMAIN tasks' = 0 .. size' - 1 /\ used' = 0 /\ front' = 0
    BY <2>1
  <2>3. InQueue' = {} /\ fd' \in [Tasks -> FdState] /\ front' \in 0 .. size' - 1
    <3>1. fd' \in [Tasks -> FdState]
      BY <2>1 DEF WpInv, QueueInv
    <3>a. PICK n \in Nat : size' = n /\ n # 0
      BY <2>7
    <3>2. 0 \in 0 .. size' - 1
      <4>1. 0 \in 0 .. n - 1
        BY <3>a
      <4> QED BY <3>a, <4>1
    <3> QED BY <2>6, <2>7, <3>1, <3>2
  <2>8. 0 .. used' - 1 = {} /\ used' \in 0 .. size' /\ IsFiniteSet(InQueue') /\ Cardinality(InQueue') = used'
    BY <2>3, <2>7, FS_EmptySet
  <2>4. QueueInv'
    BY <2>3, <2>7, <2>8 DEF QueueInv
  <2>5. SleepInv'
    BY <2>1, <1>c DEF SleepInv
  <2> QED BY <2>1, <2>4, <2>5, <1>h DEF WpInv
<1>2. ASSUME NEW w \in PoolWorkers, CreateWorker(w) PROVE WpInv'
  <2>1. /\ phase = "creating" /\ hand[w] = "none" /\ hand' = [hand EXCEPT ![w] = "idle"] /\ phase' \in {"creating", "up"}
        /\ UNCHANGED <<tasks, front, used, size, stopping, fd, order>>
    BY <1>2 DEF CreateWorker
  <2>2. used = 0
    BY <2>1 DEF WpInv, SleepInv
  <2>3. hand' \in [PoolWorkers -> Tasks \cup Marks] /\ \A v \in PoolWorkers : hand'[v] = hand[v] \/ (hand[v] \in Marks /\ hand'[v] \in Marks)
    BY <1>0, <2>1 DEF Marks
  <2>4. HandInv'
    BY <2>1, <2>3, MarksMove DEF WpInv
  <2>5. SleepInv'
    BY <2>1, <2>2, <1>c DEF SleepInv
  <2> QED BY <2>1, <2>4, <2>5, QueueUntouched DEF WpInv
<1>3. ASSUME CreateFails PROVE WpInv'
  <2>1. /\ phase = "creating" /\ hand' = Woken /\ phase' = "failing" /\ stopping'
        /\ UNCHANGED <<tasks, front, used, size, fd, order>>
    BY <1>3 DEF CreateFails
  <2>2. used = 0
    BY <2>1 DEF WpInv, SleepInv
  <2>3. HandInv'
    BY <1>k, <2>1, MarksMove DEF WpInv
  <2>4. SleepInv'
    BY <2>1, <2>2, <1>c DEF SleepInv
  <2> QED BY <2>1, <2>3, <2>4, QueueUntouched DEF WpInv
<1>4. ASSUME CreateUnwound PROVE WpInv'
  <2>1. /\ phase = "failing" /\ AllGone /\ phase' = "down" /\ UNCHANGED <<tasks, front, used, size, hand, fd, order>>
    BY <1>4 DEF CreateUnwound
  <2>2. used = 0 /\ AllGone'
    BY <2>1 DEF WpInv, SleepInv, AllGone
  <2>3. SleepInv'
    BY <2>1, <2>2, <1>c DEF SleepInv
  <2> QED BY <2>1, <2>3, <1>h, QueueUntouched DEF WpInv
<1>5. ASSUME Shutdown PROVE WpInv'
  <2>1. /\ phase = "up" /\ MutexFree /\ hand' = Woken /\ phase' = "stopped" /\ stopping'
        /\ UNCHANGED <<tasks, front, used, size, fd, order>>
    BY <1>5 DEF Shutdown
  <2>2. HandInv'
    BY <1>k, <2>1, MarksMove DEF WpInv
  <2>3. \A w \in PoolWorkers : hand'[w] \notin {"waiting", "checked"}
    BY <1>k, <2>1 DEF MutexFree
  <2>4. SleepInv'
    BY <2>1, <2>3 DEF SleepInv, MutexFree
  <2> QED BY <2>1, <2>2, <2>4, QueueUntouched DEF WpInv
<1>6. ASSUME ForceShutdown PROVE WpInv'
  <2>1. /\ phase = "up" /\ MutexFree /\ hand' = Woken /\ phase' = "forced" /\ stopping' /\ used' = 0
        /\ fd' = [t \in Tasks |-> IF fd[t] = "queued" THEN "lost" ELSE fd[t]] /\ UNCHANGED <<tasks, front, size>>
    BY <1>6 DEF ForceShutdown
  <2>2. QueueInv' /\ \A t \in Tasks : fd'[t] = "worker" <=> fd[t] = "worker"
    BY <2>1, ForgetKeeps DEF WpInv
  <2>3. HandInv'
    BY <1>k, <2>1, <2>2, MarksMove DEF WpInv
  <2>4. \A w \in PoolWorkers : hand'[w] \notin {"waiting", "checked"}
    BY <1>k, <2>1 DEF MutexFree
  <2>5. SleepInv'
    BY <2>1, <2>4 DEF SleepInv, MutexFree
  <2> QED BY <2>2, <2>3, <2>5 DEF WpInv
<1>7. ASSUME ForceShutdownEnds PROVE WpInv'
  <2>1. /\ AllGone /\ phase' = "down" /\ used' = 0 /\ front' = 0 /\ UNCHANGED <<tasks, size, hand>>
        /\ fd' = [t \in Tasks |-> IF fd[t] = "queued" THEN "lost" ELSE fd[t]]
    BY <1>7 DEF ForceShutdownEnds
  <2>2. QueueInv' /\ \A t \in Tasks : fd'[t] = "worker" <=> fd[t] = "worker"
    BY <2>1, ForgetKeeps DEF WpInv
  <2>3. HandInv'
    BY <1>0, <2>1, <2>2, MarksMove DEF WpInv
  <2>4. SleepInv'
    BY <2>1, <1>c DEF SleepInv, AllGone
  <2> QED BY <2>2, <2>3, <2>4 DEF WpInv
<1>8. ASSUME NEW w \in PoolWorkers, NEW a \in Marks, NEW b \in Marks, hand[w] = a, hand' = [hand EXCEPT ![w] = b], used = 0,
             UNCHANGED <<tasks, front, used, size, stopping, phase, fd, order>>,
             b \in {"waiting", "checked"} => ~(phase \in {"stopped", "forced"}), phase = "down" => b = "none"
      PROVE  WpInv'
  <2>1. hand' \in [PoolWorkers -> Tasks \cup Marks] /\ \A v \in PoolWorkers : hand'[v] = hand[v] \/ (hand[v] \in Marks /\ hand'[v] \in Marks)
    BY <1>0, <1>8
  <2>2. HandInv'
    BY <1>8, <2>1, MarksMove DEF WpInv
  <2>3. \A v \in PoolWorkers : hand'[v] \in {b, hand[v]}
    BY <1>0, <1>8
  <2>4. phase \in {"stopped", "forced"} => stopping /\ \A v \in PoolWorkers : hand'[v] \notin {"waiting", "checked"}
    BY <1>8, <2>3 DEF WpInv, SleepInv
  <2>5. phase = "down" => AllGone'
    BY <1>8, <2>3 DEF WpInv, SleepInv, AllGone
  <2>6. SleepInv'
    BY <1>8, <1>c, <2>4, <2>5 DEF WpInv, SleepInv
  <2> QED BY <1>8, <2>2, <2>6, QueueUntouched DEF WpInv
<1>9. ASSUME NEW w \in PoolWorkers, FindNothing(w) PROVE WpInv'
  <2>1. ~(phase \in {"stopped", "forced"}) /\ phase # "down"
    BY <1>9 DEF FindNothing, WpInv, SleepInv, AllGone
  <2> QED BY <1>8, <1>9, <2>1 DEF FindNothing, Marks
<1>10. ASSUME NEW w \in PoolWorkers, Wait(w) PROVE WpInv'
  <2>1. ~(phase \in {"stopped", "forced"}) /\ phase # "down" /\ used = 0
    BY <1>10 DEF Wait, WpInv, SleepInv, AllGone, MutexFree
  <2> QED BY <1>8, <1>10, <2>1 DEF Wait, Marks
<1>11. ASSUME NEW w \in PoolWorkers, Wake(w) PROVE WpInv'
  <2>1. hand[w] = "waiting" /\ hand' = [hand EXCEPT ![w] = "idle"] /\ UNCHANGED <<tasks, front, used, size, stopping, phase, fd, order>>
    BY <1>11 DEF Wake
  <2>2. hand' \in [PoolWorkers -> Tasks \cup Marks] /\ \A v \in PoolWorkers : hand'[v] = hand[v] \/ (hand[v] \in Marks /\ hand'[v] \in Marks)
    BY <1>0, <2>1 DEF Marks
  <2>3. HandInv'
    BY <2>1, <2>2, MarksMove DEF WpInv
  <2>4. IdleSet' = IdleSet \cup {w} /\ w \notin IdleSet
    BY <1>0, <2>1 DEF IdleSet
  <2>5. Cardinality(IdleSet') = Cardinality(IdleSet) + 1 /\ Cardinality(IdleSet) >= used
    BY <2>1, <2>4, IdleFinite, FS_AddElement DEF WpInv, SleepInv
  <2>6. Cardinality(IdleSet') >= used'
    BY <1>0, <2>1, <2>5, IdleFinite
  <2>7. \A v \in PoolWorkers : hand'[v] \in {"waiting", "checked"} => hand'[v] = hand[v]
    BY <1>0, <2>1
  <2>8. phase # "down"
    BY <2>1 DEF WpInv, SleepInv, AllGone
  <2>9. SleepInv'
    BY <2>1, <2>6, <2>7, <2>8 DEF WpInv, SleepInv, MutexFree
  <2> QED BY <2>1, <2>3, <2>9, QueueUntouched DEF WpInv
<1>12. ASSUME NEW w \in PoolWorkers, Leave(w) PROVE WpInv'
  BY <1>8, <1>12 DEF Leave, Marks
<1>13. ASSUME UNCHANGED wpVars PROVE WpInv'
  <2>1. SleepInv'
    BY <1>13 DEF wpVars, WpInv, SleepInv, AllGone, MutexFree, IdleSet
  <2> QED BY <1>13, <1>h, <2>1, QueueUntouched DEF wpVars, WpInv
<1> QED BY <1>1, <1>2, <1>3, <1>4, <1>5, <1>6, <1>7, <1>9, <1>10, <1>11, <1>12, <1>13,
           SubmitKeeps, FetchKeeps, ResizeKeeps, FinishKeeps DEF WpNext

LEMMA WpInvSafe == WpInv => WpSafe
<1> SUFFICES ASSUME WpInv PROVE WpSafe
  OBVIOUS
<1>1. WpTypeOK
  BY DEF WpInv, QueueInv, HandInv, WpTypeOK, Marks
<1>2. Queued = InQueue
  <2>1. Queued = {Nth(i) : i \in 0 .. used - 1}
    BY DEF Queued, Nth
  <2>2. ASSUME NEW i \in 0 .. used - 1 PROVE Nth(i) \in InQueue
    BY DEF WpInv, QueueInv
  <2>3. ASSUME NEW t \in InQueue PROVE \E i \in 0 .. used - 1 : Nth(i) = t
    BY DEF WpInv, QueueInv
  <2> QED BY <2>1, <2>2, <2>3
<1>3. \A i \in 0 .. used - 1 : <<used - i, tasks[(front + i) % size]>> \in order
  BY DEF WpInv, QueueInv, Nth
<1>4. {t \in Tasks : fd[t] = "worker"} = {hand[w] : w \in {v \in PoolWorkers : hand[v] \in Tasks}}
  BY DEF WpInv, HandInv
<1>5. EachTaskOnce
  BY <1>2, <1>3, <1>4 DEF WpInv, QueueInv, HandInv, EachTaskOnce, InQueue
<1>6. NobodySleeps
  BY DEF WpInv, SleepInv, NobodySleeps, IdleSet
<1> QED BY <1>1, <1>5, <1>6 DEF WpSafe

(***************************************************************************)
(* The connection pool of sm_connection_pool.c.                            *)
(***************************************************************************)
Busy == {b \in Borrowers : held[b] # NoConn}

ConnTypes ==
    /\ slots \in [1 .. MaxSlots -> Conns \cup {NoConn}]
    /\ held \in [Borrowers -> Conns \cup {NoConn, "creating"}]
    /\ conn \in [Conns -> {"closed", "open", "dead"}]

\* One place for each descriptor that is open, and none for one that is not.
PlaceInv ==
    /\ \A i, j \in 1 .. MaxSlots : slots[i] = slots[j] /\ slots[i] \in Conns => i = j
    /\ \A a, b \in Borrowers : held[a] = held[b] /\ held[a] \in Conns => a = b
    /\ \A i \in 1 .. MaxSlots, b \in Borrowers : slots[i] \in Conns => slots[i] # held[b]
    /\ \A c \in Conns : conn[c] = "closed" <=> ((\A i \in 1 .. MaxSlots : slots[i] # c) /\ (\A b \in Borrowers : held[b] # c))

CounterInv ==
    /\ pooled \in BOOLEAN
    /\ pooled => available = Cardinality(Filled) /\ in_use = Cardinality(Busy)
    /\ ~pooled => Filled = {} /\ Busy = {}

PoolConnInv == ConnTypes /\ PlaceInv /\ CounterInv

LEMMA MarksAreNoConns == NoConn \notin Conns /\ "creating" \notin Conns /\ NoConn # "creating"
BY ConnAssumption DEF NoConn

LEMMA FilledFinite == IsFiniteSet(Filled) /\ Cardinality(Filled) \in Nat /\ IsFiniteSet(Busy) /\ Cardinality(Busy) \in Nat
<1>1. IsFiniteSet(1 .. MaxSlots)
  BY ConnAssumption, FS_Interval
<1> QED BY <1>1, ConnAssumption, FS_Subset, FS_CardinalityType DEF Filled, Busy

LEMMA ConnInitHolds == ConnInit => PoolConnInv
<1> SUFFICES ASSUME ConnInit PROVE PoolConnInv
  OBVIOUS
<1>1. ConnTypes
  BY DEF ConnInit, ConnTypes
<1>2. (\A i \in 1 .. MaxSlots : slots[i] = NoConn) /\ (\A b \in Borrowers : held[b] = NoConn)
  BY DEF ConnInit
<1>3. PlaceInv
  BY <1>2, MarksAreNoConns DEF ConnInit, PlaceInv
<1>4. CounterInv
  BY <1>2 DEF ConnInit, CounterInv, Filled, Busy
<1> QED BY <1>1, <1>3, <1>4 DEF PoolConnInv

LEMMA GetPooledKeeps ==
  ASSUME PoolConnInv, NEW b \in Borrowers, GetPooled(b)
  PROVE  PoolConnInv'
<1>1. PICK i \in FirstAlive :
         /\ held' = [held EXCEPT ![b] = slots[i]]
         /\ slots' = [j \in DOMAIN slots |-> IF j \in StaleBefore(i) \cup {i} THEN NoConn ELSE slots[j]]
         /\ conn' = Discarded(StaleBefore(i))
         /\ available' = available - Cardinality(StaleBefore(i)) - 1
  BY DEF GetPooled
<1>2. pooled /\ held[b] = NoConn /\ in_use' = in_use + 1 /\ UNCHANGED pooled
  BY DEF GetPooled
<1> DEFINE D == StaleBefore(i)
<1>3. i \in Filled /\ D \subseteq Filled /\ i \notin D /\ Filled \subseteq 1 .. MaxSlots
  BY DEF FirstAlive, StaleBefore, Filled
<1>4. slots[i] \in Conns /\ \A j \in D : slots[j] \in Conns
  BY <1>3 DEF Filled, PoolConnInv, ConnTypes
<1> HIDE DEF D
<1>5. \A j \in 1 .. MaxSlots : slots'[j] = IF j \in D \cup {i} THEN NoConn ELSE slots[j]
  BY <1>1 DEF PoolConnInv, ConnTypes, D
<1>6. \A c \in Conns : conn'[c] = IF \E j \in D : slots[j] = c THEN "closed" ELSE conn[c]
  BY <1>1 DEF Discarded, D
<1>7. held'[b] = slots[i] /\ \A x \in Borrowers \ {b} : held'[x] = held[x]
  BY <1>1 DEF PoolConnInv, ConnTypes
<1>8. ConnTypes'
  <2>1. slots' \in [1 .. MaxSlots -> Conns \cup {NoConn}]
    BY <1>1 DEF PoolConnInv, ConnTypes
  <2>2. held' \in [Borrowers -> Conns \cup {NoConn, "creating"}]
    BY <1>1, <1>4 DEF PoolConnInv, ConnTypes
  <2>3. conn' \in [Conns -> {"closed", "open", "dead"}]
    BY <1>1 DEF PoolConnInv, ConnTypes, Discarded
  <2> QED BY <2>1, <2>2, <2>3 DEF ConnTypes
<1>9. PlaceInv'
  <2>1. \A j, k \in 1 .. MaxSlots : slots'[j] = slots'[k] /\ slots'[j] \in Conns => j = k
    BY <1>5, MarksAreNoConns DEF PoolConnInv, PlaceInv
  <2>2. \A x, y \in Borrowers : held'[x] = held'[y] /\ held'[x] \in Conns => x = y
    BY <1>3, <1>4, <1>7 DEF PoolConnInv, PlaceInv
  <2>3. \A j \in 1 .. MaxSlots, x \in Borrowers : slots'[j] \in Conns => slots'[j] # held'[x]
    BY <1>3, <1>4, <1>5, <1>7, MarksAreNoConns DEF PoolConnInv, PlaceInv
  <2>4. ASSUME NEW c \in Conns
        PROVE  conn'[c] = "closed" <=> ((\A j \in 1 .. MaxSlots : slots'[j] # c) /\ (\A x \in Borrowers : held'[x] # c))
    <3>1. CASE \E j \in D : slots[j] = c
      <4>1. PICK j \in D : slots[j] = c
        BY <3>1
      <4>2. \A k \in 1 .. MaxSlots : slots'[k] # c
        BY <1>3, <1>5, <4>1, MarksAreNoConns DEF PoolConnInv, PlaceInv
      <4>3. \A x \in Borrowers : held'[x] # c
        BY <1>3, <1>4, <1>7, <4>1 DEF PoolConnInv, PlaceInv
      <4> QED BY <1>6, <3>1, <4>2, <4>3
    <3>2. CASE ~(\E j \in D : slots[j] = c) /\ slots[i] = c
      <4>1. conn[c] # "closed" /\ held'[b] = c
        BY <1>3, <1>7, <3>2 DEF PoolConnInv, PlaceInv
      <4> QED BY <1>6, <3>2, <4>1
    <3>3. CASE ~(\E j \in D : slots[j] = c) /\ slots[i] # c
      <4>1. \A j \in 1 .. MaxSlots : slots'[j] = c <=> slots[j] = c
        BY <1>5, <3>3, MarksAreNoConns
      <4>2. \A x \in Borrowers : held'[x] = c <=> held[x] = c
        BY <1>2, <1>7, <3>3, MarksAreNoConns
      <4> QED BY <1>6, <3>3, <4>1, <4>2 DEF PoolConnInv, PlaceInv
    <3> QED BY <3>1, <3>2, <3>3
  <2> QED BY <2>1, <2>2, <2>3, <2>4 DEF PlaceInv
<1>10. CounterInv'
  <2>1. Filled' = (Filled \ D) \ {i}
    BY <1>3, <1>5 DEF Filled
  <2>2. Cardinality(Filled \ D) = Cardinality(Filled) - Cardinality(D) /\ IsFiniteSet(Filled \ D) /\ Cardinality(D) \in Nat
    <3>1. Filled \cap D = D /\ IsFiniteSet(D)
      BY <1>3, FilledFinite, FS_Subset
    <3> QED BY <3>1, FilledFinite, FS_Difference, FS_CardinalityType
  <2>3. Cardinality(Filled') = Cardinality(Filled \ D) - 1
    BY <1>3, <2>1, <2>2, FS_RemoveElement
  <2>4. Busy' = Busy \cup {b} /\ b \notin Busy
    BY <1>2, <1>4, <1>7, MarksAreNoConns DEF Busy
  <2>5. Cardinality(Busy') = Cardinality(Busy) + 1
    BY <2>4, FilledFinite, FS_AddElement
  <2>6. available = Cardinality(Filled) /\ in_use = Cardinality(Busy)
    BY <1>2 DEF PoolConnInv, CounterInv
  <2>7. available' = Cardinality(Filled')
    BY <1>1, <2>2, <2>3, <2>6, FilledFinite DEF D
  <2> QED BY <1>2, <2>5, <2>6, <2>7 DEF CounterInv
<1> QED BY <1>8, <1>9, <1>10 DEF PoolConnInv

\* All slots are emptied and what was in them is closed.
LEMMA DiscardAll ==
  ASSUME PoolConnInv, slots' = [i \in DOMAIN slots |-> NoConn], conn' = Discarded(Filled),
         held' \in [Borrowers -> Conns \cup {NoConn, "creating"}],
         \A x \in Borrowers : held'[x] = held[x] \/ (held[x] \notin Conns /\ held'[x] \notin Conns)
  PROVE  ConnTypes' /\ PlaceInv' /\ Filled' = {}
<1>1. \A i \in 1 .. MaxSlots : slots'[i] = NoConn
  BY DEF PoolConnInv, ConnTypes
<1>2. \A c \in Conns : conn'[c] = IF \E i \in Filled : slots[i] = c THEN "closed" ELSE conn[c]
  BY DEF Discarded
<1>3. ConnTypes'
  BY DEF PoolConnInv, ConnTypes, Discarded
<1>4. \A x \in Borrowers, c \in Conns : held'[x] = c <=> held[x] = c
  OBVIOUS
<1>5. \A x, y \in Borrowers : held'[x] = held'[y] /\ held'[x] \in Conns => x = y
  BY <1>4 DEF PoolConnInv, PlaceInv
<1>6. ASSUME NEW c \in Conns
      PROVE  conn'[c] = "closed" <=> ((\A i \in 1 .. MaxSlots : slots'[i] # c) /\ (\A b \in Borrowers : held'[b] # c))
  <2>1. \A i \in 1 .. MaxSlots : slots'[i] # c
    BY <1>1, MarksAreNoConns
  <2>2. CASE \E i \in Filled : slots[i] = c
    <3>1. PICK i \in 1 .. MaxSlots : slots[i] = c
      BY <2>2 DEF Filled
    <3>2. \A x \in Borrowers : held'[x] # c
      BY <1>4, <3>1 DEF PoolConnInv, PlaceInv
    <3> QED BY <1>2, <2>1, <2>2, <3>2
  <2>3. CASE ~(\E i \in Filled : slots[i] = c)
    <3>1. \A i \in 1 .. MaxSlots : slots[i] # c
      BY <2>3, MarksAreNoConns DEF Filled
    <3> QED BY <1>2, <1>4, <2>1, <2>3, <3>1 DEF PoolConnInv, PlaceInv
  <2> QED BY <2>2, <2>3
<1>7. PlaceInv'
  BY <1>1, <1>5, <1>6, MarksAreNoConns DEF PlaceInv
<1>8. Filled' = {}
  BY <1>1 DEF Filled
<1> QED BY <1>3, <1>7, <1>8

LEMMA GetNoneKeeps ==
  ASSUME PoolConnInv, NEW b \in Borrowers, GetNone(b)
  PROVE  PoolConnInv'
<1>1. /\ pooled /\ held[b] = NoConn /\ slots' = [i \in DOMAIN slots |-> NoConn] /\ conn' = Discarded(Filled)
      /\ available' = available - Cardinality(Filled) /\ in_use' = in_use + 1
      /\ held' = [held EXCEPT ![b] = "creating"] /\ UNCHANGED pooled
  BY DEF GetNone
<1>2. /\ held' \in [Borrowers -> Conns \cup {NoConn, "creating"}] /\ held'[b] = "creating"
      /\ \A x \in Borrowers \ {b} : held'[x] = held[x]
  BY <1>1 DEF PoolConnInv, ConnTypes
<1>3. ConnTypes' /\ PlaceInv' /\ Filled' = {}
  BY <1>1, <1>2, DiscardAll, MarksAreNoConns
<1>4. Busy' = Busy \cup {b} /\ b \notin Busy
  BY <1>1, <1>2, MarksAreNoConns DEF Busy
<1>5. Cardinality(Busy') = Cardinality(Busy) + 1 /\ Cardinality(Filled') = 0
  BY <1>3, <1>4, FilledFinite, FS_AddElement, FS_EmptySet
<1>6. available = Cardinality(Filled) /\ in_use = Cardinality(Busy)
  BY <1>1 DEF PoolConnInv, CounterInv
<1>7. available' = 0
  BY <1>1, <1>6, FilledFinite
<1>8. CounterInv'
  BY <1>1, <1>5, <1>6, <1>7 DEF CounterInv
<1> QED BY <1>3, <1>8 DEF PoolConnInv

LEMMA PutKeeps ==
  ASSUME PoolConnInv, NEW b \in Borrowers, Put(b)
  PROVE  PoolConnInv'
<1> DEFINE c == held[b]
<1>1. pooled /\ c \in Conns /\ in_use' = in_use - 1 /\ held' = [held EXCEPT ![b] = NoConn] /\ UNCHANGED pooled
  BY DEF Put
<1>2. /\ held' \in [Borrowers -> Conns \cup {NoConn, "creating"}] /\ held'[b] = NoConn
      /\ \A x \in Borrowers \ {b} : held'[x] = held[x] /\ held[x] # c
  BY <1>1 DEF PoolConnInv, ConnTypes, PlaceInv
<1>3. conn[c] # "closed" /\ \A j \in 1 .. MaxSlots : slots[j] # c
  BY <1>1 DEF PoolConnInv, PlaceInv
<1>4. Busy' = Busy \ {b} /\ b \in Busy
  BY <1>1, <1>2, MarksAreNoConns DEF Busy
<1>5. Cardinality(Busy') = Cardinality(Busy) - 1
  BY <1>4, FilledFinite, FS_RemoveElement
<1>6. available = Cardinality(Filled) /\ in_use = Cardinality(Busy)
  BY <1>1 DEF PoolConnInv, CounterInv
<1>7. ASSUME NEW i \in DOMAIN slots \ Filled, slots' = [slots EXCEPT ![i] = c], available' = available + 1, UNCHANGED conn
      PROVE  PoolConnInv'
  <2>1. i \in 1 .. MaxSlots /\ slots[i] = NoConn
    BY DEF Filled, PoolConnInv, ConnTypes
  <2>2. slots' \in [1 .. MaxSlots -> Conns \cup {NoConn}] /\ slots'[i] = c /\ \A j \in 1 .. MaxSlots \ {i} : slots'[j] = slots[j]
    BY <1>1, <1>7, <2>1 DEF PoolConnInv, ConnTypes
  <2> HIDE DEF c
  <2>3. ConnTypes'
    BY <1>2, <1>7, <2>2 DEF PoolConnInv, ConnTypes
  <2>4. \A j, k \in 1 .. MaxSlots : slots'[j] = slots'[k] /\ slots'[j] \in Conns => j = k
    BY <1>3, <2>1, <2>2 DEF PoolConnInv, PlaceInv
  <2>5. \A x, y \in Borrowers : held'[x] = held'[y] /\ held'[x] \in Conns => x = y
    BY <1>2, MarksAreNoConns DEF PoolConnInv, PlaceInv
  <2>6. \A j \in 1 .. MaxSlots, x \in Borrowers : slots'[j] \in Conns => slots'[j] # held'[x]
    BY <1>2, <2>1, <2>2, MarksAreNoConns DEF PoolConnInv, PlaceInv
  <2>7. ASSUME NEW d \in Conns
        PROVE  conn'[d] = "closed" <=> ((\A j \in 1 .. MaxSlots : slots'[j] # d) /\ (\A x \in Borrowers : held'[x] # d))
    <3>1. CASE d = c
      BY <1>3, <1>7, <2>1, <2>2, <3>1
    <3>2. CASE d # c
      <4>1. \A j \in 1 .. MaxSlots : slots'[j] = d <=> slots[j] = d
        BY <2>1, <2>2, <3>2, MarksAreNoConns
      <4>2. \A x \in Borrowers : held'[x] = d <=> held[x] = d
        BY <1>2, <3>2, MarksAreNoConns DEF c
      <4> QED BY <1>7, <4>1, <4>2 DEF PoolConnInv, PlaceInv
    <3> QED BY <3>1, <3>2
  <2>8. Filled' = Filled \cup {i} /\ i \notin Filled
    BY <1>1, <2>1, <2>2, MarksAreNoConns DEF Filled
  <2>9. Cardinality(Filled') = Cardinality(Filled) + 1
    BY <2>8, FilledFinite, FS_AddElement
  <2>10. CounterInv'
    BY <1>1, <1>5, <1>6, <1>7, <2>9 DEF CounterInv
  <2> QED BY <2>3, <2>4, <2>5, <2>6, <2>7, <2>10 DEF PoolConnInv, PlaceInv
<1>8. ASSUME conn' = [conn EXCEPT ![c] = "closed"], UNCHANGED <<slots, available>> PROVE PoolConnInv'
  <2>1. conn' \in [Conns -> {"closed", "open", "dead"}] /\ \A d \in Conns : conn'[d] = IF d = c THEN "closed" ELSE conn[d]
    BY <1>1, <1>8 DEF PoolConnInv, ConnTypes
  <2> HIDE DEF c
  <2>2. ConnTypes'
    BY <1>2, <1>8, <2>1 DEF PoolConnInv, ConnTypes
  <2>3. \A x, y \in Borrowers : held'[x] = held'[y] /\ held'[x] \in Conns => x = y
    BY <1>2, MarksAreNoConns DEF PoolConnInv, PlaceInv
  <2>4. \A j \in 1 .. MaxSlots, x \in Borrowers : slots[j] \in Conns => slots[j] # held'[x]
    BY <1>2, MarksAreNoConns DEF PoolConnInv, PlaceInv
  <2>5. ASSUME NEW d \in Conns
        PROVE  conn'[d] = "closed" <=> ((\A j \in 1 .. MaxSlots : slots[j] # d) /\ (\A x \in Borrowers : held'[x] # d))
    <3>1. CASE d = c
      BY <1>1, <1>2, <1>3, <2>1, <3>1, MarksAreNoConns
    <3>2. CASE d # c
      <4>1. \A x \in Borrowers : held'[x] = d <=> held[x] = d
        BY <1>2, <3>2, MarksAreNoConns DEF c
      <4> QED BY <2>1, <3>2, <4>1 DEF PoolConnInv, PlaceInv
    <3> QED BY <3>1, <3>2
  <2>6. PlaceInv'
    BY <1>8, <2>3, <2>4, <2>5 DEF PoolConnInv, PlaceInv
  <2>7. CounterInv'
    BY <1>1, <1>5, <1>6, <1>8 DEF CounterInv, Filled
  <2> QED BY <2>2, <2>6, <2>7 DEF PoolConnInv
<1> QED BY <1>7, <1>8 DEF Put

LEMMA CreatedKeeps ==
  ASSUME PoolConnInv, NEW b \in Borrowers, NEW c \in Conns, Created(b, c)
  PROVE  PoolConnInv'
<1>1. /\ held[b] = "creating" /\ conn[c] = "closed" /\ conn' = [conn EXCEPT ![c] = "open"]
      /\ held' = [held EXCEPT ![b] = c] /\ UNCHANGED <<slots, available, in_use, pooled>>
  BY DEF Created
<1>2. conn' \in [Conns -> {"closed", "open", "dead"}] /\ \A d \in Conns : conn'[d] = IF d = c THEN "open" ELSE conn[d]
  BY <1>1 DEF PoolConnInv, ConnTypes
<1>3. held' \in [Borrowers -> Conns \cup {NoConn, "creating"}] /\ held'[b] = c /\ \A x \in Borrowers \ {b} : held'[x] = held[x]
  BY <1>1 DEF PoolConnInv, ConnTypes
<1>4. (\A i \in 1 .. MaxSlots : slots[i] # c) /\ (\A x \in Borrowers : held[x] # c)
  BY <1>1 DEF PoolConnInv, PlaceInv
<1>5. ConnTypes'
  BY <1>1, <1>2, <1>3 DEF PoolConnInv, ConnTypes
<1>6. \A x, y \in Borrowers : held'[x] = held'[y] /\ held'[x] \in Conns => x = y
  BY <1>3, <1>4 DEF PoolConnInv, PlaceInv
<1>7. \A j \in 1 .. MaxSlots, x \in Borrowers : slots[j] \in Conns => slots[j] # held'[x]
  BY <1>3, <1>4 DEF PoolConnInv, PlaceInv
<1>8. ASSUME NEW d \in Conns
      PROVE  conn'[d] = "closed" <=> ((\A j \in 1 .. MaxSlots : slots[j] # d) /\ (\A x \in Borrowers : held'[x] # d))
  <2>1. CASE d = c
    BY <1>2, <1>3, <2>1
  <2>2. CASE d # c
    <3>1. \A x \in Borrowers : held'[x] = d <=> held[x] = d
      BY <1>1, <1>3, <2>2, MarksAreNoConns
    <3> QED BY <1>2, <2>2, <3>1 DEF PoolConnInv, PlaceInv
  <2> QED BY <2>1, <2>2
<1>9. PlaceInv'
  BY <1>1, <1>6, <1>7, <1>8 DEF PoolConnInv, PlaceInv
<1>10. Busy' = Busy /\ Filled' = Filled /\ b \in Busy
  BY <1>1, <1>3, MarksAreNoConns DEF Busy, Filled
<1>11. CounterInv'
  BY <1>1, <1>10 DEF PoolConnInv, CounterInv
<1> QED BY <1>5, <1>9, <1>11 DEF PoolConnInv

LEMMA ConnStep == PoolConnInv /\ [ConnNext]_connVars => PoolConnInv'
<1> SUFFICES ASSUME PoolConnInv, [ConnNext]_connVars PROVE PoolConnInv'
  OBVIOUS
<1>1. ASSUME InitConns PROVE PoolConnInv'
  <2>1. /\ ~pooled /\ pooled' /\ available' = 0 /\ in_use' = 0 /\ slots' = [i \in 1 .. MaxSlots |-> NoConn] /\ UNCHANGED <<conn, held>>
        /\ pooled' = TRUE
    BY <1>1 DEF InitConns
  <2>2. Filled = {} /\ Busy = {}
    BY <2>1 DEF PoolConnInv, CounterInv
  <2>3. slots' = slots
    BY <2>1, <2>2 DEF PoolConnInv, ConnTypes, Filled
  <2>4. ConnTypes' /\ PlaceInv'
    BY <2>1, <2>3 DEF PoolConnInv, ConnTypes, PlaceInv
  <2>5. Filled' = {} /\ Busy' = {}
    BY <2>1, <2>2, <2>3 DEF Filled, Busy
  <2>6. CounterInv'
    BY <2>1, <2>5, FS_EmptySet DEF CounterInv
  <2> QED BY <2>4, <2>6 DEF PoolConnInv
<1>2. ASSUME CleanupConns PROVE PoolConnInv'
  <2>1. /\ (\A b \in Borrowers : held[b] = NoConn) /\ conn' = Discarded(Filled) /\ slots' = [i \in DOMAIN slots |-> NoConn]
        /\ pooled' = FALSE /\ UNCHANGED held
    BY <1>2 DEF CleanupConns
  <2>2. held' \in [Borrowers -> Conns \cup {NoConn, "creating"}]
    BY <2>1 DEF PoolConnInv, ConnTypes
  <2>3. ConnTypes' /\ PlaceInv' /\ Filled' = {}
    BY <2>1, <2>2, DiscardAll
  <2>4. Busy' = {}
    BY <2>1 DEF Busy
  <2>5. CounterInv'
    BY <2>1, <2>3, <2>4 DEF CounterInv
  <2> QED BY <2>3, <2>5 DEF PoolConnInv
<1>3. ASSUME NEW b \in Borrowers, CreateFailed(b) PROVE PoolConnInv'
  <2>1. held[b] = "creating" /\ in_use' = in_use - 1 /\ held' = [held EXCEPT ![b] = NoConn] /\ UNCHANGED <<slots, available, pooled, conn>>
    BY <1>3 DEF CreateFailed
  <2>2. held' \in [Borrowers -> Conns \cup {NoConn, "creating"}] /\ \A x \in Borrowers, c \in Conns : held'[x] = c <=> held[x] = c
    BY <2>1, MarksAreNoConns DEF PoolConnInv, ConnTypes
  <2>3. ConnTypes'
    BY <2>1, <2>2 DEF PoolConnInv, ConnTypes
  <2>4. PlaceInv'
    BY <2>1, <2>2 DEF PoolConnInv, PlaceInv
  <2>5. Busy' = Busy \ {b} /\ b \in Busy /\ Filled' = Filled
    BY <2>1, MarksAreNoConns DEF Busy, Filled, PoolConnInv, ConnTypes
  <2>6. Cardinality(Busy') = Cardinality(Busy) - 1
    BY <2>5, FilledFinite, FS_RemoveElement
  <2>7. CounterInv'
    BY <2>1, <2>5, <2>6 DEF PoolConnInv, CounterInv
  <2> QED BY <2>3, <2>4, <2>7 DEF PoolConnInv
<1>4. ASSUME NEW c \in Conns, GoesStale(c) PROVE PoolConnInv'
  <2>1. conn[c] = "open" /\ conn' = [conn EXCEPT ![c] = "dead"] /\ UNCHANGED <<slots, available, in_use, pooled, held>>
    BY <1>4 DEF GoesStale
  <2>2. conn' \in [Conns -> {"closed", "open", "dead"}] /\ \A d \in Conns : conn'[d] = "closed" <=> conn[d] = "closed"
    BY <2>1 DEF PoolConnInv, ConnTypes
  <2>3. ConnTypes'
    BY <2>1, <2>2 DEF PoolConnInv, ConnTypes
  <2>4. PlaceInv'
    BY <2>1, <2>2 DEF PoolConnInv, PlaceInv
  <2>5. CounterInv'
    BY <2>1 DEF PoolConnInv, CounterInv, Filled, Busy
  <2> QED BY <2>3, <2>4, <2>5 DEF PoolConnInv
<1>5. ASSUME UNCHANGED connVars PROVE PoolConnInv'
  BY <1>5 DEF connVars, PoolConnInv, ConnTypes, PlaceInv, CounterInv, Filled, Busy
<1> QED BY <1>1, <1>2, <1>3, <1>4, <1>5, GetPooledKeeps, GetNoneKeeps, PutKeeps, CreatedKeeps DEF ConnNext

LEMMA ConnInvSafe == PoolConnInv => ConnSafe
<1> SUFFICES ASSUME PoolConnInv PROVE ConnSafe
  OBVIOUS
<1>1. ConnTypeOK
  BY DEF PoolConnInv, ConnTypes, ConnTypeOK
<1>2. CountsAgree
  BY DEF PoolConnInv, CounterInv, CountsAgree, Busy
<1>3. ASSUME NEW c \in Conns
      PROVE  Cardinality({i \in DOMAIN slots : slots[i] = c}) + Cardinality({b \in Borrowers : held[b] = c})
               = IF conn[c] = "closed" THEN 0 ELSE 1
  <2> DEFINE S == {i \in DOMAIN slots : slots[i] = c}
             B == {b \in Borrowers : held[b] = c}
  <2>0. DOMAIN slots = 1 .. MaxSlots
    BY DEF PoolConnInv, ConnTypes
  <2>1. CASE conn[c] = "closed"
    <3>1. S = {} /\ B = {}
      BY <2>0, <2>1 DEF PoolConnInv, PlaceInv
    <3> QED BY <2>1, <3>1, FS_EmptySet
  <2>2. CASE conn[c] # "closed" /\ \E i \in 1 .. MaxSlots : slots[i] = c
    <3>1. PICK i \in 1 .. MaxSlots : slots[i] = c
      BY <2>2
    <3>2. S = {i} /\ B = {}
      BY <2>0, <3>1 DEF PoolConnInv, PlaceInv
    <3>3. Cardinality(S) = 1 /\ Cardinality(B) = 0
      BY <3>2, FS_Singleton, FS_EmptySet
    <3> QED BY <2>2, <3>3
  <2>3. CASE conn[c] # "closed" /\ ~(\E i \in 1 .. MaxSlots : slots[i] = c)
    <3>1. PICK b \in Borrowers : held[b] = c
      BY <2>3 DEF PoolConnInv, PlaceInv
    <3>2. S = {} /\ B = {b}
      BY <2>0, <2>3, <3>1 DEF PoolConnInv, PlaceInv
    <3>3. Cardinality(S) = 0 /\ Cardinality(B) = 1
      BY <3>2, FS_Singleton, FS_EmptySet
    <3> QED BY <2>3, <3>3
  <2> QED BY <2>1, <2>2, <2>3
<1> QED BY <1>1, <1>2, <1>3 DEF ConnSafe, OneHolder

(***************************************************************************)
(* enterprise/sm_rolling_restart.c.  Of what ProgressIsTrue leaves open    *)
(* the proof needs where the pending entries are while the thread works on *)
(* one without the lock: behind it.                                        *)
(***************************************************************************)
EntryStates == {"PENDING", "IN_PROGRESS", "SUCCESS", "SKIPPED"}

RrTypes ==
    /\ rr \in [services : Seq(EntryStates), current_idx : 1 .. MaxListed + 1, is_active : BOOLEAN,
               thread_running : BOOLEAN, initialized : BOOLEAN]
    /\ Len(rr.services) =< MaxListed
    /\ thread \in [at : {"none", "looking", "restarting", "exited"}, entry : 0 .. MaxListed]
    /\ thread.at = "restarting" => thread.entry \in 1 .. MaxListed
    /\ overlap \in BOOLEAN

PendingBehind ==
    ~overlap /\ thread.at = "restarting" => \A i \in In("PENDING") : i > thread.entry

RrInv == RrTypes /\ ProgressIsTrue /\ PendingBehind

\* A list of given length with given entries.
LEMMA ListOf ==
  ASSUME NEW n \in Nat, NEW S, NEW f, f \in [1 .. n -> S]
  PROVE  f \in Seq(S) /\ Len(f) = n /\ DOMAIN f = 1 .. n
OBVIOUS

\* No list, at the beginning and after a step.
LEMMA RrZeroHolds ==
  ASSUME rr \in [services : {<< >>}, current_idx : {1}, is_active : BOOLEAN,
                 thread_running : BOOLEAN, initialized : BOOLEAN],
         thread \in [at : {"none", "looking"}, entry : {0}], restarts = {}, overlap = FALSE
  PROVE  RrInv
<1>1. rr.services = << >> /\ rr.current_idx = 1 /\ MaxListed \in Nat
  BY RrAssumption
<1>2. RrTypes
  <2>1. << >> \in Seq(EntryStates) /\ Len(<< >>) = 0
    OBVIOUS
  <2>2. /\ rr \in [services : Seq(EntryStates), current_idx : 1 .. MaxListed + 1, is_active : BOOLEAN,
                   thread_running : BOOLEAN, initialized : BOOLEAN]
        /\ Len(rr.services) =< MaxListed
    <3> DEFINE none == << >>
    <3>1. none \in Seq(EntryStates) /\ Len(none) =< MaxListed /\ 1 \in 1 .. MaxListed + 1
      BY <1>1, <2>1
    <3>2. rr \in [services : {none}, current_idx : {1}, is_active : BOOLEAN,
                 thread_running : BOOLEAN, initialized : BOOLEAN]
      OBVIOUS
    <3> HIDE DEF none
    <3> QED BY <3>1, <3>2
  <2>3. /\ thread \in [at : {"none", "looking", "restarting", "exited"}, entry : 0 .. MaxListed]
        /\ thread.at # "restarting"
    BY <1>1
  <2> QED BY <2>2, <2>3 DEF RrTypes
<1>3. \A state : In(state) = {}
  BY <1>1 DEF In
<1>4. thread.at # "restarting"
  OBVIOUS
<1>5. ProgressIsTrue
  BY <1>3, <1>4 DEF ProgressIsTrue
<1>6. PendingBehind
  BY <1>4 DEF PendingBehind
<1> QED BY <1>2, <1>5, <1>6 DEF RrInv

LEMMA RrZeroFollows ==
  ASSUME rr' \in [services : {<< >>}, current_idx : {1}, is_active : BOOLEAN,
                 thread_running : BOOLEAN, initialized : BOOLEAN],
         thread' \in [at : {"none", "looking"}, entry : {0}], restarts' = {}, overlap' = FALSE
  PROVE  RrInv'
<1>1. rr'.services = << >> /\ rr'.current_idx = 1 /\ MaxListed \in Nat
  BY RrAssumption
<1>2. RrTypes'
  <2>1. << >> \in Seq(EntryStates) /\ Len(<< >>) = 0
    OBVIOUS
  <2>2. /\ rr' \in [services : Seq(EntryStates), current_idx : 1 .. MaxListed + 1, is_active : BOOLEAN,
                   thread_running : BOOLEAN, initialized : BOOLEAN]
        /\ Len(rr'.services) =< MaxListed
    <3> DEFINE none == << >>
    <3>1. none \in Seq(EntryStates) /\ Len(none) =< MaxListed /\ 1 \in 1 .. MaxListed + 1
      BY <1>1, <2>1
    <3>2. rr' \in [services : {none}, current_idx : {1}, is_active : BOOLEAN,
                 thread_running : BOOLEAN, initialized : BOOLEAN]
      OBVIOUS
    <3> HIDE DEF none
    <3> QED BY <3>1, <3>2
  <2>3. /\ thread' \in [at : {"none", "looking", "restarting", "exited"}, entry : 0 .. MaxListed]
        /\ thread'.at # "restarting"
    BY <1>1
  <2> QED BY <2>2, <2>3 DEF RrTypes
<1>3. \A state : In(state)' = {}
  BY <1>1 DEF In
<1>4. thread'.at # "restarting"
  OBVIOUS
<1>5. ProgressIsTrue'
  BY <1>3, <1>4 DEF ProgressIsTrue
<1>6. PendingBehind'
  BY <1>4 DEF PendingBehind
<1> QED BY <1>2, <1>5, <1>6 DEF RrInv

LEMMA RrInitHolds == RrInit => RrInv
<1> SUFFICES ASSUME RrInit PROVE RrInv
  OBVIOUS
<1>1. /\ rr \in [services : {<< >>}, current_idx : {1}, is_active : BOOLEAN,
                 thread_running : BOOLEAN, initialized : BOOLEAN]
      /\ thread \in [at : {"none", "looking"}, entry : {0}] /\ restarts = {} /\ overlap = FALSE
  BY DEF RrInit, RrZero, NoThread
<1> QED BY <1>1, RrZeroHolds

\* What cancelling leaves.
LEMMA CancelledIs ==
  ASSUME RrInv
  PROVE  /\ Cancelled \in [services : Seq(EntryStates), current_idx : 1 .. MaxListed + 1, is_active : BOOLEAN,
                           thread_running : BOOLEAN, initialized : BOOLEAN]
         /\ Cancelled.is_active = FALSE /\ Cancelled.current_idx = rr.current_idx
         /\ DOMAIN Cancelled.services = DOMAIN rr.services /\ Len(Cancelled.services) =< MaxListed
         /\ \A i \in DOMAIN rr.services : Cancelled.services[i] =
                IF rr.services[i] = "PENDING" THEN "SKIPPED" ELSE rr.services[i]
<1> DEFINE list == [i \in DOMAIN rr.services |->
                      IF rr.services[i] = "PENDING" THEN "SKIPPED" ELSE rr.services[i]]
           off == [rr EXCEPT !.is_active = FALSE]
           RrSet == [services : Seq(EntryStates), current_idx : 1 .. MaxListed + 1, is_active : BOOLEAN,
                     thread_running : BOOLEAN, initialized : BOOLEAN]
<1>1. /\ rr \in RrSet
      /\ Len(rr.services) \in Nat /\ DOMAIN rr.services = 1 .. Len(rr.services)
      /\ Len(rr.services) =< MaxListed
      /\ \A i \in DOMAIN rr.services : rr.services[i] \in EntryStates
  BY DEF RrInv, RrTypes
<1>2. list \in [1 .. Len(rr.services) -> EntryStates]
  BY <1>1 DEF EntryStates
<1>3. list \in Seq(EntryStates) /\ Len(list) = Len(rr.services) /\ DOMAIN list = DOMAIN rr.services
  <2> HIDE DEF list
  <2> QED BY <1>1, <1>2, ListOf
<1>4. \A i \in DOMAIN rr.services : list[i] = IF rr.services[i] = "PENDING" THEN "SKIPPED" ELSE rr.services[i]
  OBVIOUS
<1>5. off \in RrSet /\ off.is_active = FALSE /\ off.current_idx = rr.current_idx
  BY <1>1
<1>6. Cancelled = [off EXCEPT !.services = list]
  BY DEF Cancelled
<1> HIDE DEF list, off
<1>7. Cancelled \in RrSet /\ Cancelled.is_active = FALSE /\ Cancelled.current_idx = rr.current_idx
      /\ Cancelled.services = list
  BY <1>3, <1>5, <1>6
<1> QED BY <1>1, <1>3, <1>4, <1>7

\* Cancelling keeps the invariant, whoever does it.
LEMMA CancelStep ==
  ASSUME RrInv, UNCHANGED <<thread, restarts, overlap>>, NEW run \in BOOLEAN,
         rr' = [Cancelled EXCEPT !.thread_running = run]
  PROVE  RrInv'
<1> DEFINE c == Cancelled
           RrSet == [services : Seq(EntryStates), current_idx : 1 .. MaxListed + 1, is_active : BOOLEAN,
                     thread_running : BOOLEAN, initialized : BOOLEAN]
<1>1. /\ c \in RrSet /\ c.is_active = FALSE /\ c.current_idx = rr.current_idx
      /\ DOMAIN c.services = DOMAIN rr.services /\ Len(c.services) =< MaxListed
      /\ \A i \in DOMAIN rr.services : c.services[i] =
                IF rr.services[i] = "PENDING" THEN "SKIPPED" ELSE rr.services[i]
  BY CancelledIs
<1>2. rr' = [c EXCEPT !.thread_running = run]
  OBVIOUS
<1> HIDE DEF c
<1>3. rr' \in RrSet /\ rr'.is_active = FALSE /\ rr'.current_idx = rr.current_idx /\ rr'.services = c.services
  BY <1>1, <1>2
<1>4. RrTypes'
  BY <1>1, <1>3 DEF RrInv, RrTypes
<1>5. /\ In("PENDING")' = {} /\ In("SUCCESS")' = In("SUCCESS") /\ In("IN_PROGRESS")' = In("IN_PROGRESS")
  BY SMTT(30), <1>1, <1>3 DEF In
<1>6. ProgressIsTrue'
  BY <1>5, <1>3 DEF RrInv, ProgressIsTrue
<1>7. PendingBehind'
  BY <1>5 DEF PendingBehind
<1> QED BY <1>4, <1>6, <1>7 DEF RrInv

LEMMA StartListStep ==
  ASSUME RrInv, NEW count \in 1 .. MaxListed, StartList(count)
  PROVE  RrInv'
<1> DEFINE list == [i \in 1 .. count |-> "PENDING"]
           a == [rr EXCEPT !.services = list]
           b == [a EXCEPT !.current_idx = 1]
           RrSet == [services : Seq(EntryStates), current_idx : 1 .. MaxListed + 1, is_active : BOOLEAN,
                     thread_running : BOOLEAN, initialized : BOOLEAN]
<1>0. MaxListed \in Nat /\ count \in Nat /\ count =< MaxListed
  BY RrAssumption
<1>1. list \in [1 .. count -> EntryStates]
  BY DEF EntryStates
<1>2. list \in Seq(EntryStates) /\ Len(list) = count /\ DOMAIN list = 1 .. count
  <2> HIDE DEF list
  <2> QED BY <1>0, <1>1, ListOf
<1>3. \A i \in DOMAIN list : list[i] = "PENDING"
  OBVIOUS
<1>4. rr' = [b EXCEPT !.is_active = TRUE]
  BY DEF StartList
<1> HIDE DEF list
<1>5. a \in RrSet /\ a.services = list
  BY <1>2 DEF RrInv, RrTypes
<1> HIDE DEF a
<1>6. b \in RrSet /\ b.services = list /\ b.current_idx = 1
  BY <1>0, <1>5
<1> HIDE DEF b
<1>7. rr' \in RrSet /\ rr'.services = list /\ rr'.current_idx = 1 /\ rr'.is_active = TRUE
  BY <1>4, <1>6
<1>8. /\ thread' = thread /\ restarts' = {} /\ overlap' = (overlap \/ thread.at = "restarting")
  BY DEF StartList
<1>9. RrTypes'
  BY <1>0, <1>2, <1>7, <1>8 DEF RrInv, RrTypes
<1>10. In("SUCCESS")' = {} /\ In("IN_PROGRESS")' = {} /\ In("PENDING")' = 1 .. count
  BY <1>2, <1>3, <1>7 DEF In
<1>11. ~overlap' => thread'.at # "restarting"
  BY <1>8
<1>12. ProgressIsTrue'
  BY <1>7, <1>8, <1>10, <1>11 DEF ProgressIsTrue
<1>13. PendingBehind'
  BY <1>11 DEF PendingBehind
<1> QED BY <1>9, <1>12, <1>13 DEF RrInv

LEMMA BeginEntryStep ==
  ASSUME RrInv, BeginEntry
  PROVE  RrInv'
<1>0. /\ rr.services \in Seq(EntryStates) /\ Len(rr.services) \in Nat /\ Len(rr.services) =< MaxListed
      /\ DOMAIN rr.services = 1 .. Len(rr.services) /\ rr.current_idx \in Nat /\ MaxListed \in Nat
  BY RrAssumption DEF RrInv, RrTypes
<1>1. PendingFrom # {} /\ PendingFrom \subseteq Nat
  BY <1>0 DEF BeginEntry, PendingFrom
<1>2. \E i \in PendingFrom : \A j \in PendingFrom : i =< j
  BY <1>1, LeastExists
<1> DEFINE i == CHOOSE i \in PendingFrom : \A j \in PendingFrom : i =< j
<1>3. i \in PendingFrom /\ \A j \in PendingFrom : i =< j
  BY <1>2
<1>4. /\ thread.at = "looking" /\ rr' = [rr EXCEPT !.services[i] = "IN_PROGRESS"]
      /\ thread' = [at |-> "restarting", entry |-> i] /\ restarts' = restarts \cup {i}
      /\ UNCHANGED overlap
  BY DEF BeginEntry
<1> HIDE DEF i
<1>5. i \in DOMAIN rr.services /\ rr.services[i] = "PENDING" /\ i \in 1 .. MaxListed
  BY <1>0, <1>3 DEF PendingFrom
<1> DEFINE list == [rr.services EXCEPT ![i] = "IN_PROGRESS"]
<1>6. list \in [1 .. Len(rr.services) -> EntryStates]
  <2>1. rr.services \in [1 .. Len(rr.services) -> EntryStates] /\ "IN_PROGRESS" \in EntryStates
    BY <1>0 DEF EntryStates
  <2> QED BY <2>1
<1>7. list \in Seq(EntryStates) /\ Len(list) = Len(rr.services) /\ DOMAIN list = DOMAIN rr.services
  <2> HIDE DEF list
  <2> QED BY <1>0, <1>6, ListOf
<1>8. \A j \in DOMAIN rr.services : list[j] = IF j = i THEN "IN_PROGRESS" ELSE rr.services[j]
  BY <1>0
<1>9. rr' = [rr EXCEPT !.services = list]
  BY <1>4
<1> HIDE DEF list
<1>10. /\ rr' \in [services : Seq(EntryStates), current_idx : 1 .. MaxListed + 1, is_active : BOOLEAN,
                   thread_running : BOOLEAN, initialized : BOOLEAN]
       /\ rr'.services = list /\ rr'.current_idx = rr.current_idx /\ rr'.is_active = rr.is_active
  BY <1>7, <1>9 DEF RrInv, RrTypes
<1>11. RrTypes'
  BY <1>0, <1>4, <1>5, <1>7, <1>10 DEF RrInv, RrTypes
<1>12. /\ In("SUCCESS")' = In("SUCCESS") /\ In("IN_PROGRESS")' = In("IN_PROGRESS") \cup {i}
       /\ In("PENDING")' = In("PENDING") \ {i}
  BY <1>5, <1>7, <1>8, <1>10 DEF In
<1>13. rr.is_active = TRUE
  BY DEF BeginEntry, RrInv, RrTypes
<1>14. ASSUME ~overlap
       PROVE  \A j \in In("PENDING") : j \in Nat /\ j >= i
  <2> SUFFICES ASSUME NEW j \in In("PENDING") PROVE j \in Nat /\ j >= i
    OBVIOUS
  <2>1. j \in DOMAIN rr.services /\ rr.services[j] = "PENDING" /\ j >= rr.current_idx
    BY <1>14 DEF RrInv, ProgressIsTrue, In
  <2>2. j \in PendingFrom
    BY <2>1 DEF PendingFrom
  <2> QED BY <2>1, <2>2, <1>0, <1>1, <1>3
<1>15. PendingBehind'
  <2> SUFFICES ASSUME ~overlap', NEW j \in In("PENDING")' PROVE j > thread'.entry
    BY DEF PendingBehind
  <2>1. j \in Nat /\ j >= i /\ j # i /\ i \in Nat
    BY <1>4, <1>5, <1>12, <1>14
  <2> QED BY <2>1, <1>4
<1>16. ProgressIsTrue'
  <2> SUFFICES ASSUME ~overlap PROVE
                /\ restarts' = In("SUCCESS")' \cup In("IN_PROGRESS")'
                /\ In("IN_PROGRESS")' = {i}
                /\ \A j \in In("PENDING")' : j >= rr.current_idx
    BY <1>4, <1>10, <1>13 DEF ProgressIsTrue
  <2>1. /\ restarts = In("SUCCESS") \cup In("IN_PROGRESS") /\ In("IN_PROGRESS") = {}
        /\ \A j \in In("PENDING") : j >= rr.current_idx
    BY <1>4 DEF RrInv, ProgressIsTrue
  <2> QED BY <2>1, <1>4, <1>12
<1> QED BY <1>11, <1>15, <1>16 DEF RrInv

LEMMA EndEntryStep ==
  ASSUME RrInv, EndEntry
  PROVE  RrInv'
<1>0. /\ rr.services \in Seq(EntryStates) /\ Len(rr.services) \in Nat /\ Len(rr.services) =< MaxListed
      /\ DOMAIN rr.services = 1 .. Len(rr.services) /\ rr.current_idx \in Nat /\ MaxListed \in Nat
      /\ thread.entry \in 1 .. MaxListed
  BY RrAssumption DEF RrInv, RrTypes, EndEntry
<1> DEFINE list == [i \in DOMAIN rr.services |-> IF i = thread.entry THEN "SUCCESS" ELSE rr.services[i]]
           a == [rr EXCEPT !.services = list]
           RrSet == [services : Seq(EntryStates), current_idx : 1 .. MaxListed + 1, is_active : BOOLEAN,
                     thread_running : BOOLEAN, initialized : BOOLEAN]
<1>1. list \in [1 .. Len(rr.services) -> EntryStates]
  BY <1>0 DEF EntryStates
<1>2. list \in Seq(EntryStates) /\ Len(list) = Len(rr.services) /\ DOMAIN list = DOMAIN rr.services
  <2> HIDE DEF list
  <2> QED BY <1>0, <1>1, ListOf
<1>3. \A i \in DOMAIN rr.services : list[i] = IF i = thread.entry THEN "SUCCESS" ELSE rr.services[i]
  OBVIOUS
<1>4. /\ rr' = [a EXCEPT !.current_idx = thread.entry + 1] /\ thread.at = "restarting"
      /\ thread' = [at |-> "looking", entry |-> 0] /\ UNCHANGED <<restarts, overlap>>
  BY DEF EndEntry
<1> HIDE DEF list
<1>5. a \in RrSet /\ a.services = list /\ a.is_active = rr.is_active
  BY <1>2 DEF RrInv, RrTypes
<1> HIDE DEF a
<1>6. /\ rr' \in RrSet /\ rr'.services = list /\ rr'.is_active = rr.is_active
      /\ rr'.current_idx = thread.entry + 1
  BY SMTT(30), <1>0, <1>4, <1>5
<1>7. RrTypes'
  BY <1>0, <1>2, <1>4, <1>6 DEF RrInv, RrTypes
<1>8. PendingBehind'
  BY <1>4 DEF PendingBehind
<1>9. ProgressIsTrue'
  <2> SUFFICES ASSUME ~overlap PROVE
                /\ restarts = In("SUCCESS")' \cup In("IN_PROGRESS")'
                /\ In("IN_PROGRESS")' = {}
                /\ \A j \in In("PENDING")' : j >= thread.entry + 1
                /\ ~rr.is_active => In("PENDING")' = {}
    BY <1>4, <1>6 DEF ProgressIsTrue
  <2>1. /\ restarts = In("SUCCESS") \cup In("IN_PROGRESS") /\ In("IN_PROGRESS") = {thread.entry}
        /\ ~rr.is_active => In("PENDING") = {}
    BY <1>4 DEF RrInv, ProgressIsTrue
  <2>2. \A j \in In("PENDING") : j > thread.entry
    BY <1>4 DEF RrInv, PendingBehind
  <2>3. thread.entry \in DOMAIN rr.services /\ rr.services[thread.entry] = "IN_PROGRESS"
    BY <2>1 DEF In
  <2>4. /\ In("SUCCESS")' = In("SUCCESS") \cup {thread.entry}
        /\ In("IN_PROGRESS")' = In("IN_PROGRESS") \ {thread.entry}
        /\ In("PENDING")' = In("PENDING")
    BY <1>2, <1>3, <1>6, <2>3 DEF In
  <2>5. \A j \in In("PENDING") : j \in Nat
    BY <1>0 DEF In
  <2>6. \A j \in In("PENDING") : j >= thread.entry + 1
    BY <1>0, <2>2, <2>5
  <2> QED BY <2>1, <2>4, <2>6
<1> QED BY <1>7, <1>8, <1>9 DEF RrInv

LEMMA RrStep == RrInv /\ [RrNext]_rrVars => RrInv'
<1> SUFFICES ASSUME RrInv, [RrNext]_rrVars PROVE RrInv'
  OBVIOUS
<1>1. ASSUME InitRestarts PROVE RrInv'
  <2> DEFINE a == [RrZero EXCEPT !.thread_running = TRUE]
             ZeroSet == [services : {<< >>}, current_idx : {1}, is_active : BOOLEAN,
                         thread_running : BOOLEAN, initialized : BOOLEAN]
  <2>1. a \in ZeroSet
    BY DEF RrZero
  <2>2. rr' = [a EXCEPT !.initialized = TRUE]
    BY <1>1 DEF InitRestarts
  <2> HIDE DEF a
  <2>3. rr' \in ZeroSet
    BY <2>1, <2>2
  <2>4. thread' \in [at : {"none", "looking"}, entry : {0}] /\ restarts' = {} /\ overlap' = FALSE
    BY <1>1 DEF InitRestarts, NoThread
  <2> QED BY <2>3, <2>4, RrZeroFollows
<1>2. ASSUME NEW count \in 1 .. MaxListed, StartList(count) PROVE RrInv'
  BY <1>2, StartListStep
<1>3. ASSUME CancelList PROVE RrInv'
  <2> DEFINE c == Cancelled
  <2>1. c.thread_running \in BOOLEAN /\ c = [c EXCEPT !.thread_running = c.thread_running]
    BY CancelledIs
  <2> QED BY <1>3, <2>1, CancelStep DEF CancelList
<1>4. ASSUME BeginEntry PROVE RrInv'
  BY <1>4, BeginEntryStep
<1>5. ASSUME EndList PROVE RrInv'
  <2>1. /\ rr' = [rr EXCEPT !.is_active = FALSE] /\ thread' = [thread EXCEPT !.at = "exited"]
        /\ thread.at = "looking" /\ PendingFrom = {} /\ UNCHANGED <<restarts, overlap>>
    BY <1>5 DEF EndList
  <2>2. /\ RrTypes' /\ rr'.services = rr.services /\ rr'.current_idx = rr.current_idx
        /\ thread'.at = "exited"
    BY <2>1 DEF RrInv, RrTypes
  <2>3. \A state : In(state)' = In(state)
    BY <2>2 DEF In
  <2>4. ~overlap => In("PENDING") = {}
    BY <2>1 DEF RrInv, ProgressIsTrue, In, PendingFrom
  <2>5. ProgressIsTrue'
    BY <2>1, <2>2, <2>3, <2>4 DEF RrInv, ProgressIsTrue
  <2> QED BY <2>2, <2>5 DEF RrInv, PendingBehind
<1>6. ASSUME EndEntry PROVE RrInv'
  BY <1>6, EndEntryStep
<1>7. ASSUME LeaveRestarts PROVE RrInv'
  <2>1. /\ thread' = [thread EXCEPT !.at = "exited"] /\ thread.at = "looking"
        /\ UNCHANGED <<rr, restarts, overlap>>
    BY <1>7 DEF LeaveRestarts
  <2>2. RrTypes' /\ thread'.at = "exited"
    BY <2>1 DEF RrInv, RrTypes
  <2>3. \A state : In(state)' = In(state)
    BY <2>1 DEF In
  <2>4. ProgressIsTrue'
    BY <2>1, <2>2, <2>3 DEF RrInv, ProgressIsTrue
  <2> QED BY <2>2, <2>4 DEF RrInv, PendingBehind
<1>8. ASSUME CleanupBegin PROVE RrInv'
  BY <1>8, CancelStep DEF CleanupBegin
<1>9. ASSUME CleanupEnd PROVE RrInv'
  <2>1. /\ rr' \in [services : {<< >>}, current_idx : {1}, is_active : BOOLEAN,
                    thread_running : BOOLEAN, initialized : BOOLEAN]
        /\ thread' \in [at : {"none", "looking"}, entry : {0}] /\ restarts' = {} /\ overlap' = FALSE
    BY <1>9 DEF CleanupEnd, RrZero, NoThread
  <2> QED BY <2>1, RrZeroFollows
<1>10. ASSUME UNCHANGED rrVars PROVE RrInv'
  BY <1>10 DEF rrVars, RrInv, RrTypes, ProgressIsTrue, PendingBehind, In
<1> QED BY <1>1, <1>2, <1>3, <1>4, <1>5, <1>6, <1>7, <1>8, <1>9, <1>10 DEF RrNext

LEMMA RrInvSafe == RrInv => RestartSafe
<1> SUFFICES ASSUME RrInv PROVE RestartSafe
  OBVIOUS
<1>1. RrTypeOK
  BY DEF RrInv, RrTypes, RrTypeOK, EntryStates
<1> QED BY <1>1 DEF RrInv, RestartSafe

(***************************************************************************)
(* lifecycle/sm_config.c, security/sm_crypto.c, infrastructure/sm_socket.c *)
(* and the order sm_run calls them in.  A key on disk was made before the  *)
(* one being written, so the new one differs from all of them; the server  *)
(* is never among the stale sockets, so cleanup removes its file only.     *)
(***************************************************************************)
SmRec == [at : {"down", "key", "write", "socket", "features", "up"}, path : 1 .. Paths + 1,
          key : Nat, g_key_loaded : BOOLEAN, keyPath : 0 .. Paths,
          config : {"zero", "default", "file", "invalid"}, g_config_loaded : BOOLEAN,
          reloaded : BOOLEAN, server : 0 .. Paths, features : SUBSET Features]

StartTypes ==
    /\ sm \in SmRec
    /\ keyfile \in [1 .. Paths -> -1 .. MaxKeys]
    /\ files \in [keys : 0 .. MaxKeys, stale : SUBSET (1 .. Paths)]
    /\ \A p \in 1 .. Paths : keyfile[p] =< files.keys
    /\ sm.at = "down" => sm = Off

KeyInv ==
    /\ sm.at = "write" => /\ sm.key = files.keys /\ sm.key > 0 /\ sm.path =< Paths
                          /\ \A p \in 1 .. Paths : keyfile[p] < sm.key
    /\ sm.g_key_loaded => /\ sm.at \in {"socket", "features", "up"}
                          /\ sm.keyPath \in 1 .. Paths /\ sm.key > 0 /\ keyfile[sm.keyPath] = sm.key
    /\ \A p, q \in 1 .. Paths : keyfile[p] = keyfile[q] /\ keyfile[p] > 0 => p = q

SockInv ==
    /\ SocketsAccounted
    /\ sm.server # 0 => sm.at \in {"features", "up"}
    /\ sm.server \notin files.stale

StartInv == StartTypes /\ KeyInv /\ SockInv /\ ConfigInEffect

LEMMA OffIs ==
  /\ Off \in SmRec /\ Off.at = "down" /\ Off.path = 1 /\ Off.key = 0 /\ Off.g_key_loaded = FALSE
  /\ Off.config = "zero" /\ Off.g_config_loaded = FALSE /\ Off.reloaded = FALSE /\ Off.server = 0
<1>1. Paths \in Nat
  BY StartAssumption
<1>2. 1 \in 1 .. Paths + 1 /\ 0 \in 0 .. Paths
  BY <1>1
<1> QED BY <1>2 DEF Off, SmRec

LEMMA StartInitHolds == StartInit => StartInv
<1> SUFFICES ASSUME StartInit PROVE StartInv
  OBVIOUS
<1>1. Paths \in Nat /\ MaxKeys \in Nat
  BY StartAssumption
<1>2. sm = Off /\ sockfile = {} /\ files.keys = 0 /\ files.stale = {}
      /\ \A p \in 1 .. Paths : keyfile[p] = 0
  BY DEF StartInit
<1>3. keyfile \in [1 .. Paths -> -1 .. MaxKeys] /\ files \in [keys : 0 .. MaxKeys, stale : SUBSET (1 .. Paths)]
  BY <1>1 DEF StartInit
<1>4. StartTypes
  BY <1>2, <1>3, OffIs DEF StartTypes
<1>5. KeyInv
  BY <1>2, OffIs DEF KeyInv
<1>6. SockInv
  BY <1>2, OffIs DEF SockInv, SocketsAccounted
<1>7. ConfigInEffect
  BY <1>2, OffIs DEF ConfigInEffect
<1> QED BY <1>4, <1>5, <1>6, <1>7 DEF StartInv

\* A step that reads the configuration: key, path and socket are as before.
LEMMA ConfigRead ==
  ASSUME StartInv, NEW s, s \in SmRec, NEW file \in {"missing", "valid", "invalid"}
  PROVE  /\ Loaded(s, file) \in SmRec
         /\ Loaded(s, file).at = s.at /\ Loaded(s, file).path = s.path /\ Loaded(s, file).key = s.key
         /\ Loaded(s, file).g_key_loaded = s.g_key_loaded /\ Loaded(s, file).keyPath = s.keyPath
         /\ Loaded(s, file).server = s.server /\ Loaded(s, file).reloaded = s.reloaded
         /\ ~s.g_config_loaded =>
                \/ ~Loaded(s, file).g_config_loaded
                \/ Loaded(s, file).config \in {"default", "file"}
<1>1. CASE file = "missing"
  <2> DEFINE a == [s EXCEPT !.config = "default"]
  <2>1. /\ a \in SmRec /\ a.at = s.at /\ a.path = s.path /\ a.key = s.key /\ a.config = "default"
        /\ a.g_key_loaded = s.g_key_loaded /\ a.keyPath = s.keyPath /\ a.server = s.server
        /\ a.reloaded = s.reloaded
    BY DEF SmRec
  <2>2. Loaded(s, file) = [a EXCEPT !.g_config_loaded = TRUE]
    BY <1>1 DEF Loaded
  <2> HIDE DEF a
  <2> QED BY <2>1, <2>2 DEF SmRec
<1>2. CASE file = "valid"
  <2> DEFINE a == [s EXCEPT !.config = "file"]
  <2>1. /\ a \in SmRec /\ a.at = s.at /\ a.path = s.path /\ a.key = s.key /\ a.config = "file"
        /\ a.g_key_loaded = s.g_key_loaded /\ a.keyPath = s.keyPath /\ a.server = s.server
        /\ a.reloaded = s.reloaded
    BY DEF SmRec
  <2>2. Loaded(s, file) = [a EXCEPT !.g_config_loaded = TRUE]
    BY <1>2 DEF Loaded
  <2> HIDE DEF a
  <2> QED BY <2>1, <2>2 DEF SmRec
<1>3. CASE file = "invalid"
  <2>1. Loaded(s, file) = [s EXCEPT !.config = "invalid"]
    BY <1>3 DEF Loaded
  <2> QED BY <2>1 DEF SmRec
<1> QED BY <1>1, <1>2, <1>3

LEMMA ConfigGot ==
  ASSUME NEW s, s \in SmRec, ~s.g_config_loaded \/ s.config \in {"default", "file"}
  PROVE  /\ sm_config_get(s) \in SmRec
         /\ sm_config_get(s).path = s.path /\ sm_config_get(s).key = s.key
         /\ sm_config_get(s).g_key_loaded = s.g_key_loaded
         /\ sm_config_get(s).server = s.server
         /\ sm_config_get(s).config \in {"default", "file"}
<1>1. CASE s.g_config_loaded
  BY <1>1 DEF sm_config_get, SmRec
<1>2. CASE ~s.g_config_loaded
  <2> DEFINE a == [s EXCEPT !.config = "default"]
  <2>1. /\ a \in SmRec /\ a.path = s.path /\ a.key = s.key /\ a.config = "default"
        /\ a.g_key_loaded = s.g_key_loaded /\ a.server = s.server
    BY DEF SmRec
  <2>2. sm_config_get(s) = [a EXCEPT !.g_config_loaded = TRUE]
    BY <1>2 DEF sm_config_get
  <2> HIDE DEF a
  <2> QED BY <2>1, <2>2 DEF SmRec
<1> QED BY <1>1, <1>2

LEMMA LoadConfigStep ==
  ASSUME StartInv, NEW file \in {"missing", "valid", "invalid"}, LoadConfig(file)
  PROVE  StartInv'
<1> DEFINE l == Loaded(sm, file)
           g == sm_config_get(l)
<1>0. sm = Off /\ UNCHANGED <<keyfile, sockfile, files>> /\ sm' = [g EXCEPT !.at = "key"]
  BY DEF LoadConfig, StartInv, StartTypes
<1>1. /\ l \in SmRec /\ l.path = 1 /\ l.key = 0 /\ l.g_key_loaded = FALSE /\ l.server = 0
      /\ (~l.g_config_loaded \/ l.config \in {"default", "file"})
  BY <1>0, OffIs, ConfigRead
<1> HIDE DEF l
<1>2. /\ g \in SmRec /\ g.path = 1 /\ g.key = 0 /\ g.g_key_loaded = FALSE /\ g.server = 0
      /\ g.config \in {"default", "file"}
  BY <1>1, ConfigGot
<1> HIDE DEF g
<1>3. /\ sm' \in SmRec /\ sm'.at = "key" /\ sm'.path = 1 /\ sm'.key = 0 /\ sm'.g_key_loaded = FALSE
      /\ sm'.server = 0 /\ sm'.config \in {"default", "file"}
  BY <1>0, <1>2 DEF SmRec
<1>4. StartTypes'
  BY <1>0, <1>3 DEF StartInv, StartTypes
<1>5. KeyInv'
  BY <1>0, <1>3 DEF StartInv, KeyInv
<1>6. SockInv'
  BY <1>0, <1>3, OffIs DEF StartInv, SockInv, SocketsAccounted
<1>7. ConfigInEffect'
  BY <1>3 DEF ConfigInEffect
<1> QED BY <1>4, <1>5, <1>6, <1>7 DEF StartInv

LEMMA ReloadStep ==
  ASSUME StartInv, NEW file \in {"missing", "valid", "invalid"}, Reload(file)
  PROVE  StartInv'
<1> DEFINE l == Loaded(sm, file)
<1>0. sm \in SmRec /\ sm.at = "up" /\ UNCHANGED <<keyfile, sockfile, files>> /\ sm' = [l EXCEPT !.reloaded = TRUE]
  BY DEF Reload, StartInv, StartTypes
<1>1. /\ l \in SmRec /\ l.at = sm.at /\ l.path = sm.path /\ l.key = sm.key
      /\ l.g_key_loaded = sm.g_key_loaded /\ l.keyPath = sm.keyPath /\ l.server = sm.server
  BY <1>0, ConfigRead
<1> HIDE DEF l
<1>2. /\ sm' \in SmRec /\ sm'.at = sm.at /\ sm'.path = sm.path /\ sm'.key = sm.key
      /\ sm'.g_key_loaded = sm.g_key_loaded /\ sm'.keyPath = sm.keyPath /\ sm'.server = sm.server
      /\ sm'.reloaded = TRUE
  BY <1>0, <1>1 DEF SmRec
<1>3. StartTypes'
  BY <1>0, <1>2 DEF StartInv, StartTypes
<1>4. KeyInv'
  BY <1>0, <1>2 DEF StartInv, KeyInv
<1>5. SockInv'
  BY <1>0, <1>2 DEF StartInv, SockInv, SocketsAccounted
<1>6. ConfigInEffect'
  BY <1>2 DEF ConfigInEffect
<1> QED BY <1>3, <1>4, <1>5, <1>6 DEF StartInv

LEMMA HasKeyIs ==
  ASSUME StartInv, NEW p \in 1 .. Paths, NEW key \in Nat
  PROVE  /\ HasKey(p, key) \in SmRec
         /\ HasKey(p, key).at = "socket" /\ HasKey(p, key).path = 1 /\ HasKey(p, key).key = key
         /\ HasKey(p, key).keyPath = p /\ HasKey(p, key).g_key_loaded = TRUE
         /\ HasKey(p, key).server = sm.server /\ HasKey(p, key).config = sm.config
         /\ HasKey(p, key).reloaded = sm.reloaded
<1> DEFINE a == [sm EXCEPT !.key = key]
           b == [a EXCEPT !.g_key_loaded = TRUE]
           c == [b EXCEPT !.keyPath = p]
           d == [c EXCEPT !.at = "socket"]
<1>0. sm \in SmRec /\ p \in 0 .. Paths /\ 1 \in 1 .. Paths + 1
  BY StartAssumption DEF StartInv, StartTypes
<1>1. HasKey(p, key) = [d EXCEPT !.path = 1]
  BY DEF HasKey
<1>2. a \in SmRec /\ a.key = key /\ a.server = sm.server /\ a.config = sm.config /\ a.reloaded = sm.reloaded
  BY <1>0 DEF SmRec
<1> HIDE DEF a
<1>3. /\ b \in SmRec /\ b.key = key /\ b.g_key_loaded = TRUE
      /\ b.server = sm.server /\ b.config = sm.config /\ b.reloaded = sm.reloaded
  BY <1>2 DEF SmRec
<1> HIDE DEF b
<1>4. /\ c \in SmRec /\ c.key = key /\ c.g_key_loaded = TRUE /\ c.keyPath = p
      /\ c.server = sm.server /\ c.config = sm.config /\ c.reloaded = sm.reloaded
  BY <1>0, <1>3 DEF SmRec
<1> HIDE DEF c
<1>5. /\ d \in SmRec /\ d.key = key /\ d.g_key_loaded = TRUE /\ d.keyPath = p /\ d.at = "socket"
      /\ d.server = sm.server /\ d.config = sm.config /\ d.reloaded = sm.reloaded
  BY <1>4 DEF SmRec
<1> HIDE DEF d
<1> QED BY <1>0, <1>1, <1>5 DEF SmRec

LEMMA KeySteps ==
  ASSUME StartInv, ReadKey \/ MakeKey \/ WriteKey \/ KeyFails
  PROVE  StartInv'
<1>0. /\ Paths \in Nat /\ MaxKeys \in Nat /\ sm \in SmRec
      /\ keyfile \in [1 .. Paths -> -1 .. MaxKeys]
      /\ files \in [keys : 0 .. MaxKeys, stale : SUBSET (1 .. Paths)]
      /\ \A p \in 1 .. Paths : keyfile[p] \in Int /\ keyfile[p] =< files.keys
      /\ sm.path \in Nat /\ sm.path >= 1 /\ sm.key \in Nat /\ files.keys \in Nat /\ files.keys =< MaxKeys
  BY StartAssumption DEF StartInv, StartTypes, SmRec
<1>1. ASSUME ReadKey PROVE StartInv'
  <2>1. /\ sm.at = "key" /\ sm.path \in 1 .. Paths /\ keyfile[sm.path] > 0 /\ keyfile[sm.path] \in Nat
        /\ UNCHANGED <<keyfile, sockfile, files>>
    BY <1>0, <1>1 DEF ReadKey
  <2>2. /\ sm' \in SmRec /\ sm'.at = "socket" /\ sm'.key = keyfile[sm.path] /\ sm'.keyPath = sm.path
        /\ sm'.g_key_loaded = TRUE /\ sm'.server = sm.server /\ sm'.config = sm.config /\ sm'.reloaded = sm.reloaded
    BY <1>1, <2>1, HasKeyIs DEF ReadKey
  <2>3. StartTypes'
    BY <2>1, <2>2 DEF StartInv, StartTypes
  <2>4. KeyInv'
    BY <2>1, <2>2 DEF StartInv, KeyInv
  <2>5. SockInv'
    BY <2>1, <2>2 DEF StartInv, SockInv, SocketsAccounted
  <2>6. ConfigInEffect'
    BY <2>1, <2>2 DEF StartInv, ConfigInEffect
  <2> QED BY <2>3, <2>4, <2>5, <2>6 DEF StartInv
<1>2. ASSUME MakeKey PROVE StartInv'
  <2> DEFINE new == files.keys + 1
             a == [sm EXCEPT !.at = "write"]
  <2>1. /\ sm.at = "key" /\ sm.path \in 1 .. Paths /\ files.keys < MaxKeys
        /\ keyfile' = [keyfile EXCEPT ![sm.path] = -1] /\ sockfile' = sockfile
        /\ files' = [files EXCEPT !.keys = new] /\ sm' = [a EXCEPT !.key = new]
    BY <1>0, <1>2 DEF MakeKey
  <2>2. new \in 0 .. MaxKeys /\ new \in Nat /\ new > files.keys /\ new > 0
    BY <1>0, <2>1
  <2> HIDE DEF new
  <2>3. /\ files' \in [keys : 0 .. MaxKeys, stale : SUBSET (1 .. Paths)]
        /\ files'.keys = new /\ files'.stale = files.stale
    BY <1>0, <2>1, <2>2
  <2>4. /\ a \in SmRec /\ a.at = "write" /\ a.path = sm.path /\ a.g_key_loaded = sm.g_key_loaded
        /\ a.server = sm.server /\ a.config = sm.config /\ a.reloaded = sm.reloaded
    BY <1>0 DEF SmRec
  <2> HIDE DEF a
  <2>5. /\ sm' \in SmRec /\ sm'.at = "write" /\ sm'.path = sm.path /\ sm'.key = new
        /\ sm'.g_key_loaded = sm.g_key_loaded
        /\ sm'.server = sm.server /\ sm'.config = sm.config /\ sm'.reloaded = sm.reloaded
    BY <2>1, <2>2, <2>4 DEF SmRec
  <2>6. /\ keyfile' \in [1 .. Paths -> -1 .. MaxKeys]
        /\ \A p \in 1 .. Paths : keyfile'[p] = IF p = sm.path THEN -1 ELSE keyfile[p]
    BY <1>0, <2>1
  <2>7. \A p \in 1 .. Paths : keyfile'[p] \in Int /\ keyfile'[p] < new /\ keyfile'[p] =< new
    <3> SUFFICES ASSUME NEW p \in 1 .. Paths
                 PROVE  keyfile'[p] \in Int /\ keyfile'[p] < new /\ keyfile'[p] =< new
      OBVIOUS
    <3>1. keyfile'[p] = -1 \/ keyfile'[p] = keyfile[p]
      BY <2>6
    <3>2. keyfile[p] \in Int /\ keyfile[p] =< files.keys
      BY <1>0
    <3>3. files.keys \in Nat /\ new \in Nat /\ new > files.keys
      BY <1>0, <2>2
    <3> QED BY <3>1, <3>2, <3>3
  <2>8. StartTypes'
    BY <2>3, <2>5, <2>6, <2>7 DEF StartTypes
  <2>9. ~sm.g_key_loaded
    BY <2>1 DEF StartInv, KeyInv
  <2>10. \A p, q \in 1 .. Paths : keyfile'[p] = keyfile'[q] /\ keyfile'[p] > 0 => p = q
    BY <2>6, <2>7 DEF StartInv, KeyInv
  <2>11. sm'.path =< Paths
    BY <2>1, <2>5
  <2>12. KeyInv'
    BY <2>2, <2>3, <2>5, <2>7, <2>9, <2>10, <2>11 DEF KeyInv
  <2>13. SockInv'
    BY <2>1, <2>3, <2>5 DEF StartInv, SockInv, SocketsAccounted
  <2>14. ConfigInEffect'
    BY <2>1, <2>5 DEF StartInv, ConfigInEffect
  <2> QED BY <2>8, <2>12, <2>13, <2>14 DEF StartInv
<1>3. ASSUME WriteKey PROVE StartInv'
  <2>1. /\ sm.at = "write" /\ sm.path \in 1 .. Paths /\ sm.key = files.keys /\ sm.key > 0
        /\ \A p \in 1 .. Paths : keyfile[p] < sm.key
        /\ keyfile' = [keyfile EXCEPT ![sm.path] = sm.key] /\ UNCHANGED <<sockfile, files>>
    BY <1>0, <1>3 DEF WriteKey, StartInv, KeyInv
  <2>2. /\ sm' \in SmRec /\ sm'.at = "socket" /\ sm'.key = sm.key /\ sm'.keyPath = sm.path
        /\ sm'.g_key_loaded = TRUE /\ sm'.server = sm.server /\ sm'.config = sm.config /\ sm'.reloaded = sm.reloaded
    <3>1. sm' = HasKey(sm.path, sm.key) /\ sm.key \in Nat /\ sm.path \in 1 .. Paths
      BY <1>0, <1>3, <2>1 DEF WriteKey
    <3> QED BY <3>1, HasKeyIs
  <2>3. /\ keyfile' \in [1 .. Paths -> -1 .. MaxKeys]
        /\ \A p \in 1 .. Paths : keyfile'[p] = IF p = sm.path THEN sm.key ELSE keyfile[p]
    BY <1>0, <2>1
  <2>4. \A p \in 1 .. Paths : keyfile'[p] =< files.keys
    BY <1>0, <2>1, <2>3
  <2>5. StartTypes'
    BY <2>1, <2>2, <2>3, <2>4 DEF StartInv, StartTypes
  <2>6. \A p, q \in 1 .. Paths : keyfile'[p] = keyfile'[q] /\ keyfile'[p] > 0 => p = q
    <3>1. \A p \in 1 .. Paths : keyfile[p] # sm.key
      BY <1>0, <2>1
    <3> QED BY <3>1, <2>3 DEF StartInv, KeyInv
  <2>7. KeyInv'
    BY <2>1, <2>2, <2>3, <2>6 DEF KeyInv
  <2>8. SockInv'
    BY <2>1, <2>2 DEF StartInv, SockInv, SocketsAccounted
  <2>9. ConfigInEffect'
    BY <2>1, <2>2 DEF StartInv, ConfigInEffect
  <2> QED BY <2>5, <2>7, <2>8, <2>9 DEF StartInv
<1>4. ASSUME KeyFails PROVE StartInv'
  <2> DEFINE new == sm.path + 1
             a == [sm EXCEPT !.path = new]
  <2>1. /\ sm.at \in {"key", "write"} /\ sm.path =< Paths /\ sm' = [a EXCEPT !.at = "key"]
        /\ UNCHANGED <<keyfile, sockfile, files>>
    BY <1>4 DEF KeyFails, NextPath
  <2>2. new \in 1 .. Paths + 1
    BY <1>0, <2>1
  <2> HIDE DEF new
  <2>3. /\ a \in SmRec /\ a.g_key_loaded = sm.g_key_loaded
        /\ a.server = sm.server /\ a.config = sm.config /\ a.reloaded = sm.reloaded
    BY <1>0, <2>2 DEF SmRec
  <2> HIDE DEF a
  <2>4. /\ sm' \in SmRec /\ sm'.at = "key" /\ sm'.g_key_loaded = sm.g_key_loaded
        /\ sm'.server = sm.server /\ sm'.config = sm.config /\ sm'.reloaded = sm.reloaded
    BY <2>1, <2>3 DEF SmRec
  <2>5. StartTypes'
    BY <2>1, <2>4 DEF StartInv, StartTypes
  <2>6. ~sm.g_key_loaded
    BY <2>1 DEF StartInv, KeyInv
  <2>7. KeyInv'
    BY <2>1, <2>4, <2>6 DEF StartInv, KeyInv
  <2>8. SockInv'
    BY <2>1, <2>4 DEF StartInv, SockInv, SocketsAccounted
  <2>9. ConfigInEffect'
    BY <2>1, <2>4 DEF StartInv, ConfigInEffect
  <2> QED BY <2>5, <2>7, <2>8, <2>9 DEF StartInv
<1> QED BY <1>1, <1>2, <1>3, <1>4

\* A step that changes sockets or ends the process keeps the keys on disk.
LEMMA SocketSteps ==
  ASSUME StartInv, SocketFails \/ SocketListens
  PROVE  StartInv'
<1>0. /\ Paths \in Nat /\ sm \in SmRec /\ sm.path \in 1 .. Paths /\ sm.path \in Nat /\ sm.at = "socket"
      /\ files \in [keys : 0 .. MaxKeys, stale : SUBSET (1 .. Paths)]
      /\ keyfile' = keyfile /\ files' = [files EXCEPT !.stale = @ \ {sm.path}]
  BY StartAssumption DEF StartInv, StartTypes, SmRec, SocketFails, SocketListens
<1>1. /\ files' \in [keys : 0 .. MaxKeys, stale : SUBSET (1 .. Paths)]
      /\ files'.keys = files.keys /\ files'.stale = files.stale \ {sm.path}
  BY <1>0
<1>2. sm.server = 0 /\ sockfile = files.stale /\ 0 \notin files.stale
  BY <1>0 DEF StartInv, SockInv, SocketsAccounted
<1>3. ASSUME SocketFails PROVE StartInv'
  <2> DEFINE new == sm.path + 1
  <2>1. sm' = [sm EXCEPT !.path = new] /\ sockfile' = sockfile \ {sm.path}
    BY <1>3 DEF SocketFails, NextPath
  <2>2. new \in 1 .. Paths + 1
    BY <1>0
  <2> HIDE DEF new
  <2>3. /\ sm' \in SmRec /\ sm'.at = "socket" /\ sm'.key = sm.key /\ sm'.keyPath = sm.keyPath
        /\ sm'.g_key_loaded = sm.g_key_loaded
        /\ sm'.server = sm.server /\ sm'.config = sm.config /\ sm'.reloaded = sm.reloaded
    BY <1>0, <2>1, <2>2 DEF SmRec
  <2>4. StartTypes'
    BY <1>0, <1>1, <2>3 DEF StartInv, StartTypes
  <2>5. KeyInv'
    BY <1>0, <2>3 DEF StartInv, KeyInv
  <2>6. SockInv'
    BY <1>1, <1>2, <2>1, <2>3 DEF SockInv, SocketsAccounted
  <2>7. ConfigInEffect'
    BY <1>0, <2>3 DEF StartInv, ConfigInEffect
  <2> QED BY <2>4, <2>5, <2>6, <2>7 DEF StartInv
<1>4. ASSUME SocketListens PROVE StartInv'
  <2> DEFINE a == [sm EXCEPT !.at = "features"]
  <2>1. sm' = [a EXCEPT !.server = sm.path] /\ sockfile' = sockfile \cup {sm.path}
    BY <1>4 DEF SocketListens
  <2>2. /\ a \in SmRec /\ a.at = "features" /\ a.key = sm.key /\ a.keyPath = sm.keyPath
        /\ a.g_key_loaded = sm.g_key_loaded /\ a.config = sm.config /\ a.reloaded = sm.reloaded
    BY <1>0 DEF SmRec
  <2> HIDE DEF a
  <2>9. sm.path \in 0 .. Paths /\ sm.path # 0
    BY <1>0
  <2>3. /\ sm' \in SmRec /\ sm'.at = "features" /\ sm'.key = sm.key /\ sm'.keyPath = sm.keyPath
        /\ sm'.g_key_loaded = sm.g_key_loaded
        /\ sm'.server = sm.path /\ sm'.config = sm.config /\ sm'.reloaded = sm.reloaded
    BY <2>1, <2>2, <2>9 DEF SmRec
  <2>4. StartTypes'
    BY <1>0, <1>1, <2>3 DEF StartInv, StartTypes
  <2>5. KeyInv'
    BY <1>0, <2>3 DEF StartInv, KeyInv
  <2>6. SockInv'
    BY <1>1, <1>2, <2>1, <2>3, <2>9 DEF SockInv, SocketsAccounted
  <2>7. ConfigInEffect'
    BY <1>0, <2>3 DEF StartInv, ConfigInEffect
  <2> QED BY <2>4, <2>5, <2>6, <2>7 DEF StartInv
<1> QED BY <1>3, <1>4

LEMMA ProcessSteps ==
  ASSUME StartInv, CleanupAll \/ Killed \/ \E started \in SUBSET Features : StartFeatures(started)
  PROVE  StartInv'
<1>0. /\ sm \in SmRec /\ sm.server \in 0 .. Paths /\ Paths \in Nat /\ keyfile' = keyfile
      /\ files \in [keys : 0 .. MaxKeys, stale : SUBSET (1 .. Paths)]
      /\ sockfile = files.stale \cup ({sm.server} \ {0}) /\ sm.server \notin files.stale
  BY StartAssumption DEF StartInv, StartTypes, SmRec, SockInv, SocketsAccounted, CleanupAll, Killed, StartFeatures
<1>1. 0 \notin files.stale /\ sockfile \subseteq 1 .. Paths
  BY <1>0
<1>2. ASSUME sm' = Off, files' \in [keys : 0 .. MaxKeys, stale : SUBSET (1 .. Paths)],
             files'.keys = files.keys, sockfile' = files'.stale
      PROVE  StartInv'
  <2>1. StartTypes'
    BY <1>0, <1>2, OffIs DEF StartInv, StartTypes
  <2>2. KeyInv'
    BY <1>0, <1>2, OffIs DEF StartInv, KeyInv
  <2>3. SockInv'
    BY <1>2, OffIs DEF SockInv, SocketsAccounted
  <2>4. ConfigInEffect'
    BY <1>2, OffIs DEF ConfigInEffect
  <2> QED BY <2>1, <2>2, <2>3, <2>4 DEF StartInv
<1>3. ASSUME CleanupAll PROVE StartInv'
  <2>1. sm' = Off /\ sockfile' = sockfile \ {sm.server} /\ files' = files
    BY <1>3 DEF CleanupAll
  <2>2. sockfile' = files.stale
    BY <1>0, <1>1, <2>1
  <2> QED BY <1>0, <1>2, <2>1, <2>2
<1>4. ASSUME Killed PROVE StartInv'
  <2>1. sm' = Off /\ sockfile' = sockfile /\ files' = [files EXCEPT !.stale = sockfile]
    BY <1>4 DEF Killed
  <2>2. /\ files' \in [keys : 0 .. MaxKeys, stale : SUBSET (1 .. Paths)]
        /\ files'.keys = files.keys /\ files'.stale = sockfile
    BY <1>0, <1>1, <2>1
  <2> QED BY <1>2, <2>1, <2>2
<1>5. ASSUME NEW started \in SUBSET Features, StartFeatures(started) PROVE StartInv'
  <2> DEFINE a == [sm EXCEPT !.at = "up"]
  <2>1. sm.at = "features" /\ sm' = [a EXCEPT !.features = started] /\ UNCHANGED <<sockfile, files>>
    BY <1>5 DEF StartFeatures
  <2>2. /\ a \in SmRec /\ a.at = "up" /\ a.key = sm.key /\ a.keyPath = sm.keyPath
        /\ a.g_key_loaded = sm.g_key_loaded /\ a.server = sm.server
        /\ a.config = sm.config /\ a.reloaded = sm.reloaded
    BY <1>0 DEF SmRec
  <2> HIDE DEF a
  <2>3. /\ sm' \in SmRec /\ sm'.at = "up" /\ sm'.key = sm.key /\ sm'.keyPath = sm.keyPath
        /\ sm'.g_key_loaded = sm.g_key_loaded /\ sm'.server = sm.server
        /\ sm'.config = sm.config /\ sm'.reloaded = sm.reloaded
    BY <2>1, <2>2 DEF SmRec
  <2>4. StartTypes'
    BY <1>0, <2>1, <2>3 DEF StartInv, StartTypes
  <2>5. KeyInv'
    BY <1>0, <2>1, <2>3 DEF StartInv, KeyInv
  <2>6. SockInv'
    BY <1>0, <2>1, <2>3 DEF SockInv, SocketsAccounted
  <2>7. ConfigInEffect'
    BY <2>1, <2>3 DEF StartInv, ConfigInEffect
  <2> QED BY <2>4, <2>5, <2>6, <2>7 DEF StartInv
<1> QED BY <1>3, <1>4, <1>5

LEMMA StartStep == StartInv /\ [StartNext]_startVars => StartInv'
<1> SUFFICES ASSUME StartInv, [StartNext]_startVars PROVE StartInv'
  OBVIOUS
<1>1. ASSUME UNCHANGED startVars PROVE StartInv'
  BY <1>1 DEF startVars, StartInv, StartTypes, KeyInv, SockInv, SocketsAccounted, ConfigInEffect
<1> QED BY <1>1, LoadConfigStep, ReloadStep, KeySteps, SocketSteps, ProcessSteps DEF StartNext

LEMMA StartInvSafe == StartInv => StartSafe
<1> SUFFICES ASSUME StartInv PROVE StartSafe
  OBVIOUS
<1>1. StartTypeOK
  BY DEF StartInv, StartTypes, SmRec, StartTypeOK
<1>2. KeyIsOnDisk
  BY DEF StartInv, KeyInv, KeyIsOnDisk
<1> QED BY <1>1, <1>2 DEF StartInv, SockInv, StartSafe

(***************************************************************************)
(* lifecycle/sm_management.c.  The worker looks at mgmt_running before     *)
(* each accept4, and mgmt_running is set only while the manager is up: so  *)
(* a stop leaves at most the accept4 that is under way.                    *)
(***************************************************************************)
MgmtTypes ==
    /\ mgmt \in [running : BOOLEAN, fd : BOOLEAN,
                 at : {"none", "socket", "listen", "loop", "accept", "serving", "ended"}]
    /\ mgmtRequest \in MgmtRequests
    /\ shared \in [key : BOOLEAN, names : SUBSET MgmtNames, stage : {"up", "stopped", "freed", "ended"}]
    /\ opened \in [requests : Nat, late : Nat]

SharedInv ==
    /\ shared.stage \in {"freed", "ended"} => shared.names = {}
    /\ shared.stage = "ended" => ~shared.key

StopInv ==
    /\ mgmt.running => shared.stage = "up"
    /\ shared.stage = "up" => opened.late = 0 /\ (mgmt.at # "none" => mgmt.running)
    /\ opened.late =< 1 /\ (mgmt.at = "accept" => opened.late = 0)
    /\ mgmt.at \in {"accept", "serving"} /\ ~mgmt.running => ~mgmt.fd

MgmtInv == MgmtTypes /\ SharedInv /\ AnswersAreEntitled /\ StopInv

LEMMA MgmtInitHolds == MgmtInit => MgmtInv
<1> SUFFICES ASSUME MgmtInit PROVE MgmtInv
  OBVIOUS
<1>1. mgmtRequest \in MgmtRequests
  BY DEF MgmtInit, MgmtRequests, NoMgmtRequest
<1>2. shared.key = TRUE /\ shared.stage = "up" /\ shared.names \subseteq MgmtNames
  BY DEF MgmtInit
<1>3. MgmtTypes
  BY <1>1 DEF MgmtInit, MgmtTypes
<1>4. AnswersAreEntitled
  BY DEF MgmtInit, AnswersAreEntitled
<1>5. SharedInv
  BY <1>2 DEF SharedInv
<1>6. StopInv
  BY <1>2 DEF MgmtInit, StopInv
<1> QED BY <1>3, <1>4, <1>5, <1>6 DEF MgmtInv

\* A step that sends no answer.
LEMMA MgmtQuiet ==
  ASSUME MgmtInv, MgmtTypes', SharedInv', StopInv', UNCHANGED answers
  PROVE  MgmtInv'
BY DEF MgmtInv, AnswersAreEntitled

LEMMA MgmtStep == MgmtInv /\ [MgmtNext]_mgmtVars => MgmtInv'
<1> SUFFICES ASSUME MgmtInv, [MgmtNext]_mgmtVars PROVE MgmtInv'
  OBVIOUS
<1> USE DEF MgmtInv
<1>0. NoMgmtRequest \in MgmtRequests
  BY DEF NoMgmtRequest, MgmtRequests
<1>1. ASSUME MgmtStart PROVE MgmtInv'
  <2>1. MgmtTypes' /\ SharedInv' /\ StopInv'
    BY <1>1 DEF MgmtStart, MgmtTypes, SharedInv, StopInv
  <2> QED BY <2>1, <1>1, MgmtQuiet DEF MgmtStart
<1>2. ASSUME NEW ok \in BOOLEAN, WorkerSocket(ok) PROVE MgmtInv'
  <2>1. /\ mgmt'.at \in {"listen", "ended"} /\ mgmt'.running = mgmt.running
        /\ MgmtTypes'
    BY <1>2 DEF WorkerSocket, MgmtTypes
  <2>2. SharedInv' /\ StopInv'
    BY <1>2, <2>1 DEF WorkerSocket, MgmtTypes, SharedInv, StopInv
  <2> QED BY <2>1, <2>2, <1>2, MgmtQuiet DEF WorkerSocket
<1>3. ASSUME NEW ok \in BOOLEAN, WorkerListen(ok) PROVE MgmtInv'
  <2>1. /\ mgmt'.at \in {"loop", "ended"} /\ mgmt'.running = mgmt.running
        /\ MgmtTypes'
    BY <1>3 DEF WorkerListen, MgmtTypes
  <2>2. SharedInv' /\ StopInv'
    BY <1>3, <2>1 DEF WorkerListen, MgmtTypes, SharedInv, StopInv
  <2> QED BY <2>1, <2>2, <1>3, MgmtQuiet DEF WorkerListen
<1>4. ASSUME CallAccept PROVE MgmtInv'
  <2>1. MgmtTypes' /\ SharedInv' /\ StopInv'
    BY <1>4 DEF CallAccept, MgmtTypes, SharedInv, StopInv
  <2> QED BY <2>1, <1>4, MgmtQuiet DEF CallAccept
<1>5. ASSUME NEW r \in MgmtRequests, AcceptRequest(r) PROVE MgmtInv'
  <2> DEFINE first == [opened EXCEPT !.requests = @ + 1]
             count == IF mgmt.running THEN first.late ELSE first.late + 1
  <2>3. first \in [requests : Nat, late : Nat] /\ first.late = opened.late
    BY DEF MgmtTypes
  <2>4. opened' = [first EXCEPT !.late = count]
    BY <1>5 DEF AcceptRequest
  <2>5. count \in Nat /\ count = IF mgmt.running THEN opened.late ELSE opened.late + 1
    BY <2>3
  <2> HIDE DEF first, count
  <2>1. /\ opened' \in [requests : Nat, late : Nat]
        /\ opened'.late = IF mgmt.running THEN opened.late ELSE opened.late + 1
    BY <2>3, <2>4, <2>5
  <2>2. MgmtTypes' /\ SharedInv' /\ StopInv'
    BY <1>5, <2>1 DEF AcceptRequest, MgmtTypes, SharedInv, StopInv
  <2> QED BY <2>2, <1>5, MgmtQuiet DEF AcceptRequest
<1>6. ASSUME AcceptTimeout PROVE MgmtInv'
  <2>1. MgmtTypes' /\ SharedInv' /\ StopInv'
    BY <1>6 DEF AcceptTimeout, MgmtTypes, SharedInv, StopInv
  <2> QED BY <2>1, <1>6, MgmtQuiet DEF AcceptTimeout
<1>7. ASSUME AnswerRequest PROVE MgmtInv'
  <2>1. MgmtTypes' /\ SharedInv' /\ StopInv'
    BY <1>0, <1>7 DEF AnswerRequest, MgmtTypes, SharedInv, StopInv
  <2>2. ASSUME NEW a \in answers' \ answers
        PROVE  /\ a.names # {} => a.asked.signed /\ a.asked.path = "/services" /\ a.stage \in {"up", "stopped"}
               /\ a.status = 200 => a.asked.signed /\ a.stage # "ended"
    <3>1. /\ a.asked = mgmtRequest /\ a.status = Status(mgmtRequest, shared.key)
          /\ a.names = Body(mgmtRequest, a.status) /\ a.stage = shared.stage
      BY <1>7, <2>2 DEF AnswerRequest
    <3>2. a.status = 200 => mgmtRequest.signed /\ shared.key
      BY <3>1 DEF Status
    <3>3. a.names # {} => a.status = 200 /\ mgmtRequest.path = "/services" /\ shared.names # {}
      BY <3>1 DEF Body
    <3> QED BY <3>1, <3>2, <3>3 DEF SharedInv, MgmtTypes
  <2>3. AnswersAreEntitled'
    BY <2>2 DEF AnswersAreEntitled
  <2> QED BY <2>1, <2>3
<1>8. ASSUME SilentRequest PROVE MgmtInv'
  <2>1. MgmtTypes' /\ SharedInv' /\ StopInv'
    BY <1>0, <1>8 DEF SilentRequest, MgmtTypes, SharedInv, StopInv
  <2> QED BY <2>1, <1>8, MgmtQuiet DEF SilentRequest
<1>9. ASSUME WorkerEnds PROVE MgmtInv'
  <2>1. MgmtTypes' /\ SharedInv' /\ StopInv'
    BY <1>9 DEF WorkerEnds, MgmtTypes, SharedInv, StopInv
  <2> QED BY <2>1, <1>9, MgmtQuiet DEF WorkerEnds
<1>10. ASSUME MgmtStop PROVE MgmtInv'
  <2>1. MgmtTypes' /\ SharedInv' /\ StopInv'
    BY <1>10 DEF MgmtStop, MgmtTypes, SharedInv, StopInv
  <2> QED BY <2>1, <1>10, MgmtQuiet DEF MgmtStop
<1>11. ASSUME FreeRegistry PROVE MgmtInv'
  <2>1. MgmtTypes' /\ SharedInv' /\ StopInv'
    BY <1>11 DEF FreeRegistry, MgmtTypes, SharedInv, StopInv
  <2> QED BY <2>1, <1>11, MgmtQuiet DEF FreeRegistry
<1>12. ASSUME FreeKey PROVE MgmtInv'
  <2>1. MgmtTypes' /\ SharedInv' /\ StopInv'
    BY <1>12 DEF FreeKey, MgmtTypes, SharedInv, StopInv
  <2> QED BY <2>1, <1>12, MgmtQuiet DEF FreeKey
<1>13. ASSUME UNCHANGED mgmtVars PROVE MgmtInv'
  BY <1>13 DEF mgmtVars, MgmtTypes, SharedInv, StopInv, AnswersAreEntitled
<1> QED BY <1>1, <1>2, <1>3, <1>4, <1>5, <1>6, <1>7, <1>8, <1>9, <1>10, <1>11, <1>12, <1>13 DEF MgmtNext

LEMMA MgmtInvSafe == MgmtInv => MgmtSafe
BY DEF MgmtInv, MgmtSafe, StopInv, StopIsPrompt

(***************************************************************************)
(* The theorems about SmfSpec.  A step of it is a step of one part and     *)
(* leaves the others alone.                                                *)
(***************************************************************************)
LEMMA PartSteps ==
  ASSUME [SmfNext]_smfVars
  PROVE  /\ [GateNext]_gateVars /\ [AuthNext]_authVars
         /\ [ReplayNext]_replayVars /\ [BusNext]_busVars
         /\ [WpNext]_wpVars /\ [ConnNext]_connVars
         /\ [RrNext]_rrVars /\ [StartNext]_startVars /\ [MgmtNext]_mgmtVars
         /\ UNCHANGED part
<1>1. CASE InfraNext /\ UNCHANGED <<gateVars, authVars, lifeVars, part>>
  BY <1>1 DEF InfraNext, lifeVars
<1>2. CASE LifeNext /\ UNCHANGED <<gateVars, authVars, infraVars, part>>
  BY <1>2 DEF LifeNext, infraVars
<1>3. CASE SmfNext /\ UNCHANGED <<infraVars, lifeVars>>
  BY <1>3 DEF SmfNext, infraVars, lifeVars
<1>4. CASE UNCHANGED smfVars
  BY <1>4 DEF smfVars, infraVars, lifeVars
<1> QED BY <1>1, <1>2, <1>3, <1>4 DEF SmfNext

\* However many workers, clients and services there are and whatever the
\* sizes of the tables: no more requests reach the registry than the token
\* buckets of sm_rate_limit.c held and gained, also over evictions; bans of
\* sm_advanced_ratelimit.c keep to their rules; nothing invalid passes
\* sm_handle_client; and verify.c tells a damaged message from a genuine one.
THEOREM RequestsCorrect == SmfSpec => []RequestsSafe
<1>1. SmfInit => GateInv /\ AuthInv
  BY GateInitHolds, AuthInitHolds DEF SmfInit
<1>2. GateInv /\ AuthInv /\ [SmfNext]_smfVars => GateInv' /\ AuthInv'
  BY PartSteps, GateStep, AuthStep
<1>3. GateInv /\ AuthInv => RequestsSafe
  BY GateInvSafe, AuthInvSafe DEF RequestsSafe
<1> QED BY <1>1, <1>2, <1>3, PTL DEF SmfSpec

\* However many threads there are and whatever the sizes of the rings, queues
\* and pools: a replayed token is found until the ring of sm_replay.c has gone
\* round, the event bus calls each subscriber once, in order and with what was
\* published, the thread pool runs each task once and sleeps only when there
\* is nothing to do, and each pooled connection has one holder.
THEOREM InfraCorrect == SmfSpec => []InfraSafe
<1> DEFINE Inv == ReplayInv /\ BusInv /\ WpInv /\ PoolConnInv
<1>1. SmfInit => Inv
  BY ReplayInitHolds, BusInitHolds, WpInitHolds, ConnInitHolds DEF SmfInit
<1>2. Inv /\ [SmfNext]_smfVars => Inv'
  BY PartSteps, ReplayStep, BusStep, WpStep, ConnStep
<1>3. Inv => InfraSafe
  BY ReplayInvSafe, BusInvSafe, WpInvSafe, ConnInvSafe DEF InfraSafe
<1> QED BY <1>1, <1>2, <1>3, PTL DEF SmfSpec

\* However many paths, features, services and requests there are, and wherever
\* a start fails or is killed: the key in use is whole and on disk, sockets
\* are accounted for and the configuration in effect was valid; the progress
\* of a rolling restart is reported truly unless two lists overlap; and the
\* management interface, which nobody joins, stops promptly and never answers
\* from what cleanup has freed.
THEOREM LifecycleCorrect == SmfSpec => []LifecycleSafe
<1> DEFINE Inv == RrInv /\ StartInv /\ MgmtInv
<1>1. SmfInit => Inv
  BY RrInitHolds, StartInitHolds, MgmtInitHolds DEF SmfInit
<1>2. Inv /\ [SmfNext]_smfVars => Inv'
  BY PartSteps, RrStep, StartStep, MgmtStep
<1>3. Inv => LifecycleSafe
  BY RrInvSafe, StartInvSafe, MgmtInvSafe DEF LifecycleSafe
<1> QED BY <1>1, <1>2, <1>3, PTL DEF SmfSpec
=============================================================================

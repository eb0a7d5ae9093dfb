------------------------ MODULE ServiceManagerProofs ------------------------
(***************************************************************************)
(* Proofs about the service manager at work, for any numbers of services,  *)
(* processes and worker threads and any timeouts: the variables keep their *)
(* types, and no process that is alive loses its name but by its own       *)
(* request.                                                                *)
(***************************************************************************)
EXTENDS ServiceManager, TLAPS

\* A registry, or a copy of one.
Map(m) == DOMAIN m \subseteq Names /\ m = [n \in DOMAIN m |-> m[n]] /\ \A n \in DOMAIN m : m[n] \in Entry

\* The health check works on a copy of the registry, and on an entry of it.
CheckInv ==
    \/ check = Resting
    \/ /\ check.step \in {"scan", "crashed", "term"}
       /\ Map(check.todo)
       /\ check.step # "scan" => check.name \in DOMAIN check.todo

\* The registry as a map, and the updates the threads are in.
MapOK == Map(reg) /\ op \in [Threads -> {Idle} \cup Op]

\* The processes: live is what proc says.
ProcOK == proc \in [Pids -> ProcState] /\ live = {p \in Pids : proc[p] \notin {"new", "out"}}

SmInv ==
    /\ MapOK
    /\ ProcOK
    /\ queue \subseteq Request
    /\ attempts \in [Names -> 0 .. MaxAttempts]
    /\ CheckInv

\* What LiveOwnerKeepsName says of one step.
OwnerKept ==
    \A n \in DOMAIN reg :
        \/ n \in DOMAIN reg' /\ reg'[n].pid = reg[n].pid
        \/ reg[n].pid \notin live
        \/ [type |-> "unregister", pid |-> reg[n].pid] \in queue

-----------------------------------------------------------------------------
LEMMA CapsAreNat == AgeCap \in Nat \ {0} /\ RestartCap \in Nat \ {0} /\ MaxAttempts \in Nat
BY MapAssumption, ManagerAssumption

LEMMA FreshType ==
  ASSUME NEW p \in Pids
  PROVE  FreshEntry(p) \in Entry
BY CapsAreNat DEF FreshEntry, Entry, Status, Ages

LEMMA OlderType == \A a \in Ages : Older(a) \in Ages
BY CapsAreNat DEF Ages, Older

LEMMA CountedType == \A c \in 0 .. RestartCap : Counted(c) \in 0 .. RestartCap
BY CapsAreNat DEF Counted

\* A store into one field of an entry gives an entry of the same process.
LEMMA EntryStore ==
  ASSUME NEW e \in Entry
  PROVE  /\ [e EXCEPT !.beat = 0] \in Entry /\ [e EXCEPT !.beat = 0].pid = e.pid
         /\ \A s \in Status : [e EXCEPT !.status = s] \in Entry /\ [e EXCEPT !.status = s].pid = e.pid
         /\ [e EXCEPT !.crash = 0] \in Entry /\ [e EXCEPT !.crash = 0].pid = e.pid
         /\ [e EXCEPT !.restarts = Counted(@)] \in Entry /\ [e EXCEPT !.restarts = Counted(@)].pid = e.pid
         /\ LET f == [e EXCEPT !.beat = Older(@), !.crash = Older(@)] IN f \in Entry /\ f.pid = e.pid
<1>1. 0 \in Ages /\ Older(e.beat) \in Ages /\ Older(e.crash) \in Ages /\ Counted(e.restarts) \in 0 .. RestartCap
  BY CapsAreNat, OlderType, CountedType DEF Entry, Ages
<1>2. [e EXCEPT !.beat = 0] \in Entry /\ [e EXCEPT !.beat = 0].pid = e.pid
  BY <1>1 DEF Entry
<1>3. ASSUME NEW s \in Status
      PROVE  [e EXCEPT !.status = s] \in Entry /\ [e EXCEPT !.status = s].pid = e.pid
  BY DEF Entry
<1>4. [e EXCEPT !.crash = 0] \in Entry /\ [e EXCEPT !.crash = 0].pid = e.pid
  BY <1>1 DEF Entry
<1>5. [e EXCEPT !.restarts = Counted(@)] \in Entry /\ [e EXCEPT !.restarts = Counted(@)].pid = e.pid
  BY <1>1 DEF Entry
<1>6. LET f == [e EXCEPT !.beat = Older(@), !.crash = Older(@)] IN f \in Entry /\ f.pid = e.pid
  <2> DEFINE g == [e EXCEPT !.beat = Older(@)]
  <2>1. g \in Entry /\ g.pid = e.pid /\ g.crash = e.crash
    BY <1>1 DEF Entry
  <2> HIDE DEF g
  <2>2. [g EXCEPT !.crash = Older(@)] \in Entry /\ [g EXCEPT !.crash = Older(@)].pid = e.pid
    BY <1>1, <2>1 DEF Entry
  <2> QED BY <2>2 DEF g
<1> QED BY <1>2, <1>3, <1>4, <1>5, <1>6

\* The pids of a map of entries, and of it after a store into one of them,
\* known to the map or not.
SamePids(m, k) == DOMAIN k = DOMAIN m /\ \A n \in DOMAIN m : k[n].pid = m[n].pid

LEMMA MapStore ==
  ASSUME NEW m, Map(m), NEW n, NEW e, n \in DOMAIN m => e \in Entry /\ e.pid = m[n].pid
  PROVE  LET k == [m EXCEPT ![n] = e] IN Map(k) /\ SamePids(m, k)
BY DEF Map, SamePids

LEMMA FieldStore ==
  ASSUME NEW m, Map(m), NEW n
  PROVE  /\ LET k == [m EXCEPT ![n].beat = 0] IN Map(k) /\ SamePids(m, k)
         /\ \A s \in Status : LET k == [m EXCEPT ![n].status = s] IN Map(k) /\ SamePids(m, k)
         /\ LET k == [m EXCEPT ![n].crash = 0] IN Map(k) /\ SamePids(m, k)
         /\ LET k == [m EXCEPT ![n].restarts = Counted(@)] IN Map(k) /\ SamePids(m, k)
<1>1. n \in DOMAIN m => m[n] \in Entry
  BY DEF Map
<1> QED BY <1>1, EntryStore, MapStore

LEMMA MapAged ==
  ASSUME NEW m, Map(m)
  PROVE  LET k == [n \in DOMAIN m |-> [m[n] EXCEPT !.beat = Older(@), !.crash = Older(@)]]
         IN  Map(k) /\ SamePids(m, k)
<1> DEFINE k == [n \in DOMAIN m |-> [m[n] EXCEPT !.beat = Older(@), !.crash = Older(@)]]
<1>1. \A n \in DOMAIN m : k[n] \in Entry /\ k[n].pid = m[n].pid
  BY EntryStore DEF Map
<1>2. DOMAIN k = DOMAIN m /\ k = [n \in DOMAIN k |-> k[n]]
  OBVIOUS
<1> HIDE DEF k
<1>3. Map(k) /\ SamePids(m, k)
  BY <1>1, <1>2 DEF Map, SamePids
<1> QED BY <1>3 DEF k

LEMMA MapAdded ==
  ASSUME NEW m, Map(m), NEW n \in Names, NEW p \in Pids
  PROVE  Map([x \in DOMAIN m \cup {n} |-> IF x = n THEN FreshEntry(p) ELSE m[x]])
BY FreshType DEF Map

LEMMA MapWithout ==
  ASSUME NEW m, Map(m), NEW n
  PROVE  Map([x \in DOMAIN m \ {n} |-> m[x]])
BY DEF Map

-----------------------------------------------------------------------------
(***************************************************************************)
(* The invariant, part by part: each lemma says which steps keep a part.   *)
(***************************************************************************)
\* The registry steps keep the map, the threads and, except for Add and
\* Remove, the owner of every name.
LEMMA OpType ==
  ASSUME op \in [Threads -> {Idle} \cup Op], NEW t \in Threads
  PROVE  /\ op[t].kind \in OpKinds => op[t] \in Op
         /\ [op EXCEPT ![t] = Idle] \in [Threads -> {Idle} \cup Op]
         /\ \A o \in Op : [op EXCEPT ![t] = o] \in [Threads -> {Idle} \cup Op]
BY DEF Idle, Op, OpKinds

LEMMA AddStep ==
  ASSUME MapOK, NEW n \in Names, NEW p \in Pids, Add(n, p)
  PROVE  /\ MapOK' /\ live' = live
         /\ \A k \in DOMAIN reg : k \in DOMAIN reg' /\ (reg'[k].pid = reg[k].pid \/ reg[k].pid \notin live)
<1>1. Map(reg')
  BY MapAdded DEF MapOK, Add
<1>2. ASSUME NEW k \in DOMAIN reg
      PROVE  k \in DOMAIN reg' /\ (reg'[k].pid = reg[k].pid \/ reg[k].pid \notin live)
  BY DEF Add, Available
<1> QED BY <1>1, <1>2 DEF MapOK, Add

LEMMA RemoveStep ==
  ASSUME MapOK, NEW n \in Names, NEW p \in Pids, RemoveIfOwner(n, p)
  PROVE  /\ MapOK' /\ live' = live
         /\ \A k \in DOMAIN reg : (k \in DOMAIN reg' /\ reg'[k].pid = reg[k].pid) \/ reg[k].pid = p
<1>1. Map(reg')
  BY MapWithout DEF MapOK, RemoveIfOwner, Remove, Without
<1>2. ASSUME NEW k \in DOMAIN reg
      PROVE  (k \in DOMAIN reg' /\ reg'[k].pid = reg[k].pid) \/ reg[k].pid = p
  BY DEF RemoveIfOwner, Remove, Without
<1> QED BY <1>1, <1>2 DEF MapOK, RemoveIfOwner, Remove

LEMMA UpdateStep ==
  ASSUME MapOK, NEW t \in Threads,
         \/ \E n \in Names : BeatBegin(t, n) \/ \E s \in Status : StatusBegin(t, n, s)
         \/ BeatEnd(t) \/ CrashTime(t) \/ CrashCount(t)
  PROVE  MapOK' /\ live' = live /\ SamePids(reg, reg')
<1> USE DEF MapOK
<1>1. ASSUME NEW n \in Names, BeatBegin(t, n) PROVE MapOK' /\ live' = live /\ SamePids(reg, reg')
  <2>1. Map(reg') /\ SamePids(reg, reg')
    BY <1>1, FieldStore DEF BeatBegin
  <2>2. [kind |-> "beat", name |-> n] \in Op
    BY DEF Op, OpKinds
  <2> QED BY <1>1, <2>1, <2>2, OpType DEF BeatBegin
<1>2. ASSUME NEW n \in Names, NEW s \in Status, StatusBegin(t, n, s)
      PROVE  MapOK' /\ live' = live /\ SamePids(reg, reg')
  <2>1. Map(reg') /\ SamePids(reg, reg')
    BY <1>2, FieldStore DEF StatusBegin
  <2>2. [kind |-> "time", name |-> n] \in Op
    BY DEF Op, OpKinds
  <2>3. op' \in [Threads -> {Idle} \cup Op]
    <3>1. CASE s = "crashed"
      BY <1>2, <2>2, <3>1, OpType DEF StatusBegin
    <3>2. CASE s # "crashed"
      BY <1>2, <3>2, OpType DEF StatusBegin
    <3> QED BY <3>1, <3>2
  <2> QED BY <1>2, <2>1, <2>3 DEF StatusBegin
<1>3. CASE BeatEnd(t)
  <2>1. Map(reg') /\ SamePids(reg, reg')
    BY <1>3, FieldStore DEF BeatEnd, Status
  <2> QED BY <1>3, <2>1, OpType DEF BeatEnd
<1>4. CASE CrashTime(t)
  <2>1. Map(reg') /\ SamePids(reg, reg')
    BY <1>4, FieldStore DEF CrashTime
  <2>2. op[t] \in Op
    BY <1>4, OpType DEF CrashTime, OpKinds
  <2>3. [op[t] EXCEPT !.kind = "count"] \in Op
    BY <2>2 DEF Op, OpKinds
  <2> QED BY <1>4, <2>1, <2>3, OpType DEF CrashTime
<1>5. CASE CrashCount(t)
  <2>1. Map(reg') /\ SamePids(reg, reg')
    BY <1>5, FieldStore DEF CrashCount
  <2> QED BY <1>5, <2>1, OpType DEF CrashCount
<1> QED BY <1>1, <1>2, <1>3, <1>4, <1>5

LEMMA TickStep ==
  ASSUME MapOK, Tick
  PROVE  MapOK' /\ live' = live /\ SamePids(reg, reg')
<1>1. Map(reg') /\ SamePids(reg, reg')
  BY MapAged DEF MapOK, Tick
<1> QED BY <1>1 DEF MapOK, Tick

\* A process that changes what it does while it exists, one that appears and
\* one that goes.
Existing == ProcState \ {"new", "out"}

LEMMA BecomesStep ==
  ASSUME ProcOK, NEW p \in Pids, NEW s \in ProcState, Becomes(p, s),
         \/ s \in Existing /\ proc[p] \in Existing /\ live' = live
         \/ s \in Existing /\ live' = live \cup {p}
         \/ s = "out" /\ live' = live \ {p}
  PROVE  ProcOK'
<1>1. proc' \in [Pids -> ProcState] /\ \A q \in Pids : proc'[q] = IF q = p THEN s ELSE proc[q]
  BY DEF Becomes, ProcOK
<1>2. live' = {q \in Pids : proc'[q] \notin {"new", "out"}}
  BY <1>1 DEF ProcOK, Existing, ProcState
<1> QED BY <1>1, <1>2 DEF ProcOK

LEMMA AnswerStep ==
  ASSUME ProcOK, NEW p \in Pids, NEW s, proc[p] = "starting" => s \in Existing, Answer(p, s), live' = live
  PROVE  ProcOK'
<1>1. CASE proc[p] = "starting"
  <2>1. s \in ProcState /\ s \in Existing /\ proc[p] \in Existing /\ Becomes(p, s)
    BY <1>1 DEF Answer, Becomes, Existing, ProcState
  <2> QED BY <2>1, BecomesStep
<1>2. CASE proc[p] # "starting"
  BY <1>2 DEF ProcOK, Answer
<1> QED BY <1>1, <1>2

\* The health check goes on to another entry of its copy, or to the next
\* step with the entry it is at.
LEMMA RestStep ==
  ASSUME CheckInv, check # Resting, NEW n, check' = Rest(n)
  PROVE  CheckInv'
<1> DEFINE left == DOMAIN check.todo \ {n}
           m    == [x \in left |-> check.todo[x]]
<1>1. Map(m)
  BY MapWithout DEF CheckInv
<1> HIDE DEF m
<1>2. CASE left = {}
  BY <1>2 DEF Rest, CheckInv
<1>3. CASE left # {}
  <2>1. check' = [step |-> "scan", todo |-> m]
    BY <1>3 DEF Rest, m
  <2> QED BY <2>1, <1>1 DEF CheckInv
<1> QED BY <1>2, <1>3

LEMMA AtStep ==
  ASSUME CheckInv, check # Resting, NEW n \in DOMAIN check.todo, NEW s \in {"crashed", "term"}, check' = At(s, n)
  PROVE  CheckInv'
BY DEF CheckInv, At

LEMMA SendType ==
  ASSUME queue \subseteq Request, NEW p \in Pids, NEW type \in {"register", "heartbeat", "unregister"}, Send(p, type)
  PROVE  queue' \subseteq Request
BY DEF Send, Request

LEMMA AttemptsType ==
  ASSUME attempts \in [Names -> 0 .. MaxAttempts], NEW n
  PROVE  /\ [attempts EXCEPT ![n] = 0] \in [Names -> 0 .. MaxAttempts]
         /\ [attempts EXCEPT ![n] = IF @ < MaxAttempts THEN @ + 1 ELSE @] \in [Names -> 0 .. MaxAttempts]
<1>1. 0 \in 0 .. MaxAttempts
  BY CapsAreNat
<1>2. ASSUME NEW a \in 0 .. MaxAttempts PROVE (IF a < MaxAttempts THEN a + 1 ELSE a) \in 0 .. MaxAttempts
  BY CapsAreNat
<1>3. [attempts EXCEPT ![n] = 0] \in [Names -> 0 .. MaxAttempts]
  BY <1>1
<1> DEFINE a == attempts[n]
           b == IF a < MaxAttempts THEN a + 1 ELSE a
<1>4. n \in Names => b \in 0 .. MaxAttempts
  BY <1>2
<1> HIDE DEF b
<1>5. [attempts EXCEPT ![n] = b] \in [Names -> 0 .. MaxAttempts]
  BY <1>4
<1> QED BY <1>3, <1>5 DEF b

LEMMA SameOwners ==
  ASSUME SamePids(reg, reg') \/ reg' = reg
  PROVE  OwnerKept
BY DEF OwnerKept, SamePids

-----------------------------------------------------------------------------
LEMMA SmStep ==
  ASSUME SmInv, SmNext
  PROVE  SmInv' /\ OwnerKept
<1> USE DEF mapVars
<1>0. ASSUME NEW r \in queue
      PROVE  r.pid \in Pids /\ Svc[r.pid] \in Names /\ r = [type |-> r.type, pid |-> r.pid] /\ (Taken(r) => queue' \subseteq Request)
  BY ManagerAssumption DEF SmInv, Request, Taken
<1>a. ASSUME UNCHANGED <<reg, op>>
      PROVE  MapOK' /\ OwnerKept
  BY <1>a, SameOwners DEF SmInv, MapOK
<1>b. ASSUME UNCHANGED <<proc, live>>
      PROVE  ProcOK'
  BY <1>b DEF SmInv, ProcOK
<1>c. ASSUME UNCHANGED check
      PROVE  CheckInv'
  BY <1>c DEF SmInv, CheckInv
<1>1. ASSUME NEW p \in Pids, Launch(p)
      PROVE  SmInv' /\ OwnerKept
  <2>1. ProcOK'
    BY <1>1, BecomesStep DEF Launch, Start, SmInv, Existing, ProcState
  <2> QED BY <1>1, <1>a, <1>c, <2>1, SendType DEF SmInv, Launch, Start
<1>2. ASSUME NEW p \in Pids, Beat(p)
      PROVE  SmInv' /\ OwnerKept
  BY <1>2, <1>a, <1>b, <1>c, SendType DEF SmInv, Beat
<1>3. ASSUME NEW p \in Pids, Hang(p) \/ Resume(p)
      PROVE  SmInv' /\ OwnerKept
  <2>1. ProcOK'
    BY <1>3, BecomesStep DEF Hang, Resume, SmInv, Existing, ProcState
  <2> QED BY <1>3, <1>a, <1>c, <2>1 DEF SmInv, Hang, Resume
<1>4. ASSUME NEW p \in Pids, Quit(p)
      PROVE  SmInv' /\ OwnerKept
  <2>1. ProcOK'
    BY <1>4, BecomesStep DEF Quit, SmInv, Existing, ProcState
  <2> QED BY <1>4, <1>a, <1>c, <2>1, SendType DEF SmInv, Quit
<1>5. ASSUME NEW p \in Pids, Die(p)
      PROVE  SmInv' /\ OwnerKept
  <2>1. ProcOK'
    BY <1>5, BecomesStep DEF Die, Exit, SmInv, ProcState
  <2> QED BY <1>5, <1>a, <1>c, <2>1 DEF SmInv, Die, Exit
<1>6. ASSUME NEW w \in Workers, NEW r \in queue, Register(w, r)
      PROVE  SmInv' /\ OwnerKept
  <2>1. MapOK' /\ live' = live /\ OwnerKept
    BY <1>6, <1>0, AddStep DEF SmInv, Register, OwnerKept
  <2>2. ProcOK'
    BY <1>6, <1>0, <2>1, AnswerStep DEF Register, SmInv, Existing, ProcState
  <2>3. attempts' \in [Names -> 0 .. MaxAttempts]
    BY <1>6, AttemptsType DEF Register, SmInv
  <2> QED BY <1>6, <1>0, <1>c, <2>1, <2>2, <2>3 DEF SmInv, Register
<1>7. ASSUME NEW w \in Workers, NEW r \in queue, RegisterRefused(w, r)
      PROVE  SmInv' /\ OwnerKept
  <2>2. ProcOK'
    BY <1>7, <1>0, AnswerStep DEF RegisterRefused, SmInv, Existing, ProcState
  <2> QED BY <1>7, <1>0, <1>a, <1>c, <2>2 DEF SmInv, RegisterRefused
<1>8. ASSUME NEW w \in Workers, NEW r \in queue, Heartbeat(w, r)
      PROVE  SmInv' /\ OwnerKept
  <2>1. MapOK' /\ live' = live /\ OwnerKept
    BY <1>8, <1>0, UpdateStep, SameOwners DEF SmInv, Heartbeat, Workers
  <2> QED BY <1>8, <1>0, <1>b, <1>c, <2>1 DEF SmInv, Heartbeat
<1>9. ASSUME NEW w \in Workers, NEW r \in queue, Unregister(w, r)
      PROVE  SmInv' /\ OwnerKept
  <2>1. /\ MapOK' /\ live' = live
        /\ \A k \in DOMAIN reg : (k \in DOMAIN reg' /\ reg'[k].pid = reg[k].pid) \/ reg[k].pid = r.pid
    BY <1>9, <1>0, RemoveStep DEF SmInv, Unregister
  <2>2. r = [type |-> "unregister", pid |-> r.pid] /\ r \in queue
    BY <1>9, <1>0 DEF Unregister
  <2>3. OwnerKept
    BY <2>1, <2>2, Zenon DEF OwnerKept
  <2> QED BY <1>9, <1>0, <1>b, <1>c, <2>1, <2>3 DEF SmInv, Unregister
<1>10. ASSUME NEW w \in Workers, NEW r \in queue, Ignored(w, r)
       PROVE  SmInv' /\ OwnerKept
  BY <1>10, <1>0, <1>a, <1>b, <1>c DEF SmInv, Ignored
<1>11. ASSUME NEW w \in Workers, HeartbeatStored(w)
       PROVE  SmInv' /\ OwnerKept
  <2>1. MapOK' /\ live' = live /\ OwnerKept
    BY <1>11, UpdateStep, SameOwners DEF SmInv, HeartbeatStored, Workers
  <2> QED BY <1>11, <1>b, <1>c, <2>1 DEF SmInv, HeartbeatStored
<1>12. ASSUME NEW r \in queue, Refuse(r)
       PROVE  SmInv' /\ OwnerKept
  <2>2. ProcOK'
    BY <1>12, <1>0, AnswerStep DEF Refuse, SmInv, Existing, ProcState
  <2> QED BY <1>12, <1>0, <1>a, <1>c, <2>2 DEF SmInv, Refuse
<1>d. Main \in Threads /\ check.step # "idle" => check # Resting
  BY ManagerAssumption DEF Resting
<1>13. CASE CheckBegin
  <2>1. CheckInv'
    BY <1>13 DEF CheckBegin, SmInv, MapOK, CheckInv
  <2> QED BY <1>13, <1>a, <1>b, <2>1 DEF SmInv, CheckBegin
<1>14. ASSUME NEW n \in Names, CheckSkip(n)
       PROVE  SmInv' /\ OwnerKept
  <2>1. CheckInv'
    BY <1>14, RestStep DEF CheckSkip, SmInv, Resting
  <2> QED BY <1>14, <1>a, <1>b, <2>1 DEF SmInv, CheckSkip
<1>15. ASSUME NEW n \in Names, CheckTimeout(n)
       PROVE  SmInv' /\ OwnerKept
  <2>1. CheckInv'
    BY <1>15, AtStep DEF CheckTimeout, SmInv, Resting
  <2>2. MapOK' /\ live' = live /\ OwnerKept
    <3>1. CASE n \in DOMAIN reg
      BY <1>15, <3>1, UpdateStep, SameOwners, ManagerAssumption DEF SmInv, CheckTimeout, Status
    <3>2. CASE n \notin DOMAIN reg
      BY <1>15, <3>2, <1>a DEF CheckTimeout
    <3> QED BY <3>1, <3>2
  <2> QED BY <1>15, <1>b, <2>1, <2>2 DEF SmInv, CheckTimeout
<1>16. CASE CheckStore
  <2>1. MapOK' /\ live' = live /\ OwnerKept
    BY <1>16, UpdateStep, SameOwners, ManagerAssumption DEF SmInv, CheckStore
  <2> QED BY <1>16, <1>b, <1>c, <2>1 DEF SmInv, CheckStore
<1>17. ASSUME NEW n \in Names, CheckCrashed(n)
       PROVE  SmInv' /\ OwnerKept
  <2>1. CheckInv'
    BY <1>17, AtStep DEF CheckCrashed, SmInv, Resting
  <2> QED BY <1>17, <1>a, <1>b, <2>1 DEF SmInv, CheckCrashed
<1>18. CASE CheckGiveUp
  <2>1. CheckInv'
    BY <1>18, RestStep DEF CheckGiveUp, SmInv, Resting
  <2>2. MapOK' /\ live' = live /\ OwnerKept
    <3>1. CASE check.name \in DOMAIN reg
      <4>1. check.name \in Names
        BY <3>1 DEF SmInv, MapOK, Map
      <4> QED BY <1>18, <3>1, <4>1, UpdateStep, SameOwners, ManagerAssumption DEF SmInv, CheckGiveUp, Status
    <3>2. CASE check.name \notin DOMAIN reg
      BY <1>18, <3>2, <1>a DEF CheckGiveUp
    <3> QED BY <3>1, <3>2
  <2> QED BY <1>18, <1>b, <2>1, <2>2 DEF SmInv, CheckGiveUp
<1>19. CASE CheckWait
  <2>1. CheckInv'
    BY <1>19, RestStep DEF CheckWait, SmInv, Resting
  <2> QED BY <1>19, <1>a, <1>b, <2>1 DEF SmInv, CheckWait
<1>20. CASE CheckTerm
  <2> DEFINE e == check.todo[check.name]
  <2>0. check.step = "crashed" /\ check # Resting
    BY <1>20 DEF CheckTerm, Resting
  <2>1. check.name \in DOMAIN check.todo /\ e.pid \in Pids
    BY <2>0 DEF SmInv, CheckInv, Map, Entry
  <2>2. CheckInv'
    BY <1>20, <2>0, <2>1, AtStep DEF CheckTerm, SmInv
  <2>3. attempts' \in [Names -> 0 .. MaxAttempts]
    BY <1>20, AttemptsType DEF CheckTerm, SmInv
  <2>4. MapOK' /\ OwnerKept /\ live' = live
    BY <1>20, <1>a DEF CheckTerm
  <2>5. ProcOK' /\ queue' \subseteq Request
    <3>1. CASE UNCHANGED <<proc, queue>>
      BY <3>1, <2>4, <1>b DEF SmInv
    <3>2. CASE proc[e.pid] = "serving" /\ Becomes(e.pid, "leaving") /\ Send(e.pid, "unregister")
      BY <3>2, <2>1, <2>4, BecomesStep, SendType DEF SmInv, Existing, ProcState
    <3> QED BY <1>20, <3>1, <3>2 DEF CheckTerm
  <2> QED BY <2>2, <2>3, <2>4, <2>5 DEF SmInv
<1>21. CASE CheckKill
  <2> DEFINE p == check.todo[check.name].pid
  <2>0. check.step = "term" /\ check # Resting
    BY <1>21 DEF CheckKill, Resting
  <2>1. p \in Pids
    BY <2>0 DEF SmInv, CheckInv, Map, Entry
  <2>2. CheckInv'
    BY <1>21, <2>0, RestStep DEF CheckKill, SmInv
  <2>3. MapOK' /\ OwnerKept
    BY <1>21, <1>a DEF CheckKill, Exit
  <2>4. ProcOK'
    <3>1. CASE p \in live
      BY <1>21, <3>1, <2>1, BecomesStep DEF CheckKill, Exit, SmInv, ProcState
    <3>2. CASE p \notin live
      BY <1>21, <3>2, <1>b DEF CheckKill
    <3> QED BY <3>1, <3>2
  <2> QED BY <1>21, <2>2, <2>3, <2>4 DEF SmInv, CheckKill
<1>22. CASE TimePasses
  <2>1. MapOK' /\ live' = live /\ OwnerKept
    BY <1>22, TickStep, SameOwners DEF SmInv, TimePasses
  <2> QED BY <1>22, <1>b, <1>c, <2>1 DEF SmInv, TimePasses
<1> QED
  BY <1>1, <1>2, <1>3, <1>4, <1>5, <1>6, <1>7, <1>8, <1>9, <1>10, <1>11, <1>12, <1>13, <1>14, <1>15, <1>16,
     <1>17, <1>18, <1>19, <1>20, <1>21, <1>22 DEF SmNext, HandleStep, CheckStep

LEMMA SmStart == SmInit => SmInv
<1> SUFFICES ASSUME SmInit PROVE SmInv
  OBVIOUS
<1>1. MapOK
  BY DEF SmInit, MapInit, MapOK, Map
<1>2. ProcOK
  <2>1. proc = [p \in Pids |-> Unused] /\ live = {} /\ Unused \in {"new", "out"}
    BY DEF SmInit, Unused
  <2> QED BY <2>1 DEF ProcOK, ProcState
<1>3. attempts \in [Names -> 0 .. MaxAttempts]
  BY CapsAreNat DEF SmInit, NoAttempts
<1> QED BY <1>1, <1>2, <1>3 DEF SmInit, SmInv, CheckInv

LEMMA SmInvTypes == SmInv => SmTypeOK
BY DEF SmInv, MapOK, Map, ProcOK, CheckInv, SmTypeOK

LEMMA SmInvStutter == SmInv /\ UNCHANGED smVars => SmInv'
BY DEF SmInv, MapOK, ProcOK, CheckInv, smVars

-----------------------------------------------------------------------------
\* Types.  Whatever requests, deaths, restarts and health decisions
\* interleave, and however many services and threads there are, every
\* variable keeps its type, and the processes kill(pid, 0) sees are exactly
\* those that have started and not gone.
THEOREM SmTypeCorrect == SmSpec => []SmTypeOK
<1>1. SmInv /\ [SmNext]_smVars => SmInv'
  BY SmStep, SmInvStutter
<1> QED BY <1>1, SmStart, SmInvTypes, PTL DEF SmSpec

\* No process that is alive loses its name but by its own unregister request
\* (sm_registry_add refuses a name whose owner lives, and only
\* sm_registry_remove_if_owner takes a name away).
THEOREM LiveOwnerKeeps == SmSpec => LiveOwnerKeepsName
<1>1. SmInv /\ [SmNext]_smVars => SmInv'
  BY SmStep, SmInvStutter
<1>2. SmInv /\ [SmNext]_smVars => [OwnerKept]_smVars
  BY SmStep
<1>3. SmSpec => [][OwnerKept]_smVars
  BY <1>1, <1>2, SmStart, PTL DEF SmSpec
<1> QED BY <1>3, PTL DEF LiveOwnerKeepsName, OwnerKept
=============================================================================

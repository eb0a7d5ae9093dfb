---------------------------- MODULE DaemonProofs ----------------------------
(***************************************************************************)
(* Proofs about the life of the service manager process, for any number of *)
(* connections, worker threads and services and any size of the queue: no  *)
(* connection is served twice or forgotten, no wake-up is lost, no request *)
(* is served without its subsystems, and a clean restart remembers every   *)
(* registration.                                                           *)
(***************************************************************************)
EXTENDS Daemon, TLAPS, SequenceTheorems

\* A worker is busy exactly while it has a connection.
BusyServes == \A w \in Workers : (wpc[w] = "busy") <=> (serving[w] # NoFd)

WqInv == WqTypeOK /\ EachConnOnce /\ NoLostWakeup /\ BusyServes

\* The pool has not been created, works, or is gone.
Fresh  == (\A w \in Workers : wpc[w] = "none") /\ fds = <<>> /\ ~shutdown
Pooled == (\A w \in Workers : wpc[w] \in {"ready", "wait", "busy"}) /\ ~shutdown
Ended  == AllJoined /\ fds = <<>>

\* Where sm_run creates the pool and loads the file, and where cleanup has
\* saved it.
ThreadsAt == 13
SaveAt    == 4

StartInv ==
    /\ step \in 1 .. Len(Startup)
    /\ \A k \in 1 .. step - 1 : Startup[k] \in Tracked => Startup[k] \in up
    /\ step =< ThreadsAt => Fresh /\ "threads" \notin up
    /\ step > ThreadsAt => Pooled /\ "threads" \in up
    /\ step =< LoadAt => registry = {}

StopInv ==
    /\ step \in 1 .. Len(Shutdown)
    /\ step = 1 /\ "threads" \in up => Needed \subseteq up
    /\ step > 1 \/ "threads" \notin up => Ended

UnwindInv ==
    /\ fds = <<>> /\ shutdown /\ "threads" \notin up
    /\ \A w \in Workers : wpc[w] \in {"none", "ready", "gone"}

\* What the phase of the main thread says about the rest.
PhaseInv ==
    /\ phase = "off"    => Fresh /\ up = {} /\ registry = {}
    /\ phase = "start"  => StartInv
    /\ phase = "loop"   => Pooled /\ "threads" \in up /\ Needed \subseteq up
    /\ phase = "unwind" => UnwindInv
    /\ phase = "stop"   => StopInv

\* Where the registered services are, as long as nothing was lost.
Remembered ==
    \/ forgetful
    \/ /\ phase = "off"    => file.names = acked
       /\ phase = "start"  => IF step =< LoadAt THEN file.names = acked ELSE registry = acked
       /\ phase \in {"unwind", "loop"} => registry = acked
       /\ phase = "stop"   => IF step =< SaveAt THEN registry = acked ELSE file.names = acked

DaemonInv == TypeOK /\ WqInv /\ PhaseInv /\ Remembered

-----------------------------------------------------------------------------
(***************************************************************************)
(* The orders of sm_run and cleanup.                                       *)
(***************************************************************************)
LEMMA StartupOrder ==
  /\ Len(Startup) = 17
  /\ Startup[3] = "crypto" /\ Startup[6] = "registry" /\ Startup[7] = "rate_limit" /\ Startup[8] = "metrics"
  /\ Startup[11] = "load" /\ Startup[13] = "threads"
  /\ \A k \in 1 .. 17 : (Startup[k] = "load" <=> k = 11) /\ (Startup[k] = "threads" <=> k = 13)
BY DEF Startup

LEMMA ShutdownOrder ==
  /\ Len(Shutdown) = 12
  /\ \A k \in 1 .. 12 : /\ (Shutdown[k] = "threads" <=> k = 1) /\ (Shutdown[k] = "save_open" <=> k = 3)
                        /\ (Shutdown[k] = "save_write" <=> k = 4) /\ (Shutdown[k] = "registry" <=> k = 10)
BY DEF Shutdown

LEMMA LoadPosition == LoadAt = 11
BY StartupOrder DEF LoadAt

-----------------------------------------------------------------------------
(***************************************************************************)
(* The work queue.                                                         *)
(***************************************************************************)
LEMMA PushKeeps ==
  ASSUME WqInv, Pooled, NEW c \in Conns, conn[c] = "pending", Push(c)
  PROVE  WqInv' /\ Pooled'
<1>1. /\ fds \in Seq(Conns) /\ Len(fds) \in Nat /\ Len(fds) < QueueSize /\ fds' = Append(fds, c)
      /\ conn' = [conn EXCEPT ![c] = "queued"] /\ UNCHANGED <<shutdown, serving>> /\ SignalOne
  BY DEF Push, WqInv, WqTypeOK, Becomes
<1>2. /\ fds' \in Seq(Conns) /\ Len(fds') = Len(fds) + 1 /\ fds' # <<>>
      /\ \A k \in 1 .. Len(fds) : fds'[k] = fds[k]
      /\ fds'[Len(fds) + 1] = c
  BY <1>1, AppendProperties
<1>3. /\ wpc' \in [Workers -> WorkerPc] /\ \A w \in Workers : wpc'[w] = wpc[w] \/ (wpc[w] = "wait" /\ wpc'[w] = "ready")
  BY <1>1 DEF SignalOne, WqInv, WqTypeOK, WorkerPc
<1>4. \E w \in Workers : wpc'[w] \in {"ready", "busy"}
  <2>1. CASE \E w \in Workers : wpc[w] = "wait"
    BY <1>1, <2>1 DEF SignalOne, WqInv, WqTypeOK
  <2>2. CASE ~ \E w \in Workers : wpc[w] = "wait"
    BY <1>1, <2>2, QueueAssumption DEF SignalOne, Pooled
  <2> QED BY <2>1, <2>2
<1>5. conn' \in [Conns -> ConnState] /\ \A d \in Conns : conn'[d] = IF d = c THEN "queued" ELSE conn[d]
  BY <1>1 DEF WqInv, WqTypeOK, ConnState
<1>6. WqTypeOK'
  <2>1. Len(fds') =< QueueSize
    BY <1>1, <1>2, QueueAssumption
  <2> QED BY <1>1, <1>2, <1>3, <1>5, <2>1 DEF WqInv, WqTypeOK, WorkerPc, ConnState
<1>7. EachConnOnce'
  <2>1. \A k \in 1 .. Len(fds) : fds[k] # c
    BY DEF WqInv, EachConnOnce
  <2>2. ASSUME NEW d \in Conns
        PROVE  /\ (conn'[d] = "queued") <=> (\E k \in 1 .. Len(fds') : fds'[k] = d)
               /\ (conn'[d] = "busy") <=> (\E w \in Workers : serving'[w] = d)
    <3>1. CASE d = c
      BY <1>1, <1>2, <1>5, <3>1 DEF WqInv, EachConnOnce
    <3>2. CASE d # c
      <4>1. (\E k \in 1 .. Len(fds') : fds'[k] = d) <=> (\E k \in 1 .. Len(fds) : fds[k] = d)
        BY <1>1, <1>2, <3>2
      <4> QED BY <1>1, <1>5, <3>2, <4>1 DEF WqInv, EachConnOnce
    <3> QED BY <3>1, <3>2
  <2>3. \A j, k \in 1 .. Len(fds') : fds'[j] = fds'[k] => j = k
    BY <1>1, <1>2, <2>1 DEF WqInv, EachConnOnce
  <2> QED BY <1>1, <2>2, <2>3 DEF WqInv, EachConnOnce
<1>8. NoLostWakeup' /\ BusyServes' /\ Pooled'
  BY <1>1, <1>3, <1>4 DEF WqInv, NoLostWakeup, BusyServes, Pooled
<1> QED BY <1>6, <1>7, <1>8 DEF WqInv

\* The connections that are neither queued nor served are of no concern to
\* the queue.
LEMMA ConnKeeps ==
  ASSUME WqInv, UNCHANGED <<fds, shutdown, wpc, serving>>, conn' \in [Conns -> ConnState],
         \A c \in Conns : conn'[c] = conn[c] \/ (conn[c] \in {"none", "pending"} /\ conn'[c] \in {"none", "pending"})
  PROVE  WqInv'
<1>1. EachConnOnce'
  BY DEF WqInv, EachConnOnce
<1> QED BY <1>1 DEF WqInv, WqTypeOK, NoLostWakeup, BusyServes, WorkerPc, ConnState

\* A worker waits, wakes up or stops: nothing is queued, or it becomes ready.
LEMMA WorkerMoves ==
  ASSUME WqInv, NEW w \in Workers, NEW s \in {"wait", "ready", "gone"}, wpc[w] \in {"ready", "wait"},
         wpc' = [wpc EXCEPT ![w] = s], UNCHANGED <<fds, shutdown, serving, conn>>, s = "ready" \/ fds = <<>>
  PROVE  WqInv'
<1>1. wpc' \in [Workers -> WorkerPc] /\ \A v \in Workers : wpc'[v] = IF v = w THEN s ELSE wpc[v]
  BY DEF WqInv, WqTypeOK, WorkerPc
<1>2. EachConnOnce' /\ WqTypeOK'
  BY <1>1 DEF WqInv, EachConnOnce, WqTypeOK, WorkerPc, ConnState
<1>3. NoLostWakeup' /\ BusyServes'
  BY <1>1 DEF WqInv, NoLostWakeup, BusyServes
<1> QED BY <1>2, <1>3 DEF WqInv

LEMMA PopKeeps ==
  ASSUME WqInv, NEW w \in Workers, Pop(w)
  PROVE  WqInv'
<1> DEFINE c == Head(fds)
<1>1. /\ fds \in Seq(Conns) /\ Len(fds) \in Nat /\ fds # <<>> /\ wpc[w] = "ready" /\ serving[w] = NoFd
      /\ fds' = Tail(fds) /\ serving' = [serving EXCEPT ![w] = c] /\ wpc' = [wpc EXCEPT ![w] = "busy"]
      /\ conn' = [conn EXCEPT ![c] = "busy"] /\ UNCHANGED shutdown
  BY DEF Pop, WqInv, WqTypeOK, BusyServes, Becomes
<1>2. /\ c \in Conns /\ fds' \in Seq(Conns) /\ Len(fds') = Len(fds) - 1 /\ c = fds[1] /\ Len(fds) \in Nat \ {0}
      /\ \A k \in 1 .. Len(fds') : fds'[k] = fds[k + 1]
  BY <1>1, HeadTailProperties, EmptySeq
<1> HIDE DEF c
<1>3. /\ wpc' \in [Workers -> WorkerPc] /\ (\A v \in Workers : wpc'[v] = IF v = w THEN "busy" ELSE wpc[v])
      /\ serving' \in [Workers -> Conns \cup {NoFd}] /\ (\A v \in Workers : serving'[v] = IF v = w THEN c ELSE serving[v])
      /\ conn' \in [Conns -> ConnState] /\ (\A d \in Conns : conn'[d] = IF d = c THEN "busy" ELSE conn[d])
  BY <1>1, <1>2 DEF WqInv, WqTypeOK, WorkerPc, ConnState
<1>4. WqTypeOK'
  <2>1. Len(fds') =< QueueSize
    BY <1>1, <1>2, QueueAssumption DEF WqInv, WqTypeOK
  <2> QED BY <1>1, <1>2, <1>3, <2>1 DEF WqInv, WqTypeOK, WorkerPc, ConnState
<1>5. conn[c] = "queued" /\ \A v \in Workers : serving[v] # c
  <2>1. conn[c] = "queued"
    BY <1>2 DEF WqInv, EachConnOnce
  <2> QED BY <1>2, <2>1 DEF WqInv, EachConnOnce
<1>6. EachConnOnce'
  <2>1. ASSUME NEW d \in Conns
        PROVE  (\E k \in 1 .. Len(fds') : fds'[k] = d) <=> (d # c /\ \E k \in 1 .. Len(fds) : fds[k] = d)
    <3>1. ASSUME NEW k \in 1 .. Len(fds'), fds'[k] = d PROVE d # c /\ \E j \in 1 .. Len(fds) : fds[j] = d
      <4>1. k + 1 \in 1 .. Len(fds) /\ fds[k + 1] = d /\ 1 \in 1 .. Len(fds) /\ k + 1 # 1
        BY <1>2, <3>1
      <4> QED BY <1>2, <4>1 DEF WqInv, EachConnOnce
    <3>2. ASSUME d # c, NEW k \in 1 .. Len(fds), fds[k] = d PROVE \E j \in 1 .. Len(fds') : fds'[j] = d
      <4>1. k - 1 \in 1 .. Len(fds') /\ (k - 1) + 1 = k
        BY <1>2, <3>2
      <4>2. fds'[k - 1] = d
        BY <1>2, <3>2, <4>1
      <4> QED BY <4>1, <4>2
    <3> QED BY <3>1, <3>2
  <2>2. ASSUME NEW d \in Conns
        PROVE  /\ (conn'[d] = "queued") <=> (\E k \in 1 .. Len(fds') : fds'[k] = d)
               /\ (conn'[d] = "busy") <=> (\E v \in Workers : serving'[v] = d)
    BY <1>1, <1>3, <1>5, <2>1, QueueAssumption DEF WqInv, EachConnOnce
  <2>3. \A j, k \in 1 .. Len(fds') : fds'[j] = fds'[k] => j = k
    <3> SUFFICES ASSUME NEW j \in 1 .. Len(fds'), NEW k \in 1 .. Len(fds'), fds'[j] = fds'[k] PROVE j = k
      OBVIOUS
    <3>1. j + 1 \in 1 .. Len(fds) /\ k + 1 \in 1 .. Len(fds) /\ fds[j + 1] = fds[k + 1]
      BY <1>2
    <3>2. j + 1 = k + 1
      BY <3>1 DEF WqInv, EachConnOnce
    <3> QED BY <1>2, <3>2
  <2>4. \A u, v \in Workers : serving'[u] = serving'[v] /\ serving'[u] # NoFd => u = v
    BY <1>3, <1>5 DEF WqInv, EachConnOnce
  <2> QED BY <2>2, <2>3, <2>4 DEF EachConnOnce
<1>7. NoLostWakeup' /\ BusyServes'
  BY <1>1, <1>2, <1>3, QueueAssumption DEF WqInv, NoLostWakeup, BusyServes
<1> QED BY <1>4, <1>6, <1>7 DEF WqInv

LEMMA CloseKeeps ==
  ASSUME WqInv, NEW w \in Workers, Close(w)
  PROVE  WqInv'
<1> DEFINE c == serving[w]
<1>1. /\ wpc[w] = "busy" /\ c \in Conns
      /\ serving' = [serving EXCEPT ![w] = NoFd] /\ wpc' = [wpc EXCEPT ![w] = "ready"]
      /\ conn' = [conn EXCEPT ![c] = "none"] /\ UNCHANGED <<fds, shutdown>>
  BY DEF Close, WqInv, WqTypeOK, BusyServes, Becomes, queueVars
<1>2. /\ wpc' \in [Workers -> WorkerPc] /\ (\A v \in Workers : wpc'[v] = IF v = w THEN "ready" ELSE wpc[v])
      /\ serving' \in [Workers -> Conns \cup {NoFd}] /\ (\A v \in Workers : serving'[v] = IF v = w THEN NoFd ELSE serving[v])
      /\ conn' \in [Conns -> ConnState] /\ (\A d \in Conns : conn'[d] = IF d = c THEN "none" ELSE conn[d])
  BY <1>1 DEF WqInv, WqTypeOK, WorkerPc, ConnState
<1>3. WqTypeOK'
  BY <1>1, <1>2 DEF WqInv, WqTypeOK, WorkerPc, ConnState
<1>4. conn[c] = "busy" /\ \A v \in Workers : v # w => serving[v] # c
  BY <1>1, QueueAssumption DEF WqInv, EachConnOnce
<1> HIDE DEF c
<1>5. EachConnOnce'
  <2>1. ASSUME NEW d \in Conns
        PROVE  /\ (conn'[d] = "queued") <=> (\E k \in 1 .. Len(fds') : fds'[k] = d)
               /\ (conn'[d] = "busy") <=> (\E v \in Workers : serving'[v] = d)
    <3>1. CASE d = c
      BY <1>1, <1>2, <1>4, <3>1, QueueAssumption DEF WqInv, EachConnOnce
    <3>2. CASE d # c
      BY <1>1, <1>2, <1>4, <3>2, QueueAssumption DEF WqInv, EachConnOnce, c
    <3> QED BY <3>1, <3>2
  <2>2. \A u, v \in Workers : serving'[u] = serving'[v] /\ serving'[u] # NoFd => u = v
    BY <1>2 DEF WqInv, EachConnOnce
  <2> QED BY <1>1, <2>1, <2>2 DEF WqInv, EachConnOnce
<1>6. NoLostWakeup' /\ BusyServes'
  BY <1>1, <1>2 DEF WqInv, NoLostWakeup, BusyServes
<1> QED BY <1>3, <1>5, <1>6 DEF WqInv

\* What the main thread alone changes leaves the queue as it is.
LEMMA WqStutter ==
  ASSUME WqInv, UNCHANGED wqVars
  PROVE  WqInv' /\ (Fresh => Fresh') /\ (Pooled => Pooled') /\ (Ended => Ended')
BY DEF wqVars, WqInv, WqTypeOK, EachConnOnce, NoLostWakeup, BusyServes, Fresh, Pooled, Ended, AllJoined,
       WorkerPc, ConnState

-----------------------------------------------------------------------------
(***************************************************************************)
(* The workers.                                                            *)
(***************************************************************************)
\* A worker that has not ended is there only between the creation of the
\* pool and the join.
LEMMA ActivePhase ==
  ASSUME TypeOK, PhaseInv, NEW w \in Workers, wpc[w] \in {"ready", "wait", "busy"}
  PROVE  \/ phase = "loop"
         \/ phase = "start" /\ step > ThreadsAt
         \/ phase = "unwind" /\ wpc[w] = "ready"
         \/ phase = "stop" /\ step = 1 /\ "threads" \in up
<1>1. step \in Nat /\ phase \in Phases
  BY StartupOrder DEF TypeOK
<1>2. CASE phase = "off"
  BY <1>2 DEF PhaseInv, Fresh
<1>3. CASE phase = "start"
  BY <1>1, <1>3 DEF PhaseInv, StartInv, Fresh, ThreadsAt
<1>4. CASE phase = "unwind"
  BY <1>4 DEF PhaseInv, UnwindInv
<1>5. CASE phase = "stop"
  BY <1>1, <1>5, ShutdownOrder DEF PhaseInv, StopInv, Ended, AllJoined
<1> QED BY <1>1, <1>2, <1>3, <1>4, <1>5 DEF Phases

\* One worker moves; it ends only once it has seen the shutdown flag.
LEMMA WorkerPhase ==
  ASSUME TypeOK, WqInv, PhaseInv, NEW w \in Workers, wpc[w] \in {"ready", "wait", "busy"},
         NEW s \in {"ready", "wait", "busy", "gone"}, wpc' = [wpc EXCEPT ![w] = s],
         UNCHANGED <<phase, step, up, shutdown>>, s = "gone" => shutdown, s = "wait" => ~shutdown,
         s = "busy" => fds # <<>>, fds = <<>> => fds' = <<>>, s = "ready" => wpc[w] \in {"wait", "busy"}
  PROVE  PhaseInv'
<1>1. \A v \in Workers : wpc'[v] = IF v = w THEN s ELSE wpc[v]
  BY DEF WqInv, WqTypeOK
<1>2. CASE phase = "loop"
  BY <1>1, <1>2 DEF PhaseInv, Pooled
<1>3. CASE phase = "start" /\ step > ThreadsAt
  <2>1. Pooled'
    BY <1>1, <1>3 DEF PhaseInv, StartInv, Pooled
  <2>2. StartInv'
    BY <1>3, <2>1, LoadPosition DEF PhaseInv, StartInv, ThreadsAt
  <2> QED BY <1>3, <2>2 DEF PhaseInv
<1>4. CASE phase = "unwind" /\ wpc[w] = "ready"
  BY <1>1, <1>4 DEF PhaseInv, UnwindInv
<1>5. CASE phase = "stop" /\ step = 1 /\ "threads" \in up
  BY <1>5, ShutdownOrder DEF PhaseInv, StopInv
<1> QED BY <1>2, <1>3, <1>4, <1>5, ActivePhase

LEMMA WorkerMovesKeep ==
  ASSUME DaemonInv, NEW w \in Workers, PopWait(w) \/ PopStop(w) \/ Pop(w) \/ SpuriousWakeup(w),
         UNCHANGED <<mainVars, registry, file, acked, forgetful>>
  PROVE  DaemonInv'
<1>1. TypeOK /\ WqInv /\ PhaseInv /\ Remembered /\ UNCHANGED <<phase, step, up, running, sigterm, events>>
  BY DEF DaemonInv, mainVars
<1>2. WqInv' /\ PhaseInv'
  <2>1. CASE PopWait(w)
    <3>1. WqInv'
      BY <1>1, <2>1, WorkerMoves DEF PopWait, queueVars
    <3>2. PhaseInv'
      BY <1>1, <2>1, WorkerPhase DEF PopWait, queueVars
    <3> QED BY <3>1, <3>2
  <2>2. CASE PopStop(w)
    <3>1. WqInv'
      BY <1>1, <2>2, WorkerMoves DEF PopStop, queueVars
    <3>2. PhaseInv'
      BY <1>1, <2>2, WorkerPhase DEF PopStop, queueVars
    <3> QED BY <3>1, <3>2
  <2>3. CASE Pop(w)
    <3>1. WqInv'
      BY <1>1, <2>3, PopKeeps
    <3>2. PhaseInv'
      BY <1>1, <2>3, WorkerPhase DEF Pop
    <3> QED BY <3>1, <3>2
  <2>4. CASE SpuriousWakeup(w)
    <3>1. WqInv'
      BY <1>1, <2>4, WorkerMoves DEF SpuriousWakeup, queueVars
    <3>2. PhaseInv'
      BY <1>1, <2>4, WorkerPhase DEF SpuriousWakeup, queueVars
    <3> QED BY <3>1, <3>2
  <2> QED BY <2>1, <2>2, <2>3, <2>4
<1>3. TypeOK'
  BY <1>1, <1>2 DEF TypeOK, WqInv
<1>4. Remembered'
  BY <1>1 DEF Remembered, LoadAt
<1> QED BY <1>2, <1>3, <1>4 DEF DaemonInv

\* A request changes the registry and what has been promised alike, and it
\* is served only while the registry is the daemon's memory.
LEMMA ServeKeeps ==
  ASSUME DaemonInv, NEW w \in Workers, NEW added \in SUBSET Services, NEW removed \in SUBSET Services,
         Serve(w, added, removed)
  PROVE  DaemonInv'
<1>1. /\ TypeOK /\ WqInv /\ PhaseInv /\ Remembered
      /\ UNCHANGED <<phase, step, up, running, sigterm, events, file, forgetful>>
      /\ Close(w) /\ registry' = (registry \cup added) \ removed /\ acked' = (acked \cup added) \ removed
  BY DEF DaemonInv, Serve, mainVars
<1>2. WqInv'
  BY <1>1, CloseKeeps
<1>3. PhaseInv'
  BY <1>1, WorkerPhase DEF Close, queueVars
<1>4. TypeOK'
  BY <1>1, <1>2 DEF TypeOK, WqInv
<1>5. Remembered'
  <2>1. \/ phase = "loop"
        \/ phase = "start" /\ step > ThreadsAt
        \/ phase = "stop" /\ step = 1
    BY <1>1, ActivePhase DEF Close
  <2>2. forgetful \/ registry = acked
    BY <1>1, <2>1, LoadPosition DEF Remembered, ThreadsAt, SaveAt, TypeOK
  <2>3. forgetful' \/ registry' = acked'
    BY <1>1, <2>2
  <2> QED BY <1>1, <2>1, <2>3, LoadPosition DEF Remembered, ThreadsAt, SaveAt, TypeOK
<1> QED BY <1>2, <1>3, <1>4, <1>5 DEF DaemonInv

LEMMA WorkerStepKeeps ==
  ASSUME DaemonInv, NEW w \in Workers, WorkerStep(w) \/ Wakeup(w)
  PROVE  DaemonInv'
<1>1. CASE Wakeup(w)
  BY <1>1, WorkerMovesKeep DEF Wakeup
<1>2. CASE (PopWait(w) \/ PopStop(w) \/ Pop(w)) /\ UNCHANGED <<mainVars, registry, file, acked, forgetful>>
  BY <1>2, WorkerMovesKeep
<1>3. CASE \E e \in Effects : Serve(w, e[1], e[2])
  <2>1. PICK e \in Effects : Serve(w, e[1], e[2])
    BY <1>3
  <2>2. e[1] \in SUBSET Services /\ e[2] \in SUBSET Services
    BY DEF Effects
  <2> QED BY <2>1, <2>2, ServeKeeps
<1> QED BY <1>1, <1>2, <1>3 DEF WorkerStep

-----------------------------------------------------------------------------
(***************************************************************************)
(* Starting.                                                               *)
(***************************************************************************)
LEMMA LaunchKeeps ==
  ASSUME DaemonInv, Launch
  PROVE  DaemonInv'
<1>1. /\ TypeOK /\ WqInv /\ PhaseInv /\ Remembered /\ phase = "off" /\ phase' = "start" /\ step' = 1
      /\ UNCHANGED <<wqVars, up, running, sigterm, events, registry, file, acked, forgetful>>
  BY DEF DaemonInv, Launch, At
<1>2. WqInv' /\ Fresh'
  BY <1>1, WqStutter DEF PhaseInv
<1>3. TypeOK'
  BY <1>1, <1>2, StartupOrder DEF TypeOK, WqInv, Phases
<1>4. PhaseInv'
  BY <1>1, <1>2, StartupOrder DEF PhaseInv, StartInv, ThreadsAt
<1>5. Remembered'
  BY <1>1, LoadPosition DEF Remembered
<1> QED BY <1>2, <1>3, <1>4, <1>5 DEF DaemonInv

\* What Proceed leaves to show when it goes on to the next step, and when it
\* enters the event loop.
LEMMA ProceedKeeps ==
  ASSUME DaemonInv, phase = "start", Proceed, WqInv', UNCHANGED <<running, sigterm, events, file, acked, forgetful>>,
         up \subseteq up', up' \subseteq Tracked, Startup[step] \in Tracked => Startup[step] \in up',
         step < ThreadsAt => Fresh' /\ "threads" \notin up', step >= ThreadsAt => Pooled' /\ "threads" \in up',
         registry' \subseteq Services, step # LoadAt => registry' = registry,
         step = LoadAt => registry' = file.names
  PROVE  DaemonInv'
<1>1. TypeOK /\ WqInv /\ StartInv /\ Remembered
  BY DEF DaemonInv, PhaseInv
<1>2. step \in 1 .. 17
  BY <1>1, StartupOrder DEF StartInv
<1>3. /\ step < 17 => phase' = "start" /\ step' = step + 1
      /\ step = 17 => phase' = "loop" /\ step' = 0
  BY <1>2, StartupOrder DEF Proceed, At
<1>4. TypeOK'
  BY <1>1, <1>2, <1>3, StartupOrder DEF TypeOK, WqInv, Phases
<1>5. \A k \in 1 .. step : Startup[k] \in Tracked => Startup[k] \in up'
  BY <1>1, <1>2 DEF StartInv
<1>6. PhaseInv'
  <2>1. CASE step < 17
    <3>1. step' \in 1 .. Len(Startup) /\ step' - 1 = step
      BY <1>2, <1>3, <2>1, StartupOrder
    <3>2. step' =< LoadAt => registry' = {}
      BY <1>1, <1>2, <1>3, <2>1, LoadPosition DEF StartInv
    <3>3. step' =< ThreadsAt => Fresh' /\ "threads" \notin up'
      BY <1>2, <3>1 DEF ThreadsAt
    <3>4. step' > ThreadsAt => Pooled' /\ "threads" \in up'
      BY <1>2, <1>3, <2>1 DEF ThreadsAt
    <3>5. \A k \in 1 .. step' - 1 : Startup[k] \in Tracked => Startup[k] \in up'
      BY <1>5, <3>1
    <3>6. StartInv'
      BY <3>1, <3>2, <3>3, <3>4, <3>5, LoadPosition DEF StartInv, Startup, LoadAt, Tracked, Needed, ThreadsAt
    <3> QED BY <1>3, <2>1, <3>6 DEF PhaseInv
  <2>2. CASE step = 17
    <3>1. Pooled' /\ "threads" \in up'
      BY <2>2 DEF ThreadsAt
    <3>2. Needed \subseteq up'
      BY <1>5, <2>2, StartupOrder DEF Needed, Tracked
    <3> QED BY <1>3, <2>2, <3>1, <3>2 DEF PhaseInv, Needed
  <2> QED BY <1>2, <2>1, <2>2
<1>7. Remembered'
  <2>1. CASE forgetful
    BY <2>1 DEF Remembered
  <2>2. CASE ~forgetful
    <3>1. IF step =< 11 THEN file.names = acked ELSE registry = acked
      BY <1>1, <2>2, LoadPosition DEF Remembered
    <3>2. step < 11 => file.names' = acked'
      BY <1>2, <3>1
    <3>3. step >= 11 => registry' = acked'
      BY <1>2, <3>1, LoadPosition
    <3>4. CASE step < 17
      BY <1>2, <1>3, <3>2, <3>3, <3>4, LoadPosition DEF Remembered
    <3>5. CASE step = 17
      BY <1>2, <1>3, <3>3, <3>5 DEF Remembered
    <3> QED BY <1>2, <3>4, <3>5
  <2> QED BY <2>1, <2>2 DEF TypeOK
<1> QED BY <1>4, <1>6, <1>7 DEF DaemonInv

LEMMA StartStepKeeps ==
  ASSUME DaemonInv, StartStep
  PROVE  DaemonInv'
<1>1. /\ TypeOK /\ WqInv /\ StartInv /\ phase = "start" /\ Proceed
      /\ Startup[step] # "load" /\ Startup[step] # "threads" /\ up' = up \cup ({Startup[step]} \cap Tracked)
      /\ UNCHANGED <<wqVars, running, sigterm, events, registry, file, acked, forgetful>>
  BY DEF DaemonInv, PhaseInv, StartStep
<1>2. step \in 1 .. 17 /\ step # 11 /\ step # 13
  BY <1>1, StartupOrder DEF StartInv
<1>3. WqInv' /\ (Fresh => Fresh') /\ (Pooled => Pooled')
  BY <1>1, WqStutter
<1>4. up \subseteq up' /\ up' \subseteq Tracked /\ (Startup[step] \in Tracked => Startup[step] \in up')
  BY <1>1 DEF TypeOK
<1>5. /\ step < ThreadsAt => Fresh' /\ "threads" \notin up'
      /\ step >= ThreadsAt => Pooled' /\ "threads" \in up'
  BY <1>1, <1>2, <1>3, <1>4 DEF StartInv, ThreadsAt
<1> QED BY <1>1, <1>2, <1>3, <1>4, <1>5, ProceedKeeps, LoadPosition DEF TypeOK

LEMMA StartLoadKeeps ==
  ASSUME DaemonInv, StartLoad
  PROVE  DaemonInv'
<1>1. /\ TypeOK /\ WqInv /\ StartInv /\ phase = "start" /\ Proceed
      /\ Startup[step] = "load" /\ registry' = registry \cup file.names
      /\ UNCHANGED <<wqVars, up, running, sigterm, events, file, acked, forgetful>>
  BY DEF DaemonInv, PhaseInv, StartLoad, Doing
<1>2. step = 11
  BY <1>1, StartupOrder DEF StartInv
<1>3. WqInv' /\ (Fresh => Fresh') /\ (Pooled => Pooled')
  BY <1>1, WqStutter
<1>4. registry' = file.names
  BY <1>1, <1>2, LoadPosition DEF StartInv
<1>5. "load" \notin Tracked
  BY DEF Tracked, Needed
<1> QED BY <1>1, <1>2, <1>3, <1>4, <1>5, ProceedKeeps, LoadPosition DEF TypeOK, StartInv, ThreadsAt

LEMMA CreatedKeeps ==
  ASSUME WqInv, Fresh, NEW ws \in SUBSET Workers, Created(ws), shutdown' \in BOOLEAN, UNCHANGED <<fds, serving, conn>>
  PROVE  WqInv'
<1>1. wpc' \in [Workers -> WorkerPc] /\ \A w \in Workers : wpc'[w] # "busy"
  BY DEF Created, WorkerPc
<1> QED BY <1>1 DEF WqInv, WqTypeOK, EachConnOnce, NoLostWakeup, BusyServes, Fresh, WorkerPc, ConnState

LEMMA StartThreadsKeeps ==
  ASSUME DaemonInv, StartThreads
  PROVE  DaemonInv'
<1>1. /\ TypeOK /\ WqInv /\ StartInv /\ phase = "start" /\ Proceed
      /\ Startup[step] = "threads" /\ Created(Workers) /\ up' = up \cup {"threads"}
      /\ UNCHANGED <<fds, shutdown, serving, conn, running, sigterm, events, registry, file, acked, forgetful>>
  BY DEF DaemonInv, PhaseInv, StartThreads, Doing, queueVars
<1>2. step = 13
  BY <1>1, StartupOrder DEF StartInv
<1>3. Fresh
  BY <1>1, <1>2 DEF StartInv, ThreadsAt
<1>4. WqInv'
  <2>1. shutdown' \in BOOLEAN
    BY <1>1 DEF WqInv, WqTypeOK
  <2> QED BY <1>1, <1>3, <2>1, CreatedKeeps
<1>5. Pooled'
  BY <1>1, <1>3 DEF Fresh, Created, Pooled
<1>6. up' \subseteq Tracked
  BY <1>1 DEF TypeOK, Tracked
<1> QED BY <1>1, <1>2, <1>4, <1>5, <1>6, ProceedKeeps, LoadPosition DEF TypeOK, ThreadsAt

LEMMA StartThreadsPartlyKeeps ==
  ASSUME DaemonInv, NEW ws \in SUBSET Workers, StartThreadsPartly(ws)
  PROVE  DaemonInv'
<1>1. /\ TypeOK /\ WqInv /\ StartInv /\ Remembered /\ phase = "start" /\ phase' = "unwind" /\ step' = step
      /\ Startup[step] = "threads" /\ Created(ws) /\ shutdown' = TRUE
      /\ UNCHANGED <<fds, serving, conn, up, running, sigterm, events, registry, file, acked, forgetful>>
  BY DEF DaemonInv, PhaseInv, StartThreadsPartly, Doing, At
<1>2. step = 13
  BY <1>1, StartupOrder DEF StartInv
<1>3. Fresh /\ "threads" \notin up
  BY <1>1, <1>2 DEF StartInv, ThreadsAt
<1>4. WqInv'
  BY <1>1, <1>3, CreatedKeeps
<1>5. TypeOK'
  BY <1>1, <1>4 DEF TypeOK, WqInv, Phases
<1>6. UnwindInv'
  BY <1>1, <1>3 DEF UnwindInv, Fresh, Created
<1>7. Remembered'
  BY <1>1, <1>2, LoadPosition DEF Remembered
<1> QED BY <1>1, <1>4, <1>5, <1>6, <1>7 DEF DaemonInv, PhaseInv

\* Entering cleanup.
LEMMA StopKeeps ==
  ASSUME TypeOK, WqInv, phase' = "stop", step' = 1, UNCHANGED <<wqVars, up, running, sigterm, events, registry, file, acked>>,
         forgetful' \in BOOLEAN, "threads" \in up => Needed \subseteq up, "threads" \notin up => Ended,
         forgetful' \/ registry = acked
  PROVE  DaemonInv'
<1>1. WqInv' /\ (Ended => Ended')
  BY WqStutter
<1>2. TypeOK'
  BY <1>1, StartupOrder DEF TypeOK, WqInv, Phases
<1>3. StopInv'
  BY <1>1, ShutdownOrder DEF StopInv, Shutdown, Needed
<1>4. Remembered'
  BY DEF Remembered, SaveAt
<1> QED BY <1>1, <1>2, <1>3, <1>4 DEF DaemonInv, PhaseInv

LEMMA StartFailsKeeps ==
  ASSUME DaemonInv, StartFails
  PROVE  DaemonInv'
<1>1. /\ TypeOK /\ WqInv /\ StartInv /\ Remembered /\ phase = "start" /\ Startup[step] # "load"
      /\ UNCHANGED <<wqVars, up, running, sigterm, events, registry, file, acked>>
      /\ IF Startup[step] \in NotFatal
         THEN Proceed /\ UNCHANGED forgetful
         ELSE At("stop", 1) /\ forgetful' = (forgetful \/ step < LoadAt)
  BY DEF DaemonInv, PhaseInv, StartFails
<1>2. step \in 1 .. 17 /\ step # 11
  BY <1>1, StartupOrder DEF StartInv
<1>3. CASE Startup[step] \in NotFatal
  <2>1. WqInv' /\ (Fresh => Fresh') /\ (Pooled => Pooled')
    BY <1>1, WqStutter
  <2>2. Startup[step] \notin Tracked
    BY <1>3 DEF NotFatal, Tracked, Needed
  <2>3. step # 13
    BY <1>3, StartupOrder DEF NotFatal
  <2> QED BY <1>1, <1>2, <1>3, <2>1, <2>2, <2>3, ProceedKeeps, LoadPosition DEF TypeOK, StartInv, ThreadsAt
<1>4. CASE Startup[step] \notin NotFatal
  <2>1. "threads" \notin up => Ended
    BY <1>1, <1>2 DEF StartInv, ThreadsAt, Fresh, Ended, AllJoined
  <2>2. "threads" \in up => Needed \subseteq up
    <3>1. SUFFICES ASSUME step > 13 PROVE Needed \subseteq up
      BY <1>1, <1>2 DEF StartInv, ThreadsAt
    <3>2. \A k \in {3, 6, 7, 8} : Startup[k] \in Tracked => Startup[k] \in up
      BY <1>1, <1>2, <3>1 DEF StartInv
    <3> QED BY <3>2, StartupOrder DEF Needed, Tracked
  <2>3. forgetful' \/ registry = acked
    <3>1. forgetful' = (forgetful \/ step < 11)
      BY <1>1, <1>4, LoadPosition
    <3>2. CASE step < 11
      BY <3>1, <3>2
    <3>3. CASE step > 11 /\ ~forgetful
      BY <1>1, <1>2, <3>3, LoadPosition DEF Remembered
    <3>4. CASE step > 11 /\ forgetful
      BY <3>1, <3>4
    <3> QED BY <1>2, <3>2, <3>3, <3>4
  <2> QED BY <1>1, <1>4, <2>1, <2>2, <2>3, StopKeeps DEF At, TypeOK
<1> QED BY <1>3, <1>4

LEMMA UnwoundKeeps ==
  ASSUME DaemonInv, Unwound
  PROVE  DaemonInv'
<1>1. /\ TypeOK /\ WqInv /\ UnwindInv /\ Remembered /\ phase = "unwind" /\ AllJoined
  BY DEF DaemonInv, PhaseInv, Unwound
<1> QED BY <1>1, StopKeeps DEF Unwound, At, UnwindInv, Ended, Remembered, TypeOK

-----------------------------------------------------------------------------
(***************************************************************************)
(* The event loop, and the connections.                                    *)
(***************************************************************************)
\* A step that changes nothing but the flags of the loop.
LEMMA FlagsKeep ==
  ASSUME DaemonInv, UNCHANGED <<wqVars, phase, step, up, registry, file, acked, forgetful>>,
         running' \in BOOLEAN, sigterm' \in BOOLEAN, events' \subseteq {"server", "signal"}
  PROVE  DaemonInv'
<1>1. TypeOK /\ WqInv /\ PhaseInv /\ Remembered
  BY DEF DaemonInv
<1>2. WqInv' /\ (Fresh => Fresh') /\ (Pooled => Pooled') /\ (Ended => Ended')
  BY <1>1, WqStutter
<1>3. TypeOK'
  BY <1>1, <1>2 DEF TypeOK, WqInv
<1>4. (StartInv => StartInv') /\ (StopInv => StopInv') /\ (UnwindInv => UnwindInv')
  BY <1>2, LoadPosition DEF StartInv, StopInv, UnwindInv, wqVars
<1>5. PhaseInv'
  BY <1>1, <1>2, <1>4 DEF PhaseInv
<1>6. Remembered'
  BY <1>1 DEF Remembered
<1> QED BY <1>2, <1>3, <1>5, <1>6 DEF DaemonInv

\* A step that changes only connections outside the queue.
LEMMA ConnsKeep ==
  ASSUME DaemonInv, UNCHANGED <<fds, shutdown, wpc, serving, phase, step, up, running, sigterm, registry, file, acked, forgetful>>,
         events' \subseteq {"server", "signal"}, conn' \in [Conns -> ConnState],
         \A c \in Conns : conn'[c] = conn[c] \/ (conn[c] \in {"none", "pending"} /\ conn'[c] \in {"none", "pending"})
  PROVE  DaemonInv'
<1>1. TypeOK /\ WqInv /\ PhaseInv /\ Remembered
  BY DEF DaemonInv
<1>2. WqInv'
  BY <1>1, ConnKeeps
<1>3. (Fresh => Fresh') /\ (Pooled => Pooled') /\ (Ended => Ended')
  BY DEF Fresh, Pooled, Ended, AllJoined
<1>4. TypeOK'
  BY <1>1, <1>2 DEF TypeOK, WqInv
<1>5. (StartInv => StartInv') /\ (StopInv => StopInv') /\ (UnwindInv => UnwindInv')
  BY <1>3, LoadPosition DEF StartInv, StopInv, UnwindInv
<1>6. PhaseInv'
  BY <1>1, <1>3, <1>5 DEF PhaseInv
<1>7. Remembered'
  BY <1>1 DEF Remembered
<1> QED BY <1>2, <1>4, <1>6, <1>7 DEF DaemonInv

LEMMA LoopFlagsKeep ==
  ASSUME DaemonInv, EpollWait \/ ReadSignal \/ Terminate
  PROVE  DaemonInv'
<1>1. running \in BOOLEAN /\ sigterm \in BOOLEAN /\ events \subseteq {"server", "signal"}
  BY DEF DaemonInv, TypeOK
<1>2. CASE EpollWait
  BY <1>1, <1>2, FlagsKeep DEF EpollWait, Ready
<1>3. CASE ReadSignal
  BY <1>1, <1>3, FlagsKeep DEF ReadSignal
<1>4. CASE Terminate
  BY <1>1, <1>4, FlagsKeep DEF Terminate
<1> QED BY <1>2, <1>3, <1>4

LEMMA AcceptKeeps ==
  ASSUME DaemonInv, Accept
  PROVE  DaemonInv'
<1>1. /\ TypeOK /\ WqInv /\ PhaseInv /\ Remembered /\ phase = "loop" /\ Pooled /\ events' = events \ {"server"}
      /\ UNCHANGED <<phase, step, up, running, sigterm, registry, file, acked, forgetful>>
      /\ events' \subseteq {"server", "signal"}
  BY DEF DaemonInv, PhaseInv, Accept, TypeOK
<1>2. CASE UNCHANGED wqVars
  BY <1>1, <1>2, FlagsKeep DEF TypeOK
<1>3. CASE \E c \in Conns : conn[c] = "pending" /\ Push(c)
  <2>1. WqInv' /\ Pooled'
    BY <1>1, <1>3, PushKeeps
  <2>2. TypeOK'
    BY <1>1, <2>1 DEF TypeOK, WqInv
  <2>3. PhaseInv'
    BY <1>1, <2>1 DEF PhaseInv
  <2>4. Remembered'
    BY <1>1 DEF Remembered
  <2> QED BY <2>1, <2>2, <2>3, <2>4 DEF DaemonInv
<1>4. CASE \E c \in Conns : conn[c] = "pending" /\ Drop(c)
  <2>1. PICK c \in Conns : conn[c] = "pending" /\ Drop(c)
    BY <1>4
  <2>2. conn' \in [Conns -> ConnState] /\ \A d \in Conns : conn'[d] = IF d = c THEN "none" ELSE conn[d]
    BY <1>1, <2>1 DEF Drop, Becomes, WqInv, WqTypeOK, ConnState
  <2>3. UNCHANGED <<fds, shutdown, wpc, serving>>
    BY <2>1 DEF Drop, queueVars
  <2> QED BY <1>1, <2>1, <2>2, <2>3, ConnsKeep
<1> QED BY <1>2, <1>3, <1>4 DEF Accept

LEMMA ClientKeeps ==
  ASSUME DaemonInv, NEW c \in Conns, Connect(c) \/ GiveUp(c)
  PROVE  DaemonInv'
<1>1. PICK s \in {"none", "pending"} : conn' = [conn EXCEPT ![c] = s]
  BY DEF Connect, GiveUp, Becomes
<1>2. /\ conn[c] \in {"none", "pending"} /\ events \subseteq {"server", "signal"}
      /\ UNCHANGED <<fds, shutdown, wpc, serving, mainVars, registry, file, acked, forgetful>>
  BY DEF Connect, GiveUp, queueVars, DaemonInv, TypeOK
<1>3. conn' \in [Conns -> ConnState] /\ \A d \in Conns : conn'[d] = IF d = c THEN s ELSE conn[d]
  BY <1>1 DEF DaemonInv, WqInv, WqTypeOK, ConnState
<1> QED BY <1>2, <1>3, ConnsKeep DEF mainVars

LEMMA LeaveKeeps ==
  ASSUME DaemonInv, LeaveLoop \/ EpollFails
  PROVE  DaemonInv'
<1>1. /\ TypeOK /\ WqInv /\ PhaseInv /\ Remembered /\ phase = "loop" /\ phase' = "stop" /\ step' = 1
      /\ UNCHANGED <<wqVars, up, running, sigterm, events, registry, file, acked, forgetful>>
  BY DEF DaemonInv, LeaveLoop, EpollFails, At
<1>2. "threads" \in up /\ Needed \subseteq up
  BY <1>1 DEF PhaseInv
<1>3. forgetful' \in BOOLEAN
  BY <1>1 DEF TypeOK
<1>4. forgetful' \/ registry = acked
  BY <1>1 DEF Remembered
<1> QED BY <1>1, <1>2, <1>3, <1>4, StopKeeps

-----------------------------------------------------------------------------
(***************************************************************************)
(* cleanup.                                                                *)
(***************************************************************************)
LEMMA StopPoolKeeps ==
  ASSUME DaemonInv, StopPool
  PROVE  DaemonInv'
<1>1. /\ TypeOK /\ WqInv /\ StopInv /\ Remembered /\ phase = "stop" /\ Shutdown[step] = "threads" /\ "threads" \in up
      /\ UNCHANGED <<phase, step, up, running, sigterm, events, registry, file, acked, forgetful>>
      /\ StopWorkers
  BY DEF DaemonInv, PhaseInv, StopPool, Doing, mainVars
<1>2. step = 1
  BY <1>1, ShutdownOrder DEF StopInv
<1>3. wpc' \in [Workers -> WorkerPc] /\ \A w \in Workers : wpc'[w] = IF wpc[w] = "wait" THEN "ready" ELSE wpc[w]
  BY <1>1 DEF StopWorkers, WqInv, WqTypeOK, WorkerPc
<1>4. UNCHANGED <<fds, serving, conn>> /\ shutdown' = TRUE
  BY <1>1 DEF StopWorkers
<1>5. WqInv'
  <2>1. EachConnOnce' /\ WqTypeOK'
    BY <1>1, <1>3, <1>4 DEF WqInv, EachConnOnce, WqTypeOK, WorkerPc, ConnState
  <2>2. NoLostWakeup' /\ BusyServes'
    BY <1>1, <1>3, <1>4 DEF WqInv, NoLostWakeup, BusyServes
  <2> QED BY <2>1, <2>2 DEF WqInv
<1>6. TypeOK'
  BY <1>1, <1>5 DEF TypeOK, WqInv
<1>7. StopInv'
  BY <1>1, <1>2, ShutdownOrder DEF StopInv
<1>8. Remembered'
  BY <1>1 DEF Remembered
<1> QED BY <1>1, <1>5, <1>6, <1>7, <1>8 DEF DaemonInv, PhaseInv

\* Once the workers are joined nothing is left in the queue, for a worker
\* that is awake empties it before it looks at the shutdown flag.
LEMMA JoinedIsEmpty ==
  ASSUME WqInv, AllJoined
  PROVE  Ended
BY DEF WqInv, NoLostWakeup, AllJoined, Ended

\* Going on with cleanup once the pool is gone.
LEMMA OnwardKeeps ==
  ASSUME DaemonInv, phase = "stop", NEW k \in 2 .. 12, phase' = "stop", step' = k, WqInv', Ended',
         up' \subseteq up, UNCHANGED <<running, sigterm, events, acked>>, forgetful' \in BOOLEAN,
         registry' \subseteq registry, file.kind' \in FileKinds, file.names' \subseteq Services,
         forgetful' \/ IF k =< SaveAt THEN registry' = acked ELSE file.names' = acked
  PROVE  DaemonInv'
<1>1. TypeOK
  BY DEF DaemonInv
<1>2. TypeOK'
  BY <1>1, StartupOrder DEF TypeOK, WqInv, Phases
<1>3. StopInv'
  BY ShutdownOrder DEF StopInv
<1>4. Remembered'
  BY DEF Remembered, SaveAt
<1> QED BY <1>2, <1>3, <1>4 DEF DaemonInv, PhaseInv

LEMMA PoolStoppedKeeps ==
  ASSUME DaemonInv, PoolStopped
  PROVE  DaemonInv'
<1>1. /\ TypeOK /\ WqInv /\ StopInv /\ Remembered /\ phase = "stop" /\ Shutdown[step] = "threads"
      /\ "threads" \in up => AllJoined
      /\ up' = up \ {"threads"} /\ phase' = "stop" /\ step' = step + 1
      /\ UNCHANGED <<wqVars, running, sigterm, events, registry, file, acked, forgetful>>
  BY DEF DaemonInv, PhaseInv, PoolStopped, Doing, OnwardTo, At
<1>2. step = 1
  BY <1>1, ShutdownOrder DEF StopInv
<1>3. Ended
  BY <1>1, JoinedIsEmpty DEF StopInv
<1>4. WqInv' /\ Ended'
  BY <1>1, <1>3, WqStutter
<1>5. forgetful \/ registry = acked
  BY <1>1, <1>2 DEF Remembered, SaveAt
<1> QED BY <1>1, <1>2, <1>4, <1>5, OnwardKeeps DEF SaveAt, TypeOK

LEMMA SaveKeeps ==
  ASSUME DaemonInv, SaveOpen \/ SaveWrite \/ SaveFails
  PROVE  DaemonInv'
<1>1. /\ TypeOK /\ WqInv /\ StopInv /\ Remembered /\ phase = "stop" /\ phase' = "stop"
      /\ UNCHANGED <<wqVars, up, running, sigterm, events, registry, acked>>
  BY DEF DaemonInv, PhaseInv, SaveOpen, SaveWrite, SaveFails, Doing, OnwardTo, At
<1>2. step \in 1 .. 12
  BY <1>1, ShutdownOrder DEF StopInv
<1>3. CASE SaveOpen
  <2>1. step = 3 /\ step' = 4
    BY <1>2, <1>3, ShutdownOrder DEF SaveOpen, Doing, OnwardTo, At
  <2>2. WqInv' /\ Ended'
    BY <1>1, <2>1, WqStutter DEF StopInv
  <2>3. forgetful \/ registry = acked
    BY <1>1, <2>1 DEF Remembered, SaveAt
  <2> QED BY <1>1, <1>3, <2>1, <2>2, <2>3, OnwardKeeps DEF SaveOpen, SaveAt, TypeOK, FileKinds
<1>4. CASE SaveWrite
  <2>1. step = 4 /\ step' = 5
    BY <1>2, <1>4, ShutdownOrder DEF SaveWrite, Doing, OnwardTo, At
  <2>2. WqInv' /\ Ended'
    BY <1>1, <2>1, WqStutter DEF StopInv
  <2>3. forgetful \/ registry = acked
    BY <1>1, <2>1 DEF Remembered, SaveAt
  <2> QED BY <1>1, <1>4, <2>1, <2>2, <2>3, OnwardKeeps DEF SaveWrite, SaveAt, TypeOK, FileKinds
<1>5. CASE SaveFails
  <2>1. step = 3 /\ step' = 5
    BY <1>2, <1>5, ShutdownOrder DEF SaveFails, Doing, OnwardTo, At
  <2>2. WqInv' /\ Ended'
    BY <1>1, <2>1, WqStutter DEF StopInv
  <2> QED BY <1>1, <1>5, <2>1, <2>2, OnwardKeeps DEF SaveFails, TypeOK
<1> QED BY <1>3, <1>4, <1>5

LEMMA StopStepKeeps ==
  ASSUME DaemonInv, StopStep
  PROVE  DaemonInv'
<1>1. /\ TypeOK /\ WqInv /\ StopInv /\ Remembered /\ phase = "stop" /\ phase' = "stop" /\ step' = step + 1
      /\ step < Len(Shutdown) /\ Shutdown[step] # "threads" /\ Shutdown[step] # "save_open" /\ Shutdown[step] # "save_write"
      /\ UNCHANGED <<fds, shutdown, wpc, serving, running, sigterm, events, file, acked, forgetful>>
      /\ up' \subseteq up
      /\ registry' = IF Shutdown[step] = "registry" THEN {} ELSE registry
      /\ conn' = IF Shutdown[step] = "socket"
                   THEN [c \in Conns |-> IF conn[c] = "pending" THEN "none" ELSE conn[c]]
                   ELSE conn
  BY DEF DaemonInv, PhaseInv, StopStep, OnwardTo, At, queueVars
<1>2. step \in 1 .. 11 /\ step # 1 /\ step # 3 /\ step # 4
  BY <1>1, ShutdownOrder DEF StopInv
<1>3. /\ conn' \in [Conns -> ConnState]
      /\ \A c \in Conns : conn'[c] = conn[c] \/ (conn[c] \in {"none", "pending"} /\ conn'[c] \in {"none", "pending"})
  BY <1>1 DEF WqInv, WqTypeOK, ConnState
<1>4. WqInv'
  BY <1>1, <1>3, ConnKeeps
<1>5. Ended'
  BY <1>1, <1>2 DEF StopInv, Ended, AllJoined
<1>6. registry' \subseteq registry /\ (step < 10 => registry' = registry)
  BY <1>1, <1>2, ShutdownOrder
<1>7. forgetful' \/ IF step + 1 =< SaveAt THEN registry' = acked ELSE file.names' = acked
  BY <1>1, <1>2, <1>6 DEF Remembered, SaveAt
<1> QED BY <1>1, <1>2, <1>4, <1>5, <1>6, <1>7, OnwardKeeps DEF TypeOK

-----------------------------------------------------------------------------
(***************************************************************************)
(* The end of the process.                                                 *)
(***************************************************************************)
LEMMA GoneKeeps ==
  ASSUME TypeOK, ProcessGone, UNCHANGED <<file, acked>>, forgetful' \in BOOLEAN, forgetful' \/ file.names = acked
  PROVE  DaemonInv'
<1>1. /\ fds' = <<>> /\ shutdown' = FALSE /\ wpc' = [w \in Workers |-> "none"]
      /\ serving' = [w \in Workers |-> NoFd] /\ conn' = [c \in Conns |-> "none"]
      /\ up' = {} /\ running' = TRUE /\ sigterm' = FALSE /\ events' = {} /\ registry' = {}
      /\ phase' = "off" /\ step' = 0
  BY DEF ProcessGone, At
<1>2. fds' \in Seq(Conns) /\ Len(fds') = 0
  BY <1>1
<1>3. WqTypeOK'
  <2>1. Len(fds') =< QueueSize
    BY <1>2, QueueAssumption
  <2>2. wpc' \in [Workers -> WorkerPc] /\ serving' \in [Workers -> Conns \cup {NoFd}] /\ conn' \in [Conns -> ConnState]
    BY <1>1 DEF WorkerPc, ConnState
  <2>3. shutdown' \in BOOLEAN
    BY <1>1
  <2> QED BY <1>2, <2>1, <2>2, <2>3 DEF WqTypeOK, WorkerPc, ConnState
<1>4. EachConnOnce' /\ NoLostWakeup' /\ BusyServes' /\ Fresh'
  <2>1. \A c \in Conns : conn'[c] = "none" /\ \A w \in Workers : serving'[w] # c
    BY <1>1, QueueAssumption
  <2>2. \A w \in Workers : serving'[w] = NoFd /\ wpc'[w] = "none"
    BY <1>1
  <2>3. EachConnOnce'
    BY <1>2, <2>1, <2>2 DEF EachConnOnce
  <2> QED BY <1>1, <2>2, <2>3 DEF NoLostWakeup, BusyServes, Fresh
<1>5. TypeOK'
  <2>1. phase' \in Phases /\ step' \in 0 .. Len(Startup)
    BY <1>1, StartupOrder DEF Phases
  <2> QED BY <1>1, <1>3, <2>1 DEF TypeOK
<1>6. PhaseInv' /\ Remembered'
  <2>1. PhaseInv'
    BY <1>1, <1>4 DEF PhaseInv
  <2>2. Remembered'
    BY <1>1 DEF Remembered
  <2> QED BY <2>1, <2>2
<1> QED BY <1>3, <1>4, <1>5, <1>6 DEF DaemonInv, WqInv

LEMMA EndKeeps ==
  ASSUME DaemonInv, Exit \/ Crash
  PROVE  DaemonInv'
<1>1. CASE Crash
  BY <1>1, GoneKeeps DEF Crash, DaemonInv
<1>2. CASE Exit
  <2>1. TypeOK /\ phase = "stop" /\ step = 12 /\ Remembered /\ UNCHANGED <<file, acked, forgetful>> /\ ProcessGone
    BY <1>2, ShutdownOrder DEF Exit, DaemonInv
  <2>2. forgetful' \/ file.names = acked
    BY <2>1 DEF Remembered, SaveAt
  <2> QED BY <2>1, <2>2, GoneKeeps DEF TypeOK
<1> QED BY <1>1, <1>2

-----------------------------------------------------------------------------
(***************************************************************************)
(* The specification.                                                      *)
(***************************************************************************)
LEMMA InitHolds == Init => DaemonInv
<1> SUFFICES ASSUME Init PROVE DaemonInv
  OBVIOUS
<1>1. /\ fds = <<>> /\ shutdown = FALSE /\ wpc = [w \in Workers |-> "none"]
      /\ serving = [w \in Workers |-> NoFd] /\ conn = [c \in Conns |-> "none"]
      /\ up = {} /\ registry = {} /\ phase = "off" /\ step = 0
  BY DEF Init, WqInit, EmptyQueue
<1>2. fds \in Seq(Conns) /\ Len(fds) = 0
  BY <1>1
<1>3. WqTypeOK
  <2>1. Len(fds) =< QueueSize
    BY <1>2, QueueAssumption
  <2>2. wpc \in [Workers -> WorkerPc] /\ serving \in [Workers -> Conns \cup {NoFd}] /\ conn \in [Conns -> ConnState]
    BY <1>1 DEF WorkerPc, ConnState
  <2>3. shutdown \in BOOLEAN
    BY <1>1
  <2> QED BY <1>2, <2>1, <2>2, <2>3 DEF WqTypeOK
<1>4. EachConnOnce /\ NoLostWakeup /\ BusyServes /\ Fresh
  <2>1. \A c \in Conns : conn[c] = "none" /\ \A w \in Workers : serving[w] # c
    BY <1>1, QueueAssumption
  <2>2. \A w \in Workers : serving[w] = NoFd /\ wpc[w] = "none"
    BY <1>1
  <2>3. EachConnOnce
    BY <1>2, <2>1, <2>2 DEF EachConnOnce
  <2> QED BY <1>1, <2>2, <2>3 DEF NoLostWakeup, BusyServes, Fresh
<1>5. TypeOK
  <2>1. phase \in Phases /\ step \in 0 .. Len(Startup)
    BY <1>1, StartupOrder DEF Phases
  <2>2. file.kind \in FileKinds /\ file.names \subseteq Services
    BY DEF Init, FileKinds
  <2>3. running \in BOOLEAN /\ sigterm \in BOOLEAN /\ forgetful \in BOOLEAN /\ events = {} /\ acked = {}
    BY DEF Init
  <2> QED BY <1>1, <1>3, <2>1, <2>2, <2>3 DEF TypeOK
<1>6. PhaseInv
  BY <1>1, <1>4 DEF PhaseInv
<1>7. Remembered
  BY DEF Init, Remembered
<1> QED BY <1>3, <1>4, <1>5, <1>6, <1>7 DEF DaemonInv, WqInv

LEMMA NextKeeps == DaemonInv /\ [Next]_daemonVars => DaemonInv'
<1> SUFFICES ASSUME DaemonInv, [Next]_daemonVars PROVE DaemonInv'
  OBVIOUS
<1>1. CASE UNCHANGED daemonVars
  BY <1>1, FlagsKeep DEF daemonVars, mainVars, DaemonInv, TypeOK
<1>2. CASE Launch
  BY <1>2, LaunchKeeps
<1>3. CASE MainStep
  BY <1>3, StartStepKeeps, StartLoadKeeps, StartThreadsKeeps, UnwoundKeeps, LoopFlagsKeep, AcceptKeeps,
     LeaveKeeps, StopPoolKeeps, PoolStoppedKeeps, SaveKeeps, StopStepKeeps, EndKeeps DEF MainStep
<1>4. CASE StartFails
  BY <1>4, StartFailsKeeps
<1>5. CASE \E ws \in SUBSET Workers \ {Workers} : StartThreadsPartly(ws)
  BY <1>5, StartThreadsPartlyKeeps
<1>6. CASE EpollFails \/ SaveFails
  BY <1>6, LeaveKeeps, SaveKeeps
<1>7. CASE \E w \in Workers : WorkerStep(w) \/ Wakeup(w)
  BY <1>7, WorkerStepKeeps
<1>8. CASE \E c \in Conns : Connect(c) \/ GiveUp(c)
  BY <1>8, ClientKeeps
<1>9. CASE Terminate \/ Crash
  BY <1>9, LoopFlagsKeep, EndKeeps
<1> QED BY <1>1, <1>2, <1>3, <1>4, <1>5, <1>6, <1>7, <1>8, <1>9 DEF Next

LEMMA DaemonInvariant == Spec => []DaemonInv
BY InitHolds, NextKeeps, PTL DEF Spec

\* The daemon at any moment, from any number of starts, failed starts and
\* crashes: each accepted connection is in one place, some worker is awake
\* for those queued, and none is served before the subsystems its handler
\* uses are up or after cleanup took them away.
THEOREM DaemonCorrect == Spec => []DaemonSafe
<1>1. DaemonInv => DaemonSafe
  <2> SUFFICES ASSUME DaemonInv PROVE DaemonSafe
    OBVIOUS
  <2>1. TypeOK /\ WqInv /\ PhaseInv
    BY DEF DaemonInv
  <2>2. ASSUME NEW w \in Workers, wpc[w] = "busy" PROVE Needed \subseteq up
    <3>1. \/ phase = "loop"
          \/ phase = "start" /\ step > ThreadsAt
          \/ phase = "stop" /\ step = 1 /\ "threads" \in up
      BY <2>1, <2>2, ActivePhase
    <3>2. CASE phase = "start" /\ step > ThreadsAt
      <4>1. \A k \in {3, 6, 7, 8} : k \in 1 .. step - 1
        BY <2>1, <3>2 DEF TypeOK, ThreadsAt
      <4>2. \A k \in {3, 6, 7, 8} : Startup[k] \in Tracked => Startup[k] \in up
        BY <2>1, <3>2, <4>1 DEF PhaseInv, StartInv
      <4> QED BY <4>2, StartupOrder DEF Needed, Tracked
    <3> QED BY <2>1, <3>1, <3>2 DEF PhaseInv, StopInv
  <2> QED BY <2>1, <2>2 DEF DaemonSafe, WqInv, ServedWhileUp
<1> QED BY <1>1, DaemonInvariant, PTL

\* A daemon that was stopped in order and started again knows every service
\* registered before, after any number of restarts and of starts that failed
\* once the file was loaded: cleanup saves what sm_run loaded, and no request
\* is served between the save and the end of the process.
THEOREM RestartRemembers == Spec => []CleanRestartRemembers
<1>1. DaemonInv => CleanRestartRemembers
  BY DEF DaemonInv, Remembered, CleanRestartRemembers
<1> QED BY <1>1, DaemonInvariant, PTL
=============================================================================

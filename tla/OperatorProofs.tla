--------------------------- MODULE OperatorProofs ---------------------------
(***************************************************************************)
(* What an operator is told, proved of monitord, its viewer, its stores    *)
(* and the command line tools: for any number of collectors, viewers and   *)
(* connections, any capacity of a ring and any length of a header, a       *)
(* message, a log and a command line.                                      *)
(***************************************************************************)
EXTENDS MCClients, FiniteSetTheorems, SequenceTheorems, WellFoundedInduction, TLAPS

-----------------------------------------------------------------------------
(* Division with remainder.                                                *)

LEMMA DivMod ==
  ASSUME NEW a \in Nat, NEW b \in Nat \ {0}
  PROVE  a = (a \div b) * b + (a % b) /\ a % b \in 0 .. b - 1 /\ a \div b \in Nat
OBVIOUS

LEMMA ModNear ==
  ASSUME NEW a \in Nat, NEW c \in Nat, NEW b \in Nat \ {0}, a < c, c - a < b
  PROVE  a % b # c % b
<1> DEFINE q == a \div b
           r == a % b
           p == c \div b
<1> SUFFICES ASSUME r = c % b PROVE FALSE
  OBVIOUS
<1>1. a = q * b + r /\ r \in 0 .. b - 1 /\ q \in Nat
  BY DivMod
<1>2. c = p * b + r /\ p \in Nat
  BY DivMod
<1> HIDE DEF q, r, p
<1>3. CASE p =< q
  BY <1>1, <1>2, <1>3
<1>4. CASE q < p
  <2>1. q + 1 =< p
    BY <1>1, <1>2, <1>4
  <2>2. (q + 1) * b =< p * b
    BY <1>1, <1>2, <2>1
  <2>3. q * b + b =< p * b
    BY <1>1, <2>2
  <2> QED BY <1>1, <1>2, <2>3
<1> QED BY <1>1, <1>2, <1>3, <1>4

LEMMA DivUnique ==
  ASSUME NEW b \in Nat \ {0}, NEW q \in Nat, NEW r \in 0 .. b - 1, NEW a \in Nat, a = q * b + r
  PROVE  a % b = r /\ a \div b = q
<1> DEFINE p == a \div b
           m == a % b
<1>1. a = p * b + m /\ m \in 0 .. b - 1 /\ p \in Nat
  BY DivMod
<1> HIDE DEF p, m
<1>2. CASE p < q
  <2>1. p * b + b =< q * b
    <3>1. (p + 1) * b =< q * b
      BY <1>1, <1>2
    <3> QED BY <3>1, <1>1
  <2> QED BY <1>1, <2>1
<1>3. CASE q < p
  <2>1. q * b + b =< p * b
    <3>1. (q + 1) * b =< p * b
      BY <1>1, <1>3
    <3> QED BY <3>1, <1>1
  <2> QED BY <1>1, <2>1
<1>4. CASE p = q
  BY <1>1, <1>4 DEF p, m
<1> QED BY <1>1, <1>2, <1>3, <1>4

LEMMA ModMult ==
  ASSUME NEW a \in Nat, NEW b \in Nat \ {0}, NEW x \in Nat, x = a * b
  PROVE  x % b = 0
<1>1. x = a * b + 0
  OBVIOUS
<1> QED BY <1>1, DivUnique

-----------------------------------------------------------------------------
(***************************************************************************)
(* monitord.  The connections, the threads and the data do not depend on   *)
(* one another but for what main is at.                                    *)
(***************************************************************************)
BossSteps == {"start", "loop", "serialize", "send", "joinHttp", "joinServer", "stopCollectors", "join",
              "destroyed", "exited", "killed"}
CollRec   == [at : {"none", "loop", "tick", "gone"}, st : {"WAITING", "CONNECTING", "LIVE", "STALE", "OFFLINE"},
              errs : Nat, stop : BOOLEAN]
BossRec   == [at : BossSteps, snap : [seq : Int, data : [Collectors -> Nat]], n : Nat \ {0}]
ServerRec == [at : {"none", "accept", "got", "gone"}, stop : BOOLEAN, who : Viewers \cup {Nobody}]
HttpRec   == [at : {"none", "accept", "recv", "serialize", "gone"}, stop : BOOLEAN, seq : Int]
Ended     == {"none", "gone"}

MonitordTypes ==
    /\ coll \in [Collectors -> CollRec] /\ boss \in BossRec /\ server \in ServerRec /\ http \in HttpRec
    /\ held \subseteq Collectors /\ ever \subseteq {"late", "unstarted"} /\ seq \in Int
    /\ data \in [Collectors -> Nat] /\ sent \in [Collectors -> Nat]
    /\ clients \in [Slots -> Viewers \cup {Nobody}] /\ sock \in [Viewers -> {"none", "open", "left", "closed"}]

\* A connection that was accepted is with the accept thread or in a slot.
ConnectionsInv ==
    /\ \A i, j \in Slots : clients[i] # Nobody /\ clients[i] = clients[j] => i = j
    /\ \A i \in Slots : clients[i] # Nobody => sock[clients[i]] \in {"open", "left"}
    /\ \A v \in Viewers : sock[v] = "open" /\ server.who # v => \E i \in Slots : clients[i] = v
    /\ server.at # "got" => server.who = Nobody
    /\ server.at = "got" => /\ server.who \in Viewers /\ sock[server.who] \in {"open", "left"}
                            /\ \A i \in Slots : clients[i] # server.who

\* What has ended when main is at a step.
ThreadsInv ==
    /\ boss.at = "start" => server.at = "none" /\ http.at = "none"
    /\ boss.at \in {"joinServer", "stopCollectors", "join", "destroyed"} => http.at \in Ended
    /\ boss.at \in {"stopCollectors", "join", "destroyed"} => server.at \in Ended

CollectorsInv ==
    /\ \A c \in Collectors : coll[c].at = "gone" /\ ever = {} => c \notin held
    /\ \A c \in Collectors : coll[c].st \in {"OFFLINE", "WAITING"} => c \notin held
    /\ boss.at = "join" /\ ever = {} => \A c \in Collectors : c < boss.n => coll[c].at = "gone"
    /\ boss.at = "destroyed" /\ ever = {} => \A c \in Collectors : coll[c].at = "gone"

\* The snapshot at hand lies between what was sent last and what there is.
SnapshotInv ==
    /\ \A c \in Collectors : sent[c] =< data[c]
    /\ boss.at \in {"serialize", "send"} =>
          \A c \in Collectors : sent[c] =< boss.snap.data[c] /\ boss.snap.data[c] =< data[c]

MonitordInv == MonitordTypes /\ ConnectionsInv /\ ThreadsInv /\ CollectorsInv /\ SnapshotInv

\* The steps of main that change nothing but where it is.
LEMMA BossMoves ==
  ASSUME boss \in BossRec, NEW step \in BossSteps, NEW n \in Nat \ {0}, Boss(step, n)
  PROVE  boss' \in BossRec /\ boss'.at = step /\ boss'.n = n /\ boss'.snap = boss.snap
<1> DEFINE b == [boss EXCEPT !.at = step]
<1>1. boss' = [b EXCEPT !.n = n]
  BY DEF Boss
<1>2. b \in BossRec /\ b.at = step /\ b.snap = boss.snap
  BY DEF BossRec
<1> HIDE DEF b
<1> QED BY <1>1, <1>2 DEF BossRec

\* A thread changes its own record.
LEMMA CollMoves ==
  ASSUME coll \in [Collectors -> CollRec], NEW c \in Collectors, NEW r \in CollRec, Coll(c, r)
  PROVE  /\ coll' \in [Collectors -> CollRec] /\ coll'[c] = r
         /\ \A d \in Collectors : d # c => coll'[d] = coll[d]
BY SMTT(30) DEF Coll

-----------------------------------------------------------------------------
(* The connections.                                                        *)

AcceptSteps ==
    \/ \E v \in Viewers : ViewerLeaves(v) \/ Accept(v)
    \/ AddClient \/ ServerThreadEnds \/ (\E s, h \in BOOLEAN : StartServers(s, h))
    \/ SendFails \/ StopServer \/ CloseClients

ConnectionTypes ==
    /\ server \in ServerRec /\ clients \in [Slots -> Viewers \cup {Nobody}]
    /\ sock \in [Viewers -> {"none", "open", "left", "closed"}]

LEMMA OtherConnections ==
  ASSUME MonitordNext, ~AcceptSteps
  PROVE  UNCHANGED <<server, clients, sock>>
BY DEF MonitordNext, AcceptSteps, Waited, Connect, TickSucceeds, TickFails, GoesToWait, CollectorStops, TickBegins,
       HttpAccept, HttpSnapshot, HttpCounted, HttpOther,
       HttpThreadEnds, StartCollector, StartFails, MonitordSignal, Serialize, Counted, SendTo,
       SendKills, LoopAgain, StopHttp, StopCollectors, JoinCollector,
       JoinTooLate, DestroyState, Return

\* A set of numbers that is not empty has a first one.
LEMMA FirstOf ==
  ASSUME NEW S \in SUBSET Nat, S # {}
  PROVE  /\ (CHOOSE i \in S : \A j \in S : i =< j) \in S
         /\ \A j \in S : (CHOOSE i \in S : \A k \in S : i =< k) =< j
<1>1. IsWellFoundedOn(OpToRel(<, Nat), Nat)
  BY NatLessThanWellFounded
<1>2. PICK k \in S : \A j \in S : ~ (<<j, k>> \in OpToRel(<, Nat))
  BY <1>1, WFMin
<1>3. \A i, j \in Nat : i < j => <<i, j>> \in OpToRel(<, Nat)
  BY Zenon DEF OpToRel
<1>4. \A j \in S : ~ (j < k)
  BY <1>2, <1>3, Zenon
<1>5. \A j \in S : k =< j
  BY <1>4
<1> QED BY <1>5

LEMMA ConnectionStep ==
  ASSUME ConnectionTypes, ConnectionsInv, boss \in BossRec, MonitordNext,
         boss.at = "start" => server.at = "none"
  PROVE  ConnectionTypes' /\ ConnectionsInv'
<1>a. Nobody \notin Viewers
  BY MdAssumption DEF Nobody
<1>0. /\ server \in ServerRec /\ clients \in [Slots -> Viewers \cup {Nobody}]
      /\ sock \in [Viewers -> {"none", "open", "left", "closed"}]
  BY DEF ConnectionTypes
<1>1. ASSUME NEW v \in Viewers, ViewerLeaves(v) PROVE ConnectionTypes' /\ ConnectionsInv'
  <2>1. sock[v] = "open" /\ sock' = [sock EXCEPT ![v] = "left"] /\ UNCHANGED <<server, clients>>
    BY <1>1 DEF ViewerLeaves
  <2>2. /\ sock' \in [Viewers -> {"none", "open", "left", "closed"}] /\ sock'[v] = "left"
        /\ \A w \in Viewers : w # v => sock'[w] = sock[w]
    BY <1>0, <2>1
  <2>3. \A i \in Slots : clients[i] # Nobody => clients[i] \in Viewers
    BY <1>0
  <2> QED BY <1>0, <2>1, <2>2, <2>3 DEF ConnectionTypes, ConnectionsInv
<1>2. ASSUME NEW v \in Viewers, Accept(v) PROVE ConnectionTypes' /\ ConnectionsInv'
  <2> DEFINE s == [server EXCEPT !.at = "got"]
  <2>1. /\ server.at = "accept" /\ sock[v] = "none" /\ server' = [s EXCEPT !.who = v]
        /\ sock' = [sock EXCEPT ![v] = "open"] /\ clients' = clients
    BY <1>2 DEF Accept
  <2>2. s \in ServerRec /\ s.at = "got"
    BY <1>0 DEF ServerRec
  <2> HIDE DEF s
  <2>3. server' \in ServerRec /\ server'.at = "got" /\ server'.who = v
    BY <2>1, <2>2 DEF ServerRec
  <2>4. /\ sock' \in [Viewers -> {"none", "open", "left", "closed"}] /\ sock'[v] = "open"
        /\ \A w \in Viewers : w # v => sock'[w] = sock[w]
    BY <1>0, <2>1
  <2>5. \A i \in Slots : clients[i] # v
    BY <1>0, <1>a, <2>1 DEF ConnectionsInv
  <2>6. \A i \in Slots : clients[i] # Nobody => clients[i] \in Viewers
    BY <1>0
  <2>7. server.who = Nobody
    BY <2>1 DEF ConnectionsInv
  <2>8. \A w \in Viewers : sock'[w] = "open" /\ server'.who # w => \E i \in Slots : clients[i] = w
    BY <1>a, <2>3, <2>4, <2>7 DEF ConnectionsInv
  <2> QED BY <1>0, <2>1, <2>3, <2>4, <2>5, <2>6, <2>8 DEF ConnectionTypes, ConnectionsInv
<1>3. ASSUME AddClient PROVE ConnectionTypes' /\ ConnectionsInv'
  <2> DEFINE spare == {i \in Slots : clients[i] = Nobody}
             k    == CHOOSE i \in spare : \A j \in spare : i =< j
             w    == server.who
             s    == [server EXCEPT !.at = "accept"]
  <2>1. server.at = "got" /\ server' = [s EXCEPT !.who = Nobody]
    BY <1>3 DEF AddClient
  <2>2. s \in ServerRec /\ s.at = "accept"
    BY <1>0 DEF ServerRec
  <2> HIDE DEF s
  <2>3. server' \in ServerRec /\ server'.at = "accept" /\ server'.who = Nobody
    BY <2>1, <2>2 DEF ServerRec
  <2>4. /\ w \in Viewers /\ sock[w] \in {"open", "left"} /\ \A i \in Slots : clients[i] # w
        /\ \A v \in Viewers : sock[v] = "open" /\ w # v => \E i \in Slots : clients[i] = v
    BY <2>1 DEF ConnectionsInv
  <2>5. CASE spare # {}
    <3>1. clients' = [clients EXCEPT ![k] = w] /\ sock' = sock
      BY <1>3, <2>5 DEF AddClient
    <3>2. k \in spare
      <4>1. spare \in SUBSET Nat
        BY MdAssumption DEF Slots
      <4> QED BY <2>5, <4>1, FirstOf
    <3> HIDE DEF k, w
    <3>3. k \in Slots /\ clients[k] = Nobody
      BY <3>2
    <3> HIDE DEF spare
    <3>4. /\ clients' \in [Slots -> Viewers \cup {Nobody}] /\ clients'[k] = w
          /\ \A i \in Slots : i # k => clients'[i] = clients[i]
      BY <1>0, <2>4, <3>1, <3>3
    <3>5. \A i, j \in Slots : clients'[i] # Nobody /\ clients'[i] = clients'[j] => i = j
      BY <2>4, <3>3, <3>4 DEF ConnectionsInv
    <3>6. \A i \in Slots : clients'[i] # Nobody => sock[clients'[i]] \in {"open", "left"}
      BY <2>4, <3>4 DEF ConnectionsInv
    <3>7. \A v \in Viewers : sock[v] = "open" => \E i \in Slots : clients'[i] = v
      BY <1>a, <2>4, <3>3, <3>4
    <3> QED BY <1>0, <2>3, <3>1, <3>4, <3>5, <3>6, <3>7 DEF ConnectionTypes, ConnectionsInv
  <2>6. CASE spare = {}
    <3>1. sock' = [sock EXCEPT ![w] = "closed"] /\ clients' = clients
      BY <1>3, <2>6 DEF AddClient
    <3> HIDE DEF w, spare
    <3>2. /\ sock' \in [Viewers -> {"none", "open", "left", "closed"}] /\ sock'[w] = "closed"
          /\ \A v \in Viewers : v # w => sock'[v] = sock[v]
      BY <1>0, <2>4, <3>1
    <3>3. \A i \in Slots : clients[i] # Nobody => clients[i] \in Viewers /\ clients[i] # w
      BY <1>0, <2>4
    <3>4. \A i \in Slots : clients[i] # Nobody => sock'[clients[i]] \in {"open", "left"}
      BY <3>2, <3>3 DEF ConnectionsInv
    <3>5. \A v \in Viewers : sock'[v] = "open" => \E i \in Slots : clients[i] = v
      BY <2>4, <3>2
    <3> QED BY <1>0, <2>3, <3>1, <3>2, <3>4, <3>5 DEF ConnectionTypes, ConnectionsInv
  <2> QED BY <2>5, <2>6
<1>4. ASSUME ServerThreadEnds PROVE ConnectionTypes' /\ ConnectionsInv'
  <2>1. server.at = "accept" /\ server' = [server EXCEPT !.at = "gone"] /\ UNCHANGED <<clients, sock>>
    BY <1>4 DEF ServerThreadEnds
  <2>2. server' \in ServerRec /\ server'.at = "gone" /\ server'.who = server.who
    BY <1>0, <2>1 DEF ServerRec
  <2> QED BY <1>0, <2>1, <2>2 DEF ConnectionTypes, ConnectionsInv
<1>5. ASSUME NEW so \in BOOLEAN, NEW ho \in BOOLEAN, StartServers(so, ho) PROVE ConnectionTypes' /\ ConnectionsInv'
  <2>1. /\ boss.at = "start" /\ UNCHANGED <<clients, sock>>
        /\ server' = [server EXCEPT !.at = "accept"] \/ server' = server
    BY <1>5 DEF StartServers
  <2>2. server' \in ServerRec /\ server'.at # "got" /\ server'.who = server.who
    BY <1>0, <2>1 DEF ServerRec
  <2>3. server.at # "got"
    BY <2>1
  <2> QED BY <1>0, <2>1, <2>2, <2>3 DEF ConnectionTypes, ConnectionsInv
<1>6. ASSUME SendFails PROVE ConnectionTypes' /\ ConnectionsInv'
  <2> DEFINE k == boss.n
             v == clients[k]
  <2>1. /\ k \in Slots /\ v # Nobody /\ sock' = [sock EXCEPT ![v] = "closed"] /\ sock[v] = "left"
        /\ clients' = [clients EXCEPT ![k] = Nobody] /\ server' = server
    BY <1>6 DEF SendFails
  <2>2. v \in Viewers /\ clients[k] = v
    BY <1>0, <2>1
  <2> HIDE DEF v, k
  <2>3. /\ sock' \in [Viewers -> {"none", "open", "left", "closed"}] /\ sock'[v] = "closed"
        /\ \A w \in Viewers : w # v => sock'[w] = sock[w]
    BY <1>0, <2>1, <2>2
  <2>4. /\ clients' \in [Slots -> Viewers \cup {Nobody}] /\ clients'[k] = Nobody
        /\ \A i \in Slots : i # k => clients'[i] = clients[i]
    BY <1>0, <2>1
  <2>5. \A i \in Slots : clients'[i] # Nobody => i # k /\ clients'[i] = clients[i] /\ clients[i] \in Viewers /\ clients[i] # v
    BY <1>0, <2>1, <2>2, <2>4 DEF ConnectionsInv
  <2>6. \A i, j \in Slots : clients'[i] # Nobody /\ clients'[i] = clients'[j] => i = j
    BY <2>5 DEF ConnectionsInv
  <2>7. \A i \in Slots : clients'[i] # Nobody => sock'[clients'[i]] \in {"open", "left"}
    BY <2>3, <2>5 DEF ConnectionsInv
  <2>8. \A w \in Viewers : sock'[w] = "open" /\ server.who # w => \E i \in Slots : clients'[i] = w
    BY <2>2, <2>3, <2>4 DEF ConnectionsInv
  <2>9. server.at = "got" => /\ server.who \in Viewers /\ sock'[server.who] \in {"open", "left"}
                             /\ \A i \in Slots : clients'[i] # server.who
    BY <1>a, <2>1, <2>2, <2>3, <2>4 DEF ConnectionsInv
  <2> QED BY <1>0, <2>1, <2>3, <2>4, <2>6, <2>7, <2>8, <2>9 DEF ConnectionTypes, ConnectionsInv
<1>7. ASSUME StopServer PROVE ConnectionTypes' /\ ConnectionsInv'
  <2>1. server' = [server EXCEPT !.stop = TRUE] /\ UNCHANGED <<clients, sock>>
    BY <1>7 DEF StopServer
  <2>2. server' \in ServerRec /\ server'.at = server.at /\ server'.who = server.who
    BY <1>0, <2>1 DEF ServerRec
  <2> QED BY <1>0, <2>1, <2>2 DEF ConnectionTypes, ConnectionsInv
<1>8. ASSUME CloseClients PROVE ConnectionTypes' /\ ConnectionsInv'
  <2>1. /\ server.at = "gone" /\ server' = server
        /\ sock' = [v \in Viewers |-> IF \E i \in Slots : clients[i] = v THEN "closed" ELSE sock[v]]
        /\ clients' = [i \in Slots |-> Nobody]
    BY <1>8 DEF CloseClients
  <2>2. server.who = Nobody
    BY <2>1 DEF ConnectionsInv
  <2>3. \A v \in Viewers : sock'[v] # "open"
    BY <1>a, <2>1, <2>2 DEF ConnectionsInv
  <2>4. \A i \in Slots : clients'[i] = Nobody
    BY <2>1
  <2>5. sock' \in [Viewers -> {"none", "open", "left", "closed"}] /\ clients' \in [Slots -> Viewers \cup {Nobody}]
    BY <1>0, <2>1
  <2> QED BY <1>0, <2>1, <2>2, <2>3, <2>4, <2>5 DEF ConnectionTypes, ConnectionsInv
<1>9. CASE ~AcceptSteps
  <2>1. UNCHANGED <<server, clients, sock>>
    BY <1>9, OtherConnections
  <2> QED BY <1>0, <2>1 DEF ConnectionTypes, ConnectionsInv
<1> QED BY <1>1, <1>2, <1>3, <1>4, <1>5, <1>6, <1>7, <1>8, <1>9 DEF AcceptSteps

-----------------------------------------------------------------------------
(* The threads and the data.                                               *)


\* A step of a collector's thread, from a record to a record.
LEMMA CollectorStep ==
  ASSUME MonitordInv, NEW c \in Collectors, NEW r \in CollRec, Coll(c, r),
         coll[c].at # "gone", held' \subseteq Collectors, \A d \in Collectors : d # c => (d \in held' <=> d \in held),
         r.at = "gone" /\ ever = {} => c \notin held', r.st \in {"OFFLINE", "WAITING"} => c \notin held',
         data' \in [Collectors -> Nat], \A d \in Collectors : data[d] =< data'[d],
         UNCHANGED <<seq, boss, server, http, sent, ever>>
  PROVE  /\ coll' \in [Collectors -> CollRec] /\ ThreadsInv' /\ CollectorsInv' /\ SnapshotInv'
<1>0. MonitordTypes /\ ThreadsInv /\ CollectorsInv /\ SnapshotInv
  BY DEF MonitordInv
<1>1. /\ coll' \in [Collectors -> CollRec] /\ coll'[c] = r
      /\ \A d \in Collectors : d # c => coll'[d] = coll[d]
  BY <1>0, CollMoves DEF MonitordTypes
<1>2. ThreadsInv'
  BY <1>0 DEF ThreadsInv
<1>3. CollectorsInv'
  <2>1. \A d \in Collectors : coll[d].at = "gone" => coll'[d] = coll[d]
    BY <1>1
  <2>2. \A d \in Collectors : coll'[d].at = "gone" /\ ever' = {} => d \notin held'
    BY <1>0, <1>1 DEF CollectorsInv
  <2>3. \A d \in Collectors : coll'[d].st \in {"OFFLINE", "WAITING"} => d \notin held'
    BY <1>0, <1>1 DEF CollectorsInv
  <2> QED BY <1>0, <2>1, <2>2, <2>3 DEF CollectorsInv
<1>4. SnapshotInv'
  <2>1. boss.snap.data \in [Collectors -> Nat] /\ sent \in [Collectors -> Nat] /\ data \in [Collectors -> Nat]
    BY <1>0 DEF MonitordTypes, BossRec
  <2>2. \A d \in Collectors : sent[d] =< data'[d]
    BY <1>0, <2>1 DEF SnapshotInv
  <2>3. boss.at \in {"serialize", "send"} =>
          \A d \in Collectors : sent[d] =< boss.snap.data[d] /\ boss.snap.data[d] =< data'[d]
    BY <1>0, <2>1 DEF SnapshotInv
  <2> QED BY <2>2, <2>3 DEF SnapshotInv
<1> QED BY <1>1, <1>2, <1>3, <1>4

\* A step of a server's thread.
LEMMA ServerStep ==
  ASSUME MonitordInv, UNCHANGED <<coll, held, data, boss, sent, ever>>,
         server.at \in Ended => server'.at = server.at, http.at \in Ended => http'.at = http.at
  PROVE  ThreadsInv' /\ CollectorsInv' /\ SnapshotInv'
<1>0. ThreadsInv /\ CollectorsInv /\ SnapshotInv
  BY DEF MonitordInv
<1>1. ThreadsInv'
  BY <1>0 DEF ThreadsInv, Ended
<1>2. CollectorsInv'
  BY <1>0 DEF CollectorsInv
<1>3. SnapshotInv'
  BY <1>0 DEF SnapshotInv
<1> QED BY <1>1, <1>2, <1>3

Rest == coll \in [Collectors -> CollRec] /\ boss \in BossRec /\ http \in HttpRec
        /\ held \subseteq Collectors /\ ever \subseteq {"late", "unstarted"} /\ seq \in Int
        /\ data \in [Collectors -> Nat] /\ sent \in [Collectors -> Nat]

LEMMA CollectorSteps ==
  ASSUME MonitordInv, NEW c \in Collectors,
         \/ Waited(c) \/ Connect(c) \/ TickSucceeds(c) \/ TickFails(c)
         \/ GoesToWait(c) \/ CollectorStops(c) \/ \E late \in BOOLEAN : TickBegins(c, late)
  PROVE  Rest' /\ ThreadsInv' /\ CollectorsInv' /\ SnapshotInv'
<1>0. MonitordTypes /\ Rest /\ coll[c] \in CollRec /\ CollectorsInv
  BY DEF MonitordInv, MonitordTypes, Rest
<1>r. /\ \A d \in Collectors : coll[d].st \in {"OFFLINE", "WAITING"} => d \notin held
      /\ data \in [Collectors -> Nat] /\ held \subseteq Collectors
      /\ \A d \in Collectors : data[d] =< data[d]
  BY <1>0 DEF CollectorsInv, Rest
<1>1. CASE Waited(c)
  <2> DEFINE r == [coll[c] EXCEPT !.st = "CONNECTING"]
  <2>1. r \in CollRec /\ r.at = coll[c].at /\ r.st = "CONNECTING"
    BY <1>0 DEF CollRec
  <2>2. Coll(c, r) /\ coll[c].at = "loop" /\ UNCHANGED <<held, data, seq, boss, server, http, sent, ever>>
    BY <1>1 DEF Waited
  <2> HIDE DEF r
  <2>3. coll' \in [Collectors -> CollRec] /\ ThreadsInv' /\ CollectorsInv' /\ SnapshotInv'
    BY <1>r, <2>1, <2>2, CollectorStep
  <2> QED BY <1>0, <2>2, <2>3 DEF Rest
<1>2. CASE Connect(c)
  <2> DEFINE r == [coll[c] EXCEPT !.st = "LIVE"]
  <2>1. r \in CollRec /\ r.at = coll[c].at /\ r.st = "LIVE"
    BY <1>0 DEF CollRec
  <2>2. /\ Coll(c, r) /\ coll[c].at = "loop" /\ held' = held \cup {c}
        /\ UNCHANGED <<data, seq, boss, server, http, sent, ever>>
    BY <1>2 DEF Connect
  <2> HIDE DEF r
  <2>h. held' \subseteq Collectors /\ \A d \in Collectors : d # c => (d \in held' <=> d \in held)
    BY <1>r, <2>2
  <2>3. coll' \in [Collectors -> CollRec] /\ ThreadsInv' /\ CollectorsInv' /\ SnapshotInv'
    BY <1>r, <2>1, <2>2, <2>h, CollectorStep
  <2> QED BY <1>0, <2>2, <2>3, <2>h DEF Rest
<1>3. CASE TickSucceeds(c)
  <2> DEFINE a == [coll[c] EXCEPT !.at = "loop"]
             b == [a EXCEPT !.st = "LIVE"]
             r == [b EXCEPT !.errs = 0]
  <2>2. /\ Coll(c, r) /\ coll[c].at = "tick" /\ held' = held /\ data' = [data EXCEPT ![c] = data[c] + 1]
        /\ UNCHANGED <<seq, boss, server, http, sent, ever>>
    BY <1>3 DEF TickSucceeds
  <2>a. a \in CollRec /\ a.at = "loop"
    BY <1>0 DEF CollRec
  <2> HIDE DEF a
  <2>b. b \in CollRec /\ b.at = "loop" /\ b.st = "LIVE"
    BY <2>a DEF CollRec
  <2> HIDE DEF b
  <2>1. r \in CollRec /\ r.at = "loop" /\ r.st = "LIVE"
    BY <2>b DEF CollRec
  <2> HIDE DEF r
  <2>d. data' \in [Collectors -> Nat] /\ \A d \in Collectors : data[d] =< data'[d]
    BY <1>r, <2>2
  <2>3. coll' \in [Collectors -> CollRec] /\ ThreadsInv' /\ CollectorsInv' /\ SnapshotInv'
    BY <1>r, <2>1, <2>2, <2>d, CollectorStep
  <2> QED BY <1>0, <2>2, <2>3, <2>d DEF Rest
<1>4. CASE TickFails(c)
  <2> DEFINE errs == IF coll[c].errs < ErrorLimit THEN coll[c].errs + 1 ELSE ErrorLimit
             a == [coll[c] EXCEPT !.at = "loop"]
             b == [a EXCEPT !.errs = errs]
             t == IF errs >= ErrorLimit THEN "OFFLINE" ELSE coll[c].st
             r == [b EXCEPT !.st = t]
  <2>2. /\ Coll(c, r) /\ coll[c].at = "tick" /\ held' = IF errs >= ErrorLimit THEN held \ {c} ELSE held
        /\ UNCHANGED <<data, seq, boss, server, http, sent, ever>>
    <3>1. /\ Coll(c, [coll[c] EXCEPT !.at = "loop", !.errs = errs, !.st = IF errs >= ErrorLimit THEN "OFFLINE" ELSE @])
          /\ coll[c].at = "tick" /\ held' = IF errs >= ErrorLimit THEN held \ {c} ELSE held
          /\ UNCHANGED <<data, seq, boss, server, http, sent, ever>>
      BY <1>4 DEF TickFails
    <3> HIDE DEF errs
    <3>2. [coll[c] EXCEPT !.at = "loop", !.errs = errs, !.st = IF errs >= ErrorLimit THEN "OFFLINE" ELSE @] = r
      BY <1>0 DEF CollRec
    <3> HIDE DEF r
    <3> QED BY <3>1, <3>2
  <2>e. errs \in Nat
    BY <1>0, MdAssumption DEF CollRec
  <2> HIDE DEF errs
  <2>t. t \in {"WAITING", "CONNECTING", "LIVE", "STALE", "OFFLINE"} /\ (~(errs >= ErrorLimit) => t = coll[c].st)
    BY <1>0 DEF CollRec
  <2> HIDE DEF t
  <2>a. a \in CollRec /\ a.at = "loop"
    BY <1>0 DEF CollRec
  <2> HIDE DEF a
  <2>b. b \in CollRec /\ b.at = "loop"
    BY <2>a, <2>e DEF CollRec
  <2> HIDE DEF b
  <2>1. r \in CollRec /\ r.at = "loop" /\ r.st = t
    BY <2>b, <2>t DEF CollRec
  <2> HIDE DEF r
  <2>h. held' \subseteq Collectors /\ \A d \in Collectors : d # c => (d \in held' <=> d \in held)
    BY <1>r, <2>2
  <2>g. r.st \in {"OFFLINE", "WAITING"} => c \notin held'
    BY <1>r, <2>1, <2>2, <2>t
  <2>3. coll' \in [Collectors -> CollRec] /\ ThreadsInv' /\ CollectorsInv' /\ SnapshotInv'
    BY <1>r, <2>1, <2>2, <2>g, <2>h, CollectorStep
  <2> QED BY <1>0, <2>2, <2>3, <2>h DEF Rest
<1>5. CASE GoesToWait(c)
  <2> DEFINE r == [coll[c] EXCEPT !.st = "WAITING"]
  <2>1. r \in CollRec /\ r.at = coll[c].at
    BY <1>0 DEF CollRec
  <2>2. /\ Coll(c, r) /\ coll[c].at = "loop" /\ held' = held \ {c}
        /\ UNCHANGED <<data, seq, boss, server, http, sent, ever>>
    BY <1>5 DEF GoesToWait
  <2> HIDE DEF r
  <2>h. held' \subseteq Collectors /\ (\A d \in Collectors : d # c => (d \in held' <=> d \in held)) /\ c \notin held'
    BY <1>r, <2>2
  <2>3. coll' \in [Collectors -> CollRec] /\ ThreadsInv' /\ CollectorsInv' /\ SnapshotInv'
    BY <1>r, <2>1, <2>2, <2>h, CollectorStep
  <2> QED BY <1>0, <2>2, <2>3, <2>h DEF Rest
<1>6. CASE CollectorStops(c)
  <2> DEFINE a == [coll[c] EXCEPT !.at = "gone"]
             r == [a EXCEPT !.st = "OFFLINE"]
  <2>2. /\ Coll(c, r) /\ coll[c].at = "loop" /\ held' = held \ {c}
        /\ UNCHANGED <<data, seq, boss, server, http, sent, ever>>
    BY <1>6 DEF CollectorStops
  <2>a. a \in CollRec
    BY <1>0 DEF CollRec
  <2> HIDE DEF a
  <2>1. r \in CollRec
    BY <2>a DEF CollRec
  <2> HIDE DEF r
  <2>h. held' \subseteq Collectors /\ (\A d \in Collectors : d # c => (d \in held' <=> d \in held)) /\ c \notin held'
    BY <1>r, <2>2
  <2>3. coll' \in [Collectors -> CollRec] /\ ThreadsInv' /\ CollectorsInv' /\ SnapshotInv'
    BY <1>r, <2>1, <2>2, <2>h, CollectorStep
  <2> QED BY <1>0, <2>2, <2>3, <2>h DEF Rest
<1>7. ASSUME NEW late \in BOOLEAN, TickBegins(c, late) PROVE Rest' /\ ThreadsInv' /\ CollectorsInv' /\ SnapshotInv'
  <2> DEFINE a == [coll[c] EXCEPT !.at = "tick"]
             t == IF late THEN "STALE" ELSE coll[c].st
             r == [a EXCEPT !.st = t]
  <2>t. t \in {"LIVE", "STALE"}
    BY <1>7 DEF TickBegins
  <2>a. a \in CollRec /\ a.at = "tick" /\ a.st = coll[c].st
    BY <1>0 DEF CollRec
  <2>2. Coll(c, r) /\ coll[c].at = "loop" /\ UNCHANGED <<held, data, seq, boss, server, http, sent, ever>>
    <3>1. /\ Coll(c, [coll[c] EXCEPT !.at = "tick", !.st = IF late THEN "STALE" ELSE @])
          /\ coll[c].at = "loop" /\ UNCHANGED <<held, data, seq, boss, server, http, sent, ever>>
      BY <1>7 DEF TickBegins
    <3>2. [coll[c] EXCEPT !.at = "tick", !.st = IF late THEN "STALE" ELSE @] = r
      BY <1>0 DEF CollRec
    <3> HIDE DEF r
    <3> QED BY <3>1, <3>2
  <2> HIDE DEF a, t
  <2>1. r \in CollRec /\ r.at = "tick" /\ r.st = t
    BY <2>a, <2>t DEF CollRec
  <2> HIDE DEF r
  <2>3. coll' \in [Collectors -> CollRec] /\ ThreadsInv' /\ CollectorsInv' /\ SnapshotInv'
    BY <1>r, <2>1, <2>2, <2>t, CollectorStep
  <2> QED BY <1>0, <2>2, <2>3 DEF Rest
<1> QED BY <1>1, <1>2, <1>3, <1>4, <1>5, <1>6, <1>7

LEMMA ServerSteps ==
  ASSUME MonitordInv,
         \/ \E v \in Viewers : ViewerLeaves(v) \/ Accept(v)
         \/ AddClient \/ ServerThreadEnds
         \/ HttpAccept \/ HttpSnapshot \/ HttpCounted \/ HttpOther \/ HttpThreadEnds \/ MonitordSignal
  PROVE  Rest' /\ ThreadsInv' /\ CollectorsInv' /\ SnapshotInv'
<1>0. Rest /\ server \in ServerRec /\ http \in HttpRec /\ seq \in Int
  BY SMTT(30) DEF MonitordInv, MonitordTypes, Rest
<1>u. UNCHANGED <<coll, held, data, boss, sent, ever>>
  BY DEF ViewerLeaves, Accept, AddClient, ServerThreadEnds, HttpAccept, HttpSnapshot, HttpCounted, HttpOther,
         HttpThreadEnds, MonitordSignal
<1>1. server.at \in Ended => server'.at = server.at
  BY DEF ViewerLeaves, Accept, AddClient, ServerThreadEnds, HttpAccept, HttpSnapshot, HttpCounted, HttpOther,
         HttpThreadEnds, MonitordSignal, Ended
<1>2. http.at \in Ended => http'.at = http.at
  BY DEF ViewerLeaves, Accept, AddClient, ServerThreadEnds, HttpAccept, HttpSnapshot, HttpCounted, HttpOther,
         HttpThreadEnds, MonitordSignal, Ended
<1>3. http' \in HttpRec /\ seq' \in Int
  <2>1. CASE (\E v \in Viewers : ViewerLeaves(v) \/ Accept(v)) \/ AddClient \/ ServerThreadEnds \/ MonitordSignal
    BY <1>0, <2>1 DEF ViewerLeaves, Accept, AddClient, ServerThreadEnds, MonitordSignal
  <2>2. CASE HttpAccept \/ HttpOther \/ HttpThreadEnds
    BY <1>0, <2>2 DEF HttpAccept, HttpOther, HttpThreadEnds, HttpRec
  <2>3. CASE HttpSnapshot
    <3> DEFINE h == [http EXCEPT !.at = "serialize"]
    <3>1. http' = [h EXCEPT !.seq = seq] /\ seq' = seq
      BY <2>3 DEF HttpSnapshot
    <3>2. h \in HttpRec
      BY <1>0 DEF HttpRec
    <3> HIDE DEF h
    <3> QED BY <1>0, <3>1, <3>2 DEF HttpRec
  <2>4. CASE HttpCounted
    <3> DEFINE h == [http EXCEPT !.at = "accept"]
    <3>1. http' = [h EXCEPT !.seq = 0] /\ seq' = http.seq + 1
      BY <2>4 DEF HttpCounted
    <3>2. h \in HttpRec /\ http.seq \in Int
      BY <1>0 DEF HttpRec
    <3> HIDE DEF h
    <3>3. http' \in HttpRec
      BY <3>1, <3>2 DEF HttpRec
    <3>4. seq' \in Int
      BY <3>1, <3>2
    <3> QED BY <3>3, <3>4
  <2> QED BY SMTT(30), <2>1, <2>2, <2>3, <2>4
<1>4. ThreadsInv' /\ CollectorsInv' /\ SnapshotInv'
  BY <1>u, <1>1, <1>2, ServerStep
<1> QED BY <1>0, <1>u, <1>3, <1>4 DEF Rest

LEMMA StartSteps ==
  ASSUME MonitordInv, StartCollector \/ StartFails \/ (\E s, h \in BOOLEAN : StartServers(s, h))
  PROVE  Rest' /\ ThreadsInv' /\ CollectorsInv' /\ SnapshotInv'
<1>0. Rest /\ ThreadsInv /\ CollectorsInv /\ SnapshotInv /\ boss \in BossRec /\ http \in HttpRec /\ boss.n \in Nat \ {0}
  BY DEF MonitordInv, MonitordTypes, Rest, BossRec
<1>1. CASE StartCollector
  <2> DEFINE c == boss.n
             r == [coll[c] EXCEPT !.at = "loop"]
  <2>1. /\ boss.at = "start" /\ c \in Collectors /\ Coll(c, r) /\ Boss("start", c + 1)
        /\ UNCHANGED <<held, data, seq, server, http, sent, ever>>
    BY <1>1 DEF StartCollector
  <2>2. r \in CollRec /\ r.at = "loop" /\ r.st = coll[c].st
    BY <1>0, <2>1 DEF Rest, CollRec
  <2> HIDE DEF r
  <2>3. /\ coll' \in [Collectors -> CollRec] /\ coll'[c] = r
        /\ \A d \in Collectors : d # c => coll'[d] = coll[d]
    BY <1>0, <2>1, <2>2, CollMoves DEF Rest
  <2>4. boss' \in BossRec /\ boss'.at = "start"
    BY <1>0, <2>1, BossMoves DEF BossSteps
  <2> HIDE DEF c
  <2>5. ThreadsInv' /\ SnapshotInv'
    BY <1>0, <2>1, <2>4 DEF ThreadsInv, SnapshotInv
  <2>6. CollectorsInv'
    BY <1>0, <2>1, <2>2, <2>3, <2>4 DEF CollectorsInv
  <2> QED BY <1>0, <2>1, <2>3, <2>4, <2>5, <2>6 DEF Rest
<1>2. CASE StartFails
  <2>1. /\ boss.at = "start" /\ Boss("destroyed", 1) /\ ever' = ever \cup {"unstarted"}
        /\ UNCHANGED <<coll, held, data, seq, server, http, sent>>
    BY <1>2 DEF StartFails
  <2>2. boss' \in BossRec /\ boss'.at = "destroyed"
    BY <1>0, <2>1, BossMoves DEF BossSteps
  <2>3. ever' # {} /\ ever' \subseteq {"late", "unstarted"}
    BY <1>0, <2>1 DEF Rest
  <2>4. ThreadsInv' /\ SnapshotInv'
    BY <1>0, <2>1, <2>2 DEF ThreadsInv, SnapshotInv, Ended
  <2>5. CollectorsInv'
    BY <1>0, <2>1, <2>3 DEF CollectorsInv
  <2> QED BY <1>0, <2>1, <2>2, <2>3, <2>4, <2>5 DEF Rest
<1>3. ASSUME NEW s \in BOOLEAN, NEW h \in BOOLEAN, StartServers(s, h)
      PROVE  Rest' /\ ThreadsInv' /\ CollectorsInv' /\ SnapshotInv'
  <2>1. /\ boss.at = "start" /\ server.at = "none" /\ http.at = "none"
        /\ UNCHANGED <<coll, held, data, seq, sent, ever>>
        /\ http' = http \/ http' = [http EXCEPT !.at = "accept"]
        /\ Boss("loop", 1) \/ (Boss("stopCollectors", 1) /\ server' = server /\ http' = http)
    BY <1>0, <1>3 DEF StartServers, ThreadsInv
  <2>2. http' \in HttpRec
    BY <1>0, <2>1 DEF HttpRec
  <2>3. boss' \in BossRec /\ (boss'.at = "loop" \/ (boss'.at = "stopCollectors" /\ server' = server /\ http' = http))
    BY <1>0, <2>1, BossMoves DEF BossSteps
  <2>4. ThreadsInv' /\ SnapshotInv'
    BY <1>0, <2>1, <2>3 DEF ThreadsInv, SnapshotInv, Ended
  <2>5. CollectorsInv'
    BY <1>0, <2>1, <2>3 DEF CollectorsInv
  <2> QED BY <1>0, <2>1, <2>2, <2>3, <2>4, <2>5 DEF Rest
<1> QED BY <1>1, <1>2, <1>3

LEMMA LoopSteps ==
  ASSUME MonitordInv, Serialize \/ Counted \/ SendTo \/ SendKills \/ SendFails \/ LoopAgain
  PROVE  Rest' /\ ThreadsInv' /\ CollectorsInv' /\ SnapshotInv'
<1>0. /\ Rest /\ ThreadsInv /\ CollectorsInv /\ SnapshotInv /\ boss \in BossRec /\ boss.n \in Nat \ {0}
      /\ boss.snap \in [seq : Int, data : [Collectors -> Nat]]
  BY DEF MonitordInv, MonitordTypes, Rest, BossRec
<1>u. UNCHANGED <<coll, held, data, server, http, ever>>
  BY DEF Serialize, Counted, SendTo, SendKills, SendFails, LoopAgain
<1>k. ASSUME boss'.at \in {"loop", "serialize", "send", "killed"} PROVE ThreadsInv' /\ CollectorsInv'
  BY <1>0, <1>u, <1>k DEF ThreadsInv, CollectorsInv
<1>1. CASE Serialize
  <2> DEFINE s == [seq |-> seq, data |-> data]
             b == [boss EXCEPT !.at = "serialize"]
  <2>1. boss' = [b EXCEPT !.snap = s] /\ UNCHANGED <<seq, sent>>
    BY <1>1 DEF Serialize
  <2>2. s \in [seq : Int, data : [Collectors -> Nat]] /\ s.data = data
    BY <1>0 DEF Rest
  <2> HIDE DEF s
  <2>3. b \in BossRec /\ b.at = "serialize"
    BY <1>0 DEF BossRec, BossSteps
  <2> HIDE DEF b
  <2>4. boss' \in BossRec /\ boss'.at = "serialize" /\ boss'.snap = s
    BY <2>1, <2>2, <2>3 DEF BossRec
  <2>5. \A c \in Collectors : data[c] =< data[c]
    BY <1>0 DEF Rest
  <2>6. SnapshotInv'
    BY <1>0, <1>u, <2>1, <2>2, <2>4, <2>5 DEF SnapshotInv
  <2> QED BY <1>0, <1>u, <1>k, <2>1, <2>4, <2>6 DEF Rest
<1>2. CASE Counted
  <2>1. boss.at = "serialize" /\ seq' = boss.snap.seq + 1 /\ Boss("send", 1) /\ sent' = sent
    BY <1>2 DEF Counted
  <2>2. boss' \in BossRec /\ boss'.at = "send" /\ boss'.snap = boss.snap
    BY <1>0, <2>1, BossMoves DEF BossSteps
  <2>3. seq' \in Int
    <3>1. boss.snap.seq \in Int
      BY <1>0
    <3> QED BY <2>1, <3>1
  <2>6. SnapshotInv'
    BY <1>0, <1>u, <2>1, <2>2 DEF SnapshotInv
  <2> QED BY <1>0, <1>u, <1>k, <2>1, <2>2, <2>3, <2>6 DEF Rest
<1>3. CASE SendTo
  <2>1. boss.at = "send" /\ Boss("send", boss.n + 1) /\ seq' = seq /\ (sent' = sent \/ sent' = boss.snap.data)
    BY <1>3 DEF SendTo
  <2>2. boss' \in BossRec /\ boss'.at = "send" /\ boss'.snap = boss.snap
    BY <1>0, <2>1, BossMoves DEF BossSteps
  <2>3. sent' \in [Collectors -> Nat] /\ boss.snap.data \in [Collectors -> Nat]
    BY <1>0, <2>1 DEF Rest
  <2>4. \A c \in Collectors : sent'[c] =< boss.snap.data[c] /\ boss.snap.data[c] =< data[c]
    BY <1>0, <2>1, <2>3 DEF SnapshotInv
  <2>5. \A c \in Collectors : sent'[c] =< data[c]
    BY <1>0, <2>3, <2>4 DEF Rest
  <2>6. SnapshotInv'
    BY <1>u, <2>2, <2>4, <2>5 DEF SnapshotInv
  <2> QED BY <1>0, <1>u, <1>k, <2>1, <2>2, <2>3, <2>6 DEF Rest
<1>4. CASE SendKills
  <2>1. Boss("killed", 1) /\ UNCHANGED <<seq, sent>>
    BY <1>4 DEF SendKills
  <2>2. boss' \in BossRec /\ boss'.at = "killed"
    BY <1>0, <2>1, BossMoves DEF BossSteps
  <2>6. SnapshotInv'
    BY <1>0, <1>u, <2>1, <2>2 DEF SnapshotInv
  <2> QED BY <1>0, <1>u, <1>k, <2>1, <2>2, <2>6 DEF Rest
<1>5. CASE SendFails
  <2>1. boss.at = "send" /\ Boss("send", boss.n + 1) /\ UNCHANGED <<seq, sent>>
    BY <1>5 DEF SendFails
  <2>2. boss' \in BossRec /\ boss'.at = "send" /\ boss'.snap = boss.snap
    BY <1>0, <2>1, BossMoves DEF BossSteps
  <2>6. SnapshotInv'
    BY <1>0, <1>u, <2>1, <2>2 DEF SnapshotInv
  <2> QED BY <1>0, <1>u, <1>k, <2>1, <2>2, <2>6 DEF Rest
<1>6. CASE LoopAgain
  <2> DEFINE a == [boss EXCEPT !.at = "loop"]
             b == [a EXCEPT !.snap = NoSnap]
  <2>1. boss' = [b EXCEPT !.n = 1] /\ UNCHANGED <<seq, sent>>
    BY <1>6 DEF LoopAgain
  <2>2. NoSnap \in [seq : Int, data : [Collectors -> Nat]]
    BY DEF NoSnap
  <2>3. a \in BossRec /\ a.at = "loop"
    BY <1>0 DEF BossRec, BossSteps
  <2> HIDE DEF a
  <2>4. b \in BossRec /\ b.at = "loop"
    BY <2>2, <2>3 DEF BossRec
  <2> HIDE DEF b
  <2>5. boss' \in BossRec /\ boss'.at = "loop"
    BY <2>1, <2>4 DEF BossRec
  <2>6. SnapshotInv'
    BY <1>0, <1>u, <2>1, <2>5 DEF SnapshotInv
  <2> QED BY <1>0, <1>u, <1>k, <2>1, <2>5, <2>6 DEF Rest
<1> QED BY <1>1, <1>2, <1>3, <1>4, <1>5, <1>6

LEMMA StopSteps ==
  ASSUME MonitordInv, 
         \/ StopHttp \/ StopServer \/ CloseClients \/ StopCollectors \/ JoinCollector
         \/ (\E ends \in BOOLEAN : JoinTooLate(ends)) \/ DestroyState \/ Return
  PROVE  Rest' /\ ThreadsInv' /\ CollectorsInv' /\ SnapshotInv'
<1>0. /\ Rest /\ ThreadsInv /\ CollectorsInv /\ SnapshotInv /\ boss \in BossRec /\ boss.n \in Nat \ {0}
      /\ http \in HttpRec /\ server \in ServerRec
  BY DEF MonitordInv, MonitordTypes, Rest, BossRec
<1>u. UNCHANGED <<held, data, seq, sent>>
  BY DEF StopHttp, StopServer, CloseClients, StopCollectors, JoinCollector, JoinTooLate, DestroyState, Return
<1>s. ASSUME boss'.at \notin {"serialize", "send"} PROVE SnapshotInv'
  BY <1>0, <1>u, <1>s DEF SnapshotInv
<1>1. CASE StopHttp
  <2>1. boss.at = "loop" /\ Boss("joinHttp", 1) /\ http' = [http EXCEPT !.stop = TRUE] /\ UNCHANGED <<coll, server, ever>>
    BY <1>1 DEF StopHttp
  <2>2. boss' \in BossRec /\ boss'.at = "joinHttp"
    BY <1>0, <2>1, BossMoves DEF BossSteps
  <2>3. http' \in HttpRec
    BY <1>0, <2>1 DEF HttpRec
  <2>4. ThreadsInv' /\ CollectorsInv'
    BY <1>0, <1>u, <2>1, <2>2 DEF ThreadsInv, CollectorsInv
  <2> QED BY <1>0, <1>u, <1>s, <2>1, <2>2, <2>3, <2>4 DEF Rest
<1>2. CASE StopServer
  <2>1. http.at \in Ended /\ Boss("joinServer", 1) /\ UNCHANGED <<coll, http, ever>>
    BY <1>2 DEF StopServer, Ended
  <2>2. boss' \in BossRec /\ boss'.at = "joinServer"
    BY <1>0, <2>1, BossMoves DEF BossSteps
  <2>4. ThreadsInv' /\ CollectorsInv'
    BY <1>0, <1>u, <2>1, <2>2 DEF ThreadsInv, CollectorsInv
  <2> QED BY <1>0, <1>u, <1>s, <2>1, <2>2, <2>4 DEF Rest
<1>3. CASE CloseClients
  <2>1. boss.at = "joinServer" /\ server.at \in Ended /\ Boss("stopCollectors", 1) /\ UNCHANGED <<coll, server, http, ever>>
    BY <1>3 DEF CloseClients, Ended
  <2>2. boss' \in BossRec /\ boss'.at = "stopCollectors"
    BY <1>0, <2>1, BossMoves DEF BossSteps
  <2>4. ThreadsInv' /\ CollectorsInv'
    BY <1>0, <1>u, <2>1, <2>2 DEF ThreadsInv, CollectorsInv
  <2> QED BY <1>0, <1>u, <1>s, <2>1, <2>2, <2>4 DEF Rest
<1>4. CASE StopCollectors
  <2>1. /\ boss.at = "stopCollectors" /\ Boss("join", 1) /\ UNCHANGED <<server, http, ever>>
        /\ coll' = [c \in Collectors |-> [coll[c] EXCEPT !.stop = TRUE]]
    BY <1>4 DEF StopCollectors
  <2>2. boss' \in BossRec /\ boss'.at = "join" /\ boss'.n = 1
    BY <1>0, <2>1, BossMoves DEF BossSteps
  <2>3. ASSUME NEW c \in Collectors
        PROVE  coll'[c] \in CollRec /\ coll'[c].at = coll[c].at /\ coll'[c].st = coll[c].st
    BY <1>0, <2>1 DEF Rest, CollRec
  <2>4. coll' \in [Collectors -> CollRec]
    BY <2>1, <2>3
  <2>5. \A c \in Collectors : ~(c < 1)
    BY MdAssumption, FS_CardinalityType
  <2>6. ThreadsInv'
    BY <1>0, <2>1, <2>2 DEF ThreadsInv
  <2>7. CollectorsInv'
    BY <1>0, <1>u, <2>1, <2>2, <2>3, <2>5 DEF CollectorsInv
  <2> QED BY <1>0, <1>u, <1>s, <2>1, <2>2, <2>4, <2>6, <2>7 DEF Rest
<1>5. CASE JoinCollector
  <2>1. boss.at = "join" /\ coll[boss.n].at = "gone" /\ Boss("join", boss.n + 1) /\ UNCHANGED <<coll, server, http, ever>>
    BY <1>5 DEF JoinCollector
  <2>2. boss' \in BossRec /\ boss'.at = "join" /\ boss'.n = boss.n + 1
    BY <1>0, <2>1, BossMoves DEF BossSteps
  <2>3. \A c \in Collectors : c < boss.n + 1 => c < boss.n \/ c = boss.n
    BY <1>0, MdAssumption, FS_CardinalityType
  <2>6. ThreadsInv'
    BY <1>0, <2>1, <2>2 DEF ThreadsInv
  <2>7. CollectorsInv'
    BY <1>0, <1>u, <2>1, <2>2, <2>3 DEF CollectorsInv
  <2> QED BY <1>0, <1>u, <1>s, <2>1, <2>2, <2>6, <2>7 DEF Rest
<1>6. ASSUME NEW ends \in BOOLEAN, JoinTooLate(ends) PROVE Rest' /\ ThreadsInv' /\ CollectorsInv' /\ SnapshotInv'
  <2> DEFINE r == [coll[boss.n] EXCEPT !.at = "gone"]
  <2>1. /\ boss.at = "join" /\ boss.n \in Collectors /\ ever' = ever \cup {"late"} /\ Boss("join", boss.n + 1)
        /\ Coll(boss.n, r) \/ coll' = coll
        /\ UNCHANGED <<server, http>>
    BY <1>6 DEF JoinTooLate
  <2>2. boss' \in BossRec /\ boss'.at = "join"
    BY <1>0, <2>1, BossMoves DEF BossSteps
  <2>3. r \in CollRec /\ r.st = coll[boss.n].st
    BY <1>0, <2>1 DEF Rest, CollRec
  <2> HIDE DEF r
  <2>4. coll' \in [Collectors -> CollRec] /\ \A c \in Collectors : coll'[c].st = coll[c].st
    <3>1. CASE coll' = coll
      BY <1>0, <3>1 DEF Rest
    <3>2. CASE Coll(boss.n, r)
      <4>1. /\ coll' \in [Collectors -> CollRec] /\ coll'[boss.n] = r
            /\ \A d \in Collectors : d # boss.n => coll'[d] = coll[d]
        BY <1>0, <2>1, <2>3, <3>2, CollMoves DEF Rest
      <4> QED BY <2>3, <4>1
    <3> QED BY <2>1, <3>1, <3>2
  <2>5. ever' # {} /\ ever' \subseteq {"late", "unstarted"}
    BY <1>0, <2>1 DEF Rest
  <2>6. ThreadsInv'
    BY <1>0, <2>1, <2>2 DEF ThreadsInv
  <2>7. CollectorsInv'
    BY <1>0, <1>u, <2>4, <2>5 DEF CollectorsInv
  <2> QED BY <1>0, <1>u, <1>s, <2>1, <2>2, <2>4, <2>5, <2>6, <2>7 DEF Rest
<1>7. CASE DestroyState
  <2>1. boss.at = "join" /\ boss.n \notin Collectors /\ Boss("destroyed", 1) /\ UNCHANGED <<coll, server, http, ever>>
    BY <1>7 DEF DestroyState
  <2>2. boss' \in BossRec /\ boss'.at = "destroyed"
    BY <1>0, <2>1, BossMoves DEF BossSteps
  <2>3. \A c \in Collectors : c < boss.n
    BY <1>0, <2>1, MdAssumption, FS_CardinalityType
  <2>6. ThreadsInv'
    BY <1>0, <2>1, <2>2 DEF ThreadsInv
  <2>7. CollectorsInv'
    BY <1>0, <1>u, <2>1, <2>2, <2>3 DEF CollectorsInv
  <2> QED BY <1>0, <1>u, <1>s, <2>1, <2>2, <2>6, <2>7 DEF Rest
<1>8. CASE Return
  <2>1. Boss("exited", 1) /\ UNCHANGED <<coll, server, http, ever>>
    BY <1>8 DEF Return
  <2>2. boss' \in BossRec /\ boss'.at = "exited"
    BY <1>0, <2>1, BossMoves DEF BossSteps
  <2>6. ThreadsInv' /\ CollectorsInv'
    BY <1>0, <1>u, <2>1, <2>2 DEF ThreadsInv, CollectorsInv
  <2> QED BY <1>0, <1>u, <1>s, <2>1, <2>2, <2>6 DEF Rest
<1> QED BY <1>1, <1>2, <1>3, <1>4, <1>5, <1>6, <1>7, <1>8

LEMMA MonitordStep == MonitordInv /\ [MonitordNext]_mdVars => MonitordInv'
<1>1. ASSUME MonitordInv, MonitordNext PROVE MonitordInv'
  <2>1. Rest' /\ ThreadsInv' /\ CollectorsInv' /\ SnapshotInv'
    BY <1>1, CollectorSteps, ServerSteps, StartSteps, LoopSteps, StopSteps DEF MonitordNext
  <2>2. ConnectionTypes /\ ConnectionsInv /\ boss \in BossRec /\ (boss.at = "start" => server.at = "none")
    BY <1>1 DEF MonitordInv, MonitordTypes, ConnectionTypes, ThreadsInv
  <2>3. ConnectionTypes' /\ ConnectionsInv'
    BY <1>1, <2>2, ConnectionStep
  <2> QED BY <2>1, <2>3 DEF MonitordInv, MonitordTypes, Rest, ConnectionTypes
<1>2. ASSUME MonitordInv, UNCHANGED mdVars PROVE MonitordInv'
  <2>1. UNCHANGED <<coll, held, data, seq, boss, stopFlag, server, http, clients, sock, sent, ever>>
    BY <1>2 DEF mdVars
  <2>2. MonitordTypes' /\ ConnectionsInv'
    BY <1>2, <2>1 DEF MonitordInv, MonitordTypes, ConnectionsInv
  <2>3. ThreadsInv' /\ CollectorsInv' /\ SnapshotInv'
    BY <1>2, <2>1 DEF MonitordInv, ThreadsInv, CollectorsInv, SnapshotInv
  <2> QED BY <2>2, <2>3 DEF MonitordInv
<1> QED BY <1>1, <1>2

LEMMA MonitordStart == MonitordInit => MonitordInv
<1> SUFFICES ASSUME MonitordInit PROVE MonitordInv
  OBVIOUS
<1>n. Nobody \notin Viewers
  BY MdAssumption DEF Nobody
<1>1. /\ coll = [c \in Collectors |-> [at |-> "none", st |-> "WAITING", errs |-> 0, stop |-> FALSE]]
      /\ held = {} /\ data = [c \in Collectors |-> 0] /\ seq = 0 /\ ever = {} /\ sent = NoSnap.data
      /\ clients = [i \in Slots |-> Nobody] /\ sock = [v \in Viewers |-> "none"]
  BY DEF MonitordInit
<1>2. boss \in BossRec /\ boss.at = "start"
  BY DEF MonitordInit, BossRec, BossSteps, NoSnap
<1>3. server \in ServerRec /\ server.at = "none" /\ server.who = Nobody
  BY DEF MonitordInit, ServerRec
<1>4. http \in HttpRec /\ http.at = "none"
  BY DEF MonitordInit, HttpRec
<1>5. sent = [c \in Collectors |-> 0]
  BY <1>1 DEF NoSnap
<1>6. MonitordTypes
  <2>1. coll \in [Collectors -> CollRec]
    BY <1>1 DEF CollRec
  <2> QED BY <1>1, <1>2, <1>3, <1>4, <1>5, <2>1 DEF MonitordTypes
<1>7. ConnectionsInv
  BY <1>1, <1>3 DEF ConnectionsInv
<1>8. ThreadsInv /\ CollectorsInv /\ SnapshotInv
  BY <1>1, <1>2, <1>3, <1>4, <1>5 DEF ThreadsInv, CollectorsInv, SnapshotInv
<1> QED BY <1>6, <1>7, <1>8 DEF MonitordInv

LEMMA MonitordOk == MonitordInv => MonitordSafe
<1> SUFFICES ASSUME MonitordInv PROVE MonitordSafe
  OBVIOUS
<1>1. ClientsHeldOnce
  BY DEF MonitordInv, ConnectionsInv, ClientsHeldOnce
<1>2. DataNeverOlder
  BY DEF MonitordInv, SnapshotInv, DataNeverOlder
<1>3. DestroyedUnused
  BY DEF MonitordInv, ThreadsInv, CollectorsInv, DestroyedUnused, Ended
<1> QED BY <1>1, <1>2, <1>3 DEF MonitordSafe

-----------------------------------------------------------------------------
(***************************************************************************)
(* The viewer of monitord.  Out of step, the reader takes a header's worth *)
(* of units at a time from the message it lost; M times that is a multiple *)
(* of the message, where it finds a header again.                          *)
(***************************************************************************)
TuiSteps == {"input", "header", "payload", "tail", "ended"}

ViewTypes ==
    /\ written \in Nat /\ pos \in Nat /\ snapshot \in Nat /\ split \in Nat
    /\ torn \in BOOLEAN /\ redraw \in BOOLEAN /\ eof \in BOOLEAN /\ tui \in TuiSteps

\* The number of pieces of a header's length read since the message that was lost.
Pieces(k) == k \in Nat \ {0} /\ k =< (IF tui \in {"payload", "ended"} THEN MsgLen + 1 ELSE MsgLen)

StreamInv ==
    /\ tui = "payload" => pos % MsgLen = HeaderLen
    /\ ~torn
    /\ pos =< written
    /\ snapshot * MsgLen =< written
    /\ split # 0 => \E k \in Nat : Pieces(k) /\ pos = (split - 1) * MsgLen + k * HeaderLen

DrawnInv ==
    /\ tab = g_tab
    /\ ~redraw => screen_.snapshot = snapshot /\ screen_.tab = g_tab

ViewInv == ViewTypes /\ StreamInv /\ DrawnInv

LEMMA MsgType == MsgLen \in Nat \ {0} /\ HeaderLen \in Nat \ {0} /\ HeaderLen < MsgLen /\ MsgLen = HeaderLen + PayloadLen /\ PayloadLen \in Nat
BY WireAssumption DEF MsgLen

\* Behind a header that begins a message.
LEMMA ModPlus ==
  ASSUME NEW a \in Nat, NEW b \in Nat \ {0}, NEW h \in Nat, h < b, a % b = 0
  PROVE  (a + h) % b = h
<1> DEFINE q == a \div b
           x == a + h
<1>1. a = q * b /\ q \in Nat
  BY DivMod
<1>2. x \in Nat /\ x = q * b + h
  BY <1>1
<1> HIDE DEF q, x
<1>3. x % b = h
  BY <1>1, <1>2, DivUnique
<1> QED BY <1>3 DEF x

LEMMA ViewStart == ViewInit => ViewInv
<1> SUFFICES ASSUME ViewInit PROVE ViewInv
  OBVIOUS
<1>1. ViewTypes
  BY DEF ViewInit, ViewTypes, TuiSteps
<1>2. StreamInv
  BY MsgType DEF ViewInit, StreamInv
<1>3. DrawnInv
  BY DEF ViewInit, DrawnInv
<1> QED BY <1>1, <1>2, <1>3 DEF ViewInv

\* The steps that read nothing.
LEMMA FrameKept ==
  ASSUME ViewInv, NEW w \in Nat, written' = w, written =< w,
         pos' = pos, snapshot' = snapshot, torn' = torn, split' = split,
         tui' = tui \/ (tui # "payload" /\ tui # "ended" /\ tui' # "payload") \/ tui' = "ended"
  PROVE  StreamInv'
<1>1. (tui' = "payload" => pos % MsgLen = HeaderLen) /\ ~torn /\ pos =< w /\ snapshot * MsgLen =< w
  <2>1. snapshot * MsgLen \in Nat
    BY MsgType DEF ViewInv, ViewTypes
  <2> QED BY <2>1 DEF ViewInv, ViewTypes, StreamInv
<1>2. ASSUME split # 0
      PROVE  \E k \in Nat : Pieces(k)' /\ pos = (split - 1) * MsgLen + k * HeaderLen
  <2>1. PICK k \in Nat : Pieces(k) /\ pos = (split - 1) * MsgLen + k * HeaderLen
    BY <1>2 DEF ViewInv, StreamInv
  <2>2. Pieces(k)'
    BY <1>2, <2>1, MsgType DEF Pieces
  <2> QED BY <2>1, <2>2
<1>3. MsgLen' = MsgLen
  BY DEF MsgLen
<1> QED BY <1>1, <1>2, <1>3 DEF StreamInv

LEMMA ViewReads == ViewInv /\ (TimesOut \/ RecvHeader \/ RecvPayload) => StreamInv'
<1> SUFFICES ASSUME ViewInv, TimesOut \/ RecvHeader \/ RecvPayload PROVE StreamInv'
  OBVIOUS
<1>t. written \in Nat /\ pos \in Nat /\ snapshot \in Nat /\ split \in Nat /\ snapshot * MsgLen \in Nat
  BY MsgType DEF ViewInv, ViewTypes
<1>f. StreamInv
  BY DEF ViewInv
<1> DEFINE q == pos \div MsgLen
<1>q. pos = q * MsgLen + (pos % MsgLen) /\ q \in Nat /\ pos % MsgLen \in Nat
  <2>1. pos = q * MsgLen + (pos % MsgLen) /\ q \in Nat /\ pos % MsgLen \in 0 .. MsgLen - 1
    BY <1>t, MsgType, DivMod
  <2> HIDE DEF q
  <2>2. 0 .. MsgLen - 1 \subseteq Nat
    BY MsgType
  <2> QED BY <2>1, <2>2
<1>c. MsgLen' = MsgLen
  BY DEF MsgLen
<1>1. CASE TimesOut
  <2>1. UNCHANGED <<written, pos, torn, snapshot>> /\ tui' = "tail"
    BY <1>1 DEF TimesOut
  <2>2. ASSUME split' # 0
        PROVE  \E k \in Nat : Pieces(k)' /\ pos = (split' - 1) * MsgLen + k * HeaderLen
    <3>1. CASE tui = "payload"
      <4>1. split' = q + 1
        BY <1>1, <3>1 DEF TimesOut
      <4>2. pos = q * MsgLen + HeaderLen
        BY <3>1, <1>f, <1>q DEF StreamInv
      <4> HIDE DEF q
      <4>3. pos = (split' - 1) * MsgLen + 1 * HeaderLen
        <5>1. split' - 1 = q
          BY <4>1, <1>q
        <5> QED BY <5>1, <4>2, MsgType, <1>q
      <4>4. Pieces(1)'
        BY <2>1, MsgType DEF Pieces
      <4> QED BY <4>3, <4>4
    <3>2. CASE tui # "payload"
      <4>1. split' = split /\ tui \notin {"payload", "ended"}
        BY <1>1, <3>2 DEF TimesOut
      <4>2. PICK k \in Nat : Pieces(k) /\ pos = (split - 1) * MsgLen + k * HeaderLen
        BY <4>1, <2>2, <1>f DEF StreamInv
      <4>3. Pieces(k)'
        BY <4>1, <4>2, <2>1 DEF Pieces
      <4> QED BY <4>1, <4>2, <4>3
    <3> QED BY <3>1, <3>2
  <2> QED BY <2>1, <2>2, <1>f, <1>c DEF StreamInv
<1>2. CASE RecvHeader
  <2>1. /\ UNCHANGED <<written, split, torn, snapshot>> /\ pos' = pos + HeaderLen /\ tui = "header"
        /\ pos + HeaderLen =< written
    <3>1. UNCHANGED <<written, split, torn, snapshot>> /\ pos' = pos + HeaderLen /\ tui = "header" /\ Avail >= HeaderLen
      BY <1>2 DEF RecvHeader
    <3> QED BY <3>1, <1>t, MsgType DEF Avail
  <2>2. tui' = "payload" => pos' % MsgLen = HeaderLen
    <3> SUFFICES ASSUME tui' = "payload" PROVE (pos + HeaderLen) % MsgLen = HeaderLen
      BY <2>1
    <3>1. pos % MsgLen = 0
      BY <1>2 DEF RecvHeader
    <3> QED BY <3>1, <1>t, MsgType, ModPlus
  <2>3. ASSUME split # 0
        PROVE  \E k \in Nat : Pieces(k)' /\ pos' = (split - 1) * MsgLen + k * HeaderLen
    <3>1. PICK k \in Nat : Pieces(k) /\ pos = (split - 1) * MsgLen + k * HeaderLen
      BY <2>3, <1>f DEF StreamInv
    <3>2. k =< MsgLen /\ k # 0
      BY <2>1, <3>1 DEF Pieces
    <3>3. CASE tui' = "payload"
      <4>1. Pieces(k + 1)'
        BY <3>2, <3>3, MsgType DEF Pieces
      <4>2. pos' = (split - 1) * MsgLen + (k + 1) * HeaderLen
        BY <2>1, <3>1, <1>t, MsgType
      <4> QED BY <4>1, <4>2
    <3>4. CASE tui' # "payload"
      <4>1. pos % MsgLen # 0 /\ tui' = "tail"
        BY <1>2, <3>4 DEF RecvHeader
      <4>2. k # MsgLen
        <5> SUFFICES ASSUME k = MsgLen PROVE FALSE
          OBVIOUS
        <5>1. split - 1 + HeaderLen \in Nat
          BY <2>3, <1>t, MsgType
        <5>2. pos = (split - 1 + HeaderLen) * MsgLen
          BY <3>1, <1>t, MsgType
        <5>3. pos % MsgLen = 0
          BY <5>1, <5>2, <1>t, MsgType, ModMult
        <5> QED BY <5>3, <4>1
      <4>3. Pieces(k + 1)'
        BY <3>2, <4>1, <4>2, MsgType DEF Pieces
      <4>4. pos' = (split - 1) * MsgLen + (k + 1) * HeaderLen
        BY <2>1, <3>1, <1>t, MsgType
      <4> QED BY <4>3, <4>4
    <3> QED BY <3>3, <3>4
  <2> QED BY <2>1, <2>2, <2>3, <1>f, <1>c DEF StreamInv
<1>3. CASE RecvPayload
  <2>1. /\ UNCHANGED written /\ pos' = pos + PayloadLen /\ tui = "payload" /\ tui' = "tail" /\ split' = 0
        /\ snapshot' = q + 1 /\ pos + PayloadLen =< written
    <3>1. UNCHANGED written /\ pos' = pos + PayloadLen /\ tui = "payload" /\ Avail >= PayloadLen /\ tui' = "tail" /\ split' = 0
      BY <1>3 DEF RecvPayload
    <3>2. snapshot' = q + 1
      BY <1>3 DEF RecvPayload
    <3> QED BY <3>1, <3>2, <1>t, MsgType DEF Avail
  <2>2. pos % MsgLen = HeaderLen
    BY <2>1, <1>f DEF StreamInv
  <2>3. ~torn'
    BY <1>3, <2>2, <1>f DEF RecvPayload, StreamInv
  <2>4. snapshot' * MsgLen =< written
    <3>1. pos = q * MsgLen + HeaderLen
      BY <2>2, <1>q
    <3> HIDE DEF q
    <3>2. snapshot' * MsgLen = q * MsgLen + MsgLen
      BY <2>1, <1>q, MsgType
    <3>3. q * MsgLen \in Nat
      BY <1>q, MsgType
    <3> QED BY <3>1, <3>2, <3>3, <2>1, <1>t, MsgType
  <2> QED BY <2>1, <2>3, <2>4, <1>c DEF StreamInv
<1> QED BY <1>1, <1>2, <1>3

LEMMA ViewStep == ViewInv /\ [ViewNext]_viewVars => ViewInv'
<1> SUFFICES ASSUME ViewInv, [ViewNext]_viewVars PROVE ViewInv'
  OBVIOUS
<1>t. ViewTypes
  BY DEF ViewInv
<1>d. DrawnInv
  BY DEF ViewInv
<1>w. written \in Nat /\ written =< written
  BY <1>t DEF ViewTypes
<1> DEFINE Still == UNCHANGED <<pos, snapshot, torn, split>>
<1>1. ASSUME NEW n \in 1 .. HeaderLen + PayloadLen, DaemonWrites(n) PROVE ViewInv'
  <2>1. Still /\ UNCHANGED <<tui, eof, redraw, tab, g_tab, screen_>> /\ written' = written + n
    BY <1>1 DEF DaemonWrites
  <2>2. n \in Nat
    BY MsgType
  <2>3. written' \in Nat /\ written =< written'
    BY <2>1, <2>2, <1>w
  <2>4. StreamInv'
    BY <2>1, <2>3, FrameKept
  <2> QED BY <2>1, <2>3, <2>4, <1>t, <1>d DEF ViewInv, ViewTypes, DrawnInv
<1>2. ASSUME DaemonCloses PROVE ViewInv'
  <2>1. Still /\ UNCHANGED <<tui, written, redraw, tab, g_tab, screen_>> /\ eof' = TRUE
    BY <1>2 DEF DaemonCloses
  <2>4. StreamInv'
    BY <2>1, <1>w, FrameKept
  <2> QED BY <2>1, <2>4, <1>t, <1>d DEF ViewInv, ViewTypes, DrawnInv
<1>3. ASSUME NEW f \in 1 .. 2, LogGrows(f) PROVE ViewInv'
  <2>1. Still /\ UNCHANGED <<tui, written, eof, redraw, tab, g_tab, screen_>>
    BY <1>3 DEF LogGrows
  <2>4. StreamInv'
    BY <2>1, <1>w, FrameKept
  <2> QED BY <2>1, <2>4, <1>t, <1>d DEF ViewInv, ViewTypes, DrawnInv
<1>4. ASSUME NEW t, KeyTab(t) PROVE ViewInv'
  <2>1. /\ Still /\ UNCHANGED <<written, eof, screen_>> /\ tui = "input" /\ tui' = "header" /\ redraw' = TRUE
        /\ tab' = t /\ g_tab' = t
    BY <1>4 DEF KeyTab, ui_layout_set_tab, stream
  <2>4. StreamInv'
    BY <2>1, <1>w, FrameKept
  <2> QED BY <2>1, <2>4, <1>t, <1>d DEF ViewInv, ViewTypes, DrawnInv, TuiSteps
<1>5. ASSUME NEW d \in {-5, -1, 1, 5}, KeyScroll(d) PROVE ViewInv'
  <2>1. Still /\ UNCHANGED <<written, eof, screen_, tab, g_tab>> /\ tui = "input" /\ tui' = "header" /\ redraw' = TRUE
    BY <1>5 DEF KeyScroll, stream
  <2>4. StreamInv'
    BY <2>1, <1>w, FrameKept
  <2> QED BY <2>1, <2>4, <1>t, <1>d DEF ViewInv, ViewTypes, DrawnInv, TuiSteps
<1>6. ASSUME NEW r \in BOOLEAN, KeyOther(r) PROVE ViewInv'
  <2>1. Still /\ UNCHANGED <<written, eof, screen_, tab, g_tab>> /\ tui = "input" /\ tui' = "header" /\ redraw' = (redraw \/ r)
    BY <1>6 DEF KeyOther, stream, layout
  <2>4. StreamInv'
    BY <2>1, <1>w, FrameKept
  <2> QED BY <2>1, <2>4, <1>t, <1>d, Zenon DEF ViewInv, ViewTypes, DrawnInv, TuiSteps
<1>7. ASSUME Quit PROVE ViewInv'
  <2>1. Still /\ UNCHANGED <<written, eof, screen_, tab, g_tab, redraw>> /\ tui' = "ended"
    BY <1>7 DEF Quit, stream, layout
  <2>4. StreamInv'
    BY <2>1, <1>w, FrameKept
  <2> QED BY <2>1, <2>4, <1>t, <1>d DEF ViewInv, ViewTypes, DrawnInv, TuiSteps
<1>8. ASSUME TimesOut PROVE ViewInv'
  <2>1. UNCHANGED <<written, pos, snapshot, torn, eof, screen_, tab, g_tab, redraw>> /\ tui' = "tail"
    BY <1>8 DEF TimesOut, layout
  <2>2. split' \in Nat
    <3>1. pos \div MsgLen \in Nat
      BY <1>t, MsgType, DivMod DEF ViewTypes
    <3> QED BY <3>1, <1>8, <1>t DEF TimesOut, ViewTypes
  <2>4. StreamInv'
    BY <1>8, ViewReads
  <2> QED BY <2>1, <2>2, <2>4, <1>t, <1>d DEF ViewInv, ViewTypes, DrawnInv, TuiSteps
<1>9. ASSUME EndOfStream PROVE ViewInv'
  <2>1. Still /\ UNCHANGED <<written, eof, screen_, tab, g_tab, redraw>> /\ tui' = "ended"
    BY <1>9 DEF EndOfStream, stream, layout
  <2>4. StreamInv'
    BY <2>1, <1>w, FrameKept
  <2> QED BY <2>1, <2>4, <1>t, <1>d DEF ViewInv, ViewTypes, DrawnInv, TuiSteps
<1>10. ASSUME RecvHeader PROVE ViewInv'
  <2>1. /\ UNCHANGED <<written, split, snapshot, torn, eof, screen_, tab, g_tab, redraw>>
        /\ tui' \in {"payload", "tail"} /\ pos' = pos + HeaderLen
    BY <1>10 DEF RecvHeader, layout
  <2>2. pos' \in Nat
    BY <2>1, <1>t, MsgType DEF ViewTypes
  <2>4. StreamInv'
    BY <1>10, ViewReads
  <2> QED BY <2>1, <2>2, <2>4, <1>t, <1>d DEF ViewInv, ViewTypes, DrawnInv, TuiSteps
<1>11. ASSUME RecvPayload PROVE ViewInv'
  <2>1. /\ UNCHANGED <<written, eof, screen_, tab, g_tab>> /\ tui' = "tail" /\ pos' = pos + PayloadLen /\ split' = 0
        /\ redraw' = TRUE /\ snapshot' = pos \div MsgLen + 1
    BY <1>11 DEF RecvPayload, layout
  <2>2. pos' \in Nat /\ snapshot' \in Nat /\ split' \in Nat
    <3>1. pos \div MsgLen \in Nat
      BY <1>t, MsgType, DivMod DEF ViewTypes
    <3> QED BY <2>1, <3>1, <1>t, MsgType DEF ViewTypes
  <2>3. torn' \in BOOLEAN
    BY <1>11 DEF RecvPayload
  <2>4. StreamInv'
    BY <1>11, ViewReads
  <2> QED BY <2>1, <2>2, <2>3, <2>4, <1>t, <1>d DEF ViewInv, ViewTypes, DrawnInv, TuiSteps
<1>12. ASSUME NEW c \in BOOLEAN, Tail_(c) PROVE ViewInv'
  <2>1. Still /\ UNCHANGED <<written, eof, tab, g_tab>> /\ tui = "tail" /\ tui' = "input" /\ redraw' = FALSE
    BY <1>12 DEF Tail_, stream, layout
  <2>2. screen_'.snapshot = snapshot /\ screen_'.tab = g_tab
    <3>1. CASE redraw \/ c
      BY <1>12, <3>1 DEF Tail_
    <3>2. CASE ~(redraw \/ c)
      BY <1>12, <3>2, <1>d DEF Tail_, DrawnInv
    <3> QED BY <3>1, <3>2
  <2>4. StreamInv'
    BY <2>1, <1>w, FrameKept
  <2> QED BY <2>1, <2>2, <2>4, <1>t, <1>d DEF ViewInv, ViewTypes, DrawnInv, TuiSteps
<1>13. ASSUME UNCHANGED viewVars PROVE ViewInv'
  <2>1. Still /\ UNCHANGED <<written, eof, tab, g_tab, tui, redraw, screen_>>
    BY <1>13 DEF viewVars
  <2>4. StreamInv'
    BY <2>1, <1>w, FrameKept
  <2> QED BY <2>1, <2>4, <1>t, <1>d DEF ViewInv, ViewTypes, DrawnInv
<1> QED
  BY <1>1, <1>2, <1>3, <1>4, <1>5, <1>6, <1>7, <1>8, <1>9, <1>10, <1>11, <1>12, <1>13 DEF ViewNext

LEMMA ViewOk == ViewInv => BackInStep /\ ScreenCurrent
<1> SUFFICES ASSUME ViewInv PROVE BackInStep /\ ScreenCurrent
  OBVIOUS
<1>1. ASSUME split # 0 PROVE pos =< (split - 1 + HeaderLen) * MsgLen + HeaderLen
  <2>1. PICK k \in Nat : Pieces(k) /\ pos = (split - 1) * MsgLen + k * HeaderLen
    BY <1>1 DEF ViewInv, StreamInv
  <2>2. k =< MsgLen + 1
    BY <2>1, MsgType DEF Pieces
  <2>3. split - 1 \in Nat
    BY <1>1 DEF ViewInv, ViewTypes
  <2>4. k * HeaderLen =< (MsgLen + 1) * HeaderLen
    BY <2>2, MsgType
  <2>5. (MsgLen + 1) * HeaderLen = HeaderLen * MsgLen + HeaderLen
    BY MsgType
  <2>6. (split - 1 + HeaderLen) * MsgLen = (split - 1) * MsgLen + HeaderLen * MsgLen
    BY <2>3, MsgType
  <2>7. (split - 1) * MsgLen \in Nat /\ HeaderLen * MsgLen \in Nat /\ k * HeaderLen \in Nat
    BY <2>3, MsgType
  <2> QED BY <2>1, <2>4, <2>5, <2>6, <2>7, MsgType
<1> QED BY <1>1 DEF ViewInv, StreamInv, DrawnInv, BackInStep, ScreenCurrent

-----------------------------------------------------------------------------
(***************************************************************************)
(* The rings of monitord's stores.  A ring with the history s behind it    *)
(* holds entry j of s in slot (j - 1) % Capacity, for the last Capacity    *)
(* of them; the slots that were never written are empty.                   *)
(***************************************************************************)
Values  == {0, 100} \cup TraceIds
Entries == [at : Nat, value : Values]

Slot(j) == (j - 1) % Capacity

RingHolds(buf, top, s) ==
    /\ buf \in [Index -> Entries] /\ s \in Seq(Values)
    /\ top = Len(s) % Capacity
    /\ \A j \in 1 .. Len(s) : j > Len(s) - Capacity => buf[Slot(j)].value = s[j] /\ buf[Slot(j)].at > 0
    /\ \A i \in Index : i >= Len(s) => buf[i] = Empty

LEMMA ModPlusMult ==
  ASSUME NEW a \in Nat, NEW b \in Nat \ {0}, NEW m \in Nat, m % b = 0, NEW x \in Nat, x = a + m
  PROVE  x % b = a % b
<1> DEFINE p == a \div b
           r == a % b
           q == m \div b
<1>1. a = p * b + r /\ r \in 0 .. b - 1 /\ p \in Nat
  BY DivMod
<1>2. m = q * b /\ q \in Nat
  BY DivMod
<1> HIDE DEF p, r, q
<1>3. x = (p + q) * b + r /\ p + q \in Nat
  BY <1>1, <1>2
<1>4. x % b = r
  BY SMTT(30), <1>1, <1>3, DivUnique
<1> QED BY <1>4 DEF r

LEMMA ModPlusOnce ==
  ASSUME NEW a \in Nat, NEW b \in Nat \ {0}, NEW x \in Nat, x = a + b
  PROVE  x % b = a % b
<1> DEFINE p == a \div b
           r == a % b
<1>1. a = p * b + r /\ r \in 0 .. b - 1 /\ p \in Nat
  BY DivMod
<1> HIDE DEF p, r
<1>2. x = (p + 1) * b + r /\ p + 1 \in Nat
  BY <1>1
<1>3. x % b = r
  BY <1>1, <1>2, DivUnique
<1> QED BY <1>3 DEF r

LEMMA ModIn == ASSUME NEW a \in Nat PROVE a % Capacity \in Index /\ a % Capacity \in Nat
<1>1. a % Capacity \in 0 .. Capacity - 1
  BY DivMod, StoreAssumption
<1>2. 0 .. Capacity - 1 \subseteq Nat
  BY StoreAssumption
<1> QED BY <1>1, <1>2 DEF Index

LEMMA ModSmall == ASSUME NEW a \in Nat, a < Capacity PROVE a % Capacity = a
<1>1. a = 0 * Capacity + a /\ a \in 0 .. Capacity - 1
  BY StoreAssumption
<1> QED BY <1>1, DivUnique, StoreAssumption

LEMMA ModSucc == ASSUME NEW a \in Nat PROVE ((a % Capacity) + 1) % Capacity = (a + 1) % Capacity
<1> DEFINE q == a \div Capacity
           r == a % Capacity
<1>1. a = q * Capacity + r /\ q \in Nat
  BY DivMod, StoreAssumption
<1>2. r \in Nat
  BY ModIn
<1> HIDE DEF q, r
<1> DEFINE x == a + 1
           y == r + 1
           m == q * Capacity
<1>3. x = y + m /\ x \in Nat /\ y \in Nat /\ m \in Nat /\ m = q * Capacity
  BY <1>1, <1>2, StoreAssumption
<1> HIDE DEF x, y, m
<1>4. x % Capacity = y % Capacity
  <2>1. m % Capacity = 0
    BY <1>1, <1>3, ModMult, StoreAssumption
  <2> QED BY <1>3, <2>1, ModPlusMult, StoreAssumption
<1> QED BY <1>4 DEF x, y, r

LEMMA PushHolds ==
  ASSUME NEW buf, NEW top, NEW s, RingHolds(buf, top, s), NEW e \in Entries, e.at > 0
  PROVE  RingHolds([buf EXCEPT ![top] = e], (top + 1) % Capacity, Append(s, e.value))
<1> DEFINE v == e.value
           t == Append(s, v)
           L == Len(s)
           new == [buf EXCEPT ![top] = e]
<1>1. v \in Values
  BY DEF Entries
<1>2. s \in Seq(Values) /\ buf \in [Index -> Entries] /\ top = L % Capacity
  BY DEF RingHolds
<1>3. L \in Nat
  BY <1>2, LenProperties
<1>4. t \in Seq(Values) /\ Len(t) = L + 1 /\ (\A i \in 1 .. L : t[i] = s[i]) /\ t[L + 1] = v
  BY <1>1, <1>2, AppendProperties
<1>5. top \in Index
  BY <1>2, <1>3, ModIn
<1>6. new \in [Index -> Entries] /\ new[top] = e /\ (\A i \in Index : i # top => new[i] = buf[i])
  BY <1>2, <1>5
<1>7. (top + 1) % Capacity = Len(t) % Capacity
  BY <1>2, <1>3, <1>4, ModSucc
<1> HIDE DEF t, new, v
<1>8. ASSUME NEW j \in 1 .. Len(t), j > Len(t) - Capacity
      PROVE  new[Slot(j)].value = t[j] /\ new[Slot(j)].at > 0
  <2>0. j \in 1 .. L + 1 /\ j > L + 1 - Capacity /\ j - 1 \in Nat
    BY <1>3, <1>4, <1>8, StoreAssumption
  <2>1. CASE j = L + 1
    <3>1. Slot(j) = top
      BY <2>1, <1>2, <1>3 DEF Slot
    <3> QED BY <3>1, <2>1, <1>4, <1>6 DEF v
  <2>2. CASE j # L + 1
    <3>1. j \in 1 .. L /\ j > L - Capacity /\ j - 1 < L /\ L - (j - 1) < Capacity
      BY <2>0, <2>2, <1>3, StoreAssumption
    <3>2. Slot(j) # top
      BY <3>1, <2>0, <1>2, <1>3, ModNear, StoreAssumption DEF Slot
    <3>3. Slot(j) \in Index
      BY <2>0, ModIn DEF Slot
    <3>4. buf[Slot(j)].value = s[j] /\ buf[Slot(j)].at > 0
      BY <3>1 DEF RingHolds
    <3> QED BY <3>1, <3>2, <3>3, <3>4, <1>4, <1>6
  <2> QED BY <2>1, <2>2
<1>9. ASSUME NEW i \in Index, i >= Len(t) PROVE new[i] = Empty
  <2>1. i \in Nat /\ i > L /\ L < Capacity
    BY <1>3, <1>4, <1>9, StoreAssumption DEF Index
  <2>2. top = L
    BY <2>1, <1>2, <1>3, ModSmall
  <2>3. buf[i] = Empty
    BY <2>1, <1>3 DEF RingHolds
  <2> QED BY <2>1, <2>2, <2>3, <1>6, <1>3
<1>10. RingHolds(new, (top + 1) % Capacity, t)
  BY <1>4, <1>6, <1>7, <1>8, <1>9 DEF RingHolds
<1> QED BY <1>10 DEF new, t, v

\* The slot of an entry, counted from the head.
LEMMA FromSlot ==
  ASSUME NEW L \in Nat, NEW n \in 1 .. Capacity, n =< L, NEW i \in 1 .. n
  PROVE  ((L % Capacity) + Capacity - n + i - 1) % Capacity = Slot(L - n + i)
<1> DEFINE q == L \div Capacity
           r == L % Capacity
           x == r + Capacity - n + i - 1
           y == L - n + i - 1
<1>1. L = q * Capacity + r /\ q \in Nat
  BY DivMod, StoreAssumption
<1>2. r \in Nat
  BY ModIn
<1> HIDE DEF q, r
<1>3. x \in Nat /\ y \in Nat /\ n \in Nat /\ i \in Nat
  BY <1>2, StoreAssumption
<1>4. q * Capacity \in Nat
  BY <1>1, StoreAssumption
<1>5. x + q * Capacity = y + Capacity
  BY <1>1, <1>2, <1>3, <1>4, StoreAssumption
<1> DEFINE z == y + Capacity
<1>6. z \in Nat /\ z = y + Capacity
  BY <1>3, StoreAssumption
<1>7. z = x + q * Capacity
  BY <1>5
<1> HIDE DEF x, y, z
<1>8. z % Capacity = y % Capacity
  BY <1>6, <1>3, ModPlusOnce, StoreAssumption
<1>9. z % Capacity = x % Capacity
  <2> DEFINE p == x \div Capacity
             u == x % Capacity
  <2>1. x = p * Capacity + u /\ u \in 0 .. Capacity - 1 /\ p \in Nat
    BY <1>3, DivMod, StoreAssumption
  <2> HIDE DEF p, u
  <2>2. z = (p + q) * Capacity + u /\ p + q \in Nat
    BY <2>1, <1>7, <1>1, StoreAssumption
  <2>3. z % Capacity = u
    BY <2>1, <2>2, <1>6, DivUnique, StoreAssumption
  <2> QED BY <2>3 DEF u
<1> QED BY <1>8, <1>9 DEF x, y, r, Slot

LEMMA NewestIs ==
  ASSUME NEW s \in Seq(Values), NEW n \in Nat, n =< Len(s)
  PROVE  Newest(s, n) = [i \in 1 .. n |-> s[Len(s) - n + i]]
<1> DEFINE L == Len(s)
           new == SubSeq(s, L - n + 1, L)
<1>1. L \in Nat /\ L - n + 1 \in Int
  BY LenProperties
<1>2. \A i \in L - n + 1 .. L : s[i] \in Values
  BY <1>1, ElementOfSeq
<1>3. /\ new \in Seq(Values) /\ Len(new) = IF L - n + 1 <= L THEN L - (L - n + 1) + 1 ELSE 0
      /\ \A i \in 1 .. L - (L - n + 1) + 1 : new[i] = s[L - n + 1 + i - 1]
  BY <1>1, <1>2, SubSeqProperties
<1> HIDE DEF new
<1>4. Len(new) = n
  BY <1>3, <1>1
<1>5. ASSUME NEW i \in 1 .. n PROVE new[i] = s[L - n + i]
  <2>1. i \in 1 .. L - (L - n + 1) + 1 /\ L - n + 1 + i - 1 = L - n + i
    BY <1>1
  <2> QED BY <2>1, <1>3
<1>6. new = [i \in 1 .. n |-> s[L - n + i]]
  BY <1>3, <1>4, <1>5
<1> QED BY <1>6 DEF new, Newest

\* What is read from a ring.
LEMMA FromHolds ==
  ASSUME NEW buf, NEW top, NEW s, RingHolds(buf, top, s), NEW n \in 0 .. Capacity, n =< Len(s)
  PROVE  LET all == [i \in 1 .. n |-> buf[(top + Capacity - n + i - 1) % Capacity]]
         IN  /\ [i \in 1 .. n |-> all[i].value] = Newest(s, n)
             /\ \A i \in 1 .. n : all[i].at > 0
<1> DEFINE L == Len(s)
           all == [i \in 1 .. n |-> buf[(top + Capacity - n + i - 1) % Capacity]]
<1>1. s \in Seq(Values) /\ top = L % Capacity /\ L \in Nat
  BY LenProperties DEF RingHolds
<1>2. ASSUME NEW i \in 1 .. n PROVE all[i].value = s[L - n + i] /\ all[i].at > 0
  <2>1. n \in 1 .. Capacity /\ n \in Nat /\ i \in Nat
    BY StoreAssumption
  <2>2. all[i] = buf[Slot(L - n + i)]
    BY <1>1, <2>1, FromSlot
  <2>3. L - n + i \in 1 .. L /\ L - n + i > L - Capacity
    BY <1>1, <2>1, StoreAssumption
  <2> QED BY <2>2, <2>3 DEF RingHolds
<1>3. [i \in 1 .. n |-> all[i].value] = Newest(s, n)
  <2>1. n \in Nat
    BY StoreAssumption
  <2>2. Newest(s, n) = [i \in 1 .. n |-> s[L - n + i]]
    BY <1>1, <2>1, NewestIs
  <2> HIDE DEF all
  <2> QED BY <2>2, <1>2
<1> QED BY <1>2, <1>3

HealthRec == [ring : [Index -> Entries], head : Nat, last : Nat]
MetricRec == [ring : [Index -> Entries], head : Nat, count : Nat, last : Nat]
TracesRec == [ring : [Index -> Entries], head : Nat, count : Nat]

Held(n) == IF n < Capacity THEN n ELSE Capacity

StoreInv ==
    /\ time \in Nat \ {0}
    /\ past = [fired |-> past.fired, health |-> past.health, metric |-> past.metric, traces |-> past.traces]
    /\ health \in HealthRec /\ metric \in MetricRec /\ traces \in TracesRec
    /\ RingHolds(health.ring, health.head, past.health)
    /\ RingHolds(metric.ring, metric.head, past.metric)
    /\ metric.count = Held(Len(past.metric))
    /\ RingHolds(traces.ring, traces.head, past.traces)
    /\ traces.count = Held(Len(past.traces))

LEMMA EmptyHolds == RingHolds([i \in Index |-> Empty], 0, << >>) /\ Held(Len(<< >>)) = 0 /\ [i \in Index |-> Empty] \in [Index -> Entries]
<1>1. Empty \in Entries
  BY DEF Empty, Entries, Values
<1>2. << >> \in Seq(Values) /\ Len(<< >>) = 0
  BY EmptySeq
<1>3. 0 % Capacity = 0
  BY StoreAssumption, ModSmall
<1>4. Held(0) = 0
  BY StoreAssumption DEF Held
<1> QED BY <1>1, <1>2, <1>3, <1>4 DEF RingHolds

LEMMA StoreStart == StoreInit => StoreInv
<1> SUFFICES ASSUME StoreInit PROVE StoreInv
  OBVIOUS
<1>1. health.ring = [i \in Index |-> Empty] /\ metric.ring = [i \in Index |-> Empty] /\ traces.ring = [i \in Index |-> Empty]
  BY DEF StoreInit
<1>2. /\ health.head = 0 /\ metric.head = 0 /\ traces.head = 0 /\ metric.count = 0 /\ traces.count = 0
      /\ past.health = << >> /\ past.metric = << >> /\ past.traces = << >>
  BY DEF StoreInit
<1>3. health \in HealthRec /\ metric \in MetricRec /\ traces \in TracesRec
  BY EmptyHolds DEF StoreInit, HealthRec, MetricRec, TracesRec
<1>4. time \in Nat \ {0} /\ past = [fired |-> past.fired, health |-> past.health, metric |-> past.metric, traces |-> past.traces]
  BY DEF StoreInit
<1> QED BY <1>1, <1>2, <1>3, <1>4, EmptyHolds DEF StoreInv

LEMMA HeldNext ==
  ASSUME NEW n \in Nat
  PROVE  Counted1(Held(n)) = Held(n + 1) /\ Held(n + 1) \in Nat
BY StoreAssumption DEF Counted1, Held

LEMMA EntryType ==
  ASSUME NEW v \in Values, time \in Nat \ {0}
  PROVE  LET e == [at |-> time, value |-> v] IN e \in Entries /\ e.at > 0 /\ e.value = v
BY DEF Entries

\* A push into each of the stores.
LEMMA HealthPush ==
  ASSUME StoreInv, NEW v \in Values, health_history_push(v)
  PROVE  StoreInv'
<1> DEFINE e == [at |-> time, value |-> v]
           r == [health EXCEPT !.ring[health.head] = e]
           s == [r EXCEPT !.head = (health.head + 1) % Capacity]
<1>e. e \in Entries /\ e.at > 0 /\ e.value = v
  BY EntryType DEF StoreInv
<1>t. health \in HealthRec /\ time \in Nat /\ RingHolds(health.ring, health.head, past.health)
  BY DEF StoreInv
<1>1. health' = [s EXCEPT !.last = time]
  BY DEF health_history_push, Pushed
<1> HIDE DEF e
<1>2. RingHolds([health.ring EXCEPT ![health.head] = e], (health.head + 1) % Capacity, Append(past.health, v))
  BY <1>e, <1>t, PushHolds
<1>3. (health.head + 1) % Capacity \in Nat
  BY <1>t, ModIn DEF HealthRec
<1>4. r \in HealthRec /\ r.ring = [health.ring EXCEPT ![health.head] = e]
  BY <1>e, <1>t DEF HealthRec
<1> HIDE DEF r
<1>5. s \in HealthRec /\ s.ring = r.ring /\ s.head = (health.head + 1) % Capacity
  BY <1>3, <1>4 DEF HealthRec
<1> HIDE DEF s
<1>6. health' \in HealthRec /\ health'.ring = s.ring /\ health'.head = s.head
  BY <1>1, <1>5, <1>t DEF HealthRec
<1>7. /\ past'.health = Append(past.health, v) /\ past'.metric = past.metric /\ past'.traces = past.traces
      /\ past' = [fired |-> past'.fired, health |-> past'.health, metric |-> past'.metric, traces |-> past'.traces]
  BY DEF health_history_push, StoreInv
<1>8. UNCHANGED <<time, metric, traces>>
  BY DEF health_history_push
<1> QED BY <1>2, <1>4, <1>5, <1>6, <1>7, <1>8 DEF StoreInv

LEMMA MetricPush ==
  ASSUME StoreInv, NEW v \in Values, metrics_history_push(v)
  PROVE  StoreInv'
<1> DEFINE e == [at |-> time, value |-> v]
           r == [metric EXCEPT !.ring[metric.head] = e]
           s == [r EXCEPT !.head = (metric.head + 1) % Capacity]
           t == [s EXCEPT !.last = time]
<1>e. e \in Entries /\ e.at > 0 /\ e.value = v
  BY EntryType DEF StoreInv
<1>t. metric \in MetricRec /\ time \in Nat /\ RingHolds(metric.ring, metric.head, past.metric)
  BY DEF StoreInv
<1>1. metric' = [t EXCEPT !.count = Counted1(metric.count)]
  BY <1>t DEF metrics_history_push, Pushed, MetricRec
<1> HIDE DEF e
<1>2. RingHolds([metric.ring EXCEPT ![metric.head] = e], (metric.head + 1) % Capacity, Append(past.metric, v))
  BY <1>e, <1>t, PushHolds
<1>3. (metric.head + 1) % Capacity \in Nat
  BY <1>t, ModIn DEF MetricRec
<1>4. r \in MetricRec /\ r.ring = [metric.ring EXCEPT ![metric.head] = e]
  BY <1>e, <1>t DEF MetricRec
<1> HIDE DEF r
<1>5. s \in MetricRec /\ s.ring = r.ring /\ s.head = (metric.head + 1) % Capacity
  BY <1>3, <1>4 DEF MetricRec
<1> HIDE DEF s
<1>6. t \in MetricRec /\ t.ring = s.ring /\ t.head = s.head
  BY <1>5, <1>t DEF MetricRec
<1> HIDE DEF t
<1>7. Counted1(metric.count) = Held(Len(past.metric) + 1) /\ Counted1(metric.count) \in Nat
  <2>1. Len(past.metric) \in Nat /\ metric.count = Held(Len(past.metric))
    BY LenProperties DEF StoreInv, RingHolds
  <2> QED BY <2>1, HeldNext
<1>8. metric' \in MetricRec /\ metric'.ring = t.ring /\ metric'.head = t.head /\ metric'.count = Counted1(metric.count)
  BY <1>1, <1>6, <1>7 DEF MetricRec
<1>9. /\ past'.metric = Append(past.metric, v) /\ past'.health = past.health /\ past'.traces = past.traces
      /\ past' = [fired |-> past'.fired, health |-> past'.health, metric |-> past'.metric, traces |-> past'.traces]
  BY DEF metrics_history_push, StoreInv
<1>10. UNCHANGED <<time, health, traces>>
  BY DEF metrics_history_push
<1>11. Len(Append(past.metric, v)) = Len(past.metric) + 1
  BY <1>t, AppendProperties DEF RingHolds
<1> QED BY <1>2, <1>4, <1>5, <1>6, <1>7, <1>8, <1>9, <1>10, <1>11 DEF StoreInv

LEMMA TracePush ==
  ASSUME StoreInv, NEW v \in Values, trace_store_add_trace(v)
  PROVE  StoreInv'
<1> DEFINE e == [at |-> time, value |-> v]
           r == [traces EXCEPT !.ring[traces.head] = e]
           s == [r EXCEPT !.head = (traces.head + 1) % Capacity]
<1>e. e \in Entries /\ e.at > 0 /\ e.value = v
  BY EntryType DEF StoreInv
<1>t. traces \in TracesRec /\ time \in Nat /\ RingHolds(traces.ring, traces.head, past.traces)
  BY DEF StoreInv
<1>1. traces' = [s EXCEPT !.count = Counted1(traces.count)]
  BY <1>t DEF trace_store_add_trace, Pushed, TracesRec
<1> HIDE DEF e
<1>2. RingHolds([traces.ring EXCEPT ![traces.head] = e], (traces.head + 1) % Capacity, Append(past.traces, v))
  BY <1>e, <1>t, PushHolds
<1>3. (traces.head + 1) % Capacity \in Nat
  BY <1>t, ModIn DEF TracesRec
<1>4. r \in TracesRec /\ r.ring = [traces.ring EXCEPT ![traces.head] = e]
  BY <1>e, <1>t DEF TracesRec
<1> HIDE DEF r
<1>5. s \in TracesRec /\ s.ring = r.ring /\ s.head = (traces.head + 1) % Capacity
  BY <1>3, <1>4 DEF TracesRec
<1> HIDE DEF s
<1>7. Counted1(traces.count) = Held(Len(past.traces) + 1) /\ Counted1(traces.count) \in Nat
  <2>1. Len(past.traces) \in Nat /\ traces.count = Held(Len(past.traces))
    BY LenProperties DEF StoreInv, RingHolds
  <2> QED BY <2>1, HeldNext
<1>8. traces' \in TracesRec /\ traces'.ring = s.ring /\ traces'.head = s.head /\ traces'.count = Counted1(traces.count)
  BY <1>1, <1>5, <1>7 DEF TracesRec
<1>9. /\ past'.traces = Append(past.traces, v) /\ past'.health = past.health /\ past'.metric = past.metric
      /\ past' = [fired |-> past'.fired, health |-> past'.health, metric |-> past'.metric, traces |-> past'.traces]
  BY DEF trace_store_add_trace, StoreInv
<1>10. UNCHANGED <<time, health, metric>>
  BY DEF trace_store_add_trace
<1>11. Len(Append(past.traces, v)) = Len(past.traces) + 1
  BY <1>t, AppendProperties DEF RingHolds
<1> QED BY <1>2, <1>4, <1>5, <1>7, <1>8, <1>9, <1>10, <1>11 DEF StoreInv

LEMMA StoreStep == StoreInv /\ [StoreNext]_storeVars => StoreInv'
<1> SUFFICES ASSUME StoreInv, [StoreNext]_storeVars PROVE StoreInv'
  OBVIOUS
<1> DEFINE Quiet == /\ UNCHANGED <<time, health, metric, traces>>
                    /\ past'.health = past.health /\ past'.metric = past.metric /\ past'.traces = past.traces
                    /\ past' = [fired |-> past'.fired, health |-> past'.health, metric |-> past'.metric, traces |-> past'.traces]
<1>q. ASSUME Quiet PROVE StoreInv'
  BY <1>q DEF StoreInv
<1>1. ASSUME NEW facts, alert_rules_evaluate(facts) PROVE StoreInv'
  <2> DEFINE fire == CriticalRules(facts) \o WarningRules(facts)
             more == past.fired \o [i \in DOMAIN fire |-> [key |-> fire[i], at |-> time]]
  <2>1. past' = [past EXCEPT !.fired = more] /\ UNCHANGED <<time, health, metric, traces>>
    BY <1>1 DEF alert_rules_evaluate
  <2> HIDE DEF more
  <2>2. Quiet
    BY <2>1 DEF StoreInv
  <2> QED BY <2>2, <1>q
<1>2. ASSUME alert_clear_all PROVE StoreInv'
  <2>1. Quiet
    BY <1>2 DEF alert_clear_all, StoreInv
  <2> QED BY <2>1, <1>q
<1>3. ASSUME ClockTicks PROVE StoreInv'
  <2>1. time' \in Nat \ {0} /\ UNCHANGED <<health, metric, traces, past>>
    BY <1>3 DEF ClockTicks, StoreInv
  <2> QED BY <2>1 DEF StoreInv
<1>4. ASSUME UNCHANGED storeVars PROVE StoreInv'
  BY <1>4 DEF storeVars, StoreInv
<1>5. 0 \in Values /\ 100 \in Values /\ TraceIds \subseteq Values
  BY DEF Values
<1> QED BY <1>1, <1>2, <1>3, <1>4, <1>5, HealthPush, MetricPush, TracePush DEF StoreNext

LEMMA StoresOk == StoreInv => ReadersGetNewest /\ FoundIffRecent
<1> SUFFICES ASSUME StoreInv PROVE ReadersGetNewest /\ FoundIffRecent
  OBVIOUS
<1> DEFINE hs == past.health
           ms == past.metric
           ts == past.traces
<1>0. /\ RingHolds(health.ring, health.head, hs) /\ RingHolds(metric.ring, metric.head, ms) /\ RingHolds(traces.ring, traces.head, ts)
      /\ metric.count = Held(Len(ms)) /\ traces.count = Held(Len(ts))
  BY DEF StoreInv
<1>l. Len(hs) \in Nat /\ Len(ms) \in Nat /\ Len(ts) \in Nat
  BY SMTT(30), <1>0, LenProperties DEF RingHolds
<1> HIDE DEF hs, ms, ts
<1>1. ASSUME NEW n \in 1 .. Capacity
      PROVE  metrics_history_get_last(n) = Newest(ms, IF Len(ms) < n THEN Len(ms) ELSE n)
  <2> DEFINE k == IF Len(ms) < n THEN Len(ms) ELSE n
  <2>1. k \in 0 .. Capacity /\ k =< Len(ms) /\ k = IF metric.count < n THEN metric.count ELSE n
    BY <1>0, <1>l, StoreAssumption DEF Held
  <2> HIDE DEF k
  <2> DEFINE all == [i \in 1 .. k |-> metric.ring[(metric.head + Capacity - k + i - 1) % Capacity]]
  <2>2. [i \in 1 .. k |-> all[i].value] = Newest(ms, k)
    <3>1. k \in 0 .. Capacity /\ k =< Len(ms)
      BY <2>1
    <3>2. RingHolds(metric.ring, metric.head, ms)
      BY <1>0
    <3> QED BY <3>1, <3>2, FromHolds
  <2>3. metrics_history_get_last(n) = [i \in DOMAIN all |-> all[i].value]
    BY <2>1 DEF metrics_history_get_last, From
  <2>4. DOMAIN all = 1 .. k
    OBVIOUS
  <2> QED BY <2>2, <2>3, <2>4 DEF k
<1>2. ASSUME NEW n \in 1 .. Capacity
      PROVE  trace_store_get_recent(n) = Newest(ts, IF Len(ts) < n THEN Len(ts) ELSE n)
  <2> DEFINE k == IF Len(ts) < n THEN Len(ts) ELSE n
  <2>1. k \in 0 .. Capacity /\ k =< Len(ts) /\ k = IF traces.count < n THEN traces.count ELSE n
    BY <1>0, <1>l, StoreAssumption DEF Held
  <2> HIDE DEF k
  <2> DEFINE all == [i \in 1 .. k |-> traces.ring[(traces.head + Capacity - k + i - 1) % Capacity]]
  <2>2. [i \in 1 .. k |-> all[i].value] = Newest(ts, k)
    <3>1. k \in 0 .. Capacity /\ k =< Len(ts)
      BY <2>1
    <3>2. RingHolds(traces.ring, traces.head, ts)
      BY <1>0
    <3> QED BY <3>1, <3>2, FromHolds
  <2>3. trace_store_get_recent(n) = [i \in DOMAIN all |-> all[i].value]
    BY <2>1 DEF trace_store_get_recent, From
  <2>4. DOMAIN all = 1 .. k
    OBVIOUS
  <2> QED BY <2>2, <2>3, <2>4 DEF k
<1>3. ASSUME NEW n \in 1 .. Capacity
      PROVE  health_history_get_latest(n) = IF Len(hs) < n THEN << >> ELSE Newest(hs, n)
  <2>n. n \in 0 .. Capacity /\ n \in Nat
    BY StoreAssumption
  <2> DEFINE all   == [i \in 1 .. n |-> health.ring[(health.head + Capacity - n + i - 1) % Capacity]]
             blank == {i \in 1 .. n : all[i].at = 0}
             first == CHOOSE i \in blank : \A j \in blank : i =< j
             stop  == IF blank = {} THEN n ELSE first - 1
  <2>1. health_history_get_latest(n) = [i \in 1 .. stop |-> all[i].value]
    BY DEF health_history_get_latest, From
  <2>2. CASE n =< Len(hs)
    <3>1. [i \in 1 .. n |-> all[i].value] = Newest(hs, n) /\ \A i \in 1 .. n : all[i].at > 0
      BY <1>0, <2>n, <2>2, FromHolds
    <3>2. blank = {}
      <4> HIDE DEF all
      <4> QED BY <3>1
    <3> HIDE DEF blank, first
    <3>3. stop = n
      BY <3>2
    <3> HIDE DEF stop, all
    <3>4. health_history_get_latest(n) = [i \in 1 .. n |-> all[i].value]
      BY <2>1, <3>3
    <3>5. ~(Len(hs) < n)
      BY <2>2, <2>n, <1>l
    <3> QED BY <3>1, <3>4, <3>5
  <2>3. CASE Len(hs) < n
    <3>1. Len(hs) < Capacity /\ health.head = Len(hs) % Capacity
      BY <2>3, <1>0, <1>l, StoreAssumption DEF RingHolds
    <3>2. health.head = Len(hs)
      BY <3>1, <1>l, ModSmall
    <3>3. Len(hs) + Capacity - n \in Nat /\ Len(hs) + Capacity - n < Capacity /\ Len(hs) + Capacity - n >= Len(hs)
      BY <2>3, <1>l, StoreAssumption
    <3>4. (health.head + Capacity - n + 1 - 1) % Capacity = Len(hs) + Capacity - n
      <4>1. health.head + Capacity - n + 1 - 1 = Len(hs) + Capacity - n
        BY <3>2, <1>l, <2>n, StoreAssumption
      <4>2. (Len(hs) + Capacity - n) % Capacity = Len(hs) + Capacity - n
        BY <3>3, ModSmall
      <4> QED BY <4>1, <4>2
    <3>5. Len(hs) + Capacity - n \in Index
      BY <3>3, StoreAssumption DEF Index
    <3>6. 1 \in 1 .. n /\ all[1] = health.ring[Len(hs) + Capacity - n]
      BY <3>4, <2>n
    <3>7. all[1].at = 0
      <4>1. health.ring[Len(hs) + Capacity - n] = Empty
        BY <3>3, <3>5, <1>0 DEF RingHolds
      <4> QED BY <4>1, <3>6 DEF Empty
    <3> HIDE DEF all
    <3>8. 1 \in blank /\ blank \subseteq 1 .. n
      BY <3>6, <3>7
    <3> HIDE DEF blank
    <3>9. \A j \in blank : 1 =< j
      BY <3>8
    <3>10. first \in blank /\ first =< 1
      BY <3>8, <3>9
    <3> HIDE DEF first
    <3>11. first = 1
      BY <3>8, <3>10
    <3>12. stop = 0
      BY <3>8, <3>11
    <3> HIDE DEF stop
    <3>13. [i \in 1 .. stop |-> all[i].value] = << >>
      BY <3>12
    <3> QED BY <2>1, <2>3, <3>13
  <2> QED BY <2>2, <2>3, <2>n, <1>l
<1>4. ReadersGetNewest
  BY <1>1, <1>2, <1>3 DEF ReadersGetNewest, hs, ms, ts
<1>5. FoundIffRecent
  <2> DEFINE L == Len(ts)
             k == IF L < Capacity THEN L ELSE Capacity
             new == Newest(ts, k)
  <2>1. k \in 0 .. Capacity /\ k =< L /\ k = traces.count
    BY <1>0, <1>l, StoreAssumption DEF Held
  <2>2. ts \in Seq(Values) /\ \A j \in 1 .. L : j > L - Capacity => traces.ring[Slot(j)].value = ts[j]
    BY <1>0 DEF RingHolds
  <2>3. new = [i \in 1 .. k |-> ts[L - k + i]]
    <3>1. k \in Nat
      BY <2>1, StoreAssumption
    <3> HIDE DEF k
    <3> QED BY <3>1, <2>1, <2>2, NewestIs
  <2>k. (L < Capacity => k = L) /\ (Capacity =< L => k = Capacity)
    BY <1>l, StoreAssumption
  <2> HIDE DEF k
  <2>4. ASSUME NEW id, NEW i \in 0 .. k - 1, traces.ring[i].value = id PROVE \E j \in 1 .. k : ts[L - k + j] = id
    <3>1. CASE L < Capacity
      <4>1. k = L /\ i + 1 \in 1 .. L /\ i + 1 > L - Capacity /\ i \in Nat /\ i < Capacity
        BY <3>1, <1>l, <2>1, <2>k, StoreAssumption
      <4>2. Slot(i + 1) = i
        BY <4>1, ModSmall DEF Slot
      <4>3. traces.ring[i].value = ts[i + 1]
        BY <4>1, <4>2, <2>2
      <4>4. L - k + (i + 1) = i + 1
        BY <4>1, <1>l
      <4> QED BY <4>1, <4>3, <4>4, <2>4
    <3>2. CASE Capacity =< L
      <4>1. k = Capacity /\ i \in Nat /\ i < Capacity /\ L - 1 - i \in Nat
        BY <3>2, <1>l, <2>1, <2>k, StoreAssumption
      <4> DEFINE y == L - 1 - i
                 q == y \div Capacity
                 t == y % Capacity
      <4>2. y = q * Capacity + t /\ t \in 0 .. Capacity - 1 /\ q \in Nat
        BY <4>1, DivMod, StoreAssumption
      <4> HIDE DEF q, t
      <4> DEFINE x == L - 1 - t
                 j == Capacity - t
      <4>3. x \in Nat /\ x = q * Capacity + i /\ i \in 0 .. Capacity - 1
        BY <4>1, <4>2, <3>2, <1>l, StoreAssumption
      <4>4. x % Capacity = i
        <5> HIDE DEF x
        <5> QED BY ZenonT(60), <4>2, <4>3, DivUnique, StoreAssumption
      <4>5. j \in 1 .. k /\ L - k + j = x + 1 /\ x + 1 \in 1 .. L /\ x + 1 > L - Capacity
        BY <4>1, <4>2, <3>2, <1>l, StoreAssumption
      <4>6. Slot(x + 1) = i
        BY <4>3, <4>4 DEF Slot
      <4> QED BY <4>5, <4>6, <2>2, <2>4
    <3> QED BY <3>1, <3>2, <1>l, StoreAssumption
  <2>5. ASSUME NEW id, NEW j \in 1 .. k, ts[L - k + j] = id PROVE \E i \in 0 .. k - 1 : traces.ring[i].value = id
    <3>1. L - k + j \in 1 .. L /\ L - k + j > L - Capacity /\ L - k + j - 1 \in Nat
      BY SMTT(30), <2>1, <1>l, StoreAssumption
    <3>2. traces.ring[Slot(L - k + j)].value = id
      BY <3>1, <2>2, <2>5
    <3>3. Slot(L - k + j) \in 0 .. k - 1
      <4>1. CASE L < Capacity
        <5>1. k = L /\ L - k + j - 1 = j - 1 /\ j - 1 \in 0 .. k - 1 /\ j - 1 < Capacity
          BY <4>1, <2>1, <2>k, <1>l, StoreAssumption
        <5> QED BY <5>1, <3>1, ModSmall DEF Slot
      <4>2. CASE Capacity =< L
        <5>1. k = Capacity
          BY <4>2, <2>k, <1>l, StoreAssumption
        <5> DEFINE a == (L - k + j) - 1
        <5>2. a \in Nat /\ Slot(L - k + j) = a % Capacity
          <6>1. Slot(L - k + j) = a % Capacity
            BY DEF Slot
          <6>2. a \in Nat
            <7> DEFINE x == L - k + j
            <7>1. x \in 1 .. L
              BY <3>1
            <7> HIDE DEF x
            <7>2. x - 1 \in Nat
              BY <7>1, <1>l
            <7> QED BY <7>2 DEF x
          <6> QED BY <6>1, <6>2
        <5> HIDE DEF a
        <5>3. a % Capacity \in 0 .. Capacity - 1
          BY <5>2, ModIn DEF Index
        <5> QED BY <5>1, <5>2, <5>3
      <4> QED BY <4>1, <4>2, <1>l, StoreAssumption
    <3> QED BY <3>2, <3>3
  <2>6. ASSUME NEW id PROVE id \in Range(new) <=> \E j \in 1 .. k : ts[L - k + j] = id
    <3> HIDE DEF new
    <3> QED BY <2>3 DEF Range
  <2>7. ASSUME NEW id PROVE trace_store_find(id) <=> \E i \in 0 .. k - 1 : traces.ring[i].value = id
    BY <2>1 DEF trace_store_find
  <2>8. ASSUME NEW id PROVE trace_store_find(id) <=> id \in Range(new)
    BY <2>4, <2>5, <2>6, <2>7
  <2> QED BY <2>8 DEF FoundIffRecent, k, ts
<1> QED BY <1>4, <1>5

-----------------------------------------------------------------------------
(***************************************************************************)
(* The operator's tools.  At most one of the programs runs; the terminal   *)
(* and a program that uses sm_cli_* have the same kind of connection.      *)
(***************************************************************************)
Replies == Codes \cup {"entry", "closed", "none"}
ApiRec  == [at : {"other", "ready", "send", "recv", "done"}, call : ClientCalls \cup {"none"}, fd : BOOLEAN,
            reply : Replies, rc : Codes \cup {"none"}]

\* A call has its answer only once it waits for it, and the right kind.
ApiInv ==
    /\ api \in ApiRec
    /\ api.at = "send" => api.reply = "none"
    /\ api.reply = "OK" => api.call # "lookup"
    /\ CallTellsTruth

LEMMA ResultKeeps ==
  ASSUME ApiInv, NEW rc \in Codes, CallResult(rc), api.at \in {"send", "recv"},
         rc = "OK" => api.reply \in {"OK", "entry"},
         api.reply \in Codes => rc = IF api.call = "lookup" THEN "INVALID" ELSE api.reply
  PROVE  ApiInv'
<1> DEFINE a == [api EXCEPT !.at = "done"]
           b == [a EXCEPT !.fd = FALSE]
<1>1. api' = [b EXCEPT !.rc = rc]
  BY DEF CallResult
<1>2. a \in ApiRec /\ a.at = "done" /\ a.reply = api.reply /\ a.call = api.call
  BY DEF ApiInv, ApiRec
<1> HIDE DEF a
<1>3. b \in ApiRec /\ b.at = "done" /\ b.reply = a.reply /\ b.call = a.call /\ b.fd = FALSE
  BY <1>2 DEF ApiRec
<1> HIDE DEF b
<1>4. api' \in ApiRec /\ api'.at = "done" /\ api'.reply = b.reply /\ api'.call = b.call /\ api'.fd = FALSE /\ api'.rc = rc
  BY <1>1, <1>3 DEF ApiRec
<1> QED BY <1>2, <1>3, <1>4 DEF ApiInv, CallTellsTruth

LEMMA BeginKeeps ==
  ASSUME ApiInv, NEW op \in ClientCalls, NEW valid \in BOOLEAN, NEW connected \in BOOLEAN, CallBegin(op, valid, connected)
  PROVE  ApiInv'
<1> DEFINE go == valid /\ connected
           rc == CASE ~valid -> "INVALID" [] valid /\ ~connected -> "NOT_FOUND" [] OTHER -> "none"
           step == IF go THEN "send" ELSE "done"
           a == [api EXCEPT !.call = op]
           b == [a EXCEPT !.reply = "none"]
           c == [b EXCEPT !.at = step]
           d == [c EXCEPT !.fd = go]
<1>1. api' = [d EXCEPT !.rc = rc]
  BY DEF CallBegin
<1>2. rc \in {"INVALID", "NOT_FOUND", "none"} /\ step \in {"send", "done"} /\ (step = "done" => go = FALSE) /\ go \in BOOLEAN
  OBVIOUS
<1> HIDE DEF rc, step, go
<1>3. a \in ApiRec /\ a.call = op
  BY DEF ApiInv, ApiRec
<1> HIDE DEF a
<1>4. b \in ApiRec /\ b.call = op /\ b.reply = "none"
  BY <1>3 DEF ApiRec, Replies
<1> HIDE DEF b
<1>5. c \in ApiRec /\ c.call = op /\ c.reply = "none" /\ c.at = step
  BY <1>2, <1>4 DEF ApiRec
<1> HIDE DEF c
<1>6. d \in ApiRec /\ d.call = op /\ d.reply = "none" /\ d.at = step /\ d.fd = go
  BY <1>2, <1>5 DEF ApiRec
<1> HIDE DEF d
<1>7. api' \in ApiRec /\ api'.call = op /\ api'.reply = "none" /\ api'.at = step /\ api'.fd = go /\ api'.rc = rc
  BY <1>1, <1>2, <1>6 DEF ApiRec, Codes
<1> QED BY <1>2, <1>7 DEF ApiInv, CallTellsTruth, Codes

LEMMA ApiStep == ApiInv /\ ApiNext => ApiInv'
<1> SUFFICES ASSUME ApiInv, ApiNext PROVE ApiInv'
  OBVIOUS
<1>1. ASSUME NEW valid \in BOOLEAN, NEW connected \in BOOLEAN,
             \/ sm_register(valid, connected) \/ sm_lookup(valid, connected)
             \/ sm_heartbeat(valid, connected) \/ sm_unregister(valid, connected)
      PROVE  ApiInv'
  <2>1. \E op \in ClientCalls : CallBegin(op, valid, connected)
    BY <1>1 DEF sm_register, sm_lookup, sm_heartbeat, sm_unregister, ClientCalls
  <2> QED BY <2>1, BeginKeeps
<1>2. ASSUME TransactSend PROVE ApiInv'
  <2>1. CASE api' = [api EXCEPT !.at = "recv"]
    <3>1. api' \in ApiRec /\ api'.at = "recv" /\ api'.reply = api.reply /\ api'.call = api.call
      BY <2>1 DEF ApiInv, ApiRec
    <3> QED BY <3>1 DEF ApiInv, CallTellsTruth
  <2>2. CASE CallResult("INVALID")
    <3>1. api.at = "send" /\ api.reply = "none"
      BY <1>2 DEF TransactSend, ApiInv
    <3> QED BY <3>1, <2>2, ResultKeeps DEF Codes
  <2> QED BY <1>2, <2>1, <2>2 DEF TransactSend
<1>3. ASSUME TransactRecv PROVE ApiInv'
  <2>0. api.at = "recv" /\ api.reply \in Replies
    BY <1>3 DEF TransactRecv, ApiInv, ApiRec
  <2>1. CASE api.reply = "entry"
    <3>1. CallResult("OK")
      BY <1>3, <2>1 DEF TransactRecv, Codes
    <3> QED BY <2>0, <2>1, <3>1, ResultKeeps DEF Codes
  <2>2. CASE api.reply \in Codes /\ api.call # "lookup"
    <3>1. CallResult(api.reply)
      BY <1>3, <2>2 DEF TransactRecv, Codes
    <3> QED BY <2>0, <2>2, <3>1, ResultKeeps
  <2>3. CASE api.reply # "entry" /\ ~(api.reply \in Codes /\ api.call # "lookup")
    <3>1. CallResult("INVALID")
      BY <1>3, <2>3 DEF TransactRecv
    <3> QED BY <2>0, <2>3, <3>1, ResultKeeps DEF Codes
  <2> QED BY <2>1, <2>2, <2>3
<1>4. ASSUME CallReturns PROVE ApiInv'
  <2>1. api' \in ApiRec /\ api'.at = "ready" /\ api'.reply = api.reply /\ api'.call = api.call
    BY <1>4 DEF CallReturns, ApiInv, ApiRec
  <2> QED BY <2>1 DEF ApiInv, CallTellsTruth
<1>5. ASSUME NEW reply \in Codes \cup {"entry", "closed"}, ManagerReplies(reply) PROVE ApiInv'
  <2>1. api' \in ApiRec /\ api'.at = "recv" /\ api'.reply = reply /\ api'.call = api.call
    BY <1>5 DEF ManagerReplies, ApiInv, ApiRec, Replies
  <2> QED BY <1>5, <2>1 DEF ApiInv, CallTellsTruth, ManagerReplies
<1> QED BY <1>1, <1>2, <1>3, <1>4, <1>5 DEF ApiNext

CtlSteps == {"other", "ready", "recv", "loop", "sleep", "killed"}
CtlRec   == [at : CtlSteps, sock : BOOLEAN, cmd : 0 .. MaxCommands, output : Seq(Nat), running : BOOLEAN,
             handler : BOOLEAN, cut : BOOLEAN]
WireRec  == [asked : Seq(Nat), answers : Seq(Nat), closed : BOOLEAN]
TermRec  == [at : {"other", "init", "prompt", "recv", "killed", "quit"}, sock : BOOLEAN, mon : BOOLEAN, last : Int,
             cmd : 0 .. MaxCommands, mine : Nat]

\* What the terminal has sent is the command it waits for, and is answered
\* or given up before the next.
TermWire ==
    /\ terminal.at # "recv" => wire.asked = << >> /\ wire.answers = << >>
    /\ terminal.at = "recv" =>
         \/ wire.asked = <<terminal.cmd>> /\ wire.answers = << >>
         \/ wire.asked = << >> /\ wire.answers = <<terminal.cmd>>
         \/ wire.asked = << >> /\ wire.answers = << >>

TermInv ==
    /\ terminal \in TermRec
    /\ terminal.mine # 0 => terminal.mine = terminal.cmd
    /\ terminal.at = "recv" => terminal.cmd # 0

\* Answers in the order of their commands, none before its own.
InOrder(s, n) == \A i \in 1 .. Len(s) : s[i] = s[1] + i - 1 /\ s[i] =< n

\* The commands not answered are the last ones, and the answers not read are
\* those before them.  Unless a call was cut short there is at most one.
CtlWire ==
    LET a == Len(wire.answers)
        k == Len(wire.asked)
    IN  /\ a + k =< ctl.cmd
        /\ \A i \in 1 .. k : wire.asked[i] = ctl.cmd - k + i
        /\ ~wire.closed => \A i \in 1 .. a : wire.answers[i] = ctl.cmd - k - a + i
        /\ InOrder(wire.answers, ctl.cmd)
        /\ ~ctl.cut /\ ctl.at # "recv" => a = 0 /\ k = 0
        /\ ~ctl.cut /\ ctl.at = "recv" => a + k =< 1 /\ \A i \in 1 .. a : wire.answers[i] = ctl.cmd

CtlInv ==
    /\ ctl \in CtlRec
    /\ ctl.at = "other" => ~ctl.handler /\ ~ctl.sock
    /\ ctl.at = "ready" => ~ctl.handler
    /\ ctl.output # << >> => (~ctl.cut => ctl.output = <<ctl.cmd>>) /\ InOrder(ctl.output, ctl.cmd)
    /\ ctl.at = "recv" => ctl.output = << >>

WireInv ==
    /\ wire \in WireRec
    /\ wire.closed => wire.asked = << >>
    /\ ctl.at = "other" \/ terminal.at = "other"
    /\ ctl.at = "other" => TermWire
    /\ terminal.at = "other" => ~terminal.sock
    /\ ctl.at # "other" => CtlWire

LEMMA EmptyIs ==
  ASSUME NEW s \in Seq(Nat)
  PROVE  Len(s) \in Nat /\ (Len(s) = 0 <=> s = << >>)
BY LenProperties, EmptySeq

LEMMA NewWireIs ==
  /\ NewWire \in WireRec /\ NewWire.asked = << >> /\ NewWire.answers = << >> /\ NewWire.closed = FALSE
BY EmptySeq DEF NewWire, WireRec

\* A connection just made or given up.
LEMMA FreshWire ==
  ASSUME WireInv, wire' = NewWire, CtlInv', ctl'.at = "other" \/ terminal'.at = "other",
         terminal'.at = "other" => ~terminal'.sock,
         ctl'.at = "other" => terminal'.at # "recv"
  PROVE  WireInv'
<1>1. wire' \in WireRec /\ wire'.asked = << >> /\ wire'.answers = << >> /\ wire'.closed = FALSE
  BY NewWireIs
<1>2. Len(<< >>) = 0
  OBVIOUS
<1>3. ctl'.cmd \in Nat
  BY ToolAssumption DEF CtlInv, CtlRec
<1>4. CtlWire'
  BY <1>1, <1>2, <1>3 DEF CtlWire, InOrder
<1>5. ctl'.at = "other" => TermWire'
  BY <1>1 DEF TermWire
<1> QED BY <1>1, <1>4, <1>5 DEF WireInv

\* The wire as it is, when ctl moves between steps at which nothing is awaited.
LEMMA SameWire ==
  ASSUME WireInv, UNCHANGED <<wire, terminal>>, ctl.at # "other", ctl'.at # "other", ctl'.cmd = ctl.cmd,
         ctl'.cut = ctl.cut \/ (ctl'.cut /\ ctl'.at # "recv"),
         ctl'.cut \/ (ctl.at = "recv" <=> ctl'.at = "recv")
  PROVE  WireInv'
<1>1. CtlWire
  BY DEF WireInv
<1>2. CtlWire'
  BY <1>1 DEF CtlWire, InOrder
<1> QED BY <1>2 DEF WireInv

LEMMA CtlStep == CtlInv /\ WireInv /\ CtlNext => CtlInv' /\ WireInv'
<1> SUFFICES ASSUME CtlInv, WireInv, CtlNext PROVE CtlInv' /\ WireInv'
  OBVIOUS
<1>t. ctl \in CtlRec /\ wire \in WireRec
  BY DEF CtlInv, WireInv
<1>n. ctl.cmd \in Nat
  BY <1>t, ToolAssumption DEF CtlRec
<1>e. << >> \in Seq(Nat)
  BY EmptySeq
<1>x. ctl.at # "other" => terminal.at = "other" /\ ~terminal.sock /\ CtlWire
  BY DEF WireInv
<1>1. ASSUME CtlConnect \/ CtlDisconnect PROVE CtlInv' /\ WireInv'
  <2>1. PICK ok \in BOOLEAN : ctl' = [ctl EXCEPT !.sock = ok, !.cut = FALSE, !.output = << >>]
    BY <1>1 DEF CtlConnect, CtlDisconnect
  <2>2. ctl.at = "ready" /\ wire' = NewWire /\ UNCHANGED terminal
    BY <1>1 DEF CtlConnect, CtlDisconnect, CtlOnly
  <2> DEFINE a == [ctl EXCEPT !.sock = ok]
             b == [a EXCEPT !.cut = FALSE]
  <2>3. ctl' = [b EXCEPT !.output = << >>]
    BY <2>1
  <2>4. a \in CtlRec /\ a.at = ctl.at /\ a.handler = ctl.handler
    BY <1>t DEF CtlRec
  <2> HIDE DEF a
  <2>5. b \in CtlRec /\ b.at = a.at /\ b.handler = a.handler
    BY <2>4 DEF CtlRec
  <2> HIDE DEF b
  <2>6. ctl' \in CtlRec /\ ctl'.at = b.at /\ ctl'.handler = b.handler /\ ctl'.output = << >>
    BY <2>3, <2>5, <1>e DEF CtlRec
  <2>7. CtlInv'
    BY <2>2, <2>4, <2>5, <2>6 DEF CtlInv
  <2> QED BY <2>2, <2>4, <2>5, <2>6, <2>7, <1>x, FreshWire
<1>2. ASSUME CtlSend PROVE CtlInv' /\ WireInv'
  <2>0. ctl.at \in {"ready", "loop"} /\ ~wire.closed /\ ctl.cmd < MaxCommands /\ UNCHANGED terminal
    BY <1>2 DEF CtlSend, Calls, CtlOnly
  <2> DEFINE a == [ctl EXCEPT !.at = "recv"]
             b == [a EXCEPT !.cmd = ctl.cmd + 1]
             more == Append(wire.asked, ctl.cmd + 1)
  <2>1. ctl' = [b EXCEPT !.output = << >>]
    BY <1>2, <1>t DEF CtlSend, CtlRec
  <2>2. ctl.cmd + 1 \in 0 .. MaxCommands /\ ctl.cmd + 1 \in Nat
    BY <2>0, <1>n, ToolAssumption
  <2>3. a \in CtlRec /\ a.at = "recv" /\ a.handler = ctl.handler /\ a.cut = ctl.cut
    BY <1>t DEF CtlRec, CtlSteps
  <2> HIDE DEF a
  <2>4. b \in CtlRec /\ b.at = a.at /\ b.handler = a.handler /\ b.cmd = ctl.cmd + 1 /\ b.cut = a.cut
    BY <2>2, <2>3 DEF CtlRec
  <2> HIDE DEF b
  <2>5. ctl' \in CtlRec /\ ctl'.at = "recv" /\ ctl'.cut = ctl.cut /\ ctl'.output = << >> /\ ctl'.cmd = ctl.cmd + 1
    BY <2>1, <2>3, <2>4, <1>e DEF CtlRec
  <2>6. CtlInv'
    BY <2>5 DEF CtlInv
  <2>7. wire' = [wire EXCEPT !.asked = more]
    BY <1>2, <1>t DEF CtlSend, WireRec
  <2>8. wire.asked \in Seq(Nat) /\ wire.answers \in Seq(Nat)
    BY <1>t DEF WireRec
  <2> DEFINE k == Len(wire.asked)
             n == Len(wire.answers)
  <2>9. more \in Seq(Nat) /\ Len(more) = k + 1 /\ (\A i \in 1 .. k : more[i] = wire.asked[i]) /\ more[k + 1] = ctl.cmd + 1
    BY <2>2, <2>8, AppendProperties
  <2>10. k \in Nat /\ n \in Nat
    BY <2>8, EmptyIs
  <2> HIDE DEF more
  <2>11. wire' \in WireRec /\ wire'.asked = more /\ wire'.answers = wire.answers /\ wire'.closed = wire.closed
    BY <2>7, <2>9, <1>t DEF WireRec
  <2>12. CtlWire
    BY <2>0, <1>x
  <2>13. CtlWire'
    <3>0. n + k =< ctl.cmd /\ (\A i \in 1 .. k : wire.asked[i] = ctl.cmd - k + i) /\ (\A i \in 1 .. n : wire.answers[i] = ctl.cmd - k - n + i)
      BY <2>0, <2>12 DEF CtlWire
    <3>1. n + (k + 1) =< ctl.cmd + 1
      <4>1. n + k =< ctl.cmd
        BY <3>0
      <4> HIDE DEF n, k
      <4> QED BY <4>1, <2>10, <1>n
    <3>2. ASSUME NEW i \in 1 .. k + 1 PROVE more[i] = (ctl.cmd + 1) - (k + 1) + i
      <4>1. CASE i = k + 1
        BY <4>1, <2>9, <2>10, <1>n
      <4>2. CASE i # k + 1
        <5>1. i \in 1 .. k
          BY <4>2, <2>10
        <5>2. more[i] = ctl.cmd - k + i
          BY <5>1, <2>9, <3>0
        <5> HIDE DEF k
        <5> QED BY <5>1, <5>2, <2>10, <1>n
      <4> QED BY <4>1, <4>2
    <3>3. ASSUME NEW i \in 1 .. n PROVE wire.answers[i] = (ctl.cmd + 1) - (k + 1) - n + i
      <4>1. wire.answers[i] = ctl.cmd - k - n + i
        BY <3>0
      <4>2. i \in Nat
        BY <2>10
      <4> HIDE DEF k, n
      <4> QED BY <4>1, <4>2, <2>10, <1>n
    <3>4. InOrder(wire.answers, ctl.cmd + 1)
      <4> SUFFICES ASSUME NEW i \in 1 .. n PROVE wire.answers[i] = wire.answers[1] + i - 1 /\ wire.answers[i] =< ctl.cmd + 1
        BY DEF InOrder
      <4>1. wire.answers[i] = wire.answers[1] + i - 1 /\ wire.answers[i] =< ctl.cmd
        BY <2>12 DEF CtlWire, InOrder
      <4>2. wire.answers[i] \in Nat
        BY <2>8, ElementOfSeq
      <4> QED BY <4>1, <4>2, <1>n
    <3>5. ~ctl.cut => n + (k + 1) =< 1 /\ \A i \in 1 .. n : wire.answers[i] = ctl.cmd + 1
      <4> SUFFICES ASSUME ~ctl.cut PROVE n + (k + 1) =< 1 /\ \A i \in 1 .. n : wire.answers[i] = ctl.cmd + 1
        OBVIOUS
      <4>1. n = 0 /\ k = 0
        BY <2>0, <2>12 DEF CtlWire
      <4> QED BY <4>1
    <3>6. /\ wire'.asked = more /\ wire'.answers = wire.answers /\ ctl'.cmd = ctl.cmd + 1 /\ ctl'.cut = ctl.cut /\ ctl'.at = "recv"
          /\ Len(wire'.asked) = k + 1 /\ Len(wire'.answers) = n
      BY <2>5, <2>9, <2>11
    <3>7. \A i \in 1 .. k + 1 : wire'.asked[i] = ctl'.cmd - (k + 1) + i
      BY <3>2, <3>6
    <3>8. \A i \in 1 .. n : wire'.answers[i] = ctl'.cmd - (k + 1) - n + i
      BY <3>3, <3>6
    <3>9. InOrder(wire'.answers, ctl'.cmd) /\ n + (k + 1) =< ctl'.cmd
      BY <3>1, <3>4, <3>6
    <3>10. ~ctl'.cut => n + (k + 1) =< 1 /\ \A i \in 1 .. n : wire'.answers[i] = ctl'.cmd
      BY <3>5, <3>6
    <3> HIDE DEF n, k
    <3> QED BY <3>6, <3>7, <3>8, <3>9, <3>10, Zenon DEF CtlWire, InOrder
  <2> QED BY <2>0, <2>5, <2>6, <2>11, <2>13, <1>x DEF WireInv
<1>3. ASSUME CtlRefused PROVE CtlInv' /\ WireInv'
  <2>0. ctl.at \in {"ready", "loop"} /\ UNCHANGED <<wire, terminal>>
    BY <1>3 DEF CtlRefused, Calls, CtlOnly
  <2>1. CASE ctl' = [ctl EXCEPT !.at = NextStep(ctl), !.output = << >>]
    <3> DEFINE a == [ctl EXCEPT !.at = NextStep(ctl)]
    <3>1. ctl' = [a EXCEPT !.output = << >>]
      BY <2>1
    <3>2. NextStep(ctl) \in {"sleep", "ready"} /\ (NextStep(ctl) = "ready" => ~ctl.handler)
      BY DEF NextStep
    <3>3. a \in CtlRec /\ a.at = NextStep(ctl) /\ a.handler = ctl.handler /\ a.cmd = ctl.cmd /\ a.cut = ctl.cut
      BY <3>2, <1>t DEF CtlRec, CtlSteps
    <3> HIDE DEF a
    <3>4. ctl' \in CtlRec /\ ctl'.at = a.at /\ ctl'.handler = a.handler /\ ctl'.cmd = a.cmd /\ ctl'.cut = a.cut /\ ctl'.output = << >>
      BY <3>1, <3>3, <1>e DEF CtlRec
    <3>5. CtlInv'
      BY <3>2, <3>3, <3>4 DEF CtlInv
    <3> QED BY <2>0, <3>2, <3>3, <3>4, <3>5, SameWire
  <2>2. CASE ctl' = [ctl EXCEPT !.at = "killed"]
    <3>1. ctl' \in CtlRec /\ ctl'.at = "killed" /\ ctl'.cmd = ctl.cmd /\ ctl'.cut = ctl.cut /\ ctl'.output = ctl.output
      BY <2>2, <1>t DEF CtlRec, CtlSteps
    <3>2. CtlInv'
      BY <3>1, <2>0 DEF CtlInv
    <3> QED BY <2>0, <3>1, <3>2, SameWire
  <2> QED BY <1>3, <2>1, <2>2 DEF CtlRefused
<1>4. ASSUME CtlRecv PROVE CtlInv' /\ WireInv'
  <2>0. ctl.at = "recv" /\ (wire.answers # << >> \/ wire.closed) /\ UNCHANGED terminal
    BY <1>4 DEF CtlRecv, CtlOnly
  <2> DEFINE a == [ctl EXCEPT !.at = NextStep(ctl)]
             k == Len(wire.asked)
             n == Len(wire.answers)
  <2>1. ctl' = [a EXCEPT !.output = wire.answers]
    BY <1>4 DEF CtlRecv
  <2>2. NextStep(ctl) \in {"sleep", "ready"} /\ (NextStep(ctl) = "ready" => ~ctl.handler)
    BY DEF NextStep
  <2>3. a \in CtlRec /\ a.at = NextStep(ctl) /\ a.handler = ctl.handler /\ a.cmd = ctl.cmd /\ a.cut = ctl.cut
    BY <2>2, <1>t DEF CtlRec, CtlSteps
  <2> HIDE DEF a
  <2>4. wire.asked \in Seq(Nat) /\ wire.answers \in Seq(Nat)
    BY <1>t DEF WireRec
  <2>5. k \in Nat /\ n \in Nat /\ (n = 0 <=> wire.answers = << >>) /\ (k = 0 <=> wire.asked = << >>)
    BY <2>4, EmptyIs
  <2>6. ctl' \in CtlRec /\ ctl'.at = a.at /\ ctl'.handler = a.handler /\ ctl'.cmd = a.cmd /\ ctl'.cut = a.cut /\ ctl'.output = wire.answers
    BY <2>1, <2>3, <2>4 DEF CtlRec
  <2>7. wire' = [wire EXCEPT !.answers = << >>]
    BY <1>4 DEF CtlRecv
  <2>8. wire' \in WireRec /\ wire'.asked = wire.asked /\ wire'.answers = << >> /\ wire'.closed = wire.closed
    BY <2>7, <1>t, <1>e DEF WireRec
  <2>9. CtlWire
    BY <2>0, <1>x
  <2>10. InOrder(wire.answers, ctl.cmd)
    BY <2>9 DEF CtlWire
  <2>11. ASSUME wire.answers # << >>, ~ctl.cut PROVE wire.answers = <<ctl.cmd>> /\ k = 0
    <3>1. n + k =< 1 /\ \A i \in 1 .. n : wire.answers[i] = ctl.cmd
      BY <2>0, <2>9, <2>11 DEF CtlWire
    <3>2. n = 1 /\ k = 0
      <4>1. n # 0 /\ n + k =< 1
        BY <2>5, <2>11, <3>1
      <4> HIDE DEF n, k
      <4> QED BY <2>5, <4>1
    <3> QED BY <2>4, <3>1, <3>2
  <2>12. CtlInv'
    BY <2>2, <2>3, <2>6, <2>10, <2>11 DEF CtlInv
  <2>13. ~ctl.cut => k = 0
    BY <2>0, <2>5, <2>11 DEF WireInv
  <2>14. CtlWire'
    <3>1. Len(<< >>) = 0
      OBVIOUS
    <3>2. 0 + k =< ctl.cmd
      <4>1. n + k =< ctl.cmd
        BY <2>9 DEF CtlWire
      <4> HIDE DEF n, k
      <4> QED BY <4>1, <2>5, <1>n
    <3>3. \A i \in 1 .. k : wire.asked[i] = ctl.cmd - k + i
      BY <2>9 DEF CtlWire
    <3> QED BY <3>1, <3>2, <3>3, <2>2, <2>3, <2>6, <2>8, <2>13 DEF CtlWire, InOrder
  <2> QED BY <2>0, <2>2, <2>3, <2>6, <2>8, <2>12, <2>14, <1>x DEF WireInv
<1>5. ASSUME MonitorStats PROVE CtlInv' /\ WireInv'
  <2> DEFINE a == [ctl EXCEPT !.at = "loop"]
             b == [a EXCEPT !.handler = TRUE]
  <2>1. ctl.at = "ready" /\ ctl' = [b EXCEPT !.running = TRUE] /\ UNCHANGED <<wire, terminal>>
    BY <1>5 DEF MonitorStats, CtlOnly
  <2>2. a \in CtlRec /\ a.at = "loop" /\ a.cmd = ctl.cmd /\ a.cut = ctl.cut /\ a.output = ctl.output
    BY <1>t DEF CtlRec, CtlSteps
  <2> HIDE DEF a
  <2>3. b \in CtlRec /\ b.at = "loop" /\ b.cmd = ctl.cmd /\ b.cut = ctl.cut /\ b.output = ctl.output
    BY <2>2 DEF CtlRec
  <2> HIDE DEF b
  <2>4. ctl' \in CtlRec /\ ctl'.at = "loop" /\ ctl'.cmd = ctl.cmd /\ ctl'.cut = ctl.cut /\ ctl'.output = ctl.output
    BY <2>1, <2>3 DEF CtlRec
  <2>5. CtlInv'
    BY <2>4 DEF CtlInv
  <2> QED BY <2>1, <2>4, <2>5, SameWire
<1>6. ASSUME MonitorSleeps PROVE CtlInv' /\ WireInv'
  <2>1. ctl.at = "sleep" /\ ctl' = [ctl EXCEPT !.at = "loop"] /\ UNCHANGED <<wire, terminal>>
    BY <1>6 DEF MonitorSleeps, CtlOnly
  <2>4. ctl' \in CtlRec /\ ctl'.at = "loop" /\ ctl'.cmd = ctl.cmd /\ ctl'.cut = ctl.cut /\ ctl'.output = ctl.output
    BY <2>1, <1>t DEF CtlRec, CtlSteps
  <2>5. CtlInv'
    BY <2>4 DEF CtlInv
  <2> QED BY <2>1, <2>4, <2>5, SameWire
<1>7. ASSUME MonitorEnds PROVE CtlInv' /\ WireInv'
  <2> DEFINE a == [ctl EXCEPT !.at = "ready"]
             b == [a EXCEPT !.handler = FALSE]
  <2>1. ctl.at = "loop" /\ ctl' = [b EXCEPT !.output = << >>] /\ UNCHANGED <<wire, terminal>>
    BY <1>7 DEF MonitorEnds, CtlOnly
  <2>2. a \in CtlRec /\ a.at = "ready" /\ a.cmd = ctl.cmd /\ a.cut = ctl.cut
    BY <1>t DEF CtlRec, CtlSteps
  <2> HIDE DEF a
  <2>3. b \in CtlRec /\ b.at = "ready" /\ b.cmd = ctl.cmd /\ b.cut = ctl.cut /\ b.handler = FALSE
    BY <2>2 DEF CtlRec
  <2> HIDE DEF b
  <2>4. ctl' \in CtlRec /\ ctl'.at = "ready" /\ ctl'.cmd = ctl.cmd /\ ctl'.cut = ctl.cut /\ ctl'.output = << >> /\ ctl'.handler = FALSE
    BY <2>1, <2>3, <1>e DEF CtlRec
  <2>5. CtlInv'
    BY <2>4 DEF CtlInv
  <2> QED BY <2>1, <2>4, <2>5, SameWire
<1>8. ASSUME Interrupt PROVE CtlInv' /\ WireInv'
  <2> DEFINE step  == IF ctl.at = "recv" THEN "sleep" ELSE ctl.at
             cut == ctl.cut \/ ctl.at = "recv"
             a == [ctl EXCEPT !.running = FALSE]
             b == [a EXCEPT !.at = step]
  <2>1. ctl.handler /\ ctl' = [b EXCEPT !.cut = cut] /\ UNCHANGED <<wire, terminal>>
    BY <1>8, <1>t DEF Interrupt, CtlOnly, CtlRec
  <2>0. ctl.at \in CtlSteps /\ ctl.at \notin {"ready", "other"} /\ ctl.cut \in BOOLEAN
    BY <2>1, <1>t DEF CtlInv, CtlRec
  <2>r. step \in CtlSteps /\ step \notin {"ready", "other", "recv"} /\ cut \in BOOLEAN /\ (ctl.at = "recv" => cut) /\ (ctl.at # "recv" => cut = ctl.cut /\ step = ctl.at)
    BY <2>0 DEF CtlSteps
  <2> HIDE DEF step, cut
  <2>2. a \in CtlRec /\ a.cmd = ctl.cmd /\ a.output = ctl.output
    BY <1>t DEF CtlRec
  <2> HIDE DEF a
  <2>3. b \in CtlRec /\ b.at = step /\ b.cmd = ctl.cmd /\ b.output = ctl.output
    BY <2>2, <2>r DEF CtlRec
  <2> HIDE DEF b
  <2>4. ctl' \in CtlRec /\ ctl'.at = step /\ ctl'.cmd = ctl.cmd /\ ctl'.cut = cut /\ ctl'.output = ctl.output
    BY <2>1, <2>3, <2>r DEF CtlRec
  <2>5. CtlInv'
    BY <2>0, <2>r, <2>4 DEF CtlInv
  <2> QED BY <2>0, <2>1, <2>r, <2>4, <2>5, SameWire
<1> QED BY <1>1, <1>2, <1>3, <1>4, <1>5, <1>6, <1>7, <1>8 DEF CtlNext

\* A connection attempted, or given up.
LEMMA AttemptedIs ==
  ASSUME NEW t \in TermRec, NEW ok \in BOOLEAN, second \in Int
  PROVE  /\ Attempted(t, ok) \in TermRec /\ Attempted(t, ok).at = t.at
         /\ Attempted(t, ok).cmd = t.cmd /\ Attempted(t, ok).mine = t.mine
<1> DEFINE a == [t EXCEPT !.last = second]
<1>1. Attempted(t, ok) = [a EXCEPT !.sock = ok]
  BY DEF Attempted
<1>2. a \in TermRec /\ a.at = t.at /\ a.cmd = t.cmd /\ a.mine = t.mine
  BY DEF TermRec
<1> HIDE DEF a
<1> QED BY <1>1, <1>2 DEF TermRec

\* The terminal moves on over a wire on which nothing is left.
LEMMA TermQuiet ==
  ASSUME WireInv, UNCHANGED <<ctl, wire>>, terminal.at # "other", terminal'.at # "other",
         terminal.at # "recv" \/ (wire.asked = << >> /\ wire.answers = << >>), terminal'.at # "recv"
  PROVE  WireInv'
<1>1. ctl.at = "other" /\ TermWire
  BY DEF WireInv
<1>2. TermWire'
  BY <1>1 DEF TermWire
<1> QED BY <1>1, <1>2 DEF WireInv

LEMMA TermSends ==
  ASSUME WireInv, ctl.at = "other", terminal.at # "other", UNCHANGED ctl, wire' \in WireRec,
         wire'.asked = <<terminal'.cmd>>, wire'.answers = << >>, ~wire'.closed, terminal'.at = "recv"
  PROVE  WireInv'
<1>1. TermWire'
  BY DEF TermWire
<1> QED BY <1>1 DEF WireInv

LEMMA TerminalStep == CtlInv /\ TermInv /\ WireInv /\ second \in Int /\ TerminalNext => TermInv' /\ WireInv' /\ second' \in Int
<1> SUFFICES ASSUME CtlInv, TermInv, WireInv, second \in Int, TerminalNext PROVE TermInv' /\ WireInv' /\ second' \in Int
  OBVIOUS
<1>t. terminal \in TermRec /\ wire \in WireRec
  BY DEF TermInv, WireInv
<1>n. terminal.cmd \in Nat /\ terminal.mine \in Nat
  BY <1>t, ToolAssumption DEF TermRec
<1>x. terminal.at # "other" => ctl.at = "other" /\ TermWire
  BY DEF WireInv
<1>c. ASSUME UNCHANGED ctl PROVE CtlInv'
  BY <1>c DEF CtlInv
<1>f. ASSUME terminal.at # "other", terminal'.at \notin {"recv", "other"}, UNCHANGED ctl, wire' = NewWire PROVE WireInv'
  BY <1>c, <1>f, <1>x, FreshWire
<1>1. ASSUME StartTerminal PROVE TermInv' /\ WireInv' /\ second' \in Int
  <2>1. PICK ok \in BOOLEAN, mon \in BOOLEAN :
           terminal' = [MonitorAttempted(Attempted(terminal, ok), mon) EXCEPT !.at = "prompt"]
    BY <1>1 DEF StartTerminal
  <2>2. terminal.at = "init" /\ wire' = NewWire /\ UNCHANGED <<second, ctl>>
    BY <1>1 DEF StartTerminal, TermOnly
  <2> DEFINE a == Attempted(terminal, ok)
             b == MonitorAttempted(a, mon)
  <2>3. a \in TermRec /\ a.cmd = terminal.cmd /\ a.mine = terminal.mine
    BY <1>t, AttemptedIs
  <2> HIDE DEF a
  <2>4. b \in TermRec /\ b.cmd = terminal.cmd /\ b.mine = terminal.mine
    BY <2>3 DEF MonitorAttempted, TermRec
  <2>5. terminal' = [b EXCEPT !.at = "prompt"]
    BY <2>1 DEF a
  <2> HIDE DEF b
  <2>6. terminal' \in TermRec /\ terminal'.at = "prompt" /\ terminal'.cmd = terminal.cmd /\ terminal'.mine = terminal.mine
    BY <2>4, <2>5 DEF TermRec
  <2>7. TermInv'
    BY <2>6 DEF TermInv
  <2> QED BY <2>2, <2>6, <2>7, <1>f
<1>2. ASSUME terminal.at = "prompt", Reconnect(terminal), UNCHANGED <<second, ctl>> PROVE TermInv' /\ WireInv' /\ second' \in Int
  <2>1. wire' = NewWire
    BY <1>2 DEF Reconnect
  <2>2. terminal' \in TermRec /\ terminal'.at = "prompt" /\ terminal'.cmd = terminal.cmd /\ terminal'.mine = terminal.mine
    <3>1. CASE MayAttempt
      BY <1>2, <1>t, <3>1, AttemptedIs DEF Reconnect
    <3>2. CASE ~MayAttempt
      <4>1. terminal' = [terminal EXCEPT !.sock = FALSE]
        BY <1>2, <3>2 DEF Reconnect
      <4> QED BY <4>1, <1>2, <1>t DEF TermRec
    <3> QED BY <3>1, <3>2
  <2>3. TermInv'
    BY <2>2 DEF TermInv
  <2> QED BY <1>2, <2>1, <2>2, <2>3, <1>f
<1>3. ASSUME PingCommand PROVE TermInv' /\ WireInv' /\ second' \in Int
  <2>1. terminal.at = "prompt" /\ UNCHANGED <<second, ctl>>
    BY <1>3 DEF PingCommand, Execute, TermOnly
  <2>2. CASE terminal.sock
    <3>1. UNCHANGED <<terminal, wire>>
      BY <1>3, <2>2 DEF PingCommand
    <3> QED BY <2>1, <3>1, TermQuiet DEF TermInv
  <2>3. CASE ~terminal.sock
    <3>1. Reconnect(terminal)
      BY <1>3, <2>3 DEF PingCommand
    <3> QED BY <2>1, <3>1, <1>2
  <2> QED BY <2>2, <2>3
<1>4. ASSUME ConnectCommand PROVE TermInv' /\ WireInv' /\ second' \in Int
  BY <1>4, <1>2 DEF ConnectCommand, Execute, TermOnly
<1>5. ASSUME SendCommand PROVE TermInv' /\ WireInv' /\ second' \in Int
  <2>0. terminal.at = "prompt" /\ terminal.cmd < MaxCommands /\ UNCHANGED <<second, ctl>>
    BY <1>5 DEF SendCommand, Execute, TermOnly
  <2>e. wire.asked = << >> /\ wire.answers = << >>
    BY <2>0, <1>x DEF TermWire
  <2>c. terminal.cmd + 1 \in 0 .. MaxCommands /\ terminal.cmd + 1 \in Nat
    BY <2>0, <1>n, ToolAssumption
  <2>s. <<terminal.cmd + 1>> \in Seq(Nat) /\ Append(<< >>, terminal.cmd + 1) = <<terminal.cmd + 1>>
    BY <2>c
  <2>1. ASSUME NEW t \in TermRec, t.cmd = terminal.cmd,
               terminal' = [t EXCEPT !.at = "recv", !.cmd = t.cmd + 1, !.mine = 0]
        PROVE  terminal' \in TermRec /\ terminal'.at = "recv" /\ terminal'.cmd = terminal.cmd + 1 /\ terminal'.mine = 0
    <3> DEFINE a == [t EXCEPT !.at = "recv"]
               b == [a EXCEPT !.cmd = terminal.cmd + 1]
    <3>1. terminal' = [b EXCEPT !.mine = 0]
      BY <2>1 DEF TermRec
    <3>2. a \in TermRec /\ a.at = "recv"
      BY DEF TermRec
    <3> HIDE DEF a
    <3>3. b \in TermRec /\ b.at = "recv" /\ b.cmd = terminal.cmd + 1
      BY <3>2, <2>c DEF TermRec
    <3> HIDE DEF b
    <3> QED BY <3>1, <3>3 DEF TermRec
  <2>2. CASE terminal.sock
    <3>1. /\ ~wire.closed /\ terminal' = [terminal EXCEPT !.at = "recv", !.cmd = @ + 1, !.mine = 0]
          /\ wire' = [wire EXCEPT !.asked = Append(@, terminal.cmd + 1)]
      BY <1>5, <2>2 DEF SendCommand
    <3>2. terminal' = [terminal EXCEPT !.at = "recv", !.cmd = terminal.cmd + 1, !.mine = 0]
      BY <3>1, <1>t DEF TermRec
    <3>3. terminal' \in TermRec /\ terminal'.at = "recv" /\ terminal'.cmd = terminal.cmd + 1 /\ terminal'.mine = 0
      BY <1>t, <2>1, <3>2
    <3>4. wire' = [wire EXCEPT !.asked = <<terminal.cmd + 1>>]
      BY <3>1, <2>e, <2>s, <1>t DEF WireRec
    <3>5. wire' \in WireRec /\ wire'.asked = <<terminal.cmd + 1>> /\ wire'.answers = << >> /\ ~wire'.closed
      BY <3>1, <3>4, <2>e, <2>s, <1>t DEF WireRec
    <3>6. TermInv'
      BY <3>3, <2>c, <1>n DEF TermInv
    <3> QED BY <2>0, <3>3, <3>5, <3>6, <1>x, TermSends
  <2>3. CASE ~terminal.sock
    <3> DEFINE t == Attempted(terminal, TRUE)
    <3>1. terminal' = [t EXCEPT !.at = "recv", !.cmd = @ + 1, !.mine = 0] /\ wire' = [NewWire EXCEPT !.asked = <<terminal.cmd + 1>>]
      BY <1>5, <2>3 DEF SendCommand
    <3>0. t \in TermRec /\ t.cmd = terminal.cmd
      BY <1>t, AttemptedIs
    <3> HIDE DEF t
    <3>2. terminal' = [t EXCEPT !.at = "recv", !.cmd = t.cmd + 1, !.mine = 0]
      BY <3>0, <3>1 DEF TermRec
    <3>3. terminal' \in TermRec /\ terminal'.at = "recv" /\ terminal'.cmd = terminal.cmd + 1 /\ terminal'.mine = 0
      BY <3>0, <2>1, <3>2
    <3>5. wire' \in WireRec /\ wire'.asked = <<terminal.cmd + 1>> /\ wire'.answers = << >> /\ ~wire'.closed
      BY <3>1, <2>s, NewWireIs DEF WireRec
    <3>6. TermInv'
      BY <3>3, <2>c, <1>n DEF TermInv
    <3> QED BY <2>0, <3>3, <3>5, <3>6, <1>x, TermSends
  <2> QED BY <2>2, <2>3
<1>6. ASSUME SendRefused PROVE TermInv' /\ WireInv' /\ second' \in Int
  <2> DEFINE a == [terminal EXCEPT !.mine = 0]
             last == IF MayAttempt THEN second ELSE terminal.last
  <2>1. terminal.at = "prompt" /\ terminal' = [a EXCEPT !.last = last] /\ UNCHANGED <<wire, second, ctl>>
    BY <1>6, <1>t DEF SendRefused, Execute, TermOnly, TermRec
  <2>2. last \in Int
    BY <1>t DEF TermRec
  <2>3. a \in TermRec /\ a.at = "prompt" /\ a.mine = 0
    BY <2>1, <1>t DEF TermRec
  <2> HIDE DEF a, last
  <2>4. terminal' \in TermRec /\ terminal'.at = "prompt" /\ terminal'.mine = 0
    BY <2>1, <2>2, <2>3 DEF TermRec
  <2>5. TermInv'
    BY <2>4 DEF TermInv
  <2> QED BY <2>1, <2>4, <2>5, TermQuiet
<1>7. ASSUME SendToClosed PROVE TermInv' /\ WireInv' /\ second' \in Int
  <2>1. terminal.at = "prompt" /\ terminal' = [terminal EXCEPT !.at = "killed"] /\ UNCHANGED <<wire, second, ctl>>
    BY <1>7 DEF SendToClosed, Execute, TermOnly
  <2>2. terminal' \in TermRec /\ terminal'.at = "killed" /\ terminal'.mine = terminal.mine /\ terminal'.cmd = terminal.cmd
    BY <2>1, <1>t DEF TermRec
  <2>3. TermInv'
    BY <2>2 DEF TermInv
  <2> QED BY <2>1, <2>2, <2>3, TermQuiet
<1>8. ASSUME RecvAnswer PROVE TermInv' /\ WireInv' /\ second' \in Int
  <2>1. /\ terminal.at = "recv" /\ wire.answers # << >> /\ UNCHANGED <<second, ctl>>
        /\ terminal' = [terminal EXCEPT !.at = "prompt", !.mine = Head(wire.answers)]
        /\ wire' = [wire EXCEPT !.answers = Tail(wire.answers)]
    BY <1>8, <1>t DEF RecvAnswer, TermOnly, WireRec
  <2>2. wire.asked = << >> /\ wire.answers = <<terminal.cmd>>
    BY <2>1, <1>x DEF TermWire
  <2>3. Head(wire.answers) = terminal.cmd /\ Tail(wire.answers) = << >>
    BY <2>2, <1>n
  <2> DEFINE a == [terminal EXCEPT !.at = "prompt"]
  <2>4. terminal' = [a EXCEPT !.mine = terminal.cmd]
    BY <2>1, <2>3
  <2>5. a \in TermRec /\ a.at = "prompt" /\ a.cmd = terminal.cmd
    BY <1>t DEF TermRec
  <2> HIDE DEF a
  <2>6. terminal' \in TermRec /\ terminal'.at = "prompt" /\ terminal'.mine = terminal.cmd /\ terminal'.cmd = terminal.cmd
    BY <2>4, <2>5, <1>n DEF TermRec
  <2>7. wire' \in WireRec /\ wire'.asked = << >> /\ wire'.answers = << >> /\ wire'.closed = wire.closed
    BY <2>1, <2>2, <2>3, <1>t, EmptySeq DEF WireRec
  <2>8. TermInv'
    BY <2>6 DEF TermInv
  <2>9. TermWire'
    BY <2>6, <2>7 DEF TermWire
  <2> QED BY <2>1, <2>6, <2>7, <2>8, <2>9, <1>x DEF WireInv
<1>9. ASSUME RecvEnd PROVE TermInv' /\ WireInv' /\ second' \in Int
  <2>1. terminal.at = "recv" /\ terminal' = [terminal EXCEPT !.at = "prompt"] /\ UNCHANGED <<wire, second, ctl>> /\ wire.answers = << >> /\ wire.closed
    BY <1>9 DEF RecvEnd, TermOnly
  <2>2. terminal' \in TermRec /\ terminal'.at = "prompt" /\ terminal'.mine = terminal.mine /\ terminal'.cmd = terminal.cmd
    BY <2>1, <1>t DEF TermRec
  <2>3. TermInv'
    BY <2>2 DEF TermInv
  <2>4. wire.asked = << >>
    BY <2>1 DEF WireInv
  <2> QED BY <2>1, <2>2, <2>3, <2>4, TermQuiet
<1>10. ASSUME RecvTimeout PROVE TermInv' /\ WireInv' /\ second' \in Int
  <2> DEFINE a == [terminal EXCEPT !.at = "prompt"]
  <2>1. terminal.at = "recv" /\ terminal' = [a EXCEPT !.sock = FALSE] /\ wire' = NewWire /\ UNCHANGED <<second, ctl>>
    BY <1>10 DEF RecvTimeout, TermOnly
  <2>2. a \in TermRec /\ a.at = "prompt" /\ a.mine = terminal.mine /\ a.cmd = terminal.cmd
    BY <1>t DEF TermRec
  <2> HIDE DEF a
  <2>3. terminal' \in TermRec /\ terminal'.at = "prompt" /\ terminal'.mine = terminal.mine /\ terminal'.cmd = terminal.cmd
    BY <2>1, <2>2 DEF TermRec
  <2>4. TermInv'
    BY <2>3 DEF TermInv
  <2> QED BY <2>1, <2>3, <2>4, <1>f
<1>11. ASSUME Second PROVE TermInv' /\ WireInv' /\ second' \in Int
  <2>1. UNCHANGED <<terminal, wire, ctl>> /\ second' = second + 1
    BY <1>11 DEF Second, TermOnly
  <2>2. TermInv' /\ second' \in Int
    BY <2>1 DEF TermInv
  <2>3. WireInv'
    BY <2>1 DEF WireInv, TermWire, CtlWire, InOrder
  <2> QED BY <2>2, <2>3
<1>12. ASSUME QuitTerminal PROVE TermInv' /\ WireInv' /\ second' \in Int
  <2> DEFINE a == [terminal EXCEPT !.at = "quit"]
             b == [a EXCEPT !.sock = FALSE]
  <2>1. terminal.at = "prompt" /\ terminal' = [b EXCEPT !.mon = FALSE] /\ wire' = NewWire /\ UNCHANGED <<second, ctl>>
    BY <1>12 DEF QuitTerminal, TermOnly
  <2>2. a \in TermRec /\ a.at = "quit" /\ a.mine = terminal.mine /\ a.cmd = terminal.cmd
    BY <1>t DEF TermRec
  <2> HIDE DEF a
  <2>3. b \in TermRec /\ b.at = "quit" /\ b.mine = terminal.mine /\ b.cmd = terminal.cmd
    BY <2>2 DEF TermRec
  <2> HIDE DEF b
  <2>4. terminal' \in TermRec /\ terminal'.at = "quit" /\ terminal'.mine = terminal.mine /\ terminal'.cmd = terminal.cmd
    BY <2>1, <2>3 DEF TermRec
  <2>5. TermInv'
    BY <2>4 DEF TermInv
  <2> QED BY <2>1, <2>4, <2>5, <1>f
<1> QED BY <1>1, <1>3, <1>4, <1>5, <1>6, <1>7, <1>8, <1>9, <1>10, <1>11, <1>12 DEF TerminalNext

LEMMA ManagerStep == CtlInv /\ TermInv /\ WireInv /\ (ManagerAnswers \/ ManagerCloses) => WireInv'
<1> SUFFICES ASSUME CtlInv, TermInv, WireInv, ManagerAnswers \/ ManagerCloses PROVE WireInv'
  OBVIOUS
<1>t. wire \in WireRec /\ wire.asked \in Seq(Nat) /\ wire.answers \in Seq(Nat)
  BY DEF WireInv, WireRec
<1>n. ctl.cmd \in Nat /\ terminal.cmd \in Nat
  BY ToolAssumption DEF TermInv, TermRec, CtlInv, CtlRec
<1> DEFINE k == Len(wire.asked)
           n == Len(wire.answers)
           c == ctl.cmd
<1>l. k \in Nat /\ n \in Nat /\ (k = 0 <=> wire.asked = << >>) /\ (n = 0 <=> wire.answers = << >>) /\ c \in Nat
  BY <1>t, <1>n, EmptyIs
<1>1. CASE ManagerAnswers
  <2> DEFINE h == Head(wire.asked)
             less == Tail(wire.asked)
             more == Append(wire.answers, h)
             w == [wire EXCEPT !.asked = less]
  <2>1. wire.asked # << >> /\ wire' = [w EXCEPT !.answers = more] /\ UNCHANGED <<ctl, terminal>>
    BY <1>1, <1>t DEF ManagerAnswers, TermOnly, WireRec
  <2>2. h \in Nat /\ h = wire.asked[1] /\ less \in Seq(Nat) /\ Len(less) = k - 1 /\ \A i \in 1 .. k - 1 : less[i] = wire.asked[i + 1]
    BY <1>t, <2>1, HeadTailProperties
  <2>3. more \in Seq(Nat) /\ Len(more) = n + 1 /\ (\A i \in 1 .. n : more[i] = wire.answers[i]) /\ more[n + 1] = h
    BY <1>t, <2>2, AppendProperties
  <2>a. wire.asked = <<terminal.cmd>> /\ wire.answers = << >> => less = << >> /\ more = <<terminal.cmd>>
    BY <1>n
  <2> HIDE DEF h, less, more
  <2>4. w \in WireRec /\ w.asked = less /\ w.closed = wire.closed
    BY <1>t, <2>2 DEF WireRec
  <2> HIDE DEF w
  <2>5. wire' \in WireRec /\ wire'.asked = less /\ wire'.closed = wire.closed /\ wire'.answers = more
    BY <2>1, <2>3, <2>4 DEF WireRec
  <2>6. ~wire.closed
    BY <2>1 DEF WireInv
  <2>7. ASSUME ctl.at = "other" PROVE TermWire'
    <3>1. terminal.at = "recv" /\ wire.asked = <<terminal.cmd>> /\ wire.answers = << >>
      BY <2>7, <2>1 DEF WireInv, TermWire
    <3> QED BY <3>1, <2>a, <2>1, <2>5 DEF TermWire
  <2>8. ASSUME ctl.at # "other" PROVE CtlWire'
    <3>0. /\ n + k =< c /\ (\A i \in 1 .. k : wire.asked[i] = c - k + i) /\ (\A i \in 1 .. n : wire.answers[i] = c - k - n + i)
      BY <2>6, <2>8 DEF WireInv, CtlWire
    <3>c. ~ctl.cut => ctl.at = "recv" /\ n + k =< 1
      BY <2>1, <2>8, <1>l DEF WireInv, CtlWire
    <3> HIDE DEF k, n, c
    <3>k. k >= 1
      BY <2>1, <1>l
    <3>1. (n + 1) + (k - 1) =< c
      BY <3>0, <1>l
    <3>2. ASSUME NEW i \in 1 .. k - 1 PROVE less[i] = c - (k - 1) + i
      <4>1. i + 1 \in 1 .. k /\ i \in Nat
        BY <1>l
      <4>2. less[i] = c - k + (i + 1)
        BY <4>1, <2>2, <3>0
      <4> QED BY <4>1, <4>2, <1>l
    <3>3. ASSUME NEW i \in 1 .. n + 1 PROVE more[i] = c - (k - 1) - (n + 1) + i
      <4>1. CASE i = n + 1
        <5>1. h = c - k + 1
          BY <2>2, <3>0, <3>k, <1>l
        <5> QED BY <5>1, <4>1, <2>3, <1>l
      <4>2. CASE i # n + 1
        <5>1. i \in 1 .. n
          BY <4>2, <1>l
        <5>2. more[i] = c - k - n + i
          BY <5>1, <2>3, <3>0
        <5> QED BY <5>1, <5>2, <1>l
      <4> QED BY <4>1, <4>2
    <3>4. ASSUME NEW i \in 1 .. n + 1 PROVE more[i] = more[1] + i - 1 /\ more[i] =< c
      <4>1. 1 \in 1 .. n + 1 /\ i \in Nat /\ i =< n + 1
        BY <1>l
      <4>2. more[i] = c - (k - 1) - (n + 1) + i /\ more[1] = c - (k - 1) - (n + 1) + 1
        BY <3>3, <4>1
      <4> QED BY <4>1, <4>2, <3>k, <1>l
    <3>5. ASSUME ~ctl.cut PROVE (n + 1) + (k - 1) =< 1 /\ \A i \in 1 .. n + 1 : more[i] = c
      <4>1. n = 0 /\ k = 1
        BY <3>5, <3>c, <3>k, <1>l
      <4>2. ASSUME NEW i \in 1 .. n + 1 PROVE more[i] = c
        <5>1. i = 1 /\ more[i] = c - (k - 1) - (n + 1) + i
          BY <3>3, <4>1
        <5> QED BY <5>1, <4>1, <1>l
      <4> QED BY <4>1, <4>2
    <3>6. Len(wire'.asked) = k - 1 /\ Len(wire'.answers) = n + 1 /\ ctl'.cmd = c /\ ctl'.cut = ctl.cut /\ ctl'.at = ctl.at
      BY <2>1, <2>2, <2>3, <2>5 DEF c
    <3>7. (\A i \in 1 .. k - 1 : wire'.asked[i] = c - (k - 1) + i) /\ (\A i \in 1 .. n + 1 : wire'.answers[i] = c - (k - 1) - (n + 1) + i)
      BY <2>5, <3>2, <3>3
    <3>8. \A i \in 1 .. n + 1 : wire'.answers[i] = wire'.answers[1] + i - 1 /\ wire'.answers[i] =< c
      BY <2>5, <3>4
    <3>9. ~ctl.cut => (n + 1) + (k - 1) =< 1 /\ \A i \in 1 .. n + 1 : wire'.answers[i] = c
      BY <2>5, <3>5
    <3> QED BY <3>1, <3>6, <3>7, <3>8, <3>9, <3>c, Zenon DEF CtlWire, InOrder
  <2> QED BY <2>1, <2>5, <2>6, <2>7, <2>8 DEF WireInv
<1>2. CASE ManagerCloses
  <2> DEFINE w == [wire EXCEPT !.asked = << >>]
  <2>1. wire' = [w EXCEPT !.closed = TRUE] /\ UNCHANGED <<ctl, terminal>>
    BY <1>2 DEF ManagerCloses, TermOnly
  <2>2. w \in WireRec /\ w.asked = << >> /\ w.answers = wire.answers
    BY <1>t, EmptySeq DEF WireRec
  <2> HIDE DEF w
  <2>3. wire' \in WireRec /\ wire'.asked = << >> /\ wire'.answers = wire.answers /\ wire'.closed = TRUE
    BY <2>1, <2>2 DEF WireRec
  <2>4. ASSUME ctl.at = "other" PROVE TermWire'
    BY <2>1, <2>3, <2>4 DEF TermWire, WireInv
  <2>5. ASSUME ctl.at # "other" PROVE CtlWire'
    <3>1. n + k =< c /\ InOrder(wire.answers, c)
      BY <2>5 DEF WireInv, CtlWire
    <3>2. (~ctl.cut /\ ctl.at # "recv" => n = 0) /\ (~ctl.cut /\ ctl.at = "recv" => n + k =< 1 /\ \A i \in 1 .. n : wire.answers[i] = c)
      BY <2>5 DEF WireInv, CtlWire
    <3>3. Len(wire'.asked) = 0 /\ Len(wire'.answers) = n /\ ctl'.cmd = c /\ ctl'.cut = ctl.cut /\ ctl'.at = ctl.at /\ wire'.answers = wire.answers /\ wire'.closed = TRUE
      BY <2>1, <2>3
    <3> HIDE DEF n, k, c
    <3>4. n + 0 =< c /\ (n + k =< 1 => n + 0 =< 1)
      BY <3>1, <1>l
    <3>5. 1 .. 0 = {}
      OBVIOUS
    <3> QED BY <3>1, <3>2, <3>3, <3>4, <3>5, Zenon DEF CtlWire
  <2> QED BY <2>1, <2>3, <2>4, <2>5 DEF WireInv
<1> QED BY <1>1, <1>2

BankaiSteps == {"line", "other", "command", "prompt", "quit", "key", "pinged", "send", "recv", "said", "dump", "dumped",
                "getchar", "join"}
RequestKinds     == {"none", "register", "lookup", "heartbeat", "unregister", "ping"}
WordRec   == [argc : 0 .. MaxArgs, len : 0 .. MaxToken, quot : {"none"} \cup Quotes, escaped : BOOLEAN]
BankaiRec == [at : BankaiSteps, line : Seq(Chars), found : Int, word : WordRec, path : {"primary", "fallback"},
              key : {"none", "run", "tmp"}, fd : BOOLEAN, req : RequestKinds, said : {"none", "error", "code", "found", "unexpected"}]

\* A word that is begun has a place.
WordInv(w) == w \in WordRec /\ (w.argc = MaxArgs => w.len = 0 /\ ~w.escaped)

TailerRec == [at : {"off", "open", "loop", "over"}, active : BOOLEAN, pipe : {"closed", "open", "byte"}]
TailerOff == [at |-> "off", active |-> FALSE, pipe |-> "closed"]

BankaiInv ==
    /\ bankai \in BankaiRec
    /\ bankai.at = "line" => WordInv(bankai.word)
    /\ bankai.at \in {"prompt", "quit"} => ~bankai.fd

\* While a log is followed the main thread waits for Enter, or for the thread.
TailInv ==
    /\ tailer \in TailerRec
    /\ bankai.at \notin {"getchar", "join"} => tailer = TailerOff
    /\ tailer.at = "over" => ~tailer.active

\* The ring of a dump holds the last lines read.
LinesIn(buf, n, idx) == \A j \in 1 .. idx : j > idx - n => buf[(j - 1) % n] = j

DumpInv ==
    /\ dump.idx \in 0 .. MaxLog
    /\ bankai.at = "dump" =>
         /\ dump \in [n : Nat \ {0}, file : 0 .. MaxLog, idx : Nat, ring : [0 .. dump.n - 1 -> Nat], shown : {<< >>}]
         /\ dump.idx =< dump.file
         /\ LinesIn(dump.ring, dump.n, dump.idx)
    /\ DumpIsTail

LEMMA KeepWord ==
  ASSUME NEW w \in WordRec
  PROVE  Keep(w) \in WordRec /\ Keep(w).argc = w.argc /\ Keep(w).escaped = FALSE
<1> DEFINE len == IF w.len < MaxToken THEN w.len + 1 ELSE w.len
           a == [w EXCEPT !.len = len]
<1>1. Keep(w) = [a EXCEPT !.escaped = FALSE]
  BY DEF Keep, WordRec
<1>2. len \in 0 .. MaxToken
  BY ToolAssumption DEF WordRec
<1> HIDE DEF len
<1>3. a \in WordRec /\ a.argc = w.argc
  BY <1>2 DEF WordRec
<1> HIDE DEF a
<1> QED BY <1>1, <1>3 DEF WordRec

LEMMA EndWordIs ==
  ASSUME NEW w \in WordRec, w.argc = MaxArgs => w.len = 0
  PROVE  EndWord(w) \in WordRec /\ EndWord(w).len = 0 /\ EndWord(w).escaped = w.escaped
<1> DEFINE argc == IF w.len > 0 THEN w.argc + 1 ELSE w.argc
           a == [w EXCEPT !.argc = argc]
<1>1. EndWord(w) = [a EXCEPT !.len = 0]
  BY DEF EndWord, WordRec
<1>2. argc \in 0 .. MaxArgs
  BY ToolAssumption DEF WordRec
<1> HIDE DEF argc
<1>3. a \in WordRec /\ a.escaped = w.escaped
  BY <1>2 DEF WordRec
<1> HIDE DEF a
<1> QED BY <1>1, <1>3, ToolAssumption DEF WordRec

\* sm_cli_tokenise never has more words than places.
LEMMA AfterCharIs ==
  ASSUME NEW w, WordInv(w), w.argc # MaxArgs, NEW c \in Chars
  PROVE  WordInv(AfterChar(w, c))
<1>0. w \in WordRec
  BY DEF WordInv
<1>1. CASE w.escaped
  <2>1. AfterChar(w, c) = Keep(w)
    BY <1>1 DEF AfterChar
  <2> QED BY <2>1, <1>0, KeepWord DEF WordInv
<1>2. CASE ~w.escaped /\ w.quot # "none" /\ c = "escape"
  <2>1. AfterChar(w, c) = [w EXCEPT !.escaped = TRUE]
    BY <1>2, <1>0 DEF AfterChar, WordRec, Quotes
  <2>2. [w EXCEPT !.escaped = TRUE] \in WordRec /\ [w EXCEPT !.escaped = TRUE].argc = w.argc
    BY <1>0 DEF WordRec
  <2> QED BY <2>1, <2>2 DEF WordInv
<1>3. CASE ~w.escaped /\ w.quot # "none" /\ c # "escape" /\ c = w.quot
  <2>1. AfterChar(w, c) = [w EXCEPT !.quot = "none"]
    BY <1>3 DEF AfterChar
  <2>2. [w EXCEPT !.quot = "none"] \in WordRec /\ [w EXCEPT !.quot = "none"].argc = w.argc
    BY <1>0 DEF WordRec
  <2> QED BY <2>1, <2>2 DEF WordInv
<1>4. CASE ~w.escaped /\ w.quot # "none" /\ c # "escape" /\ c # w.quot
  <2>1. AfterChar(w, c) = Keep(w)
    BY <1>4 DEF AfterChar
  <2> QED BY <2>1, <1>0, KeepWord DEF WordInv
<1>5. CASE ~w.escaped /\ w.quot = "none" /\ c \in Quotes
  <2>1. AfterChar(w, c) = [w EXCEPT !.quot = c]
    BY <1>5 DEF AfterChar, Quotes
  <2>2. [w EXCEPT !.quot = c] \in WordRec /\ [w EXCEPT !.quot = c].argc = w.argc
    BY <1>0, <1>5 DEF WordRec
  <2> QED BY <2>1, <2>2 DEF WordInv
<1>6. CASE ~w.escaped /\ w.quot = "none" /\ c = "space"
  <2>1. AfterChar(w, c) = EndWord(w)
    BY <1>6 DEF AfterChar, Quotes
  <2> QED BY <2>1, <1>0, <1>6, EndWordIs DEF WordInv
<1>7. CASE ~w.escaped /\ w.quot = "none" /\ c \notin Quotes /\ c # "space"
  <2>1. AfterChar(w, c) = Keep(w)
    BY <1>7 DEF AfterChar
  <2> QED BY <2>1, <1>0, KeepWord DEF WordInv
<1> QED BY <1>1, <1>2, <1>3, <1>4, <1>5, <1>6, <1>7

LEMMA NoWordIs == NoWord \in WordRec /\ NoWord.argc = 0 /\ NoWord.len = 0 /\ NoWord.escaped = FALSE
BY ToolAssumption DEF NoWord, WordRec

LEMMA PromptIs ==
  ASSUME bankai \in BankaiRec
  PROVE  Prompt \in BankaiRec /\ Prompt.at = "prompt" /\ Prompt.fd = FALSE
<1> DEFINE a == [bankai EXCEPT !.at = "prompt"]
           b == [a EXCEPT !.line = << >>]
           c == [b EXCEPT !.found = 0]
           d == [c EXCEPT !.word = NoWord]
           e == [d EXCEPT !.fd = FALSE]
           f == [e EXCEPT !.req = "none"]
<1>1. Prompt = [f EXCEPT !.said = "none"]
  BY DEF Prompt
<1>2. a \in BankaiRec /\ a.at = "prompt"
  BY DEF BankaiRec, BankaiSteps
<1> HIDE DEF a
<1>3. b \in BankaiRec /\ b.at = "prompt"
  BY <1>2, EmptySeq DEF BankaiRec
<1> HIDE DEF b
<1>4. c \in BankaiRec /\ c.at = "prompt"
  BY <1>3 DEF BankaiRec
<1> HIDE DEF c
<1>5. d \in BankaiRec /\ d.at = "prompt"
  BY <1>4, NoWordIs DEF BankaiRec
<1> HIDE DEF d
<1>6. e \in BankaiRec /\ e.at = "prompt" /\ e.fd = FALSE
  BY <1>5 DEF BankaiRec
<1> HIDE DEF e
<1>7. f \in BankaiRec /\ f.at = "prompt" /\ f.fd = FALSE
  BY <1>6 DEF BankaiRec, RequestKinds
<1> HIDE DEF f
<1> QED BY <1>1, <1>7 DEF BankaiRec

\* Back at the prompt, or at another step that has nothing to do with a log.
Plain == BankaiSteps \ {"line", "dump", "dumped", "getchar", "join"}

LEMMA PlainKeeps ==
  ASSUME TailInv, DumpInv, bankai' \in BankaiRec, bankai'.at \in Plain, bankai'.at \in {"prompt", "quit"} => ~bankai'.fd,
         bankai.at \notin {"getchar", "join"}, UNCHANGED <<dump, tailer>>
  PROVE  BankaiInv' /\ TailInv' /\ DumpInv'
<1>1. BankaiInv'
  BY DEF BankaiInv, Plain
<1>2. TailInv'
  BY DEF TailInv, Plain
<1>3. DumpInv'
  BY DEF DumpInv, DumpIsTail, Plain
<1> QED BY <1>1, <1>2, <1>3

LEMMA OpenSocketIs ==
  ASSUME bankai \in BankaiRec, NEW to \in Plain \ {"prompt", "quit"}, NEW kind \in RequestKinds, OpenSocket(to, kind)
  PROVE  bankai' \in BankaiRec /\ bankai'.at \in Plain /\ (bankai'.at \in {"prompt", "quit"} => ~bankai'.fd)
<1>p. Prompt \in BankaiRec /\ Prompt.at = "prompt" /\ Prompt.fd = FALSE
  BY PromptIs
<1>1. CASE bankai' = Prompt
  BY <1>1, <1>p DEF Plain, BankaiSteps
<1>2. ASSUME NEW path \in {"primary", "fallback"}, bankai' = [Prompt EXCEPT !.at = to, !.path = path, !.fd = TRUE, !.req = kind]
      PROVE  bankai' \in BankaiRec /\ bankai'.at = to
  <2> DEFINE a == [Prompt EXCEPT !.at = to]
             b == [a EXCEPT !.path = path]
             c == [b EXCEPT !.fd = TRUE]
  <2>1. bankai' = [c EXCEPT !.req = kind]
    BY <1>2
  <2>2. a \in BankaiRec /\ a.at = to
    BY <1>p DEF BankaiRec, Plain
  <2> HIDE DEF a
  <2>3. b \in BankaiRec /\ b.at = to
    BY <2>2 DEF BankaiRec
  <2> HIDE DEF b
  <2>4. c \in BankaiRec /\ c.at = to
    BY <2>3 DEF BankaiRec
  <2> HIDE DEF c
  <2> QED BY <2>1, <2>4 DEF BankaiRec
<1> QED BY <1>1, <1>2 DEF OpenSocket

LEMMA LineStep ==
  ASSUME BankaiInv, TailInv, DumpInv, (\E c \in Chars : NextChar(c)) \/ EndLine \/ (\E argc \in 0 .. MaxArgs : ReadLine(argc))
  PROVE  BankaiInv' /\ TailInv' /\ DumpInv'
<1>t. bankai \in BankaiRec /\ bankai.word \in WordRec
  BY DEF BankaiInv, BankaiRec
<1>1. ASSUME NEW c \in Chars, NextChar(c) PROVE BankaiInv' /\ TailInv' /\ DumpInv'
  <2> DEFINE w == IF bankai.word.argc = MaxArgs THEN bankai.word ELSE AfterChar(bankai.word, c)
             a == [bankai EXCEPT !.line = Append(bankai.line, c)]
  <2>1. bankai.at = "line" /\ UNCHANGED <<dump, tailer>> /\ bankai' = [a EXCEPT !.word = w]
    BY <1>1, <1>t DEF NextChar, BankaiRec
  <2>2. WordInv(w)
    BY <2>1, AfterCharIs DEF BankaiInv
  <2>3. a \in BankaiRec /\ a.at = "line"
    <3>1. Append(bankai.line, c) \in Seq(Chars)
      BY <1>t, AppendProperties DEF BankaiRec
    <3> QED BY <2>1, <1>t, <3>1 DEF BankaiRec
  <2> HIDE DEF a, w
  <2>4. bankai' \in BankaiRec /\ bankai'.at = "line" /\ bankai'.word = w
    BY <2>1, <2>2, <2>3 DEF BankaiRec, WordInv
  <2>5. BankaiInv'
    BY <2>2, <2>4 DEF BankaiInv
  <2>6. TailInv'
    BY <2>1, <2>4 DEF TailInv
  <2>7. DumpInv'
    BY <2>1, <2>4 DEF DumpInv, DumpIsTail
  <2> QED BY <2>5, <2>6, <2>7
<1>2. ASSUME EndLine PROVE BankaiInv' /\ TailInv' /\ DumpInv'
  <2> DEFINE v == IF bankai.word.escaped THEN Keep(bankai.word) ELSE bankai.word
             w == EndWord(v)
             a == [bankai EXCEPT !.at = "command"]
  <2>1. bankai.at = "line" /\ UNCHANGED <<dump, tailer>> /\ bankai' = [a EXCEPT !.word = w]
    BY <1>2, <1>t DEF EndLine, BankaiRec
  <2>2. v \in WordRec /\ (v.argc = MaxArgs => v.len = 0)
    <3>1. WordInv(bankai.word)
      BY <2>1 DEF BankaiInv
    <3>2. CASE bankai.word.escaped
      BY <3>1, <3>2, KeepWord DEF WordInv
    <3>3. CASE ~bankai.word.escaped
      BY <3>1, <3>3 DEF WordInv
    <3> QED BY <3>2, <3>3
  <2> HIDE DEF v
  <2>3. w \in WordRec
    BY <2>2, EndWordIs
  <2>4. a \in BankaiRec /\ a.at = "command"
    BY <1>t DEF BankaiRec, BankaiSteps
  <2> HIDE DEF a, w
  <2>5. bankai' \in BankaiRec /\ bankai'.at = "command"
    BY <2>1, <2>3, <2>4 DEF BankaiRec
  <2> QED BY <2>1, <2>5, PlainKeeps DEF Plain, BankaiSteps
<1>3. ASSUME NEW argc \in 0 .. MaxArgs, ReadLine(argc) PROVE BankaiInv' /\ TailInv' /\ DumpInv'
  <2> DEFINE w == [bankai.word EXCEPT !.argc = argc]
             a == [bankai EXCEPT !.at = "command"]
             b == [a EXCEPT !.found = argc]
  <2>1. bankai.at = "prompt" /\ UNCHANGED <<dump, tailer>> /\ bankai' = [b EXCEPT !.word = w]
    BY <1>3, <1>t DEF ReadLine, BankaiRec
  <2>2. w \in WordRec
    BY <1>t DEF WordRec
  <2>3. a \in BankaiRec /\ a.at = "command"
    BY <1>t DEF BankaiRec, BankaiSteps
  <2> HIDE DEF a, w
  <2>4. argc \in Int
    BY ToolAssumption
  <2>5. b \in BankaiRec /\ b.at = "command"
    BY <2>3, <2>4 DEF BankaiRec
  <2> HIDE DEF b
  <2>6. bankai' \in BankaiRec /\ bankai'.at = "command"
    BY <2>1, <2>2, <2>5 DEF BankaiRec
  <2> QED BY <2>1, <2>6, PlainKeeps DEF Plain, BankaiSteps
<1> QED BY <1>1, <1>2, <1>3

RequestActions ==
    \/ EndOfInput \/ NoWords \/ HelpCommand \/ SocketCommand \/ UnknownCommand \/ QuitBankai
    \/ RequestRegister \/ RequestLookup \/ RequestHeartbeat \/ RequestUnregister
    \/ LoadKey \/ TransactBankai \/ RequestReturns
    \/ (\E size \in {"error", "short", "reply", "lookup"} : RecvReply(size))
    \/ RequestPing \/ PingReturns

LEMMA RequestStep ==
  ASSUME BankaiInv, TailInv, DumpInv, RequestActions
  PROVE  BankaiInv' /\ TailInv' /\ DumpInv'
<1>t. bankai \in BankaiRec
  BY DEF BankaiInv
<1>p. Prompt \in BankaiRec /\ Prompt.at = "prompt" /\ Prompt.fd = FALSE
  BY <1>t, PromptIs
<1>s. {"prompt", "quit", "key", "pinged", "send", "recv", "said", "command"} \subseteq Plain
  BY DEF Plain, BankaiSteps
<1> DEFINE Good == bankai' \in BankaiRec /\ bankai'.at \in Plain /\ (bankai'.at \in {"prompt", "quit"} => ~bankai'.fd)
           Here == bankai.at \notin {"getchar", "join"} /\ UNCHANGED <<dump, tailer>>
<1> SUFFICES Good /\ Here
  BY PlainKeeps
<1>0. ASSUME bankai' = Prompt PROVE Good
  BY <1>0, <1>p, <1>s
<1>1. ASSUME EndOfInput PROVE Good /\ Here
  <2>1. bankai.at = "prompt" /\ bankai' = [bankai EXCEPT !.at = "quit"] /\ UNCHANGED <<dump, tailer>>
    BY <1>1 DEF EndOfInput
  <2>2. bankai' \in BankaiRec /\ bankai'.at = "quit" /\ bankai'.fd = bankai.fd
    BY <2>1, <1>t DEF BankaiRec, BankaiSteps
  <2> QED BY <2>1, <2>2, <1>s DEF BankaiInv
<1>2. ASSUME NoWords \/ HelpCommand \/ SocketCommand \/ UnknownCommand \/ RequestReturns \/ PingReturns PROVE Good /\ Here
  <2>1. Here /\ bankai' = Prompt
    BY <1>2 DEF NoWords, HelpCommand, SocketCommand, UnknownCommand, RequestReturns, PingReturns, Dispatch, Prints
  <2> QED BY <2>1, <1>0
<1>3. ASSUME QuitBankai PROVE Good /\ Here
  <2>1. Here /\ bankai' = [Prompt EXCEPT !.at = "quit"]
    BY <1>3 DEF QuitBankai, Dispatch
  <2>2. bankai' \in BankaiRec /\ bankai'.at = "quit" /\ bankai'.fd = FALSE
    BY <2>1, <1>p DEF BankaiRec, BankaiSteps
  <2> QED BY <2>1, <2>2, <1>s
<1>4. ASSUME NEW kind \in RequestKinds, NEW words, Request(kind, words) PROVE Good /\ Here
  <2>1. Here /\ (bankai' = Prompt \/ OpenSocket("key", kind))
    BY <1>4 DEF Request, Dispatch
  <2>2. "key" \in Plain \ {"prompt", "quit"}
    BY <1>s
  <2>3. ASSUME OpenSocket("key", kind) PROVE Good
    BY <2>2, <2>3, <1>t, OpenSocketIs
  <2> QED BY <2>1, <2>3, <1>0
<1>5. ASSUME RequestRegister \/ RequestLookup \/ RequestHeartbeat \/ RequestUnregister PROVE Good /\ Here
  <2>1. \E kind \in RequestKinds, words \in {2, 4} : Request(kind, words)
    BY <1>5 DEF RequestRegister, RequestLookup, RequestHeartbeat, RequestUnregister, RequestKinds
  <2> QED BY <2>1, <1>4
<1>6. ASSUME RequestPing PROVE Good /\ Here
  <2>1. Here /\ OpenSocket("pinged", "ping") /\ "ping" \in RequestKinds
    BY <1>6 DEF RequestPing, Dispatch, RequestKinds
  <2>2. "pinged" \in Plain \ {"prompt", "quit"}
    BY <1>s
  <2> QED BY <2>1, <2>2, <1>t, OpenSocketIs
<1>7. ASSUME LoadKey PROVE Good /\ Here
  <2>1. Here
    BY <1>7 DEF LoadKey
  <2>2. CASE bankai' = Prompt
    BY <2>1, <2>2, <1>0
  <2>3. CASE bankai' = [bankai EXCEPT !.at = "send"]
    <3>1. bankai' \in BankaiRec /\ bankai'.at = "send"
      BY <2>3, <1>t DEF BankaiRec, BankaiSteps
    <3> QED BY <2>1, <3>1, <1>s
  <2>4. ASSUME NEW key \in {"run", "tmp"}, bankai' = [bankai EXCEPT !.at = "send", !.key = key] PROVE Good /\ Here
    <3> DEFINE a == [bankai EXCEPT !.at = "send"]
    <3>1. bankai' = [a EXCEPT !.key = key]
      BY <2>4
    <3>2. a \in BankaiRec /\ a.at = "send"
      BY <1>t DEF BankaiRec, BankaiSteps
    <3> HIDE DEF a
    <3>3. bankai' \in BankaiRec /\ bankai'.at = "send"
      BY <3>1, <3>2 DEF BankaiRec
    <3> QED BY <2>1, <3>3, <1>s
  <2>5. \/ bankai' = Prompt \/ bankai' = [bankai EXCEPT !.at = "send"]
        \/ \E key \in {"run", "tmp"} : bankai' = [bankai EXCEPT !.at = "send", !.key = key]
    BY <1>7 DEF LoadKey
  <2> QED BY <2>2, <2>3, <2>4, <2>5
<1>8. ASSUME TransactBankai PROVE Good /\ Here
  <2>1. Here
    BY <1>8 DEF TransactBankai
  <2>2. CASE bankai' = Prompt
    BY <2>1, <2>2, <1>0
  <2>3. CASE bankai' = [bankai EXCEPT !.at = "recv"]
    <3>1. bankai' \in BankaiRec /\ bankai'.at = "recv"
      BY <2>3, <1>t DEF BankaiRec, BankaiSteps
    <3> QED BY <2>1, <3>1, <1>s
  <2> QED BY <1>8, <2>2, <2>3 DEF TransactBankai
<1>9. ASSUME NEW size \in {"error", "short", "reply", "lookup"}, RecvReply(size) PROVE Good /\ Here
  <2> DEFINE a == [bankai EXCEPT !.at = "said"]
             said_ == Said(bankai.req, size)
  <2>1. Here /\ bankai' = [a EXCEPT !.said = said_]
    BY <1>9 DEF RecvReply
  <2>2. said_ \in {"none", "error", "code", "found", "unexpected"}
    BY DEF Said
  <2>3. a \in BankaiRec /\ a.at = "said"
    BY <1>t DEF BankaiRec, BankaiSteps
  <2> HIDE DEF a, said_
  <2>4. bankai' \in BankaiRec /\ bankai'.at = "said"
    BY <2>1, <2>2, <2>3 DEF BankaiRec
  <2> QED BY <2>1, <2>4, <1>s
<1> QED BY <1>1, <1>2, <1>3, <1>5, <1>6, <1>7, <1>8, <1>9 DEF RequestActions

TailActions == TailStart \/ TailOpens \/ TailPolls \/ TailStop \/ TailJoined

LEMMA TailStep ==
  ASSUME BankaiInv, TailInv, DumpInv, TailActions
  PROVE  BankaiInv' /\ TailInv' /\ DumpInv'
<1>t. bankai \in BankaiRec /\ tailer \in TailerRec
  BY DEF BankaiInv, TailInv
<1>p. Prompt \in BankaiRec /\ Prompt.at = "prompt" /\ Prompt.fd = FALSE
  BY <1>t, PromptIs
<1>b. ASSUME bankai' \in BankaiRec, bankai'.at \in {"getchar", "join", "prompt"}, bankai'.at = "prompt" => ~bankai'.fd, UNCHANGED dump
      PROVE  BankaiInv' /\ DumpInv'
  BY <1>b DEF BankaiInv, DumpInv, DumpIsTail
<1>u. ASSUME UNCHANGED <<bankai, dump>> PROVE BankaiInv' /\ DumpInv'
  BY <1>u DEF BankaiInv, DumpInv, DumpIsTail
<1>1. ASSUME TailStart PROVE BankaiInv' /\ TailInv' /\ DumpInv'
  <2>0. bankai.at = "command" /\ UNCHANGED dump
    BY <1>1 DEF TailStart, Dispatch
  <2>1. CASE tailer' = [at |-> "open", active |-> TRUE, pipe |-> "open"] /\ bankai' = [Prompt EXCEPT !.at = "getchar"]
    <3>1. bankai' \in BankaiRec /\ bankai'.at = "getchar"
      BY <2>1, <1>p DEF BankaiRec, BankaiSteps
    <3>2. TailInv'
      BY <2>1, <3>1 DEF TailInv, TailerRec
    <3> QED BY <2>0, <3>1, <3>2, <1>b
  <2>2. CASE bankai' = Prompt /\ UNCHANGED tailer
    <3>1. TailInv'
      BY <2>0, <2>2 DEF TailInv
    <3> QED BY <2>0, <2>2, <3>1, <1>p, <1>b
  <2> QED BY <1>1, <2>1, <2>2 DEF TailStart
<1>2. ASSUME TailOpens \/ TailPolls PROVE BankaiInv' /\ TailInv' /\ DumpInv'
  <2>0. UNCHANGED <<bankai, dump>> /\ tailer # TailerOff
    BY <1>2, <1>t DEF TailOpens, TailPolls, TailerOff
  <2>1. CASE tailer' = [tailer EXCEPT !.at = "loop"]
    <3>1. tailer' \in TailerRec /\ tailer'.at = "loop"
      BY <2>1, <1>t DEF TailerRec
    <3> QED BY <2>0, <3>1, <1>u DEF TailInv
  <2>2. CASE tailer' = [tailer EXCEPT !.at = "over", !.active = FALSE]
    <3> DEFINE a == [tailer EXCEPT !.at = "over"]
    <3>0. tailer' = [a EXCEPT !.active = FALSE]
      BY <2>2
    <3>1. a \in TailerRec
      BY <1>t DEF TailerRec
    <3> HIDE DEF a
    <3>2. tailer' \in TailerRec /\ tailer'.active = FALSE
      BY <3>0, <3>1 DEF TailerRec
    <3> QED BY <2>0, <3>2, <1>u DEF TailInv
  <2> QED BY <1>2, <2>1, <2>2 DEF TailOpens, TailPolls
<1>3. ASSUME TailStop PROVE BankaiInv' /\ TailInv' /\ DumpInv'
  <2>0. bankai.at = "getchar" /\ bankai' = [bankai EXCEPT !.at = "join"] /\ UNCHANGED dump
    BY <1>3 DEF TailStop
  <2>1. bankai' \in BankaiRec /\ bankai'.at = "join"
    BY <2>0, <1>t DEF BankaiRec, BankaiSteps
  <2>2. tailer' \in TailerRec /\ tailer'.at = tailer.at /\ tailer'.active = tailer.active
    <3>1. CASE tailer' = [tailer EXCEPT !.pipe = "byte"]
      BY <3>1, <1>t DEF TailerRec
    <3> QED BY <1>3, <3>1, <1>t DEF TailStop
  <2> QED BY <2>0, <2>1, <2>2, <1>b DEF TailInv
<1>4. ASSUME TailJoined PROVE BankaiInv' /\ TailInv' /\ DumpInv'
  <2> DEFINE a == [tailer EXCEPT !.at = "off"]
  <2>0. tailer.at = "over" /\ tailer' = [a EXCEPT !.pipe = "closed"] /\ bankai' = Prompt /\ UNCHANGED dump
    BY <1>4 DEF TailJoined
  <2>1. a \in TailerRec /\ a.at = "off" /\ a.active = tailer.active
    BY <1>t DEF TailerRec
  <2> HIDE DEF a
  <2>2. tailer' \in TailerRec /\ tailer'.at = "off" /\ tailer'.active = a.active /\ tailer'.pipe = "closed"
    BY <2>0, <2>1 DEF TailerRec
  <2>3. tailer.active = FALSE
    BY <2>0, <1>t DEF TailInv, TailerRec
  <2>4. tailer' = TailerOff
    BY <2>1, <2>2, <2>3 DEF TailerRec, TailerOff
  <2>5. TailInv'
    BY <2>2, <2>4 DEF TailInv
  <2> QED BY <2>0, <2>5, <1>p, <1>b
<1> QED BY <1>1, <1>2, <1>3, <1>4 DEF TailActions

\* The slot of a line of the dump, counted from the oldest.
LEMMA DumpSlot ==
  ASSUME NEW idx \in Nat, NEW n \in Nat \ {0}, n =< idx, NEW i \in 1 .. n
  PROVE  ((idx % n) + i - 1) % n = ((idx - n + i) - 1) % n
<1> DEFINE q == idx \div n
           r == idx % n
           x == r + i - 1
           y == (idx - n + i) - 1
<1>1. idx = q * n + r /\ q \in Nat /\ r \in 0 .. n - 1
  BY DivMod
<1> HIDE DEF q, r
<1>2. x \in Nat /\ y \in Nat /\ i \in Nat /\ r \in Nat
  BY <1>1
<1>3. q * n \in Nat
  BY <1>1
<1>4. x + q * n = y + n
  BY <1>1, <1>2, <1>3
<1> DEFINE z == y + n
           p == x \div n
           u == x % n
           s == y \div n
           v == y % n
<1>5. z \in Nat /\ z = x + q * n
  BY <1>2, <1>4
<1>6. z = y + n
  OBVIOUS
<1> HIDE DEF x, y, z
<1>7. x = p * n + u /\ u \in 0 .. n - 1 /\ p \in Nat
  BY <1>2, DivMod
<1>8. y = s * n + v /\ v \in 0 .. n - 1 /\ s \in Nat
  BY <1>2, DivMod
<1> HIDE DEF p, u, s, v
<1>9. z = (p + q) * n + u /\ p + q \in Nat
  BY <1>1, <1>5, <1>7
<1>10. z = (s + 1) * n + v /\ s + 1 \in Nat
  BY <1>6, <1>8
<1>11. z % n = u
  BY <1>5, <1>7, <1>9, DivUnique
<1>12. z % n = v
  <2>1. z \in Nat
    BY <1>5
  <2> QED BY <2>1, <1>8, <1>10, DivUnique
<1> QED BY <1>11, <1>12 DEF u, v, x, y, r

\* What is shown are the last lines, oldest first.
ShownLen(d) == IF d.idx < d.n THEN d.idx ELSE d.n

LEMMA ShownIs ==
  ASSUME NEW d, d.n \in Nat \ {0}, d.idx \in Nat, LinesIn(d.ring, d.n, d.idx)
  PROVE  DumpShown(d) = [i \in 1 .. ShownLen(d) |-> d.idx - ShownLen(d) + i]
<1> DEFINE n == d.n
           idx == d.idx
<1>0. n \in Nat \ {0} /\ idx \in Nat /\ LinesIn(d.ring, n, idx)
  OBVIOUS
<1>1. CASE idx < n
  <2>1. DumpShown(d) = [i \in 1 .. idx |-> d.ring[(0 + i - 1) % n]]
    BY <1>0, <1>1 DEF DumpShown
  <2>0. ShownLen(d) = idx
    BY <1>1 DEF ShownLen
  <2> HIDE DEF n, idx
  <2>2. ASSUME NEW i \in 1 .. idx PROVE d.ring[(0 + i - 1) % n] = idx - idx + i
    <3>1. i > idx - n /\ 0 + i - 1 = i - 1 /\ idx - idx + i = i
      BY <1>0, <1>1
    <3> QED BY <1>0, <3>1 DEF LinesIn
  <2>3. DumpShown(d) = [i \in 1 .. idx |-> idx - idx + i]
    BY <2>1, <2>2
  <2> QED BY <2>0, <2>3 DEF n, idx
<1>2. CASE n =< idx
  <2>1. DumpShown(d) = [i \in 1 .. n |-> d.ring[((idx % n) + i - 1) % n]]
    BY <1>0, <1>2 DEF DumpShown
  <2>0. ShownLen(d) = n
    BY <1>0, <1>2 DEF ShownLen
  <2> HIDE DEF n, idx
  <2>2. ASSUME NEW i \in 1 .. n PROVE d.ring[((idx % n) + i - 1) % n] = idx - n + i
    <3>1. ((idx % n) + i - 1) % n = ((idx - n + i) - 1) % n
      BY <1>0, <1>2, DumpSlot
    <3>2. idx - n + i \in 1 .. idx /\ idx - n + i > idx - n
      BY <1>0, <1>2
    <3> QED BY <1>0, <3>1, <3>2 DEF LinesIn
  <2>3. DumpShown(d) = [i \in 1 .. n |-> idx - n + i]
    BY <2>1, <2>2
  <2> QED BY <2>0, <2>3 DEF n, idx
<1> QED BY <1>0, <1>1, <1>2

\* The next line of the log goes into the slot of the oldest one.
LEMMA RingPuts ==
  ASSUME NEW n \in Nat \ {0}, NEW idx \in Nat, NEW buf \in [0 .. n - 1 -> Nat],
         LinesIn(buf, n, idx)
  PROVE  LET new == [buf EXCEPT ![idx % n] = idx + 1]
         IN  /\ new \in [0 .. n - 1 -> Nat]
             /\ LinesIn(new, n, idx + 1)
<1> DEFINE new == [buf EXCEPT ![idx % n] = idx + 1]
<1>1. idx % n \in 0 .. n - 1
  BY DivMod
<1>2. new \in [0 .. n - 1 -> Nat] /\ new[idx % n] = idx + 1 /\ \A i \in 0 .. n - 1 : i # idx % n => new[i] = buf[i]
  BY <1>1
<1> HIDE DEF new
<1>3. ASSUME NEW j \in 1 .. idx + 1, j > (idx + 1) - n PROVE new[(j - 1) % n] = j
  <2>1. CASE j = idx + 1
    <3>1. j - 1 = idx
      BY <2>1
    <3> QED BY <3>1, <2>1, <1>2
  <2>2. CASE j # idx + 1
    <3>1. j \in 1 .. idx /\ j > idx - n /\ j - 1 \in Nat /\ j - 1 < idx /\ idx - (j - 1) < n
      BY <1>3, <2>2
    <3> DEFINE a == j - 1
    <3>2. a \in Nat /\ a < idx /\ idx - a < n
      BY <3>1
    <3>3. buf[a % n] = j
      BY <3>1 DEF LinesIn
    <3> HIDE DEF a
    <3>4. a % n # idx % n
      BY <3>2, ModNear
    <3>5. a % n \in 0 .. n - 1
      BY <3>2, DivMod
    <3>6. new[a % n] = j
      BY <3>3, <3>4, <3>5, <1>2
    <3> QED BY <3>6 DEF a
  <2> QED BY <2>1, <2>2
<1> QED BY <1>2, <1>3 DEF new, LinesIn

DumpActions ==
    \/ \E file \in 0 .. MaxLog, want \in 0 .. MaxDump + 1 : DumpStart(file, want)
    \/ DumpLine \/ DumpEnd \/ DumpReturns

LEMMA DumpStep ==
  ASSUME BankaiInv, TailInv, DumpInv, DumpActions
  PROVE  BankaiInv' /\ TailInv' /\ DumpInv'
<1>t. bankai \in BankaiRec
  BY DEF BankaiInv
<1>p. Prompt \in BankaiRec /\ Prompt.at = "prompt" /\ Prompt.fd = FALSE
  BY <1>t, PromptIs
<1>b. ASSUME bankai' \in BankaiRec, bankai'.at \in {"dump", "dumped", "prompt"}, bankai'.at = "prompt" => ~bankai'.fd,
             bankai.at \notin {"getchar", "join"}, UNCHANGED tailer
      PROVE  BankaiInv' /\ TailInv'
  BY <1>b DEF BankaiInv, TailInv
<1> DEFINE Recs(n) == [n : Nat \ {0}, file : 0 .. MaxLog, idx : Nat, ring : [0 .. n - 1 -> Nat], shown : {<< >>}]
<1>1. ASSUME NEW file \in 0 .. MaxLog, NEW want \in 0 .. MaxDump + 1, DumpStart(file, want)
      PROVE  BankaiInv' /\ TailInv' /\ DumpInv'
  <2>0. bankai.at = "command" /\ UNCHANGED tailer
    BY <1>1 DEF DumpStart, Dispatch
  <2> DEFINE n == DumpLines(want)
  <2>1. CASE /\ bankai' = [Prompt EXCEPT !.at = "dump"]
             /\ dump' = [n |-> n, file |-> file, idx |-> 0, ring |-> [i \in 0 .. n - 1 |-> 0], shown |-> << >>]
    <3>1. bankai' \in BankaiRec /\ bankai'.at = "dump"
      BY <2>1, <1>p DEF BankaiRec, BankaiSteps
    <3>2. n \in Nat \ {0}
      BY ToolAssumption DEF DumpLines
    <3> HIDE DEF n
    <3>3. dump' \in Recs(n) /\ dump'.n = n /\ dump'.idx = 0 /\ dump'.file = file
      BY <2>1, <3>2
    <3>4. 0 \in 0 .. MaxLog /\ 0 =< file
      BY ToolAssumption
    <3>5. DumpInv'
      BY <3>1, <3>3, <3>4 DEF DumpInv, DumpIsTail, LinesIn
    <3> QED BY <2>0, <3>1, <3>5, <1>b
  <2>2. CASE bankai' = Prompt /\ UNCHANGED dump
    <3>1. DumpInv'
      BY <2>2, <1>p DEF DumpInv, DumpIsTail
    <3> QED BY <2>0, <2>2, <3>1, <1>p, <1>b
  <2> QED BY <1>1, <2>1, <2>2 DEF DumpStart
<1>2. ASSUME bankai.at = "dump" PROVE /\ dump \in Recs(dump.n) /\ dump.n \in Nat \ {0} /\ dump.file \in 0 .. MaxLog /\ dump.idx \in Nat
                                      /\ dump.ring \in [0 .. dump.n - 1 -> Nat] /\ dump.idx =< dump.file
                                      /\ LinesIn(dump.ring, dump.n, dump.idx)
  BY <1>2 DEF DumpInv
<1>3. ASSUME DumpLine PROVE BankaiInv' /\ TailInv' /\ DumpInv'
  <2>0. bankai.at = "dump" /\ dump.idx < dump.file /\ UNCHANGED <<bankai, tailer>>
    BY <1>3 DEF DumpLine
  <2> DEFINE n == dump.n
             idx == dump.idx
             new == [dump.ring EXCEPT ![idx % n] = idx + 1]
             a == [dump EXCEPT !.ring = new]
  <2>1. dump' = [a EXCEPT !.idx = idx + 1]
    BY <1>2, <1>3, <2>0 DEF DumpLine
  <2>2. new \in [0 .. n - 1 -> Nat] /\ LinesIn(new, n, idx + 1)
    BY <1>2, <2>0, RingPuts
  <2>3. idx + 1 \in Nat /\ idx + 1 =< dump.file /\ idx + 1 \in 0 .. MaxLog
    BY <1>2, <2>0, ToolAssumption
  <2>4. dump \in Recs(n)
    BY <1>2, <2>0
  <2> HIDE DEF new, n, idx
  <2>5. a \in Recs(n) /\ a.n = dump.n /\ a.file = dump.file /\ a.ring = new
    BY <2>2, <2>4
  <2> HIDE DEF a
  <2>6. dump' \in Recs(n) /\ dump'.n = a.n /\ dump'.file = a.file /\ dump'.ring = a.ring /\ dump'.idx = idx + 1
    BY <2>1, <2>3, <2>5
  <2>7. dump'.n = n
    BY <2>5, <2>6 DEF n
  <2>8. DumpInv'
    BY <2>0, <2>2, <2>3, <2>5, <2>6, <2>7 DEF DumpInv, DumpIsTail
  <2>9. BankaiInv' /\ TailInv'
    BY <2>0 DEF BankaiInv, TailInv
  <2> QED BY <2>8, <2>9
<1>4. ASSUME DumpEnd PROVE BankaiInv' /\ TailInv' /\ DumpInv'
  <2>0. /\ bankai.at = "dump" /\ dump.idx = dump.file /\ UNCHANGED tailer
        /\ bankai' = [bankai EXCEPT !.at = "dumped"] /\ dump' = [dump EXCEPT !.shown = DumpShown(dump)]
    BY <1>4 DEF DumpEnd
  <2>1. bankai' \in BankaiRec /\ bankai'.at = "dumped"
    BY <2>0, <1>t DEF BankaiRec, BankaiSteps
  <2> DEFINE n == dump.n
             idx == dump.idx
             len == IF idx < n THEN idx ELSE n
             s == DumpShown(dump)
  <2>2. s = [i \in 1 .. len |-> idx - len + i]
    <3>1. DumpShown(dump) = [i \in 1 .. ShownLen(dump) |-> dump.idx - ShownLen(dump) + i]
      BY <1>2, <2>0, ShownIs
    <3>2. ShownLen(dump) = len
      BY DEF ShownLen
    <3> HIDE DEF len
    <3> QED BY <3>1, <3>2
  <2>3. len \in Nat
    BY <1>2, <2>0
  <2>4. dump \in Recs(dump.n) /\ idx \in 0 .. MaxLog
    BY <1>2, <2>0 DEF DumpInv
  <2> HIDE DEF s
  <2>5. dump'.shown = s /\ dump'.n = dump.n /\ dump'.idx = dump.idx /\ dump'.file = dump.file
    BY <2>0, <2>4 DEF s
  <2>6. Len(s) = len /\ DOMAIN s = 1 .. len /\ \A i \in 1 .. len : s[i] = dump.file - len + i
    <3>1. dump.file = idx
      BY <2>0
    <3> HIDE DEF len, idx
    <3> QED BY <2>2, <2>3, <3>1
  <2>7. len = IF dump.file < n THEN dump.file ELSE n
    BY <2>0
  <2> HIDE DEF len
  <2>8. DumpIsTail'
    BY <2>5, <2>6, <2>7 DEF DumpIsTail
  <2>9. DumpInv'
    BY <2>1, <2>4, <2>5, <2>8 DEF DumpInv
  <2> QED BY <2>0, <2>1, <2>9, <1>b
<1>5. ASSUME DumpReturns PROVE BankaiInv' /\ TailInv' /\ DumpInv'
  <2>0. bankai.at = "dumped" /\ bankai' = Prompt /\ dump' = NoDump /\ UNCHANGED tailer
    BY <1>5 DEF DumpReturns
  <2>1. NoDump.idx = 0 /\ 0 \in 0 .. MaxLog
    BY ToolAssumption DEF NoDump
  <2>2. DumpInv'
    BY <2>0, <2>1, <1>p DEF DumpInv, DumpIsTail
  <2> QED BY <2>0, <2>2, <1>p, <1>b
<1> QED BY <1>1, <1>3, <1>4, <1>5 DEF DumpActions

ToolInv == ApiInv /\ CtlInv /\ TermInv /\ WireInv /\ second \in Int /\ BankaiInv /\ TailInv /\ DumpInv

LEMMA ToolStep == ToolInv /\ [ToolNext]_toolVars => ToolInv'
<1> SUFFICES ASSUME ToolInv, [ToolNext]_toolVars PROVE ToolInv'
  OBVIOUS
<1>a. ASSUME UNCHANGED api PROVE ApiInv'
  BY <1>a DEF ToolInv, ApiInv, CallTellsTruth
<1>b. ASSUME UNCHANGED <<bankai, dump, tailer>> PROVE BankaiInv' /\ TailInv' /\ DumpInv'
  BY <1>b DEF ToolInv, BankaiInv, TailInv, DumpInv, DumpIsTail
<1>c. ASSUME UNCHANGED ctl PROVE CtlInv'
  BY <1>c DEF ToolInv, CtlInv
<1>d. ASSUME UNCHANGED terminal PROVE TermInv'
  BY <1>d DEF ToolInv, TermInv
<1>e. ASSUME UNCHANGED <<ctl, terminal, wire>> PROVE WireInv'
  BY <1>e DEF ToolInv, WireInv, TermWire, CtlWire, InOrder
<1>f. ASSUME UNCHANGED second PROVE second' \in Int
  BY <1>f DEF ToolInv
<1>1. ASSUME BankaiNext PROVE ToolInv'
  <2>1. BankaiOnly
    BY <1>1 DEF BankaiNext, NextChar, ReadLine, EndLine, EndOfInput, NoWords, HelpCommand, SocketCommand, UnknownCommand,
                QuitBankai, RequestRegister, RequestLookup, RequestHeartbeat, RequestUnregister, Request, LoadKey,
                TransactBankai, RequestReturns, RecvReply, RequestPing, PingReturns, Prints, DumpStart, DumpLine, DumpEnd,
                DumpReturns, TailStart, TailOpens, TailPolls, TailStop, TailJoined
  <2>2. UNCHANGED <<terminal, wire, ctl, api, second>>
    BY <2>1 DEF BankaiOnly
  <2>3. \/ (\E c \in Chars : NextChar(c)) \/ EndLine \/ (\E argc \in 0 .. MaxArgs : ReadLine(argc))
        \/ RequestActions \/ DumpActions \/ TailActions
    BY <1>1 DEF BankaiNext, RequestActions, DumpActions, TailActions
  <2>4. BankaiInv' /\ TailInv' /\ DumpInv'
    BY <2>3, LineStep, RequestStep, DumpStep, TailStep DEF ToolInv
  <2> QED BY <2>2, <2>4, <1>a, <1>c, <1>d, <1>e, <1>f DEF ToolInv
<1>2. ASSUME CtlNext PROVE ToolInv'
  <2>1. CtlOnly
    BY <1>2 DEF CtlNext, CtlConnect, CtlDisconnect, CtlSend, CtlRefused, CtlRecv, MonitorStats, MonitorSleeps, MonitorEnds, Interrupt
  <2>2. UNCHANGED <<bankai, dump, tailer, terminal, api, second>>
    BY <2>1 DEF CtlOnly
  <2>3. CtlInv' /\ WireInv'
    BY <1>2, CtlStep DEF ToolInv
  <2> QED BY <2>2, <2>3, <1>a, <1>b, <1>d, <1>f DEF ToolInv
<1>3. ASSUME ApiNext PROVE ToolInv'
  <2>1. ApiOnly
    BY <1>3 DEF ApiNext, sm_register, sm_lookup, sm_heartbeat, sm_unregister, CallBegin, TransactSend, TransactRecv, CallReturns, ManagerReplies
  <2>2. UNCHANGED <<bankai, dump, tailer, terminal, wire, ctl, second>>
    BY <2>1 DEF ApiOnly
  <2>3. ApiInv'
    BY <1>3, ApiStep DEF ToolInv
  <2> QED BY SMTT(30), <2>2, <2>3, <1>b, <1>c, <1>d, <1>e, <1>f DEF ToolInv
<1>4. ASSUME TerminalNext PROVE ToolInv'
  <2>1. TermOnly
    BY <1>4 DEF TerminalNext, StartTerminal, PingCommand, ConnectCommand, SendCommand, SendRefused, SendToClosed, RecvAnswer,
                RecvEnd, RecvTimeout, Second, QuitTerminal
  <2>2. UNCHANGED <<bankai, dump, tailer, ctl, api>>
    BY <2>1 DEF TermOnly
  <2>3. TermInv' /\ WireInv' /\ second' \in Int
    BY <1>4, TerminalStep DEF ToolInv
  <2> QED BY <2>2, <2>3, <1>a, <1>b, <1>c DEF ToolInv
<1>5. ASSUME ManagerAnswers \/ ManagerCloses PROVE ToolInv'
  <2>1. UNCHANGED <<bankai, dump, tailer, ctl, api, terminal, second>>
    BY <1>5 DEF ManagerAnswers, ManagerCloses, TermOnly
  <2>2. WireInv'
    BY <1>5, ManagerStep DEF ToolInv
  <2> QED BY <2>1, <2>2, <1>a, <1>b, <1>c, <1>d, <1>f DEF ToolInv
<1>6. ASSUME UNCHANGED toolVars PROVE ToolInv'
  <2>1. UNCHANGED <<bankai, dump, tailer, terminal, wire, ctl, api, second>>
    BY <1>6 DEF toolVars
  <2> QED BY <2>1, <1>a, <1>b, <1>c, <1>d, <1>e, <1>f DEF ToolInv
<1> QED BY <1>1, <1>2, <1>3, <1>4, <1>5, <1>6 DEF ToolNext

LEMMA ToolStart == ToolInit => ToolInv
<1> SUFFICES ASSUME ToolInit PROVE ToolInv
  OBVIOUS
<1>0. PICK program \in {"terminal", "bankai", "ctl", "api"}, path \in {"primary", "fallback"}, found \in {0, MaxArgs - 2} :
        /\ bankai = [at |-> IF program = "bankai" THEN "line" ELSE "other", line |-> << >>,
                     found |-> found, word |-> [NoWord EXCEPT !.argc = found],
                     path |-> path, key |-> "none", fd |-> FALSE, req |-> "none", said |-> "none"]
        /\ terminal = [at |-> IF program = "terminal" THEN "init" ELSE "other", sock |-> FALSE,
                       mon |-> FALSE, last |-> -Interval, cmd |-> 0, mine |-> 0]
        /\ ctl = [at |-> IF program = "ctl" THEN "ready" ELSE "other", sock |-> FALSE, cmd |-> 0,
                  output |-> << >>, running |-> FALSE, handler |-> FALSE, cut |-> FALSE]
        /\ api = [at |-> IF program = "api" THEN "ready" ELSE "other", call |-> "none", fd |-> FALSE,
                  reply |-> "none", rc |-> "none"]
        /\ program # "bankai" => path = "primary" /\ found = 0
  BY Zenon DEF ToolInit
<1>1. ApiInv
  BY <1>0 DEF ApiInv, ApiRec, Replies, Codes, CallTellsTruth
<1>2. ctl \in CtlRec /\ ctl.at \in {"ready", "other"} /\ ctl.output = << >> /\ ctl.handler = FALSE /\ ctl.sock = FALSE /\ ctl.cmd = 0
  BY <1>0, EmptySeq, ToolAssumption DEF CtlRec, CtlSteps
<1>3. CtlInv
  BY <1>2 DEF CtlInv
<1>4. terminal \in TermRec /\ terminal.mine = 0 /\ terminal.at \in {"init", "other"} /\ terminal.sock = FALSE
  BY <1>0, ToolAssumption DEF TermRec
<1>5. TermInv
  BY <1>4 DEF TermInv
<1>6. WireInv
  <2>1. wire \in WireRec /\ wire.asked = << >> /\ wire.answers = << >> /\ wire.closed = FALSE
    BY NewWireIs DEF ToolInit
  <2>2. ctl.at = "other" \/ terminal.at = "other"
    BY <1>0
  <2>3. TermWire
    BY <2>1, <1>4 DEF TermWire
  <2>4. Len(<< >>) = 0
    OBVIOUS
  <2>5. CtlWire
    BY <2>1, <2>4, <1>2 DEF CtlWire, InOrder
  <2> QED BY <2>1, <2>2, <2>3, <2>5, <1>4 DEF WireInv
<1>7. BankaiInv
  <2> DEFINE w == [NoWord EXCEPT !.argc = found]
  <2>1. found \in 0 .. MaxArgs /\ found # MaxArgs /\ found \in Int
    BY ToolAssumption
  <2>2. w \in WordRec /\ w.argc = found
    BY <2>1, NoWordIs DEF WordRec
  <2> DEFINE step == IF program = "bankai" THEN "line" ELSE "other"
  <2>3. step \in {"line", "other"} /\ bankai.at = step /\ bankai.word = w /\ bankai.fd = FALSE
    BY <1>0
  <2> HIDE DEF w, step
  <2>4. bankai = [at |-> step, line |-> << >>, found |-> found, word |-> w,
                  path |-> path, key |-> "none", fd |-> FALSE, req |-> "none", said |-> "none"]
    BY <1>0 DEF w, step
  <2>5. bankai \in BankaiRec
    BY <2>1, <2>2, <2>3, <2>4, EmptySeq DEF BankaiRec, BankaiSteps, RequestKinds
  <2> QED BY <2>1, <2>2, <2>3, <2>5 DEF BankaiInv, WordInv
<1>8. bankai.at \in {"line", "other"}
  BY <1>0
<1>9. TailInv
  BY <1>8 DEF ToolInit, TailInv, TailerRec, TailerOff
<1>10. DumpInv
  <2>1. dump.idx = 0 /\ 0 \in 0 .. MaxLog
    BY ToolAssumption DEF ToolInit, NoDump
  <2> QED BY <2>1, <1>8 DEF DumpInv, DumpIsTail
<1>11. second \in Int
  BY DEF ToolInit
<1> QED BY <1>1, <1>3, <1>5, <1>6, <1>7, <1>9, <1>10, <1>11 DEF ToolInv

LEMMA ToolsOk == ToolInv => ToolsSafe
<1> SUFFICES ASSUME ToolInv PROVE ToolsSafe
  OBVIOUS
<1>1. ToolTypeOK
  <2>1. bankai.word.argc \in 0 .. MaxArgs /\ bankai.word.len \in 0 .. MaxToken
    BY DEF ToolInv, BankaiInv, BankaiRec, WordRec
  <2>2. dump.idx \in 0 .. MaxLog
    BY DEF ToolInv, DumpInv
  <2>3. ctl.cmd \in 0 .. MaxCommands /\ api.rc \in Codes \cup {"none"}
    BY DEF ToolInv, CtlInv, CtlRec, ApiInv, ApiRec
  <2>4. Len(wire.asked) + Len(wire.answers) =< MaxCommands
    <3>1. wire.asked \in Seq(Nat) /\ wire.answers \in Seq(Nat)
      BY DEF ToolInv, WireInv, WireRec
    <3>2. Len(wire.asked) \in Nat /\ Len(wire.answers) \in Nat
      BY <3>1, EmptyIs
    <3>3. CASE ctl.at # "other"
      <4>1. Len(wire.answers) + Len(wire.asked) =< ctl.cmd
        BY <3>3 DEF ToolInv, WireInv, CtlWire
      <4> DEFINE a == Len(wire.answers)
                 k == Len(wire.asked)
                 c == ctl.cmd
      <4>2. a + k =< c /\ a \in Nat /\ k \in Nat /\ c \in 0 .. MaxCommands
        BY <4>1, <3>2, <2>3
      <4> HIDE DEF a, k, c
      <4>3. k + a =< MaxCommands
        BY <4>2, ToolAssumption
      <4> QED BY <4>3 DEF a, k
    <3>4. CASE ctl.at = "other"
      <4>0. TermWire /\ terminal.cmd \in 0 .. MaxCommands
        BY <3>4 DEF ToolInv, WireInv, TermInv, TermRec
      <4>1. Len(<< >>) = 0 /\ Len(<<terminal.cmd>>) = 1
        OBVIOUS
      <4>2. CASE wire.asked = << >> /\ wire.answers = << >>
        BY <4>1, <4>2, ToolAssumption
      <4>3. CASE ~(wire.asked = << >> /\ wire.answers = << >>)
        <5>1. /\ terminal.at = "recv"
              /\ \/ wire.asked = <<terminal.cmd>> /\ wire.answers = << >>
                 \/ wire.asked = << >> /\ wire.answers = <<terminal.cmd>>
          BY <4>0, <4>3 DEF TermWire
        <5>2. Len(wire.asked) + Len(wire.answers) = 1
          <6>1. CASE wire.asked = <<terminal.cmd>> /\ wire.answers = << >>
            <7>1. Len(wire.asked) = 1 /\ Len(wire.answers) = 0
              BY <4>1, <6>1
            <7> QED BY <7>1
          <6>2. CASE wire.asked = << >> /\ wire.answers = <<terminal.cmd>>
            <7>1. Len(wire.asked) = 0 /\ Len(wire.answers) = 1
              BY <4>1, <6>2
            <7> QED BY <7>1
          <6> QED BY <5>1, <6>1, <6>2
        <5>3. terminal.cmd # 0
          BY <5>1 DEF ToolInv, TermInv
        <5>4. MaxCommands >= 1
          BY <4>0, <5>3, ToolAssumption
        <5> QED BY <5>2, <5>4
      <4> QED BY <4>2, <4>3
    <3> QED BY <3>3, <3>4
  <2> QED BY <2>1, <2>2, <2>3, <2>4 DEF ToolTypeOK
<1>2. DumpIsTail /\ CallTellsTruth
  BY DEF ToolInv, DumpInv, ApiInv
<1>3. PromptIsQuiet
  BY DEF ToolInv, BankaiInv, TailInv, PromptIsQuiet, TailerOff
<1>4. AnswerIsMine
  BY DEF ToolInv, TermInv, AnswerIsMine
<1>5. OutputIsMine
  <2> SUFFICES ASSUME ctl.output # << >>
               PROVE  /\ ~ctl.cut => ctl.output = <<ctl.cmd>>
                      /\ \A i \in DOMAIN ctl.output : ctl.output[i] = ctl.output[1] + i - 1 /\ ctl.output[i] =< ctl.cmd
    BY DEF OutputIsMine
  <2>1. ctl.output \in Seq(Nat) /\ (~ctl.cut => ctl.output = <<ctl.cmd>>) /\ InOrder(ctl.output, ctl.cmd)
    BY DEF ToolInv, CtlInv, CtlRec
  <2>2. DOMAIN ctl.output = 1 .. Len(ctl.output)
    BY <2>1, LenProperties
  <2> QED BY <2>1, <2>2 DEF InOrder
<1>6. HandlerRestored
  BY DEF ToolInv, CtlInv, HandlerRestored
<1> QED BY <1>1, <1>2, <1>3, <1>4, <1>5, <1>6 DEF ToolsSafe

-----------------------------------------------------------------------------
\* What an operator is told is true: the data of monitord never gets older,
\* its threads and connections are each there once, a viewer that lost its
\* place in the stream gets it back, the rings give the newest entries, and
\* the answer that a tool shows is the one to its command.  For any number
\* of collectors, viewers, connections, entries, tabs, words and commands,
\* and any length of a header, a message, a ring and a log.
THEOREM OperatorsCorrect == ClientsSpec => []OperatorsSafe
<1> DEFINE Inv == MonitordInv /\ ViewInv /\ StoreInv /\ ToolInv
<1>1. ClientsInit => Inv
  BY MonitordStart, ViewStart, StoreStart, ToolStart DEF ClientsInit
<1>2. Inv /\ [ClientsNext]_allVars => Inv'
  <2> SUFFICES ASSUME Inv, [ClientsNext]_allVars PROVE Inv'
    OBVIOUS
  <2>1. /\ [MonitordNext]_mdVars /\ [ViewNext]_viewVars
        /\ [StoreNext]_storeVars /\ [ToolNext]_toolVars
    BY DEF ClientsNext, MonitorNext, ProxiesNext, EdgeNext, allVars, monitorVars, edgeVars
  <2> QED BY <2>1, MonitordStep, ViewStep, StoreStep, ToolStep
<1>3. Inv => OperatorsSafe
  BY MonitordOk, ViewOk, StoresOk, ToolsOk DEF OperatorsSafe
<1> QED BY <1>1, <1>2, <1>3, PTL DEF ClientsSpec
=============================================================================

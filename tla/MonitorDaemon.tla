---------------------------- MODULE MonitorDaemon ----------------------------
(***************************************************************************)
(* monitord: one thread per collector writes its part of the shared state  *)
(* under a write lock; the main loop copies the state under the read locks *)
(* and sends it to the clients of the Unix socket, whose table a thread of *)
(* its own fills; another thread answers HTTP requests.  A signal ends the *)
(* loop, and main stops the parts one after the other.                     *)
(***************************************************************************)
EXTENDS Integers, Sequences, FiniteSets

CONSTANTS Collectors,       \* the collectors registered, in this order: 1 .. n
          Viewers,          \* processes that connect to the Unix socket
          MaxClients,       \* MAX_CLIENTS
          ErrorLimit,       \* failures in a row before a collector goes offline, three
          MaxTicks,         \* bound on the updates of a collector
          MaxSnapshots      \* bound on the snapshots

ASSUME MdAssumption ==
    /\ IsFiniteSet(Collectors) /\ Collectors = 1 .. Cardinality(Collectors)
    /\ MaxClients \in Nat /\ ErrorLimit \in Nat /\ "nobody" \notin Viewers

VARIABLES coll,             \* collector_t and its thread
          held,             \* collectors between a connect and the next disconnect
          data, seq,        \* monitord_state_t: the version of each collector's part, snapshot_seq
          boss,             \* the main thread: what it does, the snapshot, the slot or collector it is at
          stopFlag,         \* g_stop_flag
          server, http,     \* the accept threads and their stop_flag
          clients,          \* the table of the server
          sock,             \* the viewers' connections
          sent,             \* history: the data of the last snapshot sent
          ever              \* history: a join ran out of time, a collector could not be started

mdVars == <<coll, held, data, seq, boss, stopFlag, server, http, clients, sock, sent, ever>>

Slots   == 1 .. MaxClients
Nobody  == "nobody"
NoSnap  == [seq |-> -1, data |-> [c \in Collectors |-> 0]]

MonitordInit ==
    /\ coll = [c \in Collectors |-> [at |-> "none", st |-> "WAITING", errs |-> 0, stop |-> FALSE]]
    /\ held = {} /\ data = [c \in Collectors |-> 0] /\ seq = 0
    /\ boss = [at |-> "start", snap |-> NoSnap, n |-> 1]
    /\ stopFlag = FALSE
    /\ server = [at |-> "none", stop |-> FALSE, who |-> Nobody]
    /\ http   = [at |-> "none", stop |-> FALSE, seq |-> 0]
    /\ clients = [i \in Slots |-> Nobody]
    /\ sock = [v \in Viewers |-> "none"]
    /\ sent = NoSnap.data
    /\ ever = {}

-----------------------------------------------------------------------------
(* The locks: a collector holds its write lock during a tick, a snapshot   *)
(* holds all the read locks.                                               *)

MonitordAlive == boss.at \notin {"exited", "killed"}
Writing == \E c \in Collectors : coll[c].at = "tick"
Reading == boss.at = "serialize" \/ http.at = "serialize"

Coll(c, rec) == coll' = [coll EXCEPT ![c] = rec]

\* collector_thread after its staggered start, and WAITING once retry_ms is over.
Waited(c) ==
    /\ MonitordAlive /\ coll[c].at = "loop" /\ ~coll[c].stop /\ coll[c].st = "WAITING"
    /\ Coll(c, [coll[c] EXCEPT !.st = "CONNECTING"])
    /\ UNCHANGED <<held, data, seq, boss, stopFlag, server, http, clients, sock, sent, ever>>

\* CONNECTING: the collector's connect, which is tried again when it fails.
Connect(c) ==
    /\ MonitordAlive /\ coll[c].at = "loop" /\ ~coll[c].stop /\ coll[c].st = "CONNECTING"
    /\ Coll(c, [coll[c] EXCEPT !.st = "LIVE"])
    /\ held' = held \cup {c}
    /\ UNCHANGED <<data, seq, boss, stopFlag, server, http, clients, sock, sent, ever>>

\* LIVE and STALE: a tick begins, by then the last one may be long ago.
TickBegins(c, late) ==
    /\ MonitordAlive /\ coll[c].at = "loop" /\ ~coll[c].stop /\ coll[c].st \in {"LIVE", "STALE"}
    /\ ~Writing /\ ~Reading
    /\ late => data[c] > 0
    /\ Coll(c, [coll[c] EXCEPT !.at = "tick", !.st = IF late THEN "STALE" ELSE @])
    /\ UNCHANGED <<held, data, seq, boss, stopFlag, server, http, clients, sock, sent, ever>>

\* The tick wrote its part of the state.
TickSucceeds(c) ==
    /\ MonitordAlive /\ coll[c].at = "tick" /\ data[c] < MaxTicks
    /\ data' = [data EXCEPT ![c] = @ + 1]
    /\ Coll(c, [coll[c] EXCEPT !.at = "loop", !.st = "LIVE", !.errs = 0])
    /\ UNCHANGED <<held, seq, boss, stopFlag, server, http, clients, sock, sent, ever>>

\* Mutant: a collector that goes offline is not disconnected before it tries to connect again.
TickFails_open(c) ==
    /\ MonitordAlive /\ coll[c].at = "tick" /\ coll[c].errs < ErrorLimit
    /\ Coll(c, [coll[c] EXCEPT !.at = "loop", !.errs = @ + 1, !.st = IF coll[c].errs + 1 >= ErrorLimit THEN "OFFLINE" ELSE @])
    /\ UNCHANGED <<held, data, seq, boss, stopFlag, server, http, clients, sock, sent, ever>>

\* So many failures in a row disconnect; consecutive_errors is kept, so
\* that after a new connect the first failure is enough.
TickFails(c) ==
    /\ MonitordAlive /\ coll[c].at = "tick"
    /\ LET errs == IF coll[c].errs < ErrorLimit THEN coll[c].errs + 1 ELSE ErrorLimit
       IN  /\ Coll(c, [coll[c] EXCEPT !.at = "loop", !.errs = errs, !.st = IF errs >= ErrorLimit THEN "OFFLINE" ELSE @])
           /\ held' = IF errs >= ErrorLimit THEN held \ {c} ELSE held
    /\ UNCHANGED <<data, seq, boss, stopFlag, server, http, clients, sock, sent, ever>>

\* OFFLINE: disconnect, once more, and wait.
GoesToWait(c) ==
    /\ MonitordAlive /\ coll[c].at = "loop" /\ ~coll[c].stop /\ coll[c].st = "OFFLINE"
    /\ Coll(c, [coll[c] EXCEPT !.st = "WAITING"])
    /\ held' = held \ {c}
    /\ UNCHANGED <<data, seq, boss, stopFlag, server, http, clients, sock, sent, ever>>

\* done: any of the sleeps and the head of the loop sees stop_flag.
CollectorStops(c) ==
    /\ MonitordAlive /\ coll[c].at = "loop" /\ coll[c].stop
    /\ Coll(c, [coll[c] EXCEPT !.at = "gone", !.st = "OFFLINE"])
    /\ held' = held \ {c}
    /\ UNCHANGED <<data, seq, boss, stopFlag, server, http, clients, sock, sent, ever>>

-----------------------------------------------------------------------------
(* The servers.                                                            *)

\* A viewer connects and is accepted while the socket listens ...
Accept(v) ==
    /\ MonitordAlive /\ server.at = "accept" /\ ~server.stop /\ sock[v] = "none"
    /\ server' = [server EXCEPT !.at = "got", !.who = v]
    /\ sock' = [sock EXCEPT ![v] = "open"]
    /\ UNCHANGED <<coll, held, data, seq, boss, stopFlag, http, clients, sent, ever>>

\* ... and may close its end at any time.
ViewerLeaves(v) ==
    /\ MonitordAlive /\ sock[v] = "open"
    /\ sock' = [sock EXCEPT ![v] = "left"]
    /\ UNCHANGED <<coll, held, data, seq, boss, stopFlag, server, http, clients, sent, ever>>

\* Mutant: the free slot is looked for without clients_lock, while a snapshot is sent.
AddClientUnlocked ==
    /\ MonitordAlive /\ server.at = "got"
    /\ LET free == {i \in Slots : clients[i] = Nobody}
       IN  clients' = [clients EXCEPT ![IF free = {} THEN 1 ELSE CHOOSE i \in free : \A j \in free : i =< j] = server.who]
    /\ server' = [server EXCEPT !.at = "accept", !.who = Nobody]
    /\ UNCHANGED <<coll, held, data, seq, boss, stopFlag, http, sock, sent, ever>>

\* The first free slot under clients_lock, which a broadcast holds; without
\* one the connection is closed.
AddClient ==
    /\ MonitordAlive /\ server.at = "got" /\ boss.at # "send"
    /\ LET free == {i \in Slots : clients[i] = Nobody}
       IN  IF free # {}
           THEN /\ clients' = [clients EXCEPT ![CHOOSE i \in free : \A j \in free : i =< j] = server.who]
                /\ UNCHANGED sock
           ELSE /\ sock' = [sock EXCEPT ![server.who] = "closed"]
                /\ UNCHANGED clients
    /\ server' = [server EXCEPT !.at = "accept", !.who = Nobody]
    /\ UNCHANGED <<coll, held, data, seq, boss, stopFlag, http, sent, ever>>

\* After the shutdown accept fails.
ServerThreadEnds ==
    /\ MonitordAlive /\ server.at = "accept" /\ server.stop
    /\ server' = [server EXCEPT !.at = "gone"]
    /\ UNCHANGED <<coll, held, data, seq, boss, stopFlag, http, clients, sock, sent, ever>>

\* An HTTP client connects; until it sends a request recv waits.
HttpAccept ==
    /\ MonitordAlive /\ http.at = "accept" /\ ~http.stop
    /\ http' = [http EXCEPT !.at = "recv"]
    /\ UNCHANGED <<coll, held, data, seq, boss, stopFlag, server, clients, sock, sent, ever>>

\* The request is for the metrics: a snapshot of its own ...
HttpSnapshot ==
    /\ MonitordAlive /\ http.at = "recv" /\ ~Writing /\ seq < MaxSnapshots
    /\ http' = [http EXCEPT !.at = "serialize", !.seq = seq]
    /\ UNCHANGED <<coll, held, data, seq, boss, stopFlag, server, clients, sock, sent, ever>>

\* ... that stores the next snapshot_seq under read locks only.
HttpCounted ==
    /\ MonitordAlive /\ http.at = "serialize"
    /\ seq' = http.seq + 1
    /\ http' = [http EXCEPT !.at = "accept", !.seq = 0]
    /\ UNCHANGED <<coll, held, data, boss, stopFlag, server, clients, sock, sent, ever>>

\* /health reads the services, anything else is not found; recv may fail.
HttpOther ==
    /\ MonitordAlive /\ http.at = "recv"
    /\ http' = [http EXCEPT !.at = "accept"]
    /\ UNCHANGED <<coll, held, data, seq, boss, stopFlag, server, clients, sock, sent, ever>>

HttpThreadEnds ==
    /\ MonitordAlive /\ http.at = "accept" /\ http.stop
    /\ http' = [http EXCEPT !.at = "gone"]
    /\ UNCHANGED <<coll, held, data, seq, boss, stopFlag, server, clients, sock, sent, ever>>

-----------------------------------------------------------------------------
(* main.                                                                   *)

Boss(at, n) == boss' = [boss EXCEPT !.at = at, !.n = n]

\* collector_start_all: one thread after the other ...
StartCollector ==
    /\ boss.at = "start" /\ boss.n \in Collectors
    /\ Coll(boss.n, [coll[boss.n] EXCEPT !.at = "loop"])
    /\ Boss("start", boss.n + 1)
    /\ UNCHANGED <<held, data, seq, stopFlag, server, http, clients, sock, sent, ever>>

\* ... and when one cannot be started the state is destroyed under those that run.
StartFails ==
    /\ boss.at = "start" /\ boss.n \in Collectors
    /\ Boss("destroyed", 1)
    /\ ever' = ever \cup {"unstarted"}
    /\ UNCHANGED <<coll, held, data, seq, stopFlag, server, http, clients, sock, sent>>

\* monitord_server_start, which may fail, then monitord_http_start, without
\* which the daemon goes on.
StartServers(srvOk, httpOk) ==
    /\ boss.at = "start" /\ boss.n \notin Collectors
    /\ server' = IF srvOk THEN [server EXCEPT !.at = "accept"] ELSE server
    /\ http' = IF srvOk /\ httpOk THEN [http EXCEPT !.at = "accept"] ELSE http
    /\ IF srvOk THEN Boss("loop", 1) ELSE Boss("stopCollectors", 1)
    /\ UNCHANGED <<coll, held, data, seq, stopFlag, clients, sock, sent, ever>>

\* signal_handler.
MonitordSignal ==
    /\ MonitordAlive /\ boss.at \in {"loop", "serialize", "send"} /\ ~stopFlag
    /\ stopFlag' = TRUE
    /\ UNCHANGED <<coll, held, data, seq, boss, server, http, clients, sock, sent, ever>>

\* monitord_state_serialize_snapshot: the copy, and snapshot_seq read ...
Serialize ==
    /\ boss.at = "loop" /\ ~stopFlag /\ ~Writing /\ seq < MaxSnapshots
    /\ boss' = [boss EXCEPT !.at = "serialize", !.snap = [seq |-> seq, data |-> data]]
    /\ UNCHANGED <<coll, held, data, seq, stopFlag, server, http, clients, sock, sent, ever>>

\* ... and written; then the alerts, and clients_lock for the broadcast.
Counted ==
    /\ boss.at = "serialize"
    /\ seq' = boss.snap.seq + 1
    /\ Boss("send", 1)
    /\ UNCHANGED <<coll, held, data, stopFlag, server, http, clients, sock, sent, ever>>

\* mon_send_msg to the client in slot n, waiting while its buffer is full.
SendTo ==
    /\ boss.at = "send" /\ boss.n \in Slots
    /\ clients[boss.n] # Nobody => sock[clients[boss.n]] = "open"
    /\ sent' = IF clients[boss.n] = Nobody THEN sent ELSE boss.snap.data
    /\ Boss("send", boss.n + 1)
    /\ UNCHANGED <<coll, held, data, seq, stopFlag, server, http, clients, sock, ever>>

\* A write to a client that has left: EPIPE comes with SIGPIPE, which
\* nothing in the daemon blocks, ignores or handles.
SendKills ==
    /\ boss.at = "send" /\ boss.n \in Slots
    /\ clients[boss.n] # Nobody /\ sock[clients[boss.n]] = "left"
    /\ Boss("killed", 1)
    /\ UNCHANGED <<coll, held, data, seq, stopFlag, server, http, clients, sock, sent, ever>>

\* A write that fails otherwise (ECONNRESET, EIO): the client is dropped.
SendFails ==
    /\ boss.at = "send" /\ boss.n \in Slots
    /\ clients[boss.n] # Nobody /\ sock[clients[boss.n]] = "left"
    /\ sock' = [sock EXCEPT ![clients[boss.n]] = "closed"]
    /\ clients' = [clients EXCEPT ![boss.n] = Nobody]
    /\ Boss("send", boss.n + 1)
    /\ UNCHANGED <<coll, held, data, seq, stopFlag, server, http, sent, ever>>

LoopAgain ==
    /\ boss.at = "send" /\ boss.n \notin Slots
    /\ boss' = [boss EXCEPT !.at = "loop", !.snap = NoSnap, !.n = 1]
    /\ UNCHANGED <<coll, held, data, seq, stopFlag, server, http, clients, sock, sent, ever>>

\* The end of the loop: monitord_http_stop raises its flag and joins ...
StopHttp ==
    /\ boss.at = "loop" /\ stopFlag
    /\ http' = [http EXCEPT !.stop = TRUE]
    /\ Boss("joinHttp", 1)
    /\ UNCHANGED <<coll, held, data, seq, stopFlag, server, clients, sock, sent, ever>>

\* ... monitord_server_stop does so with the other thread ...
StopServer ==
    /\ boss.at = "joinHttp" /\ http.at \in {"none", "gone"}
    /\ server' = [server EXCEPT !.stop = TRUE]
    /\ Boss("joinServer", 1)
    /\ UNCHANGED <<coll, held, data, seq, stopFlag, http, clients, sock, sent, ever>>

\* ... and closes the clients and the socket.
CloseClients ==
    /\ boss.at = "joinServer" /\ server.at = "gone"
    /\ sock' = [v \in Viewers |-> IF \E i \in Slots : clients[i] = v THEN "closed" ELSE sock[v]]
    /\ clients' = [i \in Slots |-> Nobody]
    /\ Boss("stopCollectors", 1)
    /\ UNCHANGED <<coll, held, data, seq, stopFlag, server, http, sent, ever>>

\* collector_stop_all: every flag first ...
StopCollectors ==
    /\ boss.at = "stopCollectors"
    /\ coll' = [c \in Collectors |-> [coll[c] EXCEPT !.stop = TRUE]]
    /\ Boss("join", 1)
    /\ UNCHANGED <<held, data, seq, stopFlag, server, http, clients, sock, sent, ever>>

\* ... then a timed join of each ...
JoinCollector ==
    /\ boss.at = "join" /\ boss.n \in Collectors /\ coll[boss.n].at = "gone" /\ "late" \notin ever
    /\ Boss("join", boss.n + 1)
    /\ UNCHANGED <<coll, held, data, seq, stopFlag, server, http, clients, sock, sent, ever>>

\* ... and once the deadline has passed pthread_cancel, which nobody joins:
\* the thread ends in the middle of what it was doing, or after main.
JoinTooLate(ends) ==
    /\ boss.at = "join" /\ boss.n \in Collectors
    /\ "late" \in ever \/ coll[boss.n].at # "gone"
    /\ ever' = ever \cup {"late"}
    /\ IF "late" \in ever /\ ends THEN Coll(boss.n, [coll[boss.n] EXCEPT !.at = "gone"]) ELSE UNCHANGED coll
    /\ Boss("join", boss.n + 1)
    /\ UNCHANGED <<held, data, seq, stopFlag, server, http, clients, sock, sent>>

\* monitord_state_destroy, and main returns.
DestroyState ==
    /\ boss.at = "join" /\ boss.n \notin Collectors
    /\ Boss("destroyed", 1)
    /\ UNCHANGED <<coll, held, data, seq, stopFlag, server, http, clients, sock, sent, ever>>

Return ==
    /\ boss.at = "destroyed"
    /\ Boss("exited", 1)
    /\ UNCHANGED <<coll, held, data, seq, stopFlag, server, http, clients, sock, sent, ever>>

MonitordNext ==
    \/ \E c \in Collectors : \/ Waited(c) \/ Connect(c) \/ TickSucceeds(c) \/ TickFails(c)
                             \/ GoesToWait(c) \/ CollectorStops(c) \/ \E late \in BOOLEAN : TickBegins(c, late)
    \/ \E v \in Viewers : ViewerLeaves(v) \/ Accept(v)
    \/ AddClient \/ ServerThreadEnds
    \/ HttpAccept \/ HttpSnapshot \/ HttpCounted \/ HttpOther \/ HttpThreadEnds
    \/ StartCollector \/ StartFails \/ \E s, h \in BOOLEAN : StartServers(s, h)
    \/ MonitordSignal \/ Serialize \/ Counted \/ SendTo \/ SendKills \/ SendFails \/ LoopAgain
    \/ StopHttp \/ StopServer \/ CloseClients \/ StopCollectors \/ JoinCollector
    \/ (\E ends \in BOOLEAN : JoinTooLate(ends)) \/ DestroyState \/ Return

-----------------------------------------------------------------------------
\* A connection is in one slot at most, and one that is open and that the
\* accept thread has let go of is in one: none is lost between the threads.
ClientsHeldOnce ==
    /\ \A i, j \in Slots : clients[i] # Nobody /\ clients[i] = clients[j] => i = j
    /\ \A v \in Viewers : sock[v] = "open" /\ server.who # v /\ MonitordAlive => \E i \in Slots : clients[i] = v
    /\ \A i \in Slots : clients[i] # Nobody => sock[clients[i]] \in {"open", "left"}

\* What is sent next is never older than what was sent before, whatever
\* snapshot_seq says.
DataNeverOlder == boss.at = "send" => \A c \in Collectors : sent[c] =< boss.snap.data[c]

\* The state is destroyed when no thread can use it any more, except for
\* collectors that did not stop in time or a start that failed half-way; a
\* collector that ended by itself is disconnected.
DestroyedUnused ==
    /\ boss.at = "destroyed" =>
         /\ server.at \in {"none", "gone"} /\ http.at \in {"none", "gone"}
         /\ ever = {} => \A c \in Collectors : coll[c].at = "gone"
    /\ \A c \in Collectors : coll[c].at = "gone" /\ ever = {} => c \notin held
    /\ \A c \in Collectors : coll[c].st \in {"OFFLINE", "WAITING"} => c \notin held

\* monitord keeps its connections, its data and its threads apart.
MonitordSafe == ClientsHeldOnce /\ DataNeverOlder /\ DestroyedUnused
=============================================================================

--------------------------- MODULE ProxyConnection ---------------------------
(***************************************************************************)
(* A service proxy and its connection: connect() and disconnect() of the   *)
(* owner, the requests of the callers, the io thread with its              *)
(* edge-triggered event loop, the detached thread that reconnects, the     *)
(* receive pool, and the daemon at the other end, which may die, return,   *)
(* answer late, push messages of its own and send what is refused.         *)
(***************************************************************************)
EXTENDS Integers, Sequences, FiniteSets

CONSTANTS Callers,          \* threads that send requests
          Blocks,           \* the blocks of recv_pool_
          MaxAttempts,      \* reconnect_max_attempts
          MaxLinks,         \* bound on the sockets opened
          MaxAsked,         \* bound on the requests
          MaxPushes,        \* bound on what the daemon sends unasked
          MaxTraffic        \* bound on the sockets, requests and pushes together

\* A block, a caller and the two other holders of a block are told apart.
ASSUME HolderAssumption == "none" \notin Blocks /\ {"io", "pending"} \cap Callers = {}

VARIABLES daemon,           \* it listens
          far,              \* the far end of the socket in use: open, the requests it has
          link, linkUp,     \* fd_ (0 for none) and connected_ of the connection
          links,            \* sockets opened so far
          inbox, edge,      \* unread messages; an event epoll has not reported
          svc,              \* connected_, stopping_, reconnecting_
          io,               \* the io thread: where it is, the socket it polls, its message, running_
          wake,             \* the eventfd is readable
          at,               \* where the owner and the reconnecting thread are
          attempts,         \* of the reconnecting thread
          pending,          \* pending_reply_
          app,              \* the callers
          free,             \* blocks of the pool that are free
          posted,           \* callbacks handed to the callback thread
          asked, pushes,    \* requests made, messages pushed so far
          mixed             \* history: a request was given up or met another, the daemon pushed, or
                            \* the owner and the reconnecting thread connected at the same time

linkVars  == <<link, linkUp, links, inbox, edge, far>>
proxyVars == <<daemon, linkVars, svc, io, wake, at, attempts, pending, app, free, posted, asked, pushes, mixed>>

NoMsg == [kind |-> "none", of |-> 0, blk |-> "none", since |-> 0]
Idle_ == [at |-> "idle", req |-> 0, msg |-> NoMsg]

ProxyInit ==
    /\ daemon = TRUE /\ far = [open |-> FALSE, todo |-> << >>]
    /\ link = 0 /\ linkUp = FALSE /\ links = 0 /\ inbox = << >> /\ edge = FALSE
    /\ svc = [connected |-> FALSE, stopping |-> FALSE, reconnecting |-> FALSE]
    /\ io = [at |-> "none", polled |-> 0, msg |-> NoMsg, running |-> FALSE]
    /\ wake = FALSE /\ attempts = 0
    /\ at = [owner |-> "idle", again |-> "none"]
    /\ pending = [ready |-> FALSE, msg |-> NoMsg]
    /\ app = [c \in Callers |-> Idle_]
    /\ free = Blocks /\ posted = << >>
    /\ asked = 0 /\ pushes = 0 /\ mixed = FALSE

-----------------------------------------------------------------------------
(* The daemon.                                                             *)

MoreTraffic == links + asked + pushes < MaxTraffic

Send(m) ==
    /\ inbox' = Append(inbox, m) /\ edge' = TRUE
    /\ UNCHANGED <<daemon, link, linkUp, links, svc, io, wake, at, attempts, pending, app, free, posted, asked>>

Answer(kind) ==
    /\ far.open /\ far.todo # << >>
    /\ far' = [far EXCEPT !.todo = Tail(@)]
    /\ Send([NoMsg EXCEPT !.kind = kind, !.of = Head(far.todo)])
    /\ UNCHANGED <<pushes, mixed>>

\* A welcome, a notification, or something with a bad header or signature.
PushMessage(kind) ==
    /\ far.open /\ pushes < MaxPushes /\ MoreTraffic
    /\ pushes' = pushes + 1
    /\ mixed' = (mixed \/ ~("opened" \in {at.owner, at.again} /\ inbox = << >>))
    /\ Send([NoMsg EXCEPT !.kind = kind])
    /\ UNCHANGED far

DaemonDies ==
    /\ daemon
    /\ daemon' = FALSE
    /\ far' = [open |-> FALSE, todo |-> << >>]
    /\ edge' = TRUE
    /\ UNCHANGED <<link, linkUp, links, inbox, svc, io, wake, at, attempts, pending, app, free, posted, asked, pushes, mixed>>

DaemonReturns ==
    /\ ~daemon
    /\ daemon' = TRUE
    /\ UNCHANGED <<linkVars, svc, io, wake, at, attempts, pending, app, free, posted, asked, pushes, mixed>>

-----------------------------------------------------------------------------
(* ProxyConnection::connect and doConnect, by the owner and by the thread  *)
(* that reconnects.                                                        *)

CloseLink == link' = 0 /\ linkUp' = FALSE /\ inbox' = << >> /\ edge' = FALSE /\ far' = [open |-> FALSE, todo |-> << >>]

\* A payload left behind when no block was free: no header.
Unread == <<[NoMsg EXCEPT !.kind = "bad"]>>

Failed(t) ==
    /\ at' = [at EXCEPT ![t] = IF t = "owner" THEN "idle" ELSE "loop"]
    /\ attempts' = IF t = "owner" THEN attempts ELSE attempts + 1

OwnerConnect ==
    /\ at.owner = "idle" /\ ~svc.connected
    /\ at' = [at EXCEPT !.owner = "begin"]
    /\ UNCHANGED <<daemon, linkVars, svc, io, wake, attempts, pending, app, free, posted, asked, pushes, mixed>>

\* The owner, on its way from a socket to the thread that polls it.
OwnerConnecting == at.owner \in {"opened", "start"} \/ io.at = "starting"

\* The socket, connected, and the hello.
OpenLink(t) ==
    /\ at[t] = "begin" /\ ~linkUp /\ daemon /\ links < MaxLinks /\ MoreTraffic
    /\ link' = links + 1 /\ links' = links + 1 /\ linkUp' = TRUE
    /\ far' = [open |-> TRUE, todo |-> << >>]
    /\ inbox' = << >> /\ edge' = FALSE
    /\ at' = [at EXCEPT ![t] = "opened"]
    /\ mixed' = (mixed \/ IF t = "again" THEN OwnerConnecting ELSE at.again = "opened")
    /\ UNCHANGED <<daemon, svc, io, wake, attempts, pending, app, free, posted, asked, pushes>>

\* AlreadyConnected, or nobody listens: the socket is closed again.
OpenFails(t) ==
    /\ at[t] = "begin" /\ (linkUp \/ ~daemon)
    /\ IF linkUp THEN UNCHANGED linkVars ELSE CloseLink /\ UNCHANGED links
    /\ Failed(t)
    /\ UNCHANGED <<daemon, svc, io, wake, pending, app, free, posted, asked, pushes, mixed>>

\* recvHandshakeWelcome reads one message if there is one and ignores every
\* error; a timeout and a closed socket still end the connection's
\* connected_.  Then onConnected, which never fails.
Welcomed(t) ==
    /\ at[t] = "opened"
    /\ svc' = [svc EXCEPT !.connected = TRUE, !.reconnecting = IF t = "again" THEN FALSE ELSE @]
    /\ posted' = IF t = "again" THEN Append(posted, "restored") ELSE posted
    /\ at' = [at EXCEPT ![t] = IF t = "owner" THEN "start" ELSE "none"]
    /\ UNCHANGED <<daemon, io, wake, attempts, pending, app, free, asked, pushes, mixed>>

Welcome(t) ==
    /\ linkUp /\ inbox # << >> /\ Head(inbox).kind # "bad"
    /\ inbox' = (IF free = {} THEN Unread ELSE << >>) \o Tail(inbox)
    /\ UNCHANGED <<link, linkUp, links, edge, far>>
    /\ Welcomed(t)

WelcomeRefused(t) ==
    /\ linkUp /\ inbox # << >> /\ Head(inbox).kind = "bad"
    /\ CloseLink /\ UNCHANGED links
    /\ Welcomed(t)

WelcomeMissing(t) ==
    /\ inbox = << >> \/ ~linkUp
    /\ linkUp' = FALSE
    /\ UNCHANGED <<link, links, inbox, edge, far>>
    /\ Welcomed(t)

\* connect() goes on: the threads.
StartThreads ==
    /\ at.owner = "start"
    /\ at' = [at EXCEPT !.owner = IF io.at = "none" THEN "idle" ELSE "terminated"]   \* a joinable thread is assigned to
    /\ svc' = [svc EXCEPT !.stopping = FALSE]
    /\ io' = IF io.at = "none" THEN [io EXCEPT !.at = "starting"] ELSE io
    /\ UNCHANGED <<daemon, linkVars, wake, attempts, pending, app, free, posted, asked, pushes, mixed>>

\* disconnect(): the flags and the event loop's stop, the join, the socket.
\* Mutant: stop() only clears running_.
StopSilently ==
    /\ at.owner = "idle"
    /\ svc' = [svc EXCEPT !.stopping = TRUE, !.connected = FALSE]
    /\ io' = [io EXCEPT !.running = FALSE]
    /\ at' = [at EXCEPT !.owner = "joining"]
    /\ UNCHANGED <<daemon, linkVars, wake, attempts, pending, app, free, posted, asked, pushes, mixed>>

Disconnect_ ==
    /\ at.owner = "idle"
    /\ svc' = [svc EXCEPT !.stopping = TRUE, !.connected = FALSE]
    /\ wake' = TRUE
    /\ io' = [io EXCEPT !.running = FALSE]
    /\ at' = [at EXCEPT !.owner = "joining"]
    /\ UNCHANGED <<daemon, linkVars, attempts, pending, app, free, posted, asked, pushes, mixed>>

Joined ==
    /\ at.owner = "joining" /\ io.at \in {"none", "ended"}
    /\ io' = [io EXCEPT !.at = "none", !.polled = 0]
    /\ CloseLink
    /\ at' = [at EXCEPT !.owner = "idle"]
    /\ UNCHANGED <<daemon, links, svc, wake, attempts, pending, app, free, posted, asked, pushes, mixed>>

\* The loop of the reconnecting thread, back from its sleep or its attempt.
TryAgain ==
    /\ at.again = "loop"
    /\ LET stop == svc.stopping \/ attempts >= MaxAttempts
       IN  /\ at' = [at EXCEPT !.again = IF stop THEN "none" ELSE "begin"]
           /\ svc' = [svc EXCEPT !.reconnecting = ~stop]
    /\ UNCHANGED <<daemon, linkVars, io, wake, attempts, pending, app, free, posted, asked, pushes, mixed>>

-----------------------------------------------------------------------------
(* The io thread.                                                          *)

\* ioThreadFunc adds the socket of that moment; data already there counts as
\* an edge.
IoStart ==
    /\ io.at = "starting"
    /\ io' = [io EXCEPT !.at = "waiting", !.polled = link, !.running = TRUE]
    /\ edge' = (link # 0 /\ (inbox # << >> \/ ~far.open))
    /\ UNCHANGED <<daemon, link, linkUp, links, inbox, far, svc, wake, at, attempts, pending, app, free, posted, asked, pushes, mixed>>

\* The head of the event loop: after a handler, or a wait that timed out.
IoTop ==
    /\ io.at = "top"
    /\ io' = [io EXCEPT !.at = IF io.running THEN "waiting" ELSE "ended"]
    /\ UNCHANGED <<daemon, linkVars, svc, wake, at, attempts, pending, app, free, posted, asked, pushes, mixed>>

IoWaitOver ==
    /\ io.at = "waiting" /\ ~wake
    /\ io' = [io EXCEPT !.at = "top"]
    /\ UNCHANGED <<daemon, linkVars, svc, wake, at, attempts, pending, app, free, posted, asked, pushes, mixed>>

IoWoken ==
    /\ io.at = "waiting" /\ wake
    /\ wake' = FALSE
    /\ io' = [io EXCEPT !.at = "ended", !.running = FALSE]
    /\ UNCHANGED <<daemon, linkVars, svc, at, attempts, pending, app, free, posted, asked, pushes, mixed>>

IoEvent == io.at = "waiting" /\ io.polled = link /\ link # 0 /\ edge

IoOther == <<daemon, links, svc, wake, at, attempts, pending, app, posted, asked, pushes, mixed>>

\* One message is read per event, from a connection that is up.
IoReads ==
    /\ IoEvent /\ far.open /\ linkUp /\ inbox # << >> /\ Head(inbox).kind \in {"reply", "empty", "push"}
    /\ edge' = FALSE /\ inbox' = Tail(inbox)
    /\ \E b \in IF Head(inbox).kind = "empty" THEN {"none"} ELSE free :
          /\ free' = free \ {b}
          /\ io' = [io EXCEPT !.at = "routing", !.msg = [Head(inbox) EXCEPT !.blk = b]]
    /\ UNCHANGED <<IoOther, link, linkUp, far>>

\* No block left: the header is gone, the payload stays in the stream.
IoPoolEmpty ==
    /\ IoEvent /\ far.open /\ linkUp /\ inbox # << >> /\ Head(inbox).kind \in {"reply", "push"} /\ free = {}
    /\ edge' = FALSE
    /\ inbox' = Unread \o Tail(inbox)
    /\ io' = [io EXCEPT !.at = "top"]
    /\ UNCHANGED <<IoOther, link, linkUp, far, free>>

\* A bad header or signature closes the socket, and nothing else.
IoRefuses ==
    /\ IoEvent /\ far.open /\ linkUp /\ inbox # << >> /\ Head(inbox).kind = "bad"
    /\ CloseLink
    /\ io' = [io EXCEPT !.at = "top"]
    /\ UNCHANGED <<IoOther, free>>

\* The rest of the message does not come in time, or the connection is down.
IoTimesOut ==
    /\ IoEvent /\ far.open
    /\ edge' = FALSE /\ linkUp' = FALSE
    /\ io' = [io EXCEPT !.at = "top"]
    /\ UNCHANGED <<IoOther, link, inbox, far, free>>

\* A hang-up comes before anything that is still unread.
IoHangUp ==
    /\ IoEvent /\ ~far.open
    /\ io' = [io EXCEPT !.at = "lost"]
    /\ edge' = FALSE
    /\ UNCHANGED <<IoOther, link, linkUp, inbox, far, free>>

\* To the request that waits, or to nobody.
IoRoutes ==
    /\ io.at = "routing"
    /\ IF pending.ready
       THEN free' = free \cup ({io.msg.blk} \ {"none"}) /\ UNCHANGED pending
       ELSE pending' = [ready |-> TRUE, msg |-> [io.msg EXCEPT !.since = asked]] /\ UNCHANGED free
    /\ io' = [io EXCEPT !.at = "top", !.msg = NoMsg]
    /\ UNCHANGED <<daemon, linkVars, svc, wake, at, attempts, app, posted, asked, pushes, mixed>>

\* doDisconnect.
IoCloses ==
    /\ io.at = "lost"
    /\ svc' = [svc EXCEPT !.connected = FALSE]
    /\ posted' = IF svc.connected THEN Append(posted, "lost") ELSE posted
    /\ CloseLink
    /\ io' = [io EXCEPT !.at = "retry"]
    /\ UNCHANGED <<daemon, links, wake, at, attempts, pending, app, free, asked, pushes, mixed>>

IoRetries ==
    /\ io.at = "retry"
    /\ IF svc.stopping \/ MaxAttempts = 0 \/ svc.reconnecting
       THEN UNCHANGED <<svc, at, attempts>>
       ELSE /\ svc' = [svc EXCEPT !.reconnecting = TRUE]
            /\ at' = [at EXCEPT !.again = "loop"]
            /\ attempts' = 0
    /\ io' = [io EXCEPT !.at = "top"]
    /\ UNCHANGED <<daemon, linkVars, wake, pending, app, free, posted, asked, pushes, mixed>>

-----------------------------------------------------------------------------
(* sendRequestWaitReply.                                                   *)

Others(c) == {d \in Callers \ {c} : app[d].at # "idle"}

\* Mutant: what waits for nobody is left for the next request.
AskUncleared(c) ==
    /\ app[c].at = "idle" /\ svc.connected /\ asked < MaxAsked /\ MoreTraffic
    /\ asked' = asked + 1
    /\ mixed' = (mixed \/ Others(c) # {})
    /\ app' = [app EXCEPT ![c] = [Idle_ EXCEPT !.at = "sending", !.req = asked + 1]]
    /\ UNCHANGED <<daemon, linkVars, svc, io, wake, at, attempts, pending, free, posted, pushes>>

\* pending_reply_ is cleared; the block of a message in it is not returned.
Ask(c) ==
    /\ app[c].at = "idle" /\ svc.connected /\ asked < MaxAsked /\ MoreTraffic
    /\ asked' = asked + 1
    /\ mixed' = (mixed \/ Others(c) # {})
    /\ pending' = [ready |-> FALSE, msg |-> NoMsg]
    /\ app' = [app EXCEPT ![c] = [Idle_ EXCEPT !.at = "sending", !.req = asked + 1]]
    /\ UNCHANGED <<daemon, linkVars, svc, io, wake, at, attempts, free, posted, pushes>>

SendRequest(c) ==
    /\ app[c].at = "sending" /\ linkUp /\ link # 0 /\ far.open
    /\ far' = [far EXCEPT !.todo = Append(@, app[c].req)]
    /\ app' = [app EXCEPT ![c].at = "waiting"]
    /\ UNCHANGED <<daemon, link, linkUp, links, inbox, edge, svc, io, wake, at, attempts, pending, free, posted, asked, pushes, mixed>>

\* NotConnected, or EPIPE in a process that ignores SIGPIPE.
SendRequestFails(c) ==
    /\ app[c].at = "sending" /\ ~(linkUp /\ link # 0 /\ far.open)
    /\ linkUp' = FALSE
    /\ app' = [app EXCEPT ![c] = Idle_]
    /\ UNCHANGED <<daemon, link, links, inbox, edge, far, svc, io, wake, at, attempts, pending, free, posted, asked, pushes, mixed>>

\* Mutant: ready stays set.
TakeReplyAgain(c) ==
    /\ app[c].at = "waiting" /\ pending.ready
    /\ app' = [app EXCEPT ![c].at = "got", ![c].msg = pending.msg]
    /\ UNCHANGED <<daemon, linkVars, svc, io, wake, at, attempts, pending, free, posted, asked, pushes, mixed>>

TakeReply(c) ==
    /\ app[c].at = "waiting" /\ pending.ready
    /\ app' = [app EXCEPT ![c].at = "got", ![c].msg = pending.msg]
    /\ pending' = [ready |-> FALSE, msg |-> NoMsg]
    /\ UNCHANGED <<daemon, linkVars, svc, io, wake, at, attempts, free, posted, asked, pushes, mixed>>

GiveUp(c) ==
    /\ app[c].at = "waiting" /\ ~pending.ready
    /\ app' = [app EXCEPT ![c] = Idle_]
    /\ mixed' = TRUE
    /\ UNCHANGED <<daemon, linkVars, svc, io, wake, at, attempts, pending, free, posted, asked, pushes>>

\* The calls of the typed proxies: each is one request, and most return the
\* reply's block; captureStillFrame and getPin keep it.
AudioReleases  == {TRUE}
CameraReleases == {TRUE, FALSE}
SensorReleases == {TRUE}
GpioReleases   == {TRUE, FALSE}

Use(c, released) ==
    /\ app[c].at = "got"
    /\ app' = [app EXCEPT ![c] = Idle_]
    /\ free' = IF released THEN free \cup ({app[c].msg.blk} \ {"none"}) ELSE free
    /\ UNCHANGED <<daemon, linkVars, svc, io, wake, at, attempts, pending, posted, asked, pushes, mixed>>

ProxyNext ==
    \/ \E k \in {"reply", "empty"} : Answer(k)
    \/ \E k \in {"push", "bad"} : PushMessage(k)
    \/ DaemonDies \/ DaemonReturns
    \/ OwnerConnect \/ StartThreads \/ Disconnect_ \/ Joined \/ TryAgain
    \/ \E t \in {"owner", "again"} :
          OpenLink(t) \/ OpenFails(t) \/ Welcome(t) \/ WelcomeRefused(t) \/ WelcomeMissing(t)
    \/ IoStart \/ IoTop \/ IoWaitOver \/ IoWoken \/ IoReads \/ IoPoolEmpty \/ IoRefuses \/ IoTimesOut
    \/ IoHangUp \/ IoRoutes \/ IoCloses \/ IoRetries
    \/ \E c \in Callers :
          Ask(c) \/ SendRequest(c) \/ SendRequestFails(c) \/ TakeReply(c) \/ GiveUp(c)
          \/ \E r \in AudioReleases \cup CameraReleases \cup SensorReleases \cup GpioReleases : Use(c, r)

ProxySpec == ProxyInit /\ [][ProxyNext]_proxyVars

-----------------------------------------------------------------------------
\* A request takes no message that was there before it began, and as long
\* as requests follow each other, are answered in time, the daemon sends
\* nothing else and connections are made one at a time, each one takes its
\* own reply.
FreshReply ==
    \A c \in Callers : app[c].at = "got" =>
        /\ app[c].msg.since >= app[c].req
        /\ ~mixed => app[c].msg.of = app[c].req

\* A block of the pool is free or with one holder: the io thread, the
\* pending reply or one caller.
BlocksOwned ==
    LET held == [h \in Callers \cup {"io", "pending"} |->
                    CASE h = "io" -> io.msg.blk
                      [] h = "pending" -> pending.msg.blk
                      [] OTHER -> app[h].msg.blk]
        in   == {h \in DOMAIN held : held[h] # "none"}
    IN  \A h \in in : held[h] \notin free /\ \A g \in in \ {h} : held[g] # held[h]

\* disconnect() gets its io thread: whatever the thread was doing when it was
\* told to stop, it will see it.
StopNotLost ==
    at.owner = "joining" =>
        /\ io.at \in {"starting", "waiting"} => wake
        /\ io.at = "top" => ~io.running \/ wake

HowOften(s, x) == Cardinality({i \in DOMAIN s : s[i] = x})

\* Every restored connection that is announced makes up for a loss announced
\* before it.
RestoredAfterLost == HowOften(posted, "restored") <= HowOften(posted, "lost")

\* What the threads of a proxy keep between them.
ProxySafe == FreshReply /\ BlocksOwned /\ StopNotLost /\ RestoredAfterLost
=============================================================================

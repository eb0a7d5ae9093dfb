---------------------------- MODULE ProxyService -----------------------------
(***************************************************************************)
(* What the typed proxies are built from, in four areas that share no      *)
(* state and of which a behaviour explores one: the callback queue of      *)
(* proxy_thread_pool.cpp; the frames of an audio or camera ring in shared  *)
(* memory with the thread that polls them, the capturing flag and the two  *)
(* ways a connection ends; the shared memory regions; and the lookup of a  *)
(* service at the service manager.                                         *)
(***************************************************************************)
EXTENDS Integers, Sequences, FiniteSets, SequencesExt

CONSTANTS Posters,          \* threads that post callbacks
          QueueCap,         \* slots of the callback queue
          MaxPosts,         \* bound on the callbacks posted
          FrameSlots,       \* slot_count of the ring
          MaxWritten,       \* bound on the frames written
          Regions,          \* ProxyShmRegion objects
          MaxTries          \* bound on the lookups of one wait

ASSUME PsAssumption ==
    QueueCap \in Nat \ {0} /\ FrameSlots \in Nat \ {0} /\ "stopper" \notin Posters

VARIABLES area,
          head, tail, slots,        \* the callback queue
          poster, consumer,         \* where its threads are
          ran, overrun,             \* history: claims run in order; more were claimed than there are slots
          running_, drainedTo,      \* running_; the claims made when the consumer ended
          ring, wIdx, rIdx,         \* the frames, write_index and read_index
          mapped, poll, shown,      \* the reader is open; the polling thread; frames handed on
          stream_,                  \* the connection, capturing_ and what the daemon was told, the calls under way
          fault,                    \* history: the ring was read after it was unmapped, or lapped
          region, names,            \* the regions and the names that exist
          look                      \* the lookup: step, descriptor, tries, result

queueVars  == <<head, tail, slots, poster, consumer, ran, overrun, running_, drainedTo>>
frameVars  == <<ring, wIdx, rIdx, mapped, poll, shown, stream_, fault>>
shmVars    == <<region, names>>
serviceVars == <<area, queueVars, frameVars, shmVars, look>>

EmptySlot == [ready |-> FALSE, fn |-> 0]
Apart     == [at |-> "idle", idx |-> 0]
Unmapped  == [name |-> "none", owner |-> FALSE]

PsInit ==
    /\ area \in {"queue", "frames", "regions", "lookup"}
    /\ head = 0 /\ tail = 0 /\ slots = [i \in 0 .. QueueCap - 1 |-> EmptySlot]
    /\ poster = [p \in Posters \cup {"stopper"} |-> Apart]
    /\ consumer = "top" /\ ran = << >> /\ overrun = FALSE /\ running_ = TRUE /\ drainedTo = 0
    /\ ring = [i \in 0 .. FrameSlots - 1 |-> 0] /\ wIdx = 0 /\ rIdx = 0
    /\ mapped = FALSE /\ poll = "none" /\ shown = << >>
    /\ stream_ = [conn |-> FALSE, flag |-> FALSE, caller |-> "idle", ending |-> "no", daemonHas |-> FALSE, lost |-> FALSE]
    /\ fault = FALSE
    /\ region = [r \in Regions |-> Unmapped] /\ names = {}
    /\ look = [step |-> "idle", fd |-> FALSE, tries |-> 0, result |-> "none"]

-----------------------------------------------------------------------------
(* ProxyThreadPool.                                                        *)

QueueOther == <<area, frameVars, shmVars, look>>

\* post: the head is claimed first.
Claim(p) ==
    /\ area = "queue" /\ poster[p].at = "idle" /\ head < MaxPosts
    /\ p # "stopper"
    /\ poster' = [poster EXCEPT ![p] = [at |-> "placing", idx |-> head]]
    /\ head' = head + 1
    /\ UNCHANGED <<QueueOther, tail, slots, consumer, ran, running_, drainedTo>>
    /\ overrun' = (overrun \/ head - tail >= QueueCap)

SlotOf(i) == i % QueueCap

\* The slot is still taken after 64 rounds: its callback is thrown away.
DropOldest(p) ==
    /\ poster[p].at = "placing" /\ slots[SlotOf(poster[p].idx)].ready
    /\ slots' = [slots EXCEPT ![SlotOf(poster[p].idx)] = EmptySlot]
    /\ poster' = [poster EXCEPT ![p].at = "dropped"]
    /\ UNCHANGED <<QueueOther, head, tail, consumer, ran, overrun, running_, drainedTo>>

Place(p) ==
    /\ \/ poster[p].at = "placing" /\ ~slots[SlotOf(poster[p].idx)].ready
       \/ poster[p].at = "dropped"
    /\ slots' = [slots EXCEPT ![SlotOf(poster[p].idx)] = [ready |-> TRUE, fn |-> poster[p].idx + 1]]
    /\ poster' = [poster EXCEPT ![p] = IF p = "stopper" THEN [Apart EXCEPT !.at = "joining"] ELSE Apart]
    /\ UNCHANGED <<QueueOther, head, tail, consumer, ran, overrun, running_, drainedTo>>

\* stop: the flag, then a callback that does nothing, then the join.
StopQueue ==
    /\ area = "queue" /\ running_
    /\ running_' = FALSE
    /\ poster' = [poster EXCEPT !["stopper"] = [at |-> "placing", idx |-> head]]
    /\ head' = head + 1
    /\ UNCHANGED <<QueueOther, tail, slots, consumer, ran, drainedTo>>
    /\ overrun' = (overrun \/ head - tail >= QueueCap)

Pending_ == IF head > tail THEN head - tail ELSE 0

\* Mutant: the consumer leaves as soon as it is told to.
ConsumerTopAtOnce ==
    /\ area = "queue" /\ consumer = "top"
    /\ IF running_
       THEN slots[SlotOf(tail)].ready /\ consumer' = "taking" /\ UNCHANGED drainedTo
       ELSE consumer' = "ended" /\ drainedTo' = head
    /\ UNCHANGED <<QueueOther, head, tail, slots, poster, ran, overrun, running_>>

\* consumerLoop: while it runs or something is pending it waits for the slot
\* of the tail.
ConsumerTop ==
    /\ area = "queue" /\ consumer = "top"
    /\ IF running_ \/ Pending_ > 0
       THEN slots[SlotOf(tail)].ready /\ consumer' = "taking" /\ UNCHANGED drainedTo
       ELSE consumer' = "ended" /\ drainedTo' = head
    /\ UNCHANGED <<QueueOther, head, tail, slots, poster, ran, overrun, running_>>

\* A poster may have emptied the slot since it was seen ready; an empty
\* function is not called.
ConsumerTakes ==
    /\ consumer = "taking"
    /\ LET fn == slots[SlotOf(tail)].fn
       IN  ran' = IF fn = 0 THEN ran ELSE Append(ran, fn)
    /\ slots' = [slots EXCEPT ![SlotOf(tail)] = EmptySlot]
    /\ tail' = tail + 1
    /\ consumer' = "top"
    /\ UNCHANGED <<QueueOther, head, poster, overrun, running_, drainedTo>>

-----------------------------------------------------------------------------
(* The frames.                                                             *)

FrameOther == <<area, queueVars, shmVars, look>>

\* The daemon, which keeps to read_index unless it laps it.
WriteFrame(laps) ==
    /\ area = "frames" /\ wIdx < MaxWritten
    /\ laps = (wIdx - rIdx >= FrameSlots)
    /\ ring' = [ring EXCEPT ![wIdx % FrameSlots] = wIdx + 1]
    /\ wIdx' = wIdx + 1
    /\ fault' = (fault \/ laps)
    /\ UNCHANGED <<FrameOther, rIdx, mapped, poll, shown, stream_>>

\* onConnected: the region if it can be opened and is valid, else the socket.
OpenRing(ok) ==
    /\ area = "frames" /\ ~stream_.conn /\ stream_.ending = "no" /\ poll = "none"
    /\ mapped' = ok /\ poll' = "top"
    /\ stream_' = [stream_ EXCEPT !.conn = TRUE, !.daemonHas = FALSE]
    /\ UNCHANGED <<FrameOther, ring, wIdx, rIdx, shown, fault>>

\* pollReady, then readFrame, which hands a copy on and moves read_index.
PollFrame ==
    /\ poll = "top" /\ mapped /\ stream_.flag /\ wIdx # rIdx
    /\ poll' = "reading"
    /\ UNCHANGED <<FrameOther, ring, wIdx, rIdx, mapped, shown, stream_, fault>>

\* Mutant: readFrame takes the slot of the write index.
ReadFrameNewest ==
    /\ poll = "reading"
    /\ poll' = "top"
    /\ IF mapped
       THEN shown' = Append(shown, ring[(wIdx - 1) % FrameSlots]) /\ rIdx' = rIdx + 1 /\ UNCHANGED fault
       ELSE fault' = TRUE /\ UNCHANGED <<shown, rIdx>>
    /\ UNCHANGED <<FrameOther, ring, wIdx, mapped, stream_>>

ReadFrame ==
    /\ poll = "reading"
    /\ poll' = "top"
    /\ IF mapped
       THEN shown' = Append(shown, ring[rIdx % FrameSlots]) /\ rIdx' = rIdx + 1 /\ UNCHANGED fault
       ELSE fault' = TRUE /\ UNCHANGED <<shown, rIdx>>    \* the io thread has closed the region meanwhile
    /\ UNCHANGED <<FrameOther, ring, wIdx, mapped, stream_>>

\* startCapture and stopCapture: the message, then the flag; with the flag as
\* asked for there is nothing to send.
Capture(on) ==
    /\ area = "frames" /\ stream_.caller = "idle" /\ stream_.flag # on /\ stream_.conn
    /\ stream_' = [stream_ EXCEPT !.daemonHas = on, !.caller = IF on THEN "started" ELSE "stopped"]
    /\ UNCHANGED <<FrameOther, ring, wIdx, rIdx, mapped, poll, shown, fault>>

Captured ==
    /\ stream_.caller \in {"started", "stopped"}
    /\ stream_' = [stream_ EXCEPT !.flag = (stream_.caller = "started"), !.caller = "idle"]
    /\ UNCHANGED <<FrameOther, ring, wIdx, rIdx, mapped, poll, shown, fault>>

\* The daemon has gone: the io thread runs onDisconnected whatever the others
\* do, and the reconnecting thread onConnected later.
LoseRing ==
    /\ area = "frames" /\ stream_.ending = "no" /\ stream_.conn
    /\ mapped' = FALSE
    /\ stream_' = [stream_ EXCEPT !.conn = FALSE, !.flag = FALSE, !.lost = TRUE]
    /\ UNCHANGED <<FrameOther, ring, wIdx, rIdx, poll, shown, fault>>

ReopenRing(ok) ==
    /\ area = "frames" /\ stream_.ending = "no" /\ ~stream_.conn /\ stream_.lost /\ poll # "none"
    /\ mapped' = ok
    /\ stream_' = [stream_ EXCEPT !.conn = TRUE, !.daemonHas = FALSE]
    /\ UNCHANGED <<FrameOther, ring, wIdx, rIdx, poll, shown, fault>>

\* disconnect() of the application joins the polling thread first.
EndBegins ==
    /\ area = "frames" /\ stream_.ending = "no" /\ stream_.conn /\ stream_.caller = "idle"
    /\ stream_' = [stream_ EXCEPT !.ending = "joining", !.conn = FALSE]
    /\ UNCHANGED <<FrameOther, ring, wIdx, rIdx, mapped, poll, shown, fault>>

PollEnds ==
    /\ stream_.ending = "joining" /\ poll = "top"
    /\ poll' = "none"
    /\ UNCHANGED <<FrameOther, ring, wIdx, rIdx, mapped, shown, stream_, fault>>

\* Mutant: onDisconnected without waiting for the thread.
EndCompletesEarly ==
    /\ stream_.ending = "joining"
    /\ mapped' = FALSE
    /\ stream_' = [stream_ EXCEPT !.ending = "no", !.flag = FALSE]
    /\ UNCHANGED <<FrameOther, ring, wIdx, rIdx, poll, shown, fault>>

EndCompletes ==
    /\ stream_.ending = "joining" /\ poll = "none"
    /\ mapped' = FALSE
    /\ stream_' = [stream_ EXCEPT !.ending = "no", !.flag = FALSE]
    /\ UNCHANGED <<FrameOther, ring, wIdx, rIdx, poll, shown, fault>>

-----------------------------------------------------------------------------
(* ProxyShmRegion.                                                         *)

ShmOther == <<area, queueVars, frameVars, look>>

CreateRegion(r, n, ok) ==
    /\ area = "regions" /\ region[r].name = "none" /\ n \notin names
    /\ region' = IF ok THEN [region EXCEPT ![r] = [name |-> n, owner |-> TRUE]] ELSE region
    /\ names' = IF ok THEN names \cup {n} ELSE names       \* unlinked again after ftruncate or mmap failed
    /\ UNCHANGED ShmOther

OpenRegion(r, n) ==
    /\ area = "regions" /\ region[r].name = "none" /\ n \in names
    /\ region' = [region EXCEPT ![r] = [name |-> n, owner |-> FALSE]]
    /\ UNCHANGED <<ShmOther, names>>

Unlinked(r) == IF region[r].owner THEN {region[r].name} ELSE {}

\* The destructor: close(owner_).
CloseRegion(r) ==
    /\ region[r].name # "none"
    /\ names' = names \ Unlinked(r)
    /\ region' = [region EXCEPT ![r] = Unmapped]
    /\ UNCHANGED ShmOther

\* Mutant: the source of a move stays as it was.
MoveRegionCopies(to, from) ==
    /\ area = "regions" /\ to # from /\ region[from].name # "none"
    /\ names' = names \ Unlinked(to)
    /\ region' = [region EXCEPT ![to] = region[from]]
    /\ UNCHANGED ShmOther

\* Move assignment closes the target and empties the source.
MoveRegion(to, from) ==
    /\ area = "regions" /\ to # from /\ region[from].name # "none"
    /\ names' = names \ Unlinked(to)
    /\ region' = [region EXCEPT ![to] = region[from], ![from] = Unmapped]
    /\ UNCHANGED ShmOther

-----------------------------------------------------------------------------
(* ServiceDiscovery.                                                       *)

LookOther == <<area, queueVars, frameVars, shmVars>>

\* waitForService looks again until its deadline.
LookUp ==
    /\ area = "lookup" /\ look.step \in {"idle", "again"} /\ look.tries < MaxTries
    /\ look' = [look EXCEPT !.step = "connecting", !.tries = @ + 1, !.result = "none"]
    /\ UNCHANGED LookOther

LookSteps == <<"connecting", "header", "payload", "reply", "body">>
After(s) == LookSteps[(CHOOSE i \in 1 .. 4 : LookSteps[i] = s) + 1]

Returns(result) ==
    look' = [look EXCEPT !.fd = FALSE, !.result = result, !.step = IF result = "not_found" THEN "again" ELSE "done"]

\* connectToSM and the four transfers.
LookGoesOn ==
    /\ look.step \in {"connecting", "header", "payload", "reply"}
    /\ look' = [look EXCEPT !.step = After(look.step), !.fd = TRUE]
    /\ UNCHANGED LookOther

\* Mutant: an error reply leaves the descriptor open.
LookEndsOpen(result) ==
    /\ \/ look.step \in {"connecting", "reply"} /\ result = "not_found"
       \/ look.step \in {"header", "payload", "reply", "body"} /\ result = "failed"
       \/ look.step = "body" /\ result \in {"found", "not_found"}
    /\ look' = [look EXCEPT !.result = result, !.step = IF result = "not_found" THEN "again" ELSE "done"]
    /\ UNCHANGED LookOther

\* No manager, an empty reply, a short error reply or no path: not found.
\* A transfer that fails is final.
LookEnds(result) ==
    /\ \/ look.step \in {"connecting", "reply"} /\ result = "not_found"
       \/ look.step \in {"header", "payload", "reply", "body"} /\ result = "failed"
       \/ look.step = "body" /\ result \in {"found", "not_found"}
    /\ Returns(result)
    /\ UNCHANGED LookOther

Deadline ==
    /\ look.step = "again"
    /\ look' = [look EXCEPT !.step = "done", !.result = "timeout"]
    /\ UNCHANGED LookOther

PsNext ==
    \/ StopQueue \/ ConsumerTop \/ ConsumerTakes
    \/ \E p \in Posters : Claim(p)
    \/ \E p \in Posters \cup {"stopper"} : DropOldest(p) \/ Place(p)
    \/ (\E laps \in BOOLEAN : WriteFrame(laps)) \/ (\E ok \in BOOLEAN : OpenRing(ok) \/ ReopenRing(ok)) \/ LoseRing
    \/ PollFrame \/ ReadFrame \/ (\E on \in BOOLEAN : Capture(on)) \/ Captured
    \/ EndBegins \/ PollEnds \/ EndCompletes
    \/ \E r \in Regions, n \in {"na", "nb"} : (\E ok \in BOOLEAN : CreateRegion(r, n, ok)) \/ OpenRegion(r, n)
    \/ \E r, q \in Regions : CloseRegion(r) \/ MoveRegion(r, q)
    \/ LookUp \/ LookGoesOn \/ Deadline
    \/ \E x \in {"found", "not_found", "failed"} : LookEnds(x)

PsSpec == PsInit /\ [][PsNext]_serviceVars

-----------------------------------------------------------------------------
\* As long as no callback was dropped the queue runs them in the order they
\* were claimed, each once, and a consumer that has ended has run all that
\* had been claimed by then.
CallbacksInOrder ==
    /\ \A i, j \in DOMAIN ran : i # j => ran[i] # ran[j]
    /\ ~overrun =>
          /\ \A i \in DOMAIN ran : ran[i] = i
          /\ consumer = "ended" => Len(ran) = drainedTo

\* The application gets the frames in the order they were written, without a
\* gap, as long as the daemon did not lap the reader.  Only the loss of a
\* daemon unmaps a ring that is being read or leaves capturing_ set for a
\* daemon that was not told.
FramesInOrder ==
    /\ \A i \in DOMAIN shown : ~fault => shown[i] = i
    /\ ~stream_.lost => (poll = "reading" => mapped) /\ (stream_.flag => stream_.daemonHas \/ stream_.caller = "stopped")

\* A name of shared memory exists exactly while one region owns it.
RegionsOwned ==
    /\ \A r, q \in Regions : region[r].owner /\ region[q].owner /\ region[r].name = region[q].name => r = q
    /\ names = {region[r].name : r \in {q \in Regions : region[q].owner}}

\* No path through a lookup keeps its descriptor.
LookupClosed ==
    look.step \in {"idle", "again", "done"} => ~look.fd

\* What the typed proxies rely on.
ServiceSafe == CallbacksInOrder /\ FramesInOrder /\ RegionsOwned /\ LookupClosed
=============================================================================

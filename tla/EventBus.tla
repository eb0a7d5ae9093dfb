------------------------------ MODULE EventBus ------------------------------
(***************************************************************************)
(* The two publishers of the service manager: the event bus and the        *)
(* discovery of services.  Both call subscribers without their lock; they  *)
(* share no state.                                                         *)
(***************************************************************************)
EXTENDS Integers, Sequences, FiniteSets, SequencesExt

-----------------------------------------------------------------------------
(***************************************************************************)
(* enterprise/sm_eventbus.c: publishers call the subscribers of an event   *)
(* one after the other, and release the lock of the bus around every call; *)
(* subscriptions come and go meanwhile.                                    *)
(*                                                                         *)
(* A publisher holds the lock between its steps only in the sense that one *)
(* step is all it does from taking the lock to releasing it.               *)
(***************************************************************************)

CONSTANTS Publishers, Kinds,
          MaxSubscribers,   \* MAX_SUBSCRIBERS_GLOBAL
          HistorySize,      \* MAX_EVENT_HISTORY
          MaxEvents         \* bound on the events

ASSUME BusAssumption == HistorySize \in Nat \ {0} /\ MaxSubscribers \in Nat

VARIABLES subs,             \* subscribers: [event_type, active]
          hist,             \* history: events, event_count, current_idx
          next_event_id, events_delivered,
          pub,              \* what each publisher is doing
          mayHear           \* history: subscribers that were active all the time

busVars == <<subs, hist, next_event_id, events_delivered, pub, mayHear>>

NoEvent   == [id |-> 0, kind |-> "none"]
Idle      == [at |-> 0, event |-> NoEvent, called |-> {}, delivered |-> 0]
NoHistory == [events |-> [i \in 0 .. HistorySize - 1 |-> NoEvent], event_count |-> 0, current_idx |-> 0]

\* sm_eventbus_init.
BusInit ==
    /\ subs = << >> /\ hist = NoHistory
    /\ next_event_id = 1 /\ events_delivered = 0
    /\ pub = [p \in Publishers |-> Idle]
    /\ mayHear = [p \in Publishers |-> {}]

Wants(i, kind) == subs[i].active /\ subs[i].event_type \in {"*", kind}

Recorded(e) ==
    LET i == (hist.current_idx + 1) % HistorySize
    IN  [events |-> [hist.events EXCEPT ![i] = e], current_idx |-> i,
         event_count |-> IF hist.event_count < HistorySize THEN hist.event_count + 1 ELSE hist.event_count]

\* Mutant: the scan goes on with the subscriber it has just called.
AdvanceAgain(p, state) ==
    LET next == {i \in DOMAIN subs : i >= state.at /\ Wants(i, state.event.kind)}
    IN  IF next = {}
        THEN /\ pub' = [pub EXCEPT ![p] = Idle]
             /\ events_delivered' = events_delivered + state.delivered
        ELSE /\ pub' = [pub EXCEPT ![p] = [state EXCEPT !.at = CHOOSE i \in next : \A j \in next : i =< j]]
             /\ UNCHANGED events_delivered

\* The loop of sm_eventbus_publish, from behind the subscriber it has called:
\* up to the next one that is active and wants the event, or to the end.
Advance(p, state) ==
    LET next == {i \in DOMAIN subs : i > state.at /\ Wants(i, state.event.kind)}
    IN  IF next = {}
        THEN /\ pub' = [pub EXCEPT ![p] = Idle]
             /\ events_delivered' = events_delivered + state.delivered
        ELSE /\ pub' = [pub EXCEPT ![p] = [state EXCEPT !.at = CHOOSE i \in next : \A j \in next : i =< j]]
             /\ UNCHANGED events_delivered

\* sm_eventbus_publish up to the first callback.
Publish(p, kind) ==
    LET e == [id |-> next_event_id, kind |-> kind]
    IN  /\ pub[p].at = 0 /\ next_event_id =< MaxEvents
        /\ next_event_id' = next_event_id + 1
        /\ hist' = Recorded(e)
        /\ mayHear' = [mayHear EXCEPT ![p] = {i \in DOMAIN subs : Wants(i, kind)}]
        /\ Advance(p, [Idle EXCEPT !.event = e])
        /\ UNCHANGED subs

\* A callback returns, and the lock is taken again.
Deliver(p) ==
    /\ pub[p].at # 0
    /\ Advance(p, [pub[p] EXCEPT !.called = @ \cup {pub[p].at}, !.delivered = @ + 1])
    /\ UNCHANGED <<subs, hist, next_event_id, mayHear>>

\* sm_eventbus_subscribe: the place in the array is the subscription.
Subscribe(kind) ==
    /\ Len(subs) < MaxSubscribers
    /\ subs' = Append(subs, [event_type |-> kind, active |-> TRUE])
    /\ UNCHANGED <<hist, next_event_id, events_delivered, pub, mayHear>>

\* sm_eventbus_unsubscribe.
Unsubscribe(i) ==
    /\ i \in DOMAIN subs
    /\ subs' = [subs EXCEPT ![i].active = FALSE]
    /\ mayHear' = [p \in Publishers |-> mayHear[p] \ {i}]
    /\ UNCHANGED <<hist, next_event_id, events_delivered, pub>>

\* sm_eventbus_clear_history.
ClearHistory ==
    /\ hist' = NoHistory
    /\ UNCHANGED <<subs, next_event_id, events_delivered, pub, mayHear>>

\* sm_eventbus_cleanup and a later init; sm_run calls it when its workers
\* have been joined.
CleanupBus ==
    /\ \A p \in Publishers : pub[p].at = 0
    /\ subs' = << >> /\ hist' = NoHistory
    /\ next_event_id' = 1 /\ events_delivered' = 0
    /\ mayHear' = [p \in Publishers |-> {}]
    /\ UNCHANGED pub

BusNext ==
    \/ \E p \in Publishers : Deliver(p) \/ \E k \in Kinds : Publish(p, k)
    \/ \E k \in Kinds \cup {"*"} : Subscribe(k)
    \/ \E i \in 1 .. MaxSubscribers : Unsubscribe(i)
    \/ ClearHistory \/ CleanupBus

-----------------------------------------------------------------------------
(* Remainder of C's division: it has the sign of the dividend.             *)
Rem(a, b) == IF a >= 0 THEN a % b ELSE -((-a) % b)

\* The slot sm_eventbus_get_event_history reads for the i-th event.
HistoryIndex(i) == Rem(hist.current_idx - hist.event_count + i + 1, HistorySize)

BusTypeOK ==
    /\ Len(subs) =< MaxSubscribers /\ hist.event_count \in 0 .. HistorySize
    /\ \A p \in Publishers : pub[p].at \in 0 .. Len(subs)

\* A publication calls nobody twice; of those before the place it has come
\* to it has called all who were subscribed from its beginning on, although
\* the lock was free during every call.
DeliversOnce ==
    \A p \in Publishers : pub[p].at # 0 =>
        /\ pub[p].at \notin pub[p].called
        /\ pub[p].delivered = Cardinality(pub[p].called)
        /\ {i \in mayHear[p] : i < pub[p].at} \subseteq pub[p].called

\* Until the history has filled up once, it is read from the oldest event
\* to the newest without a gap.  (From then on the index is negative for
\* some events, as the README says.)
HistoryReads ==
    hist.event_count < HistorySize =>
        \A i \in 0 .. hist.event_count - 1 :
            hist.events[HistoryIndex(i)].id = next_event_id - hist.event_count + i

\* The event bus is correct.
BusSafe == BusTypeOK /\ DeliversOnce /\ HistoryReads

-----------------------------------------------------------------------------
(***************************************************************************)
(* enterprise/sm_discovery.c: events about services change a table and are *)
(* announced to subscribers.  The subscribers to call are collected under  *)
(* the lock and called without it, so that calls of several publishers     *)
(* interleave and subscriptions end meanwhile.                             *)
(***************************************************************************)

CONSTANTS Announcers, Announced,
          MaxAnnounced,     \* MAX_SERVICES
          MaxListeners,     \* max_subscribers
          MaxAnnouncements  \* bound on the events

VARIABLES services,         \* the table: service_name and last_event
          subscriptions,    \* filter_service_name ("" for all), event_mask, active
          total_events_published,
          calls,            \* for each publisher, the callbacks it has yet to make
          heard,            \* history: the events each subscription was called for
          told,             \* history: the subscriptions collected for each event
          registered        \* history: entries each service should have

discVars == <<services, subscriptions, total_events_published, calls, heard, told, registered>>

\* sm_discovery_event_t: three of the five, which are numbered, not bits.
REGISTERED   == 1
DEREGISTERED == 2
READY        == 3
EventKinds   == {REGISTERED, DEREGISTERED, READY}

\* The & of a mask and an event is not zero.
Overlap(mask, kind) == \E b \in 0 .. 2 : (mask \div 2^b) % 2 = 1 /\ (kind \div 2^b) % 2 = 1

DiscInit ==
    /\ services = << >> /\ subscriptions = << >> /\ total_events_published = 0
    /\ calls = [a \in Announcers |-> << >>]
    /\ heard = << >> /\ told = << >>
    /\ registered = [s \in Announced |-> 0]

At(s) == SelectInSeq(services, LAMBDA e : e.service_name = s)

\* Mutant: the entries behind the removed one are not moved down.
RemovedLast(s) == IF At(s) = 0 THEN services ELSE Front(services)

\* The first entry of the name goes, those behind it move down.
Removed(s) == IF At(s) = 0 THEN services ELSE RemoveAt(services, At(s))

\* The table after an event.  A service that registers twice has two entries.
Table(kind, s) ==
    CASE kind = REGISTERED   -> Append(services, [service_name |-> s, last_event |-> kind])
      [] kind = DEREGISTERED -> Removed(s)
      [] kind = READY      -> IF At(s) = 0 THEN services ELSE [services EXCEPT ![At(s)].last_event = kind]

Listens(i, kind, s) ==
    /\ subscriptions[i].active
    /\ subscriptions[i].event_mask = 0 \/ Overlap(subscriptions[i].event_mask, kind)
    /\ subscriptions[i].filter \in {"", s}

\* sm_discovery_publish up to the unlock.
Announce(a, kind, s) ==
    LET ids == SelectSeq([i \in DOMAIN subscriptions |-> i], LAMBDA i : Listens(i, kind, s))
    IN  /\ calls[a] = << >> /\ total_events_published < MaxAnnouncements
        /\ kind = REGISTERED => Len(services) < MaxAnnounced
        /\ services' = Table(kind, s)
        /\ total_events_published' = total_events_published + 1
        /\ calls' = [calls EXCEPT ![a] = [i \in DOMAIN ids |-> [id |-> ids[i], event |-> total_events_published + 1]]]
        /\ told' = Append(told, Range(ids))
        /\ registered' = [registered EXCEPT ![s] = CASE kind = REGISTERED -> @ + 1
                                                     [] kind = DEREGISTERED -> IF @ > 0 THEN @ - 1 ELSE 0
                                                     [] kind = READY -> @]
        /\ UNCHANGED <<subscriptions, heard>>

\* One callback.
CallListener(a) ==
    /\ calls[a] # << >>
    /\ heard' = [heard EXCEPT ![Head(calls[a]).id] = Append(@, Head(calls[a]).event)]
    /\ calls' = [calls EXCEPT ![a] = Tail(@)]
    /\ UNCHANGED <<services, subscriptions, total_events_published, told, registered>>

\* sm_discovery_subscribe.
Listen(filter, mask) ==
    /\ Len(subscriptions) < MaxListeners
    /\ subscriptions' = Append(subscriptions, [filter |-> filter, event_mask |-> mask, active |-> TRUE])
    /\ heard' = Append(heard, << >>)
    /\ UNCHANGED <<services, total_events_published, calls, told, registered>>

\* sm_discovery_unsubscribe.
Unlisten(i) ==
    /\ i \in DOMAIN subscriptions
    /\ subscriptions' = [subscriptions EXCEPT ![i].active = FALSE]
    /\ UNCHANGED <<services, total_events_published, calls, heard, told, registered>>

DiscNext ==
    \/ \E a \in Announcers : CallListener(a) \/ \E k \in EventKinds, s \in Announced : Announce(a, k, s)
    \/ Listen("", DEREGISTERED) \/ \E s \in Announced : Listen(s, 0)
    \/ \E i \in 1 .. MaxListeners : Unlisten(i)

-----------------------------------------------------------------------------
Entries(s) == Cardinality({i \in DOMAIN services : services[i].service_name = s})

\* sm_discovery_query_services returns a service as often as it registered
\* without deregistering, whatever was removed from the table before it.
QueryIsTrue == \A s \in Announced : Entries(s) = registered[s]

\* A subscription is called once for each event that was published while it
\* was active and matched it, and for no other: it has been called, or is
\* among the calls some publisher still has to make.
HeardOnce ==
    \A i \in DOMAIN subscriptions, e \in DOMAIN told :
        LET pending == {a \in Announcers : \E j \in DOMAIN calls[a] : calls[a][j] = [id |-> i, event |-> e]}
            times == Cardinality({j \in DOMAIN heard[i] : heard[i][j] = e})
        IN  times + Cardinality(pending) = IF i \in told[e] THEN 1 ELSE 0

\* Service discovery is correct.
DiscoverySafe == QueryIsTrue /\ HeardOnce
=============================================================================

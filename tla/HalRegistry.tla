---------------------------- MODULE HalRegistry ----------------------------
(***************************************************************************)
(* The device registry and the life of hw_device_t in hal/interface/       *)
(* hal_interface.c: a global hash table with open addressing, linear       *)
(* probing and tombstones under a read-write lock, and reference counts    *)
(* whose last owner tears the device down.                                 *)
(*                                                                         *)
(* A critical section of the lock is one step.  What a function does after *)
(* it has unlocked, and every part of the teardown, is a step of its own.  *)
(* Threads keep the documented contract: they use a device only through a  *)
(* reference they own.                                                     *)
(***************************************************************************)
EXTENDS Integers, FiniteSets

CONSTANTS Threads,   \* the callers
          Devices,   \* the device structs
          Names,
          DevName,   \* the name a device is created with
          Hash,      \* fnv1a_hash of each name
          Size,      \* HAL_REGISTRY_SIZE
          Empty,     \* SLOT_EMPTY
          Tombstone, \* SLOT_TOMBSTONE
          MaxRefs    \* bound on the references to a device

ASSUME RegistryAssumption ==
    /\ IsFiniteSet(Threads)
    /\ Size \in Nat \ {0}
    /\ MaxRefs \in Nat
    /\ DevName \in [Devices -> Names]
    /\ Hash \in [Names -> Nat]
    /\ Empty # Tombstone /\ Empty \notin Devices /\ Tombstone \notin Devices

VARIABLES table,   \* g_registry
          count,   \* g_registry_count
          refs,    \* ref_count of each device
          life,    \* whether the struct is allocated
          state,   \* the lifecycle state of each device
          holds,   \* the references each thread owns
          call     \* the call each thread is in the middle of

vars == <<table, count, refs, life, state, holds, call>>

Slots   == 0 .. Size - 1
MaxLoad == (Size * 3) \div 4          \* REGISTRY_MAX_LOAD
States  == {"closed", "open", "active"}
Idle    == [step |-> "idle"]
In(step, d) == [step |-> step, dev |-> d]

Init ==
    /\ table = [i \in Slots |-> Empty]
    /\ count = 0
    /\ refs  = [d \in Devices |-> 0]
    /\ life  = [d \in Devices |-> "none"]
    /\ state = [d \in Devices |-> "closed"]
    /\ holds = [t \in Threads |-> [d \in Devices |-> 0]]
    /\ call  = [t \in Threads |-> Idle]

-----------------------------------------------------------------------------
(***************************************************************************)
(* Probing.                                                                *)
(***************************************************************************)
Slot(n, k) == (Hash[n] + k) % Size

\* The probes made for name n before the loop meets an empty slot, that one
\* included.
Probes(n) == {k \in Slots : \A j \in 0 .. k - 1 : table[Slot(n, j)] # Empty}

\* The probes that meet a device of this name.
Matches(n) ==
    {k \in Probes(n) : table[Slot(n, k)] \in Devices /\ DevName[table[Slot(n, k)]] = n}

\* The probe that meets the empty slot, if there is one.
Ends(n) == {k \in Probes(n) : table[Slot(n, k)] = Empty}

\* The slots an insertion may use: the tombstones on the way, and the end.
Usable(n) == {k \in Probes(n) : table[Slot(n, k)] \in {Empty, Tombstone}}

First(K) == CHOOSE k \in K : \A j \in K : k =< j

Readers == {t \in Threads : call[t].step = "iterate"}

Ready(t) == call[t] = Idle

-----------------------------------------------------------------------------
(***************************************************************************)
(* References.                                                             *)
(***************************************************************************)
\* *_hal_create with hal_device_init.
Create(t, d) ==
    /\ Ready(t)
    /\ life[d] # "live"
    /\ life'  = [life EXCEPT ![d] = "live"]
    /\ refs'  = [refs EXCEPT ![d] = 1]
    /\ state' = [state EXCEPT ![d] = "closed"]
    /\ holds' = [holds EXCEPT ![t][d] = 1]
    /\ UNCHANGED <<table, count, call>>

\* hal_device_ref, by an owner.
Ref(t, d) ==
    /\ Ready(t)
    /\ holds[t][d] > 0 /\ refs[d] < MaxRefs
    /\ refs'  = [refs EXCEPT ![d] = @ + 1]
    /\ holds' = [holds EXCEPT ![t][d] = @ + 1]
    /\ UNCHANGED <<table, count, life, state, call>>

\* The decrement of hal_device_unref: the last owner goes on to the teardown.
Dropped(t, d) ==
    /\ refs' = [refs EXCEPT ![d] = @ - 1]
    /\ call' = [call EXCEPT ![t] = IF refs[d] = 1 THEN In("stop", d) ELSE Idle]

Unref(t, d) ==
    /\ Ready(t)
    /\ holds[t][d] > 0
    /\ holds' = [holds EXCEPT ![t][d] = @ - 1]
    /\ Dropped(t, d)
    /\ UNCHANGED <<table, count, life, state>>

\* The unref of hal_device_unregister, after it has unlocked.
UnrefRegistry(t) ==
    /\ call[t].step = "unref"
    /\ Dropped(t, call[t].dev)
    /\ UNCHANGED <<table, count, life, state, holds>>

\* Teardown: ops->stop of an active device, which may fail, ...
TeardownStop(t) ==
    /\ call[t].step = "stop"
    /\ LET d == call[t].dev
       IN  /\ \/ state[d] = "active" /\ state' = [state EXCEPT ![d] = "open"]
              \/ UNCHANGED state
           /\ call' = [call EXCEPT ![t] = In("close", d)]
    /\ UNCHANGED <<table, count, refs, life, holds>>

\* ... ops->close of one that is not closed, ...
TeardownClose(t) ==
    /\ call[t].step = "close"
    /\ LET d == call[t].dev
       IN  /\ state' = [state EXCEPT ![d] = "closed"]
           /\ call'  = [call EXCEPT ![t] = In("free", d)]
    /\ UNCHANGED <<table, count, refs, life, holds>>

\* ... and cleanup, hal_device_destroy and free.
TeardownFree(t) ==
    /\ call[t].step = "free"
    /\ life' = [life EXCEPT ![call[t].dev] = "freed"]
    /\ call' = [call EXCEPT ![t] = Idle]
    /\ UNCHANGED <<table, count, refs, state, holds>>

\* The vtable's open, close, start and stop, called by an owner.  Open and
\* stop do not look at the state; a call that fails leaves it alone.
Operate(t, d, from, to) ==
    /\ Ready(t)
    /\ holds[t][d] > 0
    /\ state[d] \in from
    /\ state' = [state EXCEPT ![d] = to]
    /\ UNCHANGED <<table, count, refs, life, holds, call>>

Open(t, d)  == Operate(t, d, States, "open")
Close(t, d) == Operate(t, d, States, "closed")
Start(t, d) == Operate(t, d, {"open"}, "active")
Stop(t, d)  == Operate(t, d, States, "open")

-----------------------------------------------------------------------------
(***************************************************************************)
(* The registry.                                                           *)
(***************************************************************************)
\* Mutant: the registry keeps a pointer without a reference of its own.
RegisterWithoutRef(t, d) ==
    LET n == DevName[d]
    IN  /\ Ready(t) /\ Readers = {}
        /\ holds[t][d] > 0
        /\ count < MaxLoad
        /\ Matches(n) = {} /\ Ends(n) # {}
        /\ table' = [table EXCEPT ![Slot(n, First(Usable(n)))] = d]
        /\ count' = count + 1
        /\ UNCHANGED <<refs, life, state, holds, call>>

\* hal_device_register: HAL_SUCCESS.
Register(t, d) ==
    LET n == DevName[d]
    IN  /\ Ready(t) /\ Readers = {}
        /\ holds[t][d] > 0 /\ refs[d] < MaxRefs
        /\ count < MaxLoad
        /\ Matches(n) = {} /\ Ends(n) # {}
        /\ table' = [table EXCEPT ![Slot(n, First(Usable(n)))] = d]
        /\ count' = count + 1
        /\ refs'  = [refs EXCEPT ![d] = @ + 1]
        /\ UNCHANGED <<life, state, holds, call>>

\* HAL_ERROR_BUSY and HAL_ERROR_NO_MEMORY change nothing.

\* Mutant: the count goes down when nothing was found, too.
UnregisterUnfound(t, d) ==
    LET n == DevName[d]
        K == {k \in Probes(n) : table[Slot(n, k)] = d}
    IN  /\ Ready(t) /\ Readers = {}
        /\ holds[t][d] > 0
        /\ table' = [i \in Slots |-> IF table[i] = d THEN Tombstone ELSE table[i]]
        /\ count' = count - 1
        /\ call'  = IF K = {} THEN call ELSE [call EXCEPT ![t] = In("unref", d)]
        /\ UNCHANGED <<refs, life, state, holds>>

\* Mutant: the slot is emptied.
UnregisterEmpty(t, d) ==
    LET n == DevName[d]
        K == {k \in Probes(n) : table[Slot(n, k)] = d}
    IN  /\ Ready(t) /\ Readers = {}
        /\ holds[t][d] > 0
        /\ K # {}
        /\ table' = [table EXCEPT ![Slot(n, First(K))] = Empty]
        /\ count' = count - 1
        /\ call'  = [call EXCEPT ![t] = In("unref", d)]
        /\ UNCHANGED <<refs, life, state, holds>>

\* hal_device_unregister of a device it finds; of another it does nothing.
Unregister(t, d) ==
    LET n == DevName[d]
        K == {k \in Probes(n) : table[Slot(n, k)] = d}
    IN  /\ Ready(t) /\ Readers = {}
        /\ holds[t][d] > 0
        /\ K # {}
        /\ table' = [table EXCEPT ![Slot(n, First(K))] = Tombstone]
        /\ count' = count - 1
        /\ call'  = [call EXCEPT ![t] = In("unref", d)]
        /\ UNCHANGED <<refs, life, state, holds>>

\* Mutant: the caller gets the pointer without a reference of its own.
FindWithoutRef(t, n) ==
    /\ Ready(t)
    /\ Matches(n) # {}
    /\ LET d == table[Slot(n, First(Matches(n)))]
       IN  /\ refs[d] < MaxRefs
           /\ holds' = [holds EXCEPT ![t][d] = @ + 1]
    /\ UNCHANGED <<table, count, refs, life, state, call>>

\* hal_device_find of a name it finds.
Find(t, n) ==
    /\ Ready(t)
    /\ Matches(n) # {}
    /\ LET d == table[Slot(n, First(Matches(n)))]
       IN  /\ refs[d] < MaxRefs
           /\ refs'  = [refs EXCEPT ![d] = @ + 1]
           /\ holds' = [holds EXCEPT ![t][d] = @ + 1]
    /\ UNCHANGED <<table, count, life, state, call>>

\* hal_device_list: references to the devices of the first slots.
Listed(max) ==
    {table[i] : i \in {j \in Slots : /\ table[j] \in Devices
                                     /\ Cardinality({h \in 0 .. j - 1 : table[h] \in Devices}) < max}}

List(t, max) ==
    /\ Ready(t)
    /\ \A d \in Listed(max) : refs[d] < MaxRefs
    /\ refs'  = [d \in Devices |-> refs[d] + IF d \in Listed(max) THEN 1 ELSE 0]
    /\ holds' = [holds EXCEPT ![t] = [d \in Devices |-> @[d] + IF d \in Listed(max) THEN 1 ELSE 0]]
    /\ UNCHANGED <<table, count, life, state, call>>

\* hal_device_iterate runs its callbacks with the read lock held and no
\* reference of its own.
IterateBegin(t) ==
    /\ Ready(t)
    /\ call' = [call EXCEPT ![t] = [step |-> "iterate"]]
    /\ UNCHANGED <<table, count, refs, life, state, holds>>

IterateEnd(t) ==
    /\ call[t].step = "iterate"
    /\ call' = [call EXCEPT ![t] = Idle]
    /\ UNCHANGED <<table, count, refs, life, state, holds>>

-----------------------------------------------------------------------------
Next ==
    \E t \in Threads :
        \/ \E d \in Devices : \/ Create(t, d) \/ Ref(t, d) \/ Unref(t, d)
                              \/ Open(t, d) \/ Close(t, d) \/ Start(t, d) \/ Stop(t, d)
                              \/ Register(t, d) \/ Unregister(t, d)
        \/ \E n \in Names : Find(t, n)
        \/ \E max \in 1 .. Size : List(t, max)
        \/ IterateBegin(t) \/ IterateEnd(t)
        \/ UnrefRegistry(t) \/ TeardownStop(t) \/ TeardownClose(t) \/ TeardownFree(t)

Spec == Init /\ [][Next]_vars

-----------------------------------------------------------------------------
\* Every variable has its type.
TypeOK ==
    /\ table \in [Slots -> Devices \cup {Empty, Tombstone}]
    /\ count \in Nat
    /\ refs \in [Devices -> Nat]
    /\ life \in [Devices -> {"none", "live", "freed"}]
    /\ state \in [Devices -> States]
    /\ holds \in [Threads -> [Devices -> Nat]]
    /\ call \in [Threads -> {Idle, [step |-> "iterate"]}
                            \cup [step : {"unref", "stop", "close", "free"}, dev : Devices]]

\* hal_device_find meets every registered device, whatever was registered
\* and unregistered around it: no empty slot cuts its probe sequence off, no
\* other device has its name, and it has one slot.
FindIsComplete ==
    \A i \in Slots : table[i] \in Devices =>
        /\ \E k \in Matches(DevName[table[i]]) : Slot(DevName[table[i]], k) = i
        /\ \A j \in Slots : table[j] \in Devices /\ DevName[table[j]] = DevName[table[i]] => i = j

\* The references to d: the registry's, those the threads own, and those of
\* unregister calls that have unlocked and not yet dropped theirs.
SlotsOf(d)   == {i \in Slots : table[i] = d}
HeldRefs(d)  == UNION {{t} \X (1 .. holds[t][d]) : t \in Threads}
Unreffing(d) == {t \in Threads : call[t] = In("unref", d)}

UsedSlots == {i \in Slots : table[i] \in Devices}

\* ref_count is the number of references there are, and g_registry_count the
\* number of used slots.
CountsExact ==
    /\ count = Cardinality(UsedSlots)
    /\ \A d \in Devices :
        refs[d] = Cardinality(SlotsOf(d)) + Cardinality(HeldRefs(d)) + Cardinality(Unreffing(d))

\* The threads in the teardown of d.
Tearing(d) == {t \in Threads : call[t] \in [step : {"stop", "close", "free"}, dev : {d}]}

\* Nobody can reach a device that is being torn down or is freed: not by a
\* reference, not through the registry, and it is torn down once, by the
\* last owner, and closed when it is freed (hal_device_unref).
NoUseAfterFree ==
    \A d \in Devices :
        /\ Cardinality(Tearing(d)) =< 1 /\ (Tearing(d) # {} => life[d] = "live")
        /\ Tearing(d) # {} \/ life[d] # "live" =>
             SlotsOf(d) = {} /\ Unreffing(d) = {} /\ \A t \in Threads : holds[t][d] = 0
        /\ life[d] = "freed" => state[d] = "closed"

\* The registry and the reference counts are correct: types, counts and the
\* life of every device (hal_device_ref, _unref, _register, _unregister).
HalSafe == TypeOK /\ CountsExact /\ NoUseAfterFree

=============================================================================

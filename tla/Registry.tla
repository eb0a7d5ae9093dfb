------------------------------ MODULE Registry ------------------------------
(***************************************************************************)
(* dev/core/service_manager/infrastructure/sm_registry.c: the registry as  *)
(* it is stored, an array of entries that is kept compact, and a chained   *)
(* hash table over it whose nodes hold array indices.                      *)
(*                                                                         *)
(* A function that holds the write lock throughout is one step.  The two   *)
(* updates that run under the read lock take one step for each atomic      *)
(* store; the index hash_find gave them is used until they unlock.         *)
(*                                                                         *)
(* A chain is the set of the indices in it: insertion puts the largest     *)
(* index first, so a chain is in descending order and the first match is   *)
(* the largest.                                                            *)
(***************************************************************************)
EXTENDS Integers, Sequences, FiniteSets, FiniteSetsExt

CONSTANTS Names, Pids, RegThreads, MaxServices, AgeCap, RestartCap,
          Buckets,   \* the slots of hash_table
          hash_name  \* the bucket of each name

ASSUME RegistryAssumption ==
    /\ MaxServices \in Nat \ {0} /\ AgeCap \in Nat \ {0} /\ RestartCap \in Nat \ {0}
    /\ hash_name \in [Names -> Buckets]

VARIABLES registry,        \* registry[0 .. registry_count - 1], from 1 here
          hash_table,      \* the indices in each bucket's chain
          hash_pool_used,  \* nodes of hash_pool in use
          live,            \* the processes that exist
          upd              \* per thread, the update it is in: next store and index

regVars == <<registry, hash_table, hash_pool_used, live, upd>>

Status  == {"running", "crashed", "dead"}  \* nothing ever sets SERVICE_STOPPED
Ages    == 0 .. AgeCap
Indices == 1 .. MaxServices
ServiceEntry == [name : Names, pid : Pids, status : Status,
                 restarts : 0 .. RestartCap, beat : Ages, crash : Ages]
NotFound == 0
Idle     == [kind |-> "none"]

Unread == \A t \in RegThreads : upd[t] = Idle

-----------------------------------------------------------------------------
(***************************************************************************)
(* The hash table.                                                         *)
(***************************************************************************)
Matches(name, array, table) == {i \in table[hash_name[name]] : array[i].name = name}

\* hash_find walks the name's chain to the first entry with that name.
hash_find(name) ==
    LET found == Matches(name, registry, hash_table)
    IN  IF found = {} THEN NotFound ELSE Max(found)

hash_insert(table, name, idx) == [table EXCEPT ![hash_name[name]] = @ \cup {idx}]

EmptyTable == [b \in Buckets |-> {}]

\* hash_rebuild inserts every entry of the array again.
hash_rebuild(array) ==
    [b \in Buckets |-> {i \in 1 .. Len(array) : hash_name[array[i].name] = b}]

\* Mutant: the entry stays and the one after it is lost.
CompactOffByOne(array, i) ==
    [k \in 1 .. Len(array) - 1 |-> IF k =< i THEN array[k] ELSE array[k + 1]]

\* The array with entry i taken out and the later ones moved down.
Compact(array, i) ==
    [k \in 1 .. Len(array) - 1 |-> IF k < i THEN array[k] ELSE array[k + 1]]

NewEntry(n, p) == [name |-> n, pid |-> p, status |-> "running",
                   restarts |-> 0, beat |-> 0, crash |-> AgeCap]

(***************************************************************************)
(* Writers.                                                                *)
(***************************************************************************)
\* Mutant: the capacity is not looked at.
AddNewUnbounded(n, p) ==
    /\ Unread
    /\ hash_find(n) = NotFound
    /\ registry'       = Append(registry, NewEntry(n, p))
    /\ hash_table'     = hash_insert(hash_table, n, Len(registry) + 1)
    /\ hash_pool_used' = hash_pool_used + 1
    /\ UNCHANGED <<live, upd>>

\* sm_registry_add of a name that is not there.
AddNew(n, p) ==
    /\ Unread
    /\ hash_find(n) = NotFound
    /\ Len(registry) < MaxServices
    /\ registry'       = Append(registry, NewEntry(n, p))
    /\ hash_table'     = hash_insert(hash_table, n, Len(registry) + 1)
    /\ hash_pool_used' = hash_pool_used + 1
    /\ UNCHANGED <<live, upd>>

\* Mutant: the pool is not reset by the rebuild.
AddReplacingLeaking(n, p) ==
    LET old  == hash_find(n)
        rest == Compact(registry, old)
    IN  /\ Unread
        /\ old # NotFound /\ registry[old].pid \notin live
        /\ Len(rest) < MaxServices
        /\ registry'       = Append(rest, NewEntry(n, p))
        /\ hash_table'     = hash_insert(hash_rebuild(rest), n, Len(rest) + 1)
        /\ hash_pool_used' = hash_pool_used + 1
        /\ UNCHANGED <<live, upd>>

\* sm_registry_add of a name whose process is gone: compact, rebuild, append.
AddReplacing(n, p) ==
    LET old  == hash_find(n)
        rest == Compact(registry, old)
    IN  /\ Unread
        /\ old # NotFound /\ registry[old].pid \notin live
        /\ Len(rest) < MaxServices
        /\ registry'       = Append(rest, NewEntry(n, p))
        /\ hash_table'     = hash_insert(hash_rebuild(rest), n, Len(rest) + 1)
        /\ hash_pool_used' = Len(rest) + 1
        /\ UNCHANGED <<live, upd>>

\* Mutant: the hash table is not rebuilt, only the index taken out.
RemoveIndexNoRebuild(i) ==
    /\ registry'       = Compact(registry, i)
    /\ hash_table'     = [b \in Buckets |-> hash_table[b] \ {i}]
    /\ hash_pool_used' = Len(registry) - 1
    /\ UNCHANGED <<live, upd>>

RemoveIndex(i) ==
    /\ registry'       = Compact(registry, i)
    /\ hash_table'     = hash_rebuild(Compact(registry, i))
    /\ hash_pool_used' = Len(registry) - 1
    /\ UNCHANGED <<live, upd>>

sm_registry_remove(n) ==
    /\ Unread
    /\ hash_find(n) # NotFound
    /\ RemoveIndex(hash_find(n))

sm_registry_remove_if_owner(n, p) ==
    /\ Unread
    /\ hash_find(n) # NotFound
    /\ registry[hash_find(n)].pid = p
    /\ RemoveIndex(hash_find(n))

sm_registry_cleanup ==
    /\ Unread
    /\ registry'       = <<>>
    /\ hash_table'     = EmptyTable
    /\ hash_pool_used' = 0
    /\ UNCHANGED <<live, upd>>

(***************************************************************************)
(* Updates under the read lock.                                            *)
(***************************************************************************)
Enter(t, kind, i) == upd' = [upd EXCEPT ![t] = [kind |-> kind, idx |-> i]]
Leave(t)          == upd' = [upd EXCEPT ![t] = Idle]

\* sm_registry_update_heartbeat: last_heartbeat, then status.
HeartbeatTime(t, n) ==
    /\ upd[t] = Idle
    /\ hash_find(n) # NotFound
    /\ registry' = [registry EXCEPT ![hash_find(n)].beat = 0]
    /\ Enter(t, "beat", hash_find(n))
    /\ UNCHANGED <<hash_table, hash_pool_used, live>>

HeartbeatStatus(t) ==
    /\ upd[t].kind = "beat"
    /\ registry' = [registry EXCEPT ![upd[t].idx].status = "running"]
    /\ Leave(t)
    /\ UNCHANGED <<hash_table, hash_pool_used, live>>

\* sm_registry_update_status: status, then last_crash_time and restart_count.
UpdateStatus(t, n, s) ==
    /\ upd[t] = Idle
    /\ hash_find(n) # NotFound
    /\ registry' = [registry EXCEPT ![hash_find(n)].status = s]
    /\ IF s = "crashed" THEN Enter(t, "time", hash_find(n)) ELSE Leave(t)
    /\ UNCHANGED <<hash_table, hash_pool_used, live>>

UpdateCrashTime(t) ==
    /\ upd[t].kind = "time"
    /\ registry' = [registry EXCEPT ![upd[t].idx].crash = 0]
    /\ Enter(t, "count", upd[t].idx)
    /\ UNCHANGED <<hash_table, hash_pool_used, live>>

UpdateRestartCount(t) ==
    /\ upd[t].kind = "count"
    /\ registry' = [registry EXCEPT ![upd[t].idx].restarts = IF @ < RestartCap THEN @ + 1 ELSE @]
    /\ Leave(t)
    /\ UNCHANGED <<hash_table, hash_pool_used, live>>

(***************************************************************************)
(* The world around the registry.                                          *)
(***************************************************************************)
Older(age) == IF age < AgeCap THEN age + 1 ELSE age

TimePasses ==
    /\ registry' = [i \in 1 .. Len(registry) |->
                      [registry[i] EXCEPT !.beat = Older(@), !.crash = Older(@)]]
    /\ UNCHANGED <<hash_table, hash_pool_used, live, upd>>

ProcessExits(p) == p \in live /\ live' = live \ {p}
                   /\ UNCHANGED <<registry, hash_table, hash_pool_used, upd>>

ProcessStarts(p) == p \notin live /\ live' = live \cup {p}
                    /\ UNCHANGED <<registry, hash_table, hash_pool_used, upd>>

-----------------------------------------------------------------------------
\* sm_registry_init.
RegInit ==
    /\ registry       = <<>>
    /\ hash_table     = EmptyTable
    /\ hash_pool_used = 0
    /\ live           \in SUBSET Pids
    /\ upd            = [t \in RegThreads |-> Idle]

RegNext ==
    \/ \E n \in Names, p \in Pids : \/ AddNew(n, p)
                                    \/ AddReplacing(n, p)
                                    \/ sm_registry_remove_if_owner(n, p)
    \/ \E n \in Names : sm_registry_remove(n)
    \/ sm_registry_cleanup
    \/ \E t \in RegThreads :
         \/ \E n \in Names : HeartbeatTime(t, n)
         \/ HeartbeatStatus(t)
         \/ \E n \in Names, s \in {"crashed", "dead"} : UpdateStatus(t, n, s)
         \/ UpdateCrashTime(t)
         \/ UpdateRestartCount(t)
    \/ TimePasses
    \/ \E p \in Pids : ProcessExits(p) \/ ProcessStarts(p)

RegSpec == RegInit /\ [][RegNext]_regVars

-----------------------------------------------------------------------------
\* Every variable has its type.
RegTypeOK ==
    /\ registry \in Seq(ServiceEntry)
    /\ hash_table \in [Buckets -> SUBSET Indices]
    /\ hash_pool_used \in Nat
    /\ live \subseteq Pids
    /\ upd \in [RegThreads -> {Idle} \cup [kind : {"beat", "time", "count"}, idx : Indices]]

\* The array never outgrows SM_MAX_SERVICES and the nodes taken from
\* hash_pool are as many as the entries, so hash_insert never runs past the
\* end of the pool, whatever sequence of adds, replacements and removals.
PoolBounded ==
    /\ Len(registry) =< MaxServices
    /\ hash_pool_used = Len(registry)

\* The hash index agrees with the array: every entry is in the chain of its
\* name and in no other, and no chain holds an index past the end.
HashMatchesArray == hash_table = hash_rebuild(registry)

\* The stored form of the registry is sound: its variables have their types,
\* neither the array nor the node pool outgrows its size, and the hash index
\* finds what the array holds.
RegistrySafe == RegTypeOK /\ PoolBounded /\ HashMatchesArray

(***************************************************************************)
(* The registry implements the map: the entry of a name is the one         *)
(* hash_find gives, and an update under way is on the name at its index.   *)
(* So names are unique, and the index hash_find returned stays valid until *)
(* the read lock is released, as sm_registry_update_status relies on: the  *)
(* stores land in the entry that was looked up.                            *)
(***************************************************************************)
MappedNames == {n \in Names : hash_find(n) # NotFound}

MappedEntry(n) ==
    LET e == registry[hash_find(n)]
    IN  [pid |-> e.pid, status |-> e.status, restarts |-> e.restarts,
         beat |-> e.beat, crash |-> e.crash]

MappedOp(t) == IF upd[t] = Idle THEN Idle
               ELSE [kind |-> upd[t].kind, name |-> registry[upd[t].idx].name]

MappedReg == [n \in MappedNames |-> MappedEntry(n)]
MappedOps == [t \in RegThreads |-> MappedOp(t)]

Map == INSTANCE RegistryMap WITH Threads <- RegThreads, reg <- MappedReg, op <- MappedOps

\* Whoever uses the registry may think of it as an atomic map.
ImplementsMap == Map!MapSpec
=============================================================================

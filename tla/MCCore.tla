------------------------------- MODULE MCCore -------------------------------
(***************************************************************************)
(* The data structures of dev/core for TLC.  part is the one that moves:   *)
(* the ring of the audio service, a memory pool, or the registry of the    *)
(* service manager, which share nothing.                                   *)
(*                                                                         *)
(* The last byte of the pool's bitmap is only partly used.  The registry   *)
(* has three names over two buckets, so that chains collide, and room for  *)
(* two entries, so that it fills up.                                       *)
(***************************************************************************)
EXTENDS AudioRing, MemoryPool, Registry, TLC

CONSTANTS n1, n2, n3, b1, b2

VARIABLE part

MCHash == n1 :> b1 @@ n2 :> b1 @@ n3 :> b2

\* Interchangeable: the processes, the threads, the names of one bucket.
Symmetry == Permutations(Pids) \cup Permutations(RegThreads) \cup Permutations({n1, n2})

coreVars == <<audioVars, poolVars, regVars, part>>

CoreInit ==
    /\ part \in {"audio", "pool", "registry"}
    /\ AudioInit /\ PoolInit /\ RegInit
    /\ part # "registry" => live = Pids

CoreNext ==
    /\ UNCHANGED part
    /\ \/ part = "audio"    /\ AudioNext /\ UNCHANGED <<poolVars, regVars>>
       \/ part = "pool"     /\ PoolNext  /\ UNCHANGED <<audioVars, regVars>>
       \/ part = "registry" /\ RegNext   /\ UNCHANGED <<audioVars, poolVars>>

CoreSpec == CoreInit /\ [][CoreNext]_coreVars
=============================================================================

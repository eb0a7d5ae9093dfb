---------------------------- MODULE MemoryPool ------------------------------
(***************************************************************************)
(* dev/core/memory_pool.c: the fixed-size block allocator, as several      *)
(* threads use a pool created with thread_safe set.                        *)
(*                                                                         *)
(* What happens under the pool's mutex is one step.  memory_pool_alloc     *)
(* clears the block after it has released the mutex, so claiming a block   *)
(* and returning it are two steps.  The bitmap is the set of the bits that *)
(* are set, in bytes of ByteBits bits; the last byte may have bits past    *)
(* the last block.  memory_pool_free with a pointer outside the pool, off  *)
(* a block boundary or to a free block is refused without a state change.  *)
(***************************************************************************)
EXTENDS Integers, FiniteSets, FiniteSetsExt

CONSTANTS PoolThreads,
          BlockCount,  \* config.block_count
          ByteBits,    \* bits in a bitmap byte, 8 in the code
          MaxAllocs,   \* bound on alloc_count
          MaxFails     \* bound on fail_count

ASSUME BlockCountAssumption == BlockCount \in Nat \ {0}
ASSUME ByteBitsAssumption   == ByteBits \in Nat \ {0}
ASSUME BoundsAssumption     == MaxAllocs \in Nat /\ MaxFails \in Nat

VARIABLES bitmap,   \* the bits that are set
          hint,     \* next_free_hint
          stats,    \* memory_pool_stats_t, total_blocks left out
          content,  \* what each block holds
          claimed,  \* per thread, the block it has marked and not yet cleared
          held,     \* per thread, the blocks it was given and has not freed
          alive     \* whether the pool exists

poolVars == <<bitmap, hint, stats, content, claimed, held, alive>>

Blocks    == 0 .. BlockCount - 1
NoBlock   == -1
BitmapBytes == (BlockCount + ByteBits - 1) \div ByteBits
StatsType == [used : 0 .. BlockCount, free : 0 .. BlockCount, peak : 0 .. BlockCount,
              alloc : Nat, freed : Nat, fail : Nat]

FreshStats == [used |-> 0, free |-> BlockCount, peak |-> 0,
               alloc |-> 0, freed |-> 0, fail |-> 0]

\* memory_pool_create.
PoolInit ==
    /\ bitmap  = {}
    /\ hint    = 0
    /\ stats   = FreshStats
    /\ content = [b \in Blocks |-> "zero"]
    /\ claimed = [t \in PoolThreads |-> NoBlock]
    /\ held    = [t \in PoolThreads |-> {}]
    /\ alive   = TRUE

(***************************************************************************)
(* The bitmap scan: the lowest clear bit of each byte in turn, the bytes   *)
(* from the hint's on in the first pass and the ones before it in the      *)
(* second.  A byte whose lowest clear bit is past the last block is        *)
(* skipped.                                                                *)
(***************************************************************************)
ClearBits(byte) == {i \in byte * ByteBits .. byte * ByteBits + ByteBits - 1 : i \notin bitmap}

\* Mutant: the last block is never handed out.
CandidateShort(byte) == ClearBits(byte) # {} /\ Min(ClearBits(byte)) < BlockCount - 1

Candidate(byte) == ClearBits(byte) # {} /\ Min(ClearBits(byte)) < BlockCount

ScanPass(lo, hi) ==
    LET bytes == {byte \in lo .. hi - 1 : Candidate(byte)}
    IN  IF bytes = {} THEN NoBlock ELSE Min(ClearBits(Min(bytes)))

FindFree ==
    LET start == hint \div ByteBits
        first == ScanPass(start, BitmapBytes)
    IN  IF first # NoBlock THEN first ELSE ScanPass(0, start)

HintAfterNoWrap(b) == b + 1  \* mutant: past the last block

HintAfter(b) == IF b + 1 >= BlockCount THEN 0 ELSE b + 1

(***************************************************************************)
(* memory_pool_alloc.                                                      *)
(***************************************************************************)
\* Mutant: the bit is left clear.
AllocClaimUnmarked(t) ==
    /\ alive /\ claimed[t] = NoBlock
    /\ stats.alloc < MaxAllocs
    /\ FindFree # NoBlock
    /\ hint'    = HintAfter(FindFree)
    /\ stats'   = [stats EXCEPT !.alloc = @ + 1]
    /\ claimed' = [claimed EXCEPT ![t] = FindFree]
    /\ UNCHANGED <<bitmap, content, held, alive>>

\* Under the lock: find a clear bit, set it, move the hint, count.
AllocClaim(t) ==
    /\ alive /\ claimed[t] = NoBlock
    /\ stats.alloc < MaxAllocs
    /\ FindFree # NoBlock
    /\ bitmap'  = bitmap \cup {FindFree}
    /\ hint'    = HintAfter(FindFree)
    /\ stats'   = [stats EXCEPT !.used  = @ + 1,
                                !.free  = @ - 1,
                                !.alloc = @ + 1,
                                !.peak  = IF stats.used + 1 > @ THEN stats.used + 1 ELSE @]
    /\ claimed' = [claimed EXCEPT ![t] = FindFree]
    /\ UNCHANGED <<content, held, alive>>

\* Mutant: the block is returned as it is.
AllocReturnDirty(t) ==
    /\ claimed[t] # NoBlock
    /\ held'    = [held EXCEPT ![t] = @ \cup {claimed[t]}]
    /\ claimed' = [claimed EXCEPT ![t] = NoBlock]
    /\ UNCHANGED <<bitmap, hint, stats, content, alive>>

\* Outside the lock: clear the block and return it.
AllocReturn(t) ==
    /\ claimed[t] # NoBlock
    /\ content' = [content EXCEPT ![claimed[t]] = "zero"]
    /\ held'    = [held EXCEPT ![t] = @ \cup {claimed[t]}]
    /\ claimed' = [claimed EXCEPT ![t] = NoBlock]
    /\ UNCHANGED <<bitmap, hint, stats, alive>>

\* Both passes found nothing: NULL.
AllocFull(t) ==
    /\ alive /\ claimed[t] = NoBlock
    /\ stats.fail < MaxFails
    /\ FindFree = NoBlock
    /\ stats' = [stats EXCEPT !.fail = @ + 1]
    /\ UNCHANGED <<bitmap, hint, content, claimed, held, alive>>

\* The owner of a block writes to it.
Use(t, b) ==
    /\ b \in held[t]
    /\ content' = [content EXCEPT ![b] = "dirty"]
    /\ UNCHANGED <<bitmap, hint, stats, claimed, held, alive>>

(***************************************************************************)
(* memory_pool_free, of a block the caller was given.                      *)
(***************************************************************************)
\* Mutant: the counter of used blocks is not brought back.
FreeUncounted(t, b) ==
    /\ alive /\ b \in held[t] /\ b \in bitmap
    /\ bitmap' = bitmap \ {b}
    /\ hint'   = IF b < hint THEN b ELSE hint
    /\ stats'  = [stats EXCEPT !.freed = @ + 1]
    /\ held'   = [held EXCEPT ![t] = @ \ {b}]
    /\ UNCHANGED <<content, claimed, alive>>

\* Mutant: the hint stays above the freed block.
FreeHintKept(t, b) ==
    /\ alive /\ b \in held[t] /\ b \in bitmap
    /\ bitmap' = bitmap \ {b}
    /\ stats'  = [stats EXCEPT !.used = @ - 1, !.free = @ + 1, !.freed = @ + 1]
    /\ held'   = [held EXCEPT ![t] = @ \ {b}]
    /\ UNCHANGED <<hint, content, claimed, alive>>

Free(t, b) ==
    /\ alive /\ b \in held[t] /\ b \in bitmap
    /\ bitmap' = bitmap \ {b}
    /\ hint'   = IF b < hint THEN b ELSE hint
    /\ stats'  = [stats EXCEPT !.used = @ - 1, !.free = @ + 1, !.freed = @ + 1]
    /\ held'   = [held EXCEPT ![t] = @ \ {b}]
    /\ UNCHANGED <<content, claimed, alive>>

(***************************************************************************)
(* memory_pool_reset invalidates every pointer handed out; its callers let *)
(* go of them and have no allocation under way.                            *)
(***************************************************************************)
Reset ==
    /\ alive /\ \A t \in PoolThreads : claimed[t] = NoBlock
    /\ bitmap' = {}
    /\ hint'   = 0
    /\ stats'  = FreshStats
    /\ held'   = [t \in PoolThreads |-> {}]
    /\ UNCHANGED <<content, claimed, alive>>

\* memory_pool_destroy wipes the data and the bitmap and unmaps the pool;
\* blocks still held are only reported.
Destroy ==
    /\ alive /\ \A t \in PoolThreads : claimed[t] = NoBlock
    /\ alive'   = FALSE
    /\ content' = [b \in Blocks |-> "zero"]
    /\ bitmap'  = {}
    /\ held'    = [t \in PoolThreads |-> {}]
    /\ UNCHANGED <<hint, stats, claimed>>

PoolNext ==
    \/ \E t \in PoolThreads :
         \/ AllocClaim(t)
         \/ AllocReturn(t)
         \/ AllocFull(t)
         \/ \E b \in Blocks : Use(t, b) \/ Free(t, b)
    \/ Reset
    \/ Destroy

PoolSpec == PoolInit /\ [][PoolNext]_poolVars

-----------------------------------------------------------------------------
\* The blocks thread t may touch.
Owned(t) == held[t] \cup ({claimed[t]} \ {NoBlock})

\* Every variable has its type; the hint is a block and no bit past the last
\* block is ever set.
PoolTypeOK ==
    /\ bitmap  \subseteq Blocks
    /\ hint    \in Blocks
    /\ stats   \in StatsType
    /\ content \in [Blocks -> {"zero", "dirty"}]
    /\ claimed \in [PoolThreads -> Blocks \cup {NoBlock}]
    /\ held    \in [PoolThreads -> SUBSET Blocks]
    /\ alive   \in BOOLEAN

\* The counters of memory_pool_stats_t agree with the bitmap and with each
\* other at every unlock, through any mix of alloc, free and reset.
StatsAgree ==
    alive => /\ stats.used = Cardinality(bitmap)
             /\ stats.used + stats.free = BlockCount
             /\ stats.alloc = stats.freed + stats.used
             /\ stats.used =< stats.peak

\* No block belongs to two threads, and the bitmap is exactly the blocks
\* that somebody owns: none is lost, none is handed out twice.
ExclusiveOwnership ==
    /\ \A s, t \in PoolThreads : s # t => Owned(s) \cap Owned(t) = {}
    /\ \A t \in PoolThreads : claimed[t] \notin held[t]
    /\ bitmap = UNION {Owned(t) : t \in PoolThreads}

\* Every block below the hint is in use, so memory_pool_alloc always returns
\* the lowest free block and its second pass never finds one.
HintIsFirstFit ==
    /\ \A b \in Blocks : b < hint => b \in bitmap \/ ~alive
    /\ alive /\ bitmap # Blocks => FindFree = Min(Blocks \ bitmap)

\* The block is zeroed before the caller sees it although the clearing is
\* done outside the lock: nobody can write to it in between.
HandedOutZeroed ==
    [][\A t \in PoolThreads : \A b \in held'[t] \ held[t] : content'[b] = "zero"]_poolVars

\* memory_pool_alloc answers "full" only when every block is in use.
FullMeansFull ==
    [][stats'.fail > stats.fail => bitmap = Blocks]_poolVars

\* What holds of a pool between calls: its variables have their types, the
\* counters agree with the bitmap, no block has two owners, and the hint
\* leads memory_pool_alloc to the lowest free block.
PoolSafe == PoolTypeOK /\ StatsAgree /\ ExclusiveOwnership /\ HintIsFirstFit

\* What memory_pool_alloc may answer: a zeroed block, or NULL only when no
\* block is free.
AllocAnswers == HandedOutZeroed /\ FullMeansFull
=============================================================================

----------------------------- MODULE RingBuffer -----------------------------
(***************************************************************************)
(* dev/core/ring_buffer.c: the lock-free ring buffer in shared memory.     *)
(*                                                                         *)
(* A thread is inside at most one call at a time.  Every atomic load and   *)
(* store of an index is a step of its own, and so are the two ends of the  *)
(* writer's memcpy: between them the slot holds Torn, which is what a      *)
(* reader's memcpy that overlaps it would copy.  The reader's memcpy is    *)
(* one step, since an overlap in either direction has an interleaving in   *)
(* which that step falls between the writer's two.                         *)
(*                                                                         *)
(* The Spec below is the use the buffer is built for, one writing and one  *)
(* reading thread.  AudioRing builds another use from the same steps.      *)
(***************************************************************************)
EXTENDS Naturals, Sequences

CONSTANTS Items,     \* what a slot can hold
          Torn,      \* a half-written slot
          Capacity,  \* rb->capacity, the number of slots
          Writer,    \* the thread that calls ring_buffer_write
          Reader     \* the thread that calls ring_buffer_read

ASSUME CapacityAssumption == Capacity \in Nat \ {0}
ASSUME ThreadAssumption   == Writer # Reader
ASSUME TornAssumption     == Torn \notin Items

VARIABLES head,  \* rb->head: where the next item is written
          tail,  \* rb->tail: where the next item is read
          data,  \* rb->data, one entry per slot
          notify, \* per thread, whether the eventfd of its handle is readable
          pc,    \* per thread, the step its call has reached
          loc,   \* per thread, the locals of the call: head, tail and item
          res,   \* per thread, what its last call returned
          got    \* the item the last successful read handed to its caller

ringVars == <<head, tail, data>>
vars     == <<head, tail, data, notify, pc, loc, res, got>>

Threads == {Writer, Reader}
Slots   == 0 .. Capacity - 1
Steps   == {"idle", "w_tail", "w_begin", "w_end", "w_store",
            "w_notify", "r_head", "r_copy", "r_store", "o_tail"}
Results == {"none", "ok", "full", "empty", "observed"}

(***************************************************************************)
(* Index arithmetic.                                                       *)
(***************************************************************************)
NextSlotNoWrap(i) == i + 1  \* mutant: the index is not wrapped

NextSlot(i) == (i + 1) % Capacity

CountNoWrap(h, t) == IF h >= t THEN h - t ELSE t - h  \* mutant: a wrapped head

Count(h, t) == IF h >= t THEN h - t ELSE Capacity - t + h

IsFullAtCapacity(h, t) == Count(h, t) = Capacity  \* mutant: no slot left unused

IsFull(h, t) == NextSlot(h) = t

IsEmpty(h, t) == h = t

\* The slot k places after the slot i.
SlotAfter(i, k) == IF i + k < Capacity THEN i + k ELSE i + k - Capacity

-----------------------------------------------------------------------------
Goto(t, step) == pc' = [pc EXCEPT ![t] = step]

Return(t, code) == Goto(t, "idle") /\ res' = [res EXCEPT ![t] = code]

(***************************************************************************)
(* ring_buffer_write.                                                      *)
(***************************************************************************)
WriteCall(t, x) ==
    /\ pc[t] = "idle"
    /\ loc' = [loc EXCEPT ![t].h = head, ![t].item = x]
    /\ Goto(t, "w_tail")
    /\ UNCHANGED <<ringVars, notify, res, got>>

WriteLoadTail(t) ==
    /\ pc[t] = "w_tail"
    /\ loc' = [loc EXCEPT ![t].t = tail]
    /\ IF IsFull(loc[t].h, tail)
         THEN Return(t, "full")
         ELSE Goto(t, "w_begin") /\ UNCHANGED res
    /\ UNCHANGED <<ringVars, notify, got>>

\* Mutant: head is stored before the item is copied.
WriteCopyBeginPublished(t) ==
    /\ pc[t] = "w_begin"
    /\ data' = [data EXCEPT ![loc[t].h] = Torn]
    /\ head' = NextSlot(loc[t].h)
    /\ Goto(t, "w_end")
    /\ UNCHANGED <<tail, notify, loc, res, got>>

WriteCopyBegin(t) ==
    /\ pc[t] = "w_begin"
    /\ data' = [data EXCEPT ![loc[t].h] = Torn]
    /\ Goto(t, "w_end")
    /\ UNCHANGED <<head, tail, notify, loc, res, got>>

WriteCopyEnd(t) ==
    /\ pc[t] = "w_end"
    /\ data' = [data EXCEPT ![loc[t].h] = loc[t].item]
    /\ Goto(t, "w_store")
    /\ UNCHANGED <<head, tail, notify, loc, res, got>>

WriteStoreHead(t) ==
    /\ pc[t] = "w_store"
    /\ head' = NextSlot(loc[t].h)
    /\ Goto(t, "w_notify")
    /\ UNCHANGED <<tail, data, notify, loc, res, got>>

\* The eventfd written is the one of the handle the write was called with.
WriteNotify(t) ==
    /\ pc[t] = "w_notify"
    /\ notify' = [notify EXCEPT ![t] = TRUE]
    /\ Return(t, "ok")
    /\ UNCHANGED <<ringVars, loc, got>>

(***************************************************************************)
(* ring_buffer_read.                                                       *)
(***************************************************************************)
ReadCall(t) ==
    /\ pc[t] = "idle"
    /\ loc' = [loc EXCEPT ![t].t = tail]
    /\ Goto(t, "r_head")
    /\ UNCHANGED <<ringVars, notify, res, got>>

ReadLoadHead(t) ==
    /\ pc[t] = "r_head"
    /\ loc' = [loc EXCEPT ![t].h = head]
    /\ IF IsEmpty(head, loc[t].t)
         THEN Return(t, "empty")
         ELSE Goto(t, "r_copy") /\ UNCHANGED res
    /\ UNCHANGED <<ringVars, notify, got>>

ReadCopy(t) ==
    /\ pc[t] = "r_copy"
    /\ loc' = [loc EXCEPT ![t].item = data[loc[t].t]]
    /\ Goto(t, "r_store")
    /\ UNCHANGED <<ringVars, notify, res, got>>

ReadStoreTail(t) ==
    /\ pc[t] = "r_store"
    /\ tail' = NextSlot(loc[t].t)
    /\ got'  = loc[t].item
    /\ Return(t, "ok")
    /\ UNCHANGED <<head, data, notify, loc>>

(***************************************************************************)
(* ring_buffer_is_full, _is_empty and _count: each loads head, then tail,  *)
(* and answers from the pair, which stays in loc[t].                       *)
(***************************************************************************)
ObserveCall(t) ==
    /\ pc[t] = "idle"
    /\ loc' = [loc EXCEPT ![t].h = head]
    /\ Goto(t, "o_tail")
    /\ UNCHANGED <<ringVars, notify, res, got>>

ObserveLoadTail(t) ==
    /\ pc[t] = "o_tail"
    /\ loc' = [loc EXCEPT ![t].t = tail]
    /\ Return(t, "observed")
    /\ UNCHANGED <<ringVars, notify, got>>

-----------------------------------------------------------------------------
WriteStep(t) == \/ WriteLoadTail(t)
                \/ WriteCopyBegin(t)
                \/ WriteCopyEnd(t)
                \/ WriteStoreHead(t)
                \/ WriteNotify(t)

ReadStep(t) == ReadLoadHead(t) \/ ReadCopy(t) \/ ReadStoreTail(t)

\* ring_buffer_create leaves both indices at 0 and the slots zeroed, which
\* no reader may look at: any content does.
Init ==
    /\ head = 0
    /\ tail = 0
    /\ data = [i \in Slots |-> Torn]
    /\ notify = [t \in Threads |-> FALSE]
    /\ pc   = [t \in Threads |-> "idle"]
    /\ loc  = [t \in Threads |-> [h |-> 0, t |-> 0, item |-> Torn]]
    /\ res  = [t \in Threads |-> "none"]
    /\ got  = Torn

Next ==
    \/ \E x \in Items : WriteCall(Writer, x)
    \/ WriteStep(Writer)
    \/ ReadCall(Reader)
    \/ ReadStep(Reader)
    \/ \E t \in Threads : ObserveCall(t) \/ ObserveLoadTail(t)

Spec == Init /\ [][Next]_vars

-----------------------------------------------------------------------------
(***************************************************************************)
(* Properties.                                                             *)
(***************************************************************************)

\* The items between tail and head, oldest first.
Contents == [k \in 1 .. Count(head, tail) |-> data[SlotAfter(tail, k - 1)]]

\* Every variable has its type.
TypeOK ==
    /\ head \in Slots
    /\ tail \in Slots
    /\ data \in [Slots -> Items \cup {Torn}]
    /\ pc   \in [Threads -> Steps]
    /\ loc  \in [Threads -> [h : Slots, t : Slots, item : Items \cup {Torn}]]
    /\ notify \in [Threads -> BOOLEAN]
    /\ res  \in [Threads -> Results]
    /\ got  \in Items \cup {Torn}

\* The lock-free protocol never lets a reader copy a slot the writer is in
\* the middle of: every slot between tail and head is completely written,
\* and the item a reader has copied out is whole.
NoTornRead ==
    /\ \A k \in 1 .. Count(head, tail) : Contents[k] \in Items
    /\ pc[Reader] = "r_store" => loc[Reader].item \in Items

\* What the writer learns from is_full / count while the reader runs: its
\* answer may be out of date only towards "fuller", so a write right after
\* an answer of not-full cannot fail.  The reader's answer may be out of
\* date only towards "emptier", so a read right after not-empty succeeds.
ObserversConservative ==
    /\ res[Writer] = "observed" /\ pc[Writer] = "idle" =>
         Count(loc[Writer].h, loc[Writer].t) >= Count(head, tail)
    /\ res[Reader] = "observed" /\ pc[Reader] = "idle" =>
         Count(loc[Reader].h, loc[Reader].t) <= Count(head, tail)

\* The buffer implements a FIFO queue of Capacity - 1 items: a write takes
\* effect when it stores head, a read when it stores tail, and what the
\* read returns is then the oldest item.  One slot is always left unused.
Fifo == INSTANCE BoundedFifo WITH q <- Contents, out <- got, Bound <- Capacity - 1

ImplementsFifo == Fifo!FifoSpec
=============================================================================

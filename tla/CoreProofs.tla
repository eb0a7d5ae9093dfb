----------------------------- MODULE CoreProofs -----------------------------
(***************************************************************************)
(* Proofs about the core library, the ring buffer with the audio service   *)
(* on top of it and the memory pool, and about the registry of the service *)
(* manager.                                                                *)
(***************************************************************************)
EXTENDS AudioRing, SequenceTheorems, TLAPS, MemoryPool, Registry, FiniteSetTheorems, WellFoundedInduction

-----------------------------------------------------------------------------
(***************************************************************************)
(* Proofs about the ring buffer, for any capacity, any set of items and    *)
(* any interleaving of one writing and one reading thread, and about the   *)
(* audio service, which is the writer and at times a second reader.        *)
(***************************************************************************)

\* The slots between tail and head, the ones a reader may look at.
InUse(s) == IF tail <= head THEN tail <= s /\ s < head
                            ELSE tail <= s \/ s < head

\* The threads' copies of their own index are exact, the writer is past the
\* test for a full buffer only while it has a slot to spare, and the reader
\* past the test for an empty one only while there is an item.
IndexInv ==
    /\ pc[Writer] \in {"w_tail", "w_begin", "w_end", "w_store"} => loc[Writer].h = head
    /\ pc[Reader] \in {"r_head", "r_copy", "r_store"} => loc[Reader].t = tail
    /\ pc[Writer] \in {"w_begin", "w_end", "w_store"} => NextSlot(head) # tail
    /\ pc[Reader] \in {"r_copy", "r_store"} => head # tail
    /\ pc[Writer] \in {"idle", "w_tail", "w_begin", "w_end", "w_store", "w_notify", "o_tail"}
    /\ pc[Reader] \in {"idle", "r_head", "r_copy", "r_store", "o_tail"}

\* What is in the slots: whole items between tail and head, and in the slot
\* at head once the writer has finished its copy.
DataInv ==
    /\ \A s \in Slots : InUse(s) => data[s] \in Items
    /\ pc[Writer] \in {"w_tail", "w_begin", "w_end"} => loc[Writer].item \in Items
    /\ pc[Writer] = "w_store" => data[head] \in Items
    /\ pc[Reader] = "r_store" => loc[Reader].item \in Items

IInv == TypeOK /\ IndexInv /\ DataInv

\* What a thread has seen when it asks how full the buffer is, from its load
\* of head to the end of the call and until its next call.
ObserveInv ==
    /\ pc[Writer] = "o_tail" => loc[Writer].h = head
    /\ res[Writer] = "observed" /\ pc[Writer] = "idle" =>
         loc[Writer].h = head /\ Count(head, loc[Writer].t) >= Count(head, tail)
    /\ pc[Reader] = "o_tail" => Count(loc[Reader].h, tail) <= Count(head, tail)
    /\ res[Reader] = "observed" /\ pc[Reader] = "idle" =>
         loc[Reader].t = tail /\ Count(loc[Reader].h, tail) <= Count(head, tail)

-----------------------------------------------------------------------------
\* What (i + 1) % capacity computes for an index.
LEMMA NextSlotValue ==
  ASSUME NEW i \in Slots
  PROVE  /\ NextSlot(i) = IF i = Capacity - 1 THEN 0 ELSE i + 1
         /\ NextSlot(i) \in Slots
<1>1. Capacity \in Nat /\ Capacity > 0 /\ i \in Nat /\ i < Capacity
  BY CapacityAssumption DEF Slots
<1>2. CASE i = Capacity - 1
  <2>1. (i + 1) % Capacity = 0
    BY <1>1, <1>2
  <2> QED BY <1>1, <1>2, <2>1 DEF NextSlot, Slots
<1>3. CASE i # Capacity - 1
  <2>1. (i + 1) % Capacity = i + 1
    BY <1>1, <1>3
  <2> QED BY <1>1, <1>3, <2>1 DEF NextSlot, Slots
<1> QED BY <1>2, <1>3

\* Two indices with the same successor are the same.
LEMMA NextSlotInjective ==
  ASSUME NEW i \in Slots, NEW j \in Slots, NextSlot(i) = NextSlot(j)
  PROVE  i = j
BY NextSlotValue, CapacityAssumption DEF Slots

\* A step of tail takes one item away, a step of head adds one.
LEMMA CountSteps ==
  ASSUME NEW h \in Slots, NEW t \in Slots
  PROVE  /\ Count(h, t) \in Nat
         /\ h # t => Count(h, NextSlot(t)) = Count(h, t) - 1
         /\ NextSlot(h) # t => Count(NextSlot(h), t) = Count(h, t) + 1
<1>1. /\ NextSlot(h) = IF h = Capacity - 1 THEN 0 ELSE h + 1
      /\ NextSlot(t) = IF t = Capacity - 1 THEN 0 ELSE t + 1
  BY NextSlotValue
<1> QED BY <1>1, CapacityAssumption DEF Slots, Count

\* The slot Contents looks at for its k-th item is between tail and head.
LEMMA ContentsInUse ==
  ASSUME head \in Slots, tail \in Slots, NEW k \in 1 .. Count(head, tail)
  PROVE  SlotAfter(tail, k - 1) \in Slots /\ InUse(SlotAfter(tail, k - 1))
BY CapacityAssumption DEF Slots, SlotAfter, Count, InUse

\* The type invariant is inductive.
LEMMA TypeInductive ==
  ASSUME TypeOK, [Next]_vars
  PROVE  TypeOK'
<1> USE CapacityAssumption, NextSlotValue DEF TypeOK, Goto, Return, Results, Steps, Threads
<1>1. ASSUME NEW x \in Items, WriteCall(Writer, x)
      PROVE  TypeOK'
  BY <1>1 DEF WriteCall, ringVars
<1>2. ASSUME WriteStep(Writer)
      PROVE  TypeOK'
  <2>1. CASE WriteLoadTail(Writer)
    BY <2>1 DEF WriteLoadTail, ringVars
  <2>2. CASE WriteCopyBegin(Writer)
    BY <2>2 DEF WriteCopyBegin
  <2>3. CASE WriteCopyEnd(Writer)
    BY <2>3 DEF WriteCopyEnd
  <2>4. CASE WriteStoreHead(Writer)
    BY <2>4 DEF WriteStoreHead
  <2>5. CASE WriteNotify(Writer)
    BY <2>5 DEF WriteNotify, ringVars
  <2> QED BY <1>2, <2>1, <2>2, <2>3, <2>4, <2>5 DEF WriteStep
<1>3. ASSUME ReadCall(Reader)
      PROVE  TypeOK'
  BY <1>3 DEF ReadCall, ringVars
<1>4. ASSUME ReadStep(Reader)
      PROVE  TypeOK'
  <2>1. CASE ReadLoadHead(Reader)
    BY <2>1 DEF ReadLoadHead, ringVars
  <2>2. CASE ReadCopy(Reader)
    BY <2>2 DEF ReadCopy, ringVars
  <2>3. CASE ReadStoreTail(Reader)
    BY <2>3 DEF ReadStoreTail
  <2> QED BY <1>4, <2>1, <2>2, <2>3 DEF ReadStep
<1>5. ASSUME NEW t \in Threads, ObserveCall(t)
      PROVE  TypeOK'
  BY <1>5 DEF ObserveCall, ringVars
<1>6. ASSUME NEW t \in Threads, ObserveLoadTail(t)
      PROVE  TypeOK'
  BY <1>6 DEF ObserveLoadTail, ringVars
<1>7. CASE UNCHANGED vars
  BY <1>7 DEF vars
<1> QED BY <1>1, <1>2, <1>3, <1>4, <1>5, <1>6, <1>7 DEF Next

\* The threads never see an index that is not theirs to see: the protocol
\* part of the invariant.
LEMMA IndexInductive ==
  ASSUME TypeOK, IndexInv, [Next]_vars
  PROVE  IndexInv'
<1> USE CapacityAssumption, ThreadAssumption DEF TypeOK, IndexInv, Goto, Return, Threads
<1>0. /\ NextSlot(head) \in Slots /\ NextSlot(tail) \in Slots
      /\ NextSlot(head) = NextSlot(tail) => head = tail
  BY NextSlotValue, NextSlotInjective
<1>1. ASSUME NEW x \in Items, WriteCall(Writer, x)
      PROVE  IndexInv'
  BY <1>1 DEF WriteCall, ringVars
<1>2. ASSUME WriteStep(Writer)
      PROVE  IndexInv'
  <2>1. CASE WriteLoadTail(Writer)
    BY <2>1 DEF WriteLoadTail, ringVars, IsFull
  <2>2. CASE WriteCopyBegin(Writer)
    BY <2>2 DEF WriteCopyBegin
  <2>3. CASE WriteCopyEnd(Writer)
    BY <2>3 DEF WriteCopyEnd
  <2>4. CASE WriteStoreHead(Writer)
    BY <2>4, <1>0 DEF WriteStoreHead
  <2>5. CASE WriteNotify(Writer)
    BY <2>5 DEF WriteNotify, ringVars
  <2> QED BY <1>2, <2>1, <2>2, <2>3, <2>4, <2>5 DEF WriteStep
<1>3. ASSUME ReadCall(Reader)
      PROVE  IndexInv'
  BY <1>3 DEF ReadCall, ringVars
<1>4. ASSUME ReadStep(Reader)
      PROVE  IndexInv'
  <2>1. CASE ReadLoadHead(Reader)
    BY <2>1 DEF ReadLoadHead, ringVars, IsEmpty
  <2>2. CASE ReadCopy(Reader)
    BY <2>2 DEF ReadCopy, ringVars
  <2>3. CASE ReadStoreTail(Reader)
    BY <2>3, <1>0 DEF ReadStoreTail
  <2> QED BY <1>4, <2>1, <2>2, <2>3 DEF ReadStep
<1>5. ASSUME NEW t \in Threads, ObserveCall(t)
      PROVE  IndexInv'
  BY <1>5 DEF ObserveCall, ringVars
<1>6. ASSUME NEW t \in Threads, ObserveLoadTail(t)
      PROVE  IndexInv'
  BY <1>6 DEF ObserveLoadTail, ringVars
<1>7. CASE UNCHANGED vars
  BY <1>7 DEF vars
<1> QED BY <1>1, <1>2, <1>3, <1>4, <1>5, <1>6, <1>7 DEF Next

\* What the slots hold: the data part of the invariant.
LEMMA DataInductive ==
  ASSUME TypeOK, IndexInv, DataInv, [Next]_vars
  PROVE  DataInv'
<1> USE CapacityAssumption, ThreadAssumption DEF TypeOK, IndexInv, DataInv, Goto, Return,
        Threads, Slots
<1>0. /\ NextSlot(head) = IF head = Capacity - 1 THEN 0 ELSE head + 1
      /\ NextSlot(tail) = IF tail = Capacity - 1 THEN 0 ELSE tail + 1
  BY NextSlotValue
<1>1. ASSUME NEW x \in Items, WriteCall(Writer, x)
      PROVE  DataInv'
  BY <1>1 DEF WriteCall, ringVars, InUse
<1>2. ASSUME WriteStep(Writer)
      PROVE  DataInv'
  <2>1. CASE WriteLoadTail(Writer)
    BY <2>1 DEF WriteLoadTail, ringVars, InUse
  <2>2. CASE WriteCopyBegin(Writer)
    BY <2>2 DEF WriteCopyBegin, InUse
  <2>3. CASE WriteCopyEnd(Writer)
    BY <2>3 DEF WriteCopyEnd, InUse
  <2>4. CASE WriteStoreHead(Writer)
    <3>1. \A s \in Slots : InUse(s)' => InUse(s) \/ s = head
      BY <2>4, <1>0 DEF WriteStoreHead, InUse
    <3> QED BY <2>4, <3>1 DEF WriteStoreHead
  <2>5. CASE WriteNotify(Writer)
    BY <2>5 DEF WriteNotify, ringVars, InUse
  <2> QED BY <1>2, <2>1, <2>2, <2>3, <2>4, <2>5 DEF WriteStep
<1>3. ASSUME ReadCall(Reader)
      PROVE  DataInv'
  BY <1>3 DEF ReadCall, ringVars, InUse
<1>4. ASSUME ReadStep(Reader)
      PROVE  DataInv'
  <2>1. CASE ReadLoadHead(Reader)
    BY <2>1 DEF ReadLoadHead, ringVars, InUse
  <2>2. CASE ReadCopy(Reader)
    BY <2>2 DEF ReadCopy, ringVars, InUse
  <2>3. CASE ReadStoreTail(Reader)
    <3>1. \A s \in Slots : InUse(s)' => InUse(s)
      BY <2>3, <1>0 DEF ReadStoreTail, InUse
    <3> QED BY <2>3, <3>1 DEF ReadStoreTail
  <2> QED BY <1>4, <2>1, <2>2, <2>3 DEF ReadStep
<1>5. ASSUME NEW t \in Threads, ObserveCall(t)
      PROVE  DataInv'
  BY <1>5 DEF ObserveCall, ringVars, InUse
<1>6. ASSUME NEW t \in Threads, ObserveLoadTail(t)
      PROVE  DataInv'
  BY <1>6 DEF ObserveLoadTail, ringVars, InUse
<1>7. CASE UNCHANGED vars
  BY <1>7 DEF vars, InUse
<1> QED BY <1>1, <1>2, <1>3, <1>4, <1>5, <1>6, <1>7 DEF Next

\* What the observers have seen: their part of the invariant.
LEMMA ObserveInductive ==
  ASSUME TypeOK, IndexInv, ObserveInv, [Next]_vars
  PROVE  ObserveInv'
<1> USE ThreadAssumption DEF TypeOK, IndexInv, ObserveInv, Goto, Return, Threads
<1>1. ASSUME NEW x \in Items, WriteCall(Writer, x)
      PROVE  ObserveInv'
  BY <1>1 DEF WriteCall, ringVars
<1>2. ASSUME WriteStep(Writer)
      PROVE  ObserveInv'
  <2>1. CASE WriteLoadTail(Writer)
    BY <2>1 DEF WriteLoadTail, ringVars
  <2>2. CASE WriteCopyBegin(Writer)
    BY <2>2 DEF WriteCopyBegin
  <2>3. CASE WriteCopyEnd(Writer)
    BY <2>3 DEF WriteCopyEnd
  <2>4. CASE WriteStoreHead(Writer)
    <3>1. /\ head' = NextSlot(head) /\ tail' = tail /\ loc' = loc /\ res' = res
          /\ pc'[Writer] = "w_notify" /\ pc'[Reader] = pc[Reader]
      BY <2>4 DEF WriteStoreHead
    <3>2. /\ Count(head, tail) \in Nat /\ Count(loc[Reader].h, tail) \in Nat
          /\ Count(head', tail) = Count(head, tail) + 1
      BY <2>4, <3>1, CountSteps DEF WriteStoreHead
    <3> QED BY <3>1, <3>2
  <2>5. CASE WriteNotify(Writer)
    BY <2>5 DEF WriteNotify, ringVars
  <2> QED BY <1>2, <2>1, <2>2, <2>3, <2>4, <2>5 DEF WriteStep
<1>3. ASSUME ReadCall(Reader)
      PROVE  ObserveInv'
  BY <1>3 DEF ReadCall, ringVars
<1>4. ASSUME ReadStep(Reader)
      PROVE  ObserveInv'
  <2>1. CASE ReadLoadHead(Reader)
    BY <2>1 DEF ReadLoadHead, ringVars
  <2>2. CASE ReadCopy(Reader)
    BY <2>2 DEF ReadCopy, ringVars
  <2>3. CASE ReadStoreTail(Reader)
    <3>1. /\ tail' = NextSlot(tail) /\ head' = head /\ loc' = loc
          /\ pc'[Reader] = "idle" /\ pc'[Writer] = pc[Writer]
          /\ res'[Reader] = "ok" /\ res'[Writer] = res[Writer]
      BY <2>3 DEF ReadStoreTail
    <3>2. /\ Count(head, tail) \in Nat /\ Count(head, loc[Writer].t) \in Nat
          /\ Count(head, tail') = Count(head, tail) - 1
      BY <2>3, <3>1, CountSteps DEF ReadStoreTail
    <3> QED BY <3>1, <3>2
  <2> QED BY <1>4, <2>1, <2>2, <2>3 DEF ReadStep
<1>5. ASSUME NEW t \in Threads, ObserveCall(t)
      PROVE  ObserveInv'
  <2>1. Count(head, tail) \in Nat
    BY CountSteps
  <2> QED BY <1>5, <2>1 DEF ObserveCall, ringVars
<1>6. ASSUME NEW t \in Threads, ObserveLoadTail(t)
      PROVE  ObserveInv'
  <2>1. Count(head, tail) \in Nat
    BY CountSteps
  <2> QED BY <1>6, <2>1 DEF ObserveLoadTail, ringVars
<1>7. CASE UNCHANGED vars
  BY <1>7 DEF vars
<1> QED BY <1>1, <1>2, <1>3, <1>4, <1>5, <1>6, <1>7 DEF Next

\* ring_buffer_create leaves an empty ring with both threads idle: the
\* invariant holds initially.
LEMMA InitInv == Init => IInv
BY CapacityAssumption, ThreadAssumption
   DEF Init, IInv, TypeOK, IndexInv, DataInv, InUse, Slots, Threads, Steps, Results

\* The invariant keeps the writer's slot outside the reader's window.
LEMMA InvNoTornRead == IInv => NoTornRead
BY ContentsInUse DEF IInv, TypeOK, DataInv, NoTornRead, Contents

-----------------------------------------------------------------------------
\* ring_buffer.c keeps head and tail inside the array whatever its capacity:
\* the type invariant holds in every reachable state.
THEOREM RingTypeCorrect == Spec => []TypeOK
<1>1. Init => TypeOK
  BY InitInv DEF IInv
<1>2. TypeOK /\ [Next]_vars => TypeOK'
  BY TypeInductive
<1> QED BY <1>1, <1>2, PTL DEF Spec

\* Without a lock, one ring_buffer_write and one ring_buffer_read at a time
\* never touch the same slot: no reader copies a half-written item.
THEOREM RingNoTornRead == Spec => []NoTornRead
<1>1. Init => IInv
  BY InitInv
<1>2. IInv /\ [Next]_vars => IInv'
  BY TypeInductive, IndexInductive, DataInductive DEF IInv
<1>3. IInv => NoTornRead
  BY InvNoTornRead
<1> QED BY <1>1, <1>2, <1>3, PTL DEF Spec

\* is_full, is_empty and count can be trusted by the thread that acts on
\* them, however far the other thread has run on since.
THEOREM RingObserversConservative == Spec => []ObserversConservative
<1>1. Init => IInv /\ ObserveInv
  <2>1. Init => ObserveInv
    BY DEF Init, ObserveInv, Threads
  <2> QED BY <2>1, InitInv
<1>2. IInv /\ ObserveInv /\ [Next]_vars => (IInv /\ ObserveInv)'
  BY TypeInductive, IndexInductive, DataInductive, ObserveInductive DEF IInv
<1>3. ObserveInv => ObserversConservative
  BY DEF ObserveInv, ObserversConservative
<1> QED BY <1>1, <1>2, <1>3, PTL DEF Spec

-----------------------------------------------------------------------------
(***************************************************************************)
(* The refinement.  Window is Contents as a function of the shared memory. *)
(***************************************************************************)
Window(h, t, d) == [k \in 1 .. Count(h, t) |-> d[SlotAfter(t, k - 1)]]

\* What the reader has copied is still the oldest item when it stores tail.
ReaderInv == pc[Reader] = "r_store" => loc[Reader].item = data[tail]

Cells == Items \cup {Torn}

\* The window is a sequence of Count(h, t) cells, none of them the one at h.
LEMMA WindowSeq ==
  ASSUME NEW h \in Slots, NEW t \in Slots, NEW d \in [Slots -> Cells]
  PROVE  /\ Window(h, t, d) \in Seq(Cells)
         /\ Len(Window(h, t, d)) = Count(h, t)
         /\ Count(h, t) \in Nat /\ Count(h, t) < Capacity
         /\ \A k \in 1 .. Count(h, t) :
              /\ SlotAfter(t, k - 1) \in Slots
              /\ SlotAfter(t, k - 1) # h
              /\ Window(h, t, d)[k] = d[SlotAfter(t, k - 1)]
<1>1. Count(h, t) \in Nat /\ Count(h, t) < Capacity
  BY CapacityAssumption DEF Slots, Count
<1>2. \A k \in 1 .. Count(h, t) : SlotAfter(t, k - 1) \in Slots /\ SlotAfter(t, k - 1) # h
  BY CapacityAssumption DEF Slots, Count, SlotAfter
<1>3. Window(h, t, d) \in [1 .. Count(h, t) -> Cells]
  BY <1>2 DEF Window
<1>4. Window(h, t, d) \in Seq(Cells)
  BY <1>1, <1>3, SeqDef
<1>5. Len(Window(h, t, d)) = Count(h, t)
  <2>1. DOMAIN Window(h, t, d) = 1 .. Count(h, t)
    BY DEF Window
  <2> QED BY <1>1, <1>4, <2>1, LenProperties
<1> QED BY <1>1, <1>2, <1>4, <1>5 DEF Window

\* Storing head behind a written cell appends it.
LEMMA WindowPut ==
  ASSUME NEW h \in Slots, NEW t \in Slots, NEW d \in [Slots -> Cells], NextSlot(h) # t
  PROVE  /\ Len(Window(h, t, d)) < Capacity - 1
         /\ Window(NextSlot(h), t, d) = Append(Window(h, t, d), d[h])
<1> DEFINE w == Window(h, t, d)
           v == Window(NextSlot(h), t, d)
           a == Append(w, d[h])
<1>1. NextSlot(h) \in Slots /\ Count(NextSlot(h), t) = Count(h, t) + 1
  BY NextSlotValue, CountSteps
<1>2. /\ w \in Seq(Cells) /\ Len(w) = Count(h, t) /\ Count(h, t) \in Nat
      /\ \A k \in 1 .. Count(h, t) : w[k] = d[SlotAfter(t, k - 1)]
  BY WindowSeq
<1>3. /\ v \in Seq(Cells) /\ Len(v) = Count(h, t) + 1 /\ Count(h, t) + 1 < Capacity
      /\ \A k \in 1 .. Count(h, t) + 1 : v[k] = d[SlotAfter(t, k - 1)]
  <2>0. \A g \in Slots :
          /\ Window(g, t, d) \in Seq(Cells) /\ Len(Window(g, t, d)) = Count(g, t)
          /\ Count(g, t) < Capacity
          /\ \A k \in 1 .. Count(g, t) : Window(g, t, d)[k] = d[SlotAfter(t, k - 1)]
    BY WindowSeq
  <2>1. /\ v \in Seq(Cells) /\ Len(v) = Count(NextSlot(h), t)
        /\ Count(NextSlot(h), t) < Capacity
        /\ \A k \in 1 .. Count(NextSlot(h), t) : v[k] = d[SlotAfter(t, k - 1)]
    BY <1>1, <2>0, Zenon
  <2> HIDE DEF v
  <2> QED BY <1>1, <2>1
<1>4. SlotAfter(t, Count(h, t)) = h
  BY CapacityAssumption DEF Slots, Count, SlotAfter
<1>5. /\ a \in Seq(Cells) /\ Len(a) = Len(w) + 1
      /\ \A k \in 1 .. Len(w) : a[k] = w[k]
      /\ a[Len(w) + 1] = d[h]
  BY <1>2, AppendProperties DEF Cells
<1>6. \A k \in 1 .. Len(v) : v[k] = a[k]
  <2> SUFFICES ASSUME NEW k \in 1 .. Count(h, t) + 1 PROVE v[k] = a[k]
    BY <1>3
  <2>1. CASE k = Count(h, t) + 1
    <3>1. k - 1 = Count(h, t)
      BY <1>2, <2>1
    <3> QED BY <1>2, <1>3, <1>4, <1>5, <2>1, <3>1
  <2>2. CASE k # Count(h, t) + 1
    <3>1. k \in 1 .. Count(h, t)
      BY <1>2, <2>2
    <3> QED BY <1>2, <1>3, <1>5, <3>1
  <2> QED BY <2>1, <2>2
<1>7. v = a
  <2> HIDE DEF v, a, w
  <2> QED BY <1>2, <1>3, <1>5, <1>6, SeqEqual
<1>8. Len(w) < Capacity - 1
  <2> HIDE DEF w
  <2> QED BY <1>2, <1>3, CapacityAssumption
<1> QED BY <1>7, <1>8

\* Storing tail past the oldest cell takes it off the front.
LEMMA WindowGet ==
  ASSUME NEW h \in Slots, NEW t \in Slots, NEW d \in [Slots -> Cells], h # t
  PROVE  /\ Window(h, t, d) # <<>>
         /\ Head(Window(h, t, d)) = d[t]
         /\ Window(h, NextSlot(t), d) = Tail(Window(h, t, d))
<1> DEFINE w == Window(h, t, d)
           v == Window(h, NextSlot(t), d)
<1>1. NextSlot(t) \in Slots /\ Count(h, NextSlot(t)) = Count(h, t) - 1
  BY NextSlotValue, CountSteps
<1>2. /\ w \in Seq(Cells) /\ Len(w) = Count(h, t) /\ Count(h, t) \in Nat
      /\ \A k \in 1 .. Count(h, t) : w[k] = d[SlotAfter(t, k - 1)]
  BY WindowSeq
<1>3. /\ v \in Seq(Cells) /\ Len(v) = Count(h, t) - 1
      /\ \A k \in 1 .. Count(h, t) - 1 : v[k] = d[SlotAfter(NextSlot(t), k - 1)]
  <2>0. \A g \in Slots :
          /\ Window(h, g, d) \in Seq(Cells) /\ Len(Window(h, g, d)) = Count(h, g)
          /\ \A k \in 1 .. Count(h, g) : Window(h, g, d)[k] = d[SlotAfter(g, k - 1)]
    BY WindowSeq
  <2>1. /\ v \in Seq(Cells) /\ Len(v) = Count(h, NextSlot(t))
        /\ \A k \in 1 .. Count(h, NextSlot(t)) : v[k] = d[SlotAfter(NextSlot(t), k - 1)]
    BY <1>1, <2>0, Zenon
  <2> HIDE DEF v
  <2> QED BY <1>1, <2>1
<1>4. Count(h, t) >= 1 /\ SlotAfter(t, 0) = t
  BY CapacityAssumption DEF Slots, Count, SlotAfter
<1>5. \A k \in 1 .. Count(h, t) - 1 : SlotAfter(NextSlot(t), k - 1) = SlotAfter(t, k)
  <2>1. NextSlot(t) = IF t = Capacity - 1 THEN 0 ELSE t + 1
    BY NextSlotValue
  <2> QED BY <2>1, CapacityAssumption DEF Slots, Count, SlotAfter
<1>6. w # <<>>
  <2> HIDE DEF w
  <2> QED BY <1>2, <1>4, EmptySeq
<1>7. Head(w) = d[t]
  <2>1. w[1] = d[SlotAfter(t, 0)]
    <3>1. 1 \in 1 .. Count(h, t) /\ 1 - 1 = 0
      BY <1>2, <1>4
    <3> QED BY <1>2, <3>1
  <2> HIDE DEF w
  <2> QED BY <1>2, <1>4, <1>6, <2>1
<1>8. /\ Tail(w) \in Seq(Cells) /\ Len(Tail(w)) = Len(w) - 1
      /\ \A k \in 1 .. Len(Tail(w)) : Tail(w)[k] = w[k + 1]
  <2> HIDE DEF w
  <2> QED BY <1>2, <1>6, HeadTailProperties
<1>9. \A k \in 1 .. Len(v) : v[k] = Tail(w)[k]
  <2> SUFFICES ASSUME NEW k \in 1 .. Count(h, t) - 1 PROVE v[k] = Tail(w)[k]
    BY <1>3
  <2>1. k + 1 \in 1 .. Count(h, t) /\ (k + 1) - 1 = k
    BY <1>2
  <2>2. w[k + 1] = d[SlotAfter(t, k)]
    BY <1>2, <2>1
  <2> HIDE DEF w, v
  <2> QED BY <1>2, <1>3, <1>5, <1>8, <2>2
<1>10. v = Tail(w)
  <2> HIDE DEF w, v
  <2> QED BY <1>2, <1>3, <1>8, <1>9, SeqEqual
<1> QED BY <1>6, <1>7, <1>10

\* The cell at head is not in the window.
LEMMA WindowSame ==
  ASSUME NEW h \in Slots, NEW t \in Slots,
         NEW d \in [Slots -> Cells], NEW e \in [Slots -> Cells],
         \A s \in Slots \ {h} : d[s] = e[s]
  PROVE  Window(h, t, d) = Window(h, t, e)
<1>1. \A k \in 1 .. Count(h, t) : SlotAfter(t, k - 1) \in Slots \ {h}
  BY WindowSeq
<1> QED BY <1>1 DEF Window

\* The writer never touches the slot the reader is copying.
LEMMA ReaderInductive ==
  ASSUME TypeOK, IndexInv, ReaderInv, [Next]_vars
  PROVE  ReaderInv'
<1> USE ThreadAssumption DEF TypeOK, IndexInv, ReaderInv, Goto, Return, Threads
<1>1. ASSUME NEW x \in Items, WriteCall(Writer, x)
      PROVE  ReaderInv'
  BY <1>1 DEF WriteCall, ringVars
<1>2. ASSUME WriteStep(Writer)
      PROVE  ReaderInv'
  BY <1>2 DEF WriteStep, WriteLoadTail, WriteCopyBegin, WriteCopyEnd, WriteStoreHead,
              WriteNotify, ringVars
<1>3. ASSUME ReadCall(Reader)
      PROVE  ReaderInv'
  BY <1>3 DEF ReadCall, ringVars
<1>4. ASSUME ReadStep(Reader)
      PROVE  ReaderInv'
  BY <1>4 DEF ReadStep, ReadLoadHead, ReadCopy, ReadStoreTail, ringVars
<1>5. ASSUME NEW t \in Threads, ObserveCall(t) \/ ObserveLoadTail(t)
      PROVE  ReaderInv'
  BY <1>5 DEF ObserveCall, ObserveLoadTail, ringVars
<1>6. CASE UNCHANGED vars
  BY <1>6 DEF vars
<1> QED BY <1>1, <1>2, <1>3, <1>4, <1>5, <1>6 DEF Next

\* A step of the buffer is a step of the queue: head stored is a Put, tail
\* stored is a Get, and every other step leaves the queue as it is.
LEMMA StepSimulates ==
  ASSUME IInv, ReaderInv, [Next]_vars
  PROVE  [Fifo!FifoNext]_(Fifo!fifoVars)
<1> USE DEF IInv
<1>0. /\ head \in Slots /\ tail \in Slots /\ data \in [Slots -> Cells]
      /\ data' \in [Slots -> Cells]
      /\ Contents = Window(head, tail, data)
      /\ Contents' = Window(head', tail', data')
  BY TypeInductive DEF TypeOK, Cells, Contents, Window
<1>1. ASSUME head' = head, tail' = tail, data' = data, got' = got
      PROVE  UNCHANGED Fifo!fifoVars
  BY <1>0, <1>1 DEF Fifo!fifoVars
<1>2. ASSUME WriteCopyBegin(Writer) \/ WriteCopyEnd(Writer)
      PROVE  UNCHANGED Fifo!fifoVars
  <2>1. head' = head /\ tail' = tail /\ got' = got
    BY <1>2 DEF WriteCopyBegin, WriteCopyEnd
  <2>2. \A s \in Slots \ {head} : data[s] = data'[s]
    BY <1>2 DEF WriteCopyBegin, WriteCopyEnd, TypeOK, IndexInv
  <2>3. Window(head, tail, data) = Window(head, tail, data')
    BY <1>0, <2>2, WindowSame
  <2> QED BY <1>0, <2>1, <2>3 DEF Fifo!fifoVars
<1>3. ASSUME WriteStoreHead(Writer)
      PROVE  \E x \in Items : Fifo!Put(x)
  <2>1. /\ head' = NextSlot(head) /\ tail' = tail /\ data' = data /\ got' = got
        /\ NextSlot(head) # tail
        /\ data[head] \in Items
    BY <1>3 DEF WriteStoreHead, IndexInv, DataInv
  <2>2. Fifo!Put(data[head])
    BY <1>0, <2>1, WindowPut DEF Fifo!Put
  <2> QED BY <2>1, <2>2
<1>4. ASSUME ReadStoreTail(Reader)
      PROVE  Fifo!Get
  <2>1. /\ tail' = NextSlot(tail) /\ head' = head /\ data' = data /\ got' = data[tail]
        /\ head # tail
    BY <1>4 DEF ReadStoreTail, IndexInv, ReaderInv
  <2> QED BY <1>0, <2>1, WindowGet DEF Fifo!Get
<1>5. ASSUME Next
      PROVE  Fifo!FifoNext \/ UNCHANGED Fifo!fifoVars
  <2>1. CASE \E x \in Items : WriteCall(Writer, x)
    BY <1>1, <2>1 DEF WriteCall, ringVars
  <2>2. CASE WriteStep(Writer)
    BY <1>1, <1>2, <1>3, <2>2 DEF WriteStep, WriteLoadTail, WriteNotify, ringVars, Fifo!FifoNext
  <2>3. CASE ReadCall(Reader)
    BY <1>1, <2>3 DEF ReadCall, ringVars
  <2>4. CASE ReadStep(Reader)
    BY <1>1, <1>4, <2>4 DEF ReadStep, ReadLoadHead, ReadCopy, ringVars, Fifo!FifoNext
  <2>5. CASE \E t \in Threads : ObserveCall(t) \/ ObserveLoadTail(t)
    BY <1>1, <2>5 DEF ObserveCall, ObserveLoadTail, ringVars
  <2> QED BY <1>5, <2>1, <2>2, <2>3, <2>4, <2>5 DEF Next
<1>6. CASE UNCHANGED vars
  BY <1>1, <1>6 DEF vars
<1> QED BY <1>5, <1>6

\* ring_buffer_write and ring_buffer_read together are a FIFO queue of
\* capacity - 1 items, for every capacity.
THEOREM RingImplementsFifo == Spec => ImplementsFifo
<1>1. Init => IInv /\ ReaderInv
  <2>1. Init => ReaderInv
    BY DEF Init, ReaderInv, Threads
  <2> QED BY <2>1, InitInv
<1>2. IInv /\ ReaderInv /\ [Next]_vars => (IInv /\ ReaderInv)'
  BY TypeInductive, IndexInductive, DataInductive, ReaderInductive DEF IInv
<1>3. Init => Fifo!FifoInit
  <2>1. ASSUME Init PROVE Contents = <<>>
    <3>1. Count(head, tail) = 0
      BY <2>1 DEF Init, Count
    <3> QED BY <3>1 DEF Contents
  <2> QED BY <2>1 DEF Fifo!FifoInit
<1>4. IInv /\ ReaderInv /\ [Next]_vars => [Fifo!FifoNext]_(Fifo!fifoVars)
  BY StepSimulates
<1> QED BY <1>1, <1>2, <1>3, <1>4, PTL DEF Spec, ImplementsFifo, Fifo!FifoSpec

-----------------------------------------------------------------------------
(***************************************************************************)
(* The audio service.  As long as no consumer is attached its thread is    *)
(* alone with the buffer; as long as it has never found the buffer full it *)
(* is the writer the buffer was built for.                                 *)
(***************************************************************************)
WriteSteps == {"w_tail", "w_begin", "w_end", "w_store"}

\* The frame of this on_hal_data is in the buffer.
Published ==
    \/ stage = "idle"
    \/ pc[Writer] = "w_notify"
    \/ stage # "drop" /\ pc[Writer] = "idle" /\ res[Writer] = "ok"

\* The frame is still to be written, and dropping the oldest one of a full
\* buffer does not change what there will be then.
WindowInv == window = IF Published THEN Contents ELSE Slide(Contents, frame)

\* Where on_hal_data is in its calls.
StageInv ==
    /\ stage \in {"idle", "write", "drop", "rewrite"}
    /\ stage = "idle"    => pc[Writer] = "idle"
    /\ stage = "write"   => /\ pc[Writer] \in WriteSteps \cup {"w_notify", "idle"}
                            /\ pc[Writer] = "idle" => \/ res[Writer] = "ok"
                                                      \/ res[Writer] = "full" /\ NextSlot(head) = tail
    /\ stage = "drop"    => /\ pc[Writer] \in {"r_head", "r_copy", "r_store", "idle"}
                            /\ IF pc[Writer] = "idle" THEN Capacity = 1 \/ NextSlot(head) # tail
                                                      ELSE NextSlot(head) = tail
    /\ stage = "rewrite" => /\ pc[Writer] \in WriteSteps \cup {"w_notify", "idle"}
                            /\ pc[Writer] \in WriteSteps => Capacity = 1 \/ NextSlot(head) # tail
                            /\ pc[Writer] = "idle" => Capacity = 1 \/ res[Writer] = "ok"

\* What the service's thread knows while nobody else moves an index.
AloneInv ==
    /\ pc[Writer] \in WriteSteps => loc[Writer].h = head
    /\ pc[Writer] \in {"w_tail", "w_begin", "w_end"} => loc[Writer].item = frame
    /\ pc[Writer] \in {"w_begin", "w_end", "w_store"} => NextSlot(head) # tail
    /\ pc[Writer] = "w_store" => data[head] = frame
    /\ pc[Writer] \in {"r_head", "r_copy", "r_store"} => loc[Writer].t = tail
    /\ pc[Writer] \in {"r_copy", "r_store"} => head # tail

SoloInv == TypeOK /\ frame \in Cells /\ WindowInv /\ StageInv /\ AloneInv

AudioInv ==
    /\ ~attached => SoloInv
    /\ ~dropped  => IInv /\ stage \in {"idle", "write"}

\* A full buffer has capacity - 1 items.
LEMMA FullCount ==
  ASSUME NEW h \in Slots, NEW t \in Slots, NextSlot(h) = t
  PROVE  Count(h, t) = Capacity - 1 /\ (h = t => Capacity = 1)
BY NextSlotValue, CapacityAssumption DEF Slots, Count

\* What Slide does to a window with room, and that dropping the oldest item
\* of a full one first makes no difference.
LEMMA SlideRoom ==
  ASSUME NEW h \in Slots, NEW t \in Slots, NEW d \in [Slots -> Cells], NEW x, NextSlot(h) # t
  PROVE  Slide(Window(h, t, d), x) = Append(Window(h, t, d), x)
<1>1. Len(Window(h, t, d)) < Capacity - 1 /\ Len(Window(h, t, d)) \in Nat
  BY WindowPut, WindowSeq
<1>2. Capacity # 1 /\ Len(Window(h, t, d)) # Capacity - 1
  BY <1>1, CapacityAssumption
<1> QED BY <1>2 DEF Slide

LEMMA SlideFull ==
  ASSUME NEW h \in Slots, NEW t \in Slots, NEW d \in [Slots -> Cells], NEW x, NextSlot(h) = t, h # t
  PROVE  /\ NextSlot(h) # NextSlot(t)
         /\ Slide(Window(h, NextSlot(t), d), x) = Slide(Window(h, t, d), x)
<1>1. Len(Window(h, t, d)) = Capacity - 1 /\ Capacity # 1
  <2>1. Count(h, t) = Capacity - 1
    BY FullCount
  <2>2. Capacity # 1
    BY CapacityAssumption DEF Slots
  <2> QED BY <2>1, <2>2, WindowSeq
<1>2. NextSlot(h) # NextSlot(t) /\ NextSlot(t) \in Slots
  BY NextSlotInjective, NextSlotValue
<1>3. Slide(Window(h, NextSlot(t), d), x) = Append(Window(h, NextSlot(t), d), x)
  BY <1>2, SlideRoom
<1>4. Slide(Window(h, t, d), x) = Append(Tail(Window(h, t, d)), x)
  BY <1>1 DEF Slide
<1> QED BY <1>2, <1>3, <1>4, WindowGet

\* With room for one slot only, the buffer never holds anything.
LEMMA NoRoom ==
  ASSUME Capacity = 1, TypeOK, NEW x
  PROVE  Contents = <<>> /\ Slide(Contents, x) = <<>>
<1>1. head = 0 /\ tail = 0
  BY DEF TypeOK, Slots
<1>2. Count(head, tail) = 0
  BY <1>1 DEF Count
<1>3. Contents = <<>>
  BY <1>2 DEF Contents
<1>4. Slide(Contents, x) = <<>>
  BY DEF Slide
<1> QED BY <1>3, <1>4

\* The steps of the service's thread keep the types.
LEMMA ServiceTypes ==
  ASSUME TypeOK, frame \in Cells,
         \/ WriteStep(Writer) \/ ReadStep(Writer) \/ ReadCall(Writer)
         \/ WriteCall(Writer, frame) \/ \E x \in Items : WriteCall(Writer, x)
  PROVE  TypeOK'
<1> USE CapacityAssumption, NextSlotValue DEF TypeOK, Goto, Return, Results, Steps, Threads
<1>1. CASE WriteStep(Writer)
  BY <1>1, TypeInductive DEF Next
<1>2. CASE ReadCall(Writer)
  BY <1>2 DEF ReadCall, ringVars
<1>3. CASE ReadLoadHead(Writer)
  BY <1>3 DEF ReadLoadHead, ringVars
<1>4. CASE ReadCopy(Writer)
  BY <1>4 DEF ReadCopy, ringVars
<1>5. CASE ReadStoreTail(Writer)
  BY <1>5 DEF ReadStoreTail
<1>6. CASE WriteCall(Writer, frame)
  <2>1. PICK x \in Items \cup {Torn} : WriteCall(Writer, x)
    BY <1>6 DEF Cells
  <2> DEFINE r == [loc[Writer] EXCEPT !.h = head, !.item = x]
  <2>2. r \in [h : Slots, t : Slots, item : Items \cup {Torn}]
    OBVIOUS
  <2>3. loc' = [loc EXCEPT ![Writer] = r]
    BY <2>1 DEF WriteCall
  <2> HIDE DEF r
  <2>4. loc' \in [Threads -> [h : Slots, t : Slots, item : Items \cup {Torn}]]
    BY <2>2, <2>3
  <2> QED BY <2>1, <2>4 DEF WriteCall, ringVars
<1>7. CASE \E x \in Items : WriteCall(Writer, x)
  BY <1>7, TypeInductive DEF Next
<1> QED BY <1>1, <1>2, <1>3, <1>4, <1>5, <1>6, <1>7 DEF ReadStep

\* The handler's own steps, with the service alone.
LEMMA HandlerKeepsSolo ==
  ASSUME SoloInv, (\E x \in Items : OnHalData(x)) \/ DropOldest \/ WriteAgain \/ HandlerDone
  PROVE  SoloInv'
<1> USE ThreadAssumption DEF Threads
<1>0. /\ TypeOK /\ frame \in Cells /\ WindowInv /\ StageInv /\ AloneInv
      /\ head \in Slots /\ tail \in Slots
  BY DEF SoloInv, TypeOK
<1>1. TypeOK'
  BY <1>0, ServiceTypes DEF OnHalData, DropOldest, WriteAgain, HandlerDone, vars, TypeOK
<1>2. head' = head /\ tail' = tail /\ data' = data /\ res' = res /\ Contents' = Contents
  BY DEF OnHalData, DropOldest, WriteAgain, HandlerDone, WriteCall, ReadCall, ringVars, vars, Contents
<1>3. ASSUME NEW x \in Items, OnHalData(x) PROVE SoloInv'
  <2>1. /\ stage = "idle" /\ stage' = "write" /\ frame' = x /\ window' = Slide(window, x)
        /\ pc'[Writer] = "w_tail" /\ loc'[Writer].h = head /\ loc'[Writer].item = x
    BY <1>0, <1>3 DEF OnHalData, WriteCall, Goto, TypeOK
  <2>2. WindowInv'
    BY <1>0, <1>2, <2>1 DEF WindowInv, Published
  <2>3. StageInv' /\ AloneInv'
    BY <1>2, <2>1 DEF StageInv, AloneInv, WriteSteps
  <2> QED BY <1>1, <2>1, <2>2, <2>3 DEF SoloInv, Cells
<1>4. ASSUME DropOldest PROVE SoloInv'
  <2>1. /\ stage = "write" /\ res[Writer] = "full" /\ stage' = "drop" /\ frame' = frame /\ window' = window
        /\ pc[Writer] = "idle" /\ pc'[Writer] = "r_head" /\ loc'[Writer].t = tail
    BY <1>0, <1>4 DEF DropOldest, ReadCall, Goto, TypeOK
  <2>2. NextSlot(head) = tail
    BY <1>0, <2>1 DEF StageInv
  <2>3. WindowInv'
    BY <1>0, <1>2, <2>1 DEF WindowInv, Published
  <2>4. StageInv' /\ AloneInv'
    BY <1>2, <2>1, <2>2 DEF StageInv, AloneInv, WriteSteps, NextSlot
  <2> QED BY <1>0, <1>1, <2>1, <2>3, <2>4 DEF SoloInv, Cells
<1>5. ASSUME WriteAgain PROVE SoloInv'
  <2>1. /\ stage = "drop" /\ stage' = "rewrite" /\ frame' = frame /\ window' = window
        /\ pc[Writer] = "idle" /\ pc'[Writer] = "w_tail" /\ loc'[Writer].h = head /\ loc'[Writer].item = frame
    BY <1>0, <1>5 DEF WriteAgain, WriteCall, Goto, TypeOK
  <2>2. Capacity = 1 \/ NextSlot(head) # tail
    BY <1>0, <2>1 DEF StageInv
  <2>3. WindowInv'
    BY <1>0, <1>2, <2>1 DEF WindowInv, Published
  <2>4. StageInv' /\ AloneInv'
    BY <1>2, <2>1, <2>2 DEF StageInv, AloneInv, WriteSteps, NextSlot
  <2> QED BY <1>0, <1>1, <2>1, <2>3, <2>4 DEF SoloInv, Cells
<1>6. ASSUME HandlerDone PROVE SoloInv'
  <2>1. /\ stage' = "idle" /\ frame' = frame /\ window' = window /\ pc' = pc /\ loc' = loc
        /\ pc[Writer] = "idle" /\ ((stage = "write" /\ res[Writer] = "ok") \/ stage = "rewrite")
    BY <1>6 DEF HandlerDone, vars
  <2>2. window = Contents
    <3>1. CASE res[Writer] = "ok"
      BY <1>0, <2>1, <3>1 DEF WindowInv, Published
    <3>2. CASE res[Writer] # "ok"
      <4>1. Capacity = 1
        BY <1>0, <2>1, <3>2 DEF StageInv
      <4> QED BY <1>0, <4>1, NoRoom DEF WindowInv
    <3> QED BY <3>1, <3>2
  <2>3. WindowInv'
    BY <1>2, <2>1, <2>2 DEF WindowInv, Published
  <2>4. StageInv' /\ AloneInv'
    BY <1>2, <2>1 DEF StageInv, AloneInv, WriteSteps
  <2> QED BY <1>0, <1>1, <2>1, <2>3, <2>4 DEF SoloInv, Cells
<1> QED BY <1>3, <1>4, <1>5, <1>6

\* The steps inside ring_buffer_write.
LEMMA WriteKeepsSolo ==
  ASSUME SoloInv, WriteStep(Writer), UNCHANGED <<stage, frame, window>>
  PROVE  SoloInv'
<1> USE ThreadAssumption DEF Threads
<1>0. /\ TypeOK /\ frame \in Cells /\ WindowInv /\ StageInv /\ AloneInv
      /\ head \in Slots /\ tail \in Slots /\ data \in [Slots -> Cells] /\ Contents = Window(head, tail, data)
  BY DEF SoloInv, TypeOK, Contents, Window, Cells
<1>1. TypeOK' /\ data' \in [Slots -> Cells] /\ Contents' = Window(head', tail', data')
  BY <1>0, ServiceTypes DEF TypeOK, Contents, Window, Cells
<1>2. ASSUME WriteLoadTail(Writer) PROVE SoloInv'
  <2>1. /\ UNCHANGED <<head, tail, data>> /\ Contents' = Contents /\ pc[Writer] = "w_tail"
        /\ loc'[Writer].h = loc[Writer].h /\ loc'[Writer].item = loc[Writer].item
        /\ IF NextSlot(head) = tail THEN pc'[Writer] = "idle" /\ res'[Writer] = "full" ELSE pc'[Writer] = "w_begin"
    BY <1>0, <1>1, <1>2 DEF WriteLoadTail, ringVars, IsFull, Return, Goto, AloneInv, TypeOK, WriteSteps
  <2>2. stage \in {"write", "rewrite"}
    BY <1>0, <2>1 DEF StageInv
  <2>3. WindowInv'
    BY <1>0, <2>1, <2>2 DEF WindowInv, Published
  <2>4. StageInv' /\ AloneInv'
    BY <1>0, <2>1, <2>2 DEF StageInv, AloneInv, WriteSteps, NextSlot
  <2> QED BY <1>0, <1>1, <2>3, <2>4 DEF SoloInv, Cells
<1>3. ASSUME WriteCopyBegin(Writer) \/ WriteCopyEnd(Writer) PROVE SoloInv'
  <2>1. /\ UNCHANGED <<head, tail, loc, res>> /\ loc[Writer].h = head
        /\ (WriteCopyBegin(Writer) => pc[Writer] = "w_begin" /\ pc'[Writer] = "w_end")
        /\ (WriteCopyEnd(Writer) => pc[Writer] = "w_end" /\ pc'[Writer] = "w_store" /\ data'[head] = frame)
        /\ \A s \in Slots \ {head} : data[s] = data'[s]
    BY <1>0, <1>3 DEF WriteCopyBegin, WriteCopyEnd, Goto, AloneInv, TypeOK, WriteSteps
  <2>2. stage \in {"write", "rewrite"} /\ NextSlot(head) # tail
    BY <1>0, <1>3, <2>1 DEF StageInv, AloneInv
  <2>3. Contents' = Contents
    BY <1>0, <1>1, <2>1, WindowSame
  <2>4. WindowInv'
    BY <1>0, <1>3, <2>1, <2>2, <2>3 DEF WindowInv, Published
  <2>5. StageInv' /\ AloneInv'
    BY <1>0, <1>3, <2>1, <2>2 DEF StageInv, AloneInv, WriteSteps, NextSlot
  <2> QED BY <1>0, <1>1, <2>4, <2>5 DEF SoloInv, Cells
<1>4. ASSUME WriteStoreHead(Writer) PROVE SoloInv'
  <2>1. /\ head' = NextSlot(head) /\ UNCHANGED <<tail, data, loc, res>> /\ pc[Writer] = "w_store" /\ pc'[Writer] = "w_notify"
        /\ data[head] = frame /\ NextSlot(head) # tail
    BY <1>0, <1>4 DEF WriteStoreHead, Goto, AloneInv, TypeOK, WriteSteps
  <2>2. stage \in {"write", "rewrite"}
    BY <1>0, <2>1 DEF StageInv
  <2>3. Contents' = Append(Contents, frame)
    BY <1>0, <1>1, <2>1, WindowPut
  <2>4. window = Append(Contents, frame)
    BY <1>0, <2>1, <2>2, SlideRoom DEF WindowInv, Published
  <2>5. WindowInv'
    BY <2>1, <2>3, <2>4 DEF WindowInv, Published
  <2>6. StageInv' /\ AloneInv'
    BY <1>0, <2>1, <2>2 DEF StageInv, AloneInv, WriteSteps
  <2> QED BY <1>0, <1>1, <2>5, <2>6 DEF SoloInv, Cells
<1>5. ASSUME WriteNotify(Writer) PROVE SoloInv'
  <2>1. /\ UNCHANGED <<head, tail, data, loc>> /\ pc[Writer] = "w_notify" /\ pc'[Writer] = "idle" /\ res'[Writer] = "ok"
        /\ Contents' = Contents
    BY <1>0, <1>1, <1>5 DEF WriteNotify, Return, Goto, ringVars, TypeOK
  <2>2. stage \in {"write", "rewrite"}
    BY <1>0, <2>1 DEF StageInv, WriteSteps
  <2>3. WindowInv'
    BY <1>0, <2>1, <2>2 DEF WindowInv, Published
  <2>4. StageInv' /\ AloneInv'
    BY <1>0, <2>1, <2>2 DEF StageInv, AloneInv, WriteSteps
  <2> QED BY <1>0, <1>1, <2>3, <2>4 DEF SoloInv, Cells
<1> QED BY <1>2, <1>3, <1>4, <1>5 DEF WriteStep

\* The steps inside the service's own ring_buffer_read, which drops a frame.
LEMMA ReadKeepsSolo ==
  ASSUME SoloInv, ReadStep(Writer), UNCHANGED <<stage, frame, window>>
  PROVE  SoloInv'
<1> USE ThreadAssumption DEF Threads
<1>0. /\ TypeOK /\ frame \in Cells /\ WindowInv /\ StageInv /\ AloneInv
      /\ head \in Slots /\ tail \in Slots /\ data \in [Slots -> Cells] /\ Contents = Window(head, tail, data)
  BY DEF SoloInv, TypeOK, Contents, Window, Cells
<1>1. TypeOK' /\ Contents' = Window(head', tail', data')
  BY <1>0, ServiceTypes DEF Contents, Window
<1>2. /\ pc[Writer] \in {"r_head", "r_copy", "r_store"} /\ loc[Writer].t = tail
      /\ (pc[Writer] = "r_head" \/ head # tail)
  BY <1>0 DEF ReadStep, ReadLoadHead, ReadCopy, ReadStoreTail, AloneInv
<1>3. stage = "drop" /\ NextSlot(head) = tail
  BY <1>0, <1>2 DEF StageInv, WriteSteps
<1>4. ASSUME ReadLoadHead(Writer) \/ ReadCopy(Writer) PROVE SoloInv'
  <2>1. /\ UNCHANGED <<head, tail, data>> /\ Contents' = Contents /\ loc'[Writer].t = tail
        /\ \/ head = tail /\ pc'[Writer] = "idle"
           \/ head # tail /\ pc'[Writer] \in {"r_copy", "r_store"}
    BY <1>0, <1>1, <1>2, <1>4 DEF ReadLoadHead, ReadCopy, ringVars, IsEmpty, Return, Goto, TypeOK
  <2>2. head = tail => Capacity = 1
    BY <1>0, <1>3, FullCount
  <2>3. WindowInv'
    BY <1>0, <1>2, <1>3, <2>1 DEF WindowInv, Published
  <2>4. StageInv' /\ AloneInv'
    BY <1>3, <2>1, <2>2 DEF StageInv, AloneInv, WriteSteps, NextSlot
  <2> QED BY <1>0, <1>1, <2>3, <2>4 DEF SoloInv, Cells
<1>5. ASSUME ReadStoreTail(Writer) PROVE SoloInv'
  <2>1. /\ UNCHANGED <<head, data>> /\ tail' = NextSlot(tail) /\ pc'[Writer] = "idle" /\ head # tail
    BY <1>0, <1>2, <1>5 DEF ReadStoreTail, Return, Goto, TypeOK
  <2>2. NextSlot(head) # NextSlot(tail) /\ Slide(Contents', frame) = Slide(Contents, frame)
    BY <1>0, <1>1, <1>3, <2>1, SlideFull
  <2>3. WindowInv'
    BY <1>0, <1>2, <1>3, <2>1, <2>2 DEF WindowInv, Published
  <2>4. StageInv' /\ AloneInv'
    BY <1>3, <2>1, <2>2 DEF StageInv, AloneInv, WriteSteps, NextSlot
  <2> QED BY <1>0, <1>1, <2>3, <2>4 DEF SoloInv, Cells
<1> QED BY <1>4, <1>5 DEF ReadStep

LEMMA AudioInductive ==
  ASSUME AudioInv, [AudioNext]_audioVars
  PROVE  AudioInv'
<1>1. ASSUME ~attached' PROVE SoloInv'
  <2>1. SoloInv
    BY <1>1 DEF AudioInv, AudioNext, audioVars, OnHalData, DropOldest, WriteAgain, HandlerDone, ServiceStep,
                Attach, ConsumerStep
  <2>2. CASE (\E x \in Items : OnHalData(x)) \/ DropOldest \/ WriteAgain \/ HandlerDone
    BY <2>1, <2>2, HandlerKeepsSolo
  <2>3. CASE ServiceStep
    BY <2>1, <2>3, WriteKeepsSolo, ReadKeepsSolo DEF ServiceStep
  <2>4. CASE UNCHANGED audioVars
    BY <2>1, <2>4 DEF audioVars, vars, SoloInv, TypeOK, WindowInv, StageInv, AloneInv, Published, Contents
  <2>5. CASE Attach \/ ConsumerStep
    BY <1>1, <2>5 DEF Attach, ConsumerStep
  <2> QED BY <2>2, <2>3, <2>4, <2>5 DEF AudioNext
<1>2. ASSUME ~dropped' PROVE (IInv /\ stage \in {"idle", "write"})'
  <2>1. IInv /\ stage \in {"idle", "write"}
    BY <1>2 DEF AudioInv, AudioNext, audioVars, OnHalData, DropOldest, WriteAgain, HandlerDone, ServiceStep,
                Attach, ConsumerStep
  <2>2. [Next]_vars /\ stage' \in {"idle", "write"}
    <3>1. CASE \E x \in Items : OnHalData(x)
      BY <3>1 DEF OnHalData, Next
    <3>2. CASE DropOldest
      BY <1>2, <3>2 DEF DropOldest
    <3>3. CASE WriteAgain \/ HandlerDone \/ Attach \/ UNCHANGED audioVars
      BY <2>1, <3>3 DEF WriteAgain, HandlerDone, Attach, audioVars
    <3>4. CASE ServiceStep
      BY <2>1, <3>4 DEF ServiceStep, Next, ReadStep, ReadLoadHead, ReadCopy, ReadStoreTail, IInv, IndexInv
    <3>5. CASE ConsumerStep
      BY <2>1, <3>5 DEF ConsumerStep, Next
    <3> QED BY <3>1, <3>2, <3>3, <3>4, <3>5 DEF AudioNext
  <2> QED BY <2>1, <2>2, TypeInductive, IndexInductive, DataInductive DEF IInv
<1> QED BY <1>1, <1>2 DEF AudioInv

\* What the audio service's drop-oldest loop guarantees, for every capacity:
\* until a consumer attaches the buffer holds exactly the newest frames, and
\* an attached consumer never gets half a frame before the first drop.
THEOREM AudioRingSafe == AudioSpec => []AudioSafe
<1>1. AudioInit => AudioInv
  <2> SUFFICES ASSUME AudioInit PROVE AudioInv
    OBVIOUS
  <2>1. IInv
    BY InitInv DEF AudioInit
  <2>2. Contents = <<>>
    <3>1. Count(head, tail) = 0
      BY DEF AudioInit, Init, Count
    <3> QED BY <3>1 DEF Contents
  <2>3. SoloInv
    BY <2>1, <2>2 DEF AudioInit, Init, SoloInv, IInv, WindowInv, Published, StageInv, AloneInv, WriteSteps,
                      Cells, Threads
  <2> QED BY <2>1, <2>3 DEF AudioInv, AudioInit
<1>2. AudioInv => AudioSafe
  BY InvNoTornRead DEF AudioInv, AudioSafe, KeepsNewestFrames, WholeUntilFirstDrop, SoloInv, WindowInv, Published
<1> QED BY <1>1, <1>2, AudioInductive, PTL DEF AudioSpec

-----------------------------------------------------------------------------
(***************************************************************************)
(* Proofs about the memory pool, for any number of threads and blocks and  *)
(* any width of a bitmap byte: no block has two owners, the counters agree *)
(* with the bitmap, and the scan of the bitmap is first fit.               *)
(***************************************************************************)

\* Some facts about least elements and bytes.
LEMMA MinNat ==
  ASSUME NEW S \in SUBSET Nat, S # {}
  PROVE  Min(S) \in S /\ \A y \in S : Min(S) =< y
<1>1. IsWellFoundedOn(OpToRel(<, Nat), Nat)
  BY NatLessThanWellFounded
<1>2. PICK k \in S : \A j \in S : ~ (<<j, k>> \in OpToRel(<, Nat))
  BY <1>1, WFMin
<1>3. \A i, j \in Nat : i < j => <<i, j>> \in OpToRel(<, Nat)
  BY Zenon DEF OpToRel
<1>4. \A j \in S : ~ (j < k)
  BY <1>2, <1>3, Zenon
<1>5. \A j \in S : k =< j
  BY <1>4
<1> QED BY <1>5 DEF Min

LEMMA MinIs ==
  ASSUME NEW S \in SUBSET Nat, NEW m \in S, \A y \in S : m =< y
  PROVE  Min(S) = m
<1>1. Min(S) \in S /\ \A y \in S : Min(S) =< y
  BY MinNat
<1>2. m =< Min(S) /\ Min(S) =< m /\ m \in Nat /\ Min(S) \in Nat
  BY <1>1
<1> QED BY <1>2

\* Bit b lies in byte b \div ByteBits.
LEMMA ByteOf ==
  ASSUME NEW b \in Nat
  PROVE  LET k == b \div ByteBits
         IN  k \in Nat /\ k * ByteBits =< b /\ b < k * ByteBits + ByteBits
BY ByteBitsAssumption

\* Bytes follow one another.
LEMMA BytesOrdered ==
  ASSUME NEW j \in Nat, NEW k \in Nat, j < k
  PROVE  j * ByteBits + ByteBits =< k * ByteBits
<1>1. k - j - 1 \in Nat /\ ByteBits \in Nat
  BY ByteBitsAssumption
<1>2. (k - j - 1) * ByteBits \in Nat
  BY <1>1
<1>3. k * ByteBits = (k - j - 1) * ByteBits + j * ByteBits + ByteBits
  BY <1>1
<1> QED BY <1>1, <1>2, <1>3

(***************************************************************************)
(* The scan.                                                               *)
(***************************************************************************)
\* What the hint promises.
BelowHintUsed == bitmap \subseteq Blocks /\ hint \in Blocks /\ \A b \in Blocks : b < hint => b \in bitmap

LEMMA ClearBitsNat ==
  ASSUME NEW k \in Nat
  PROVE  ClearBits(k) \subseteq Nat
<1>1. k * ByteBits \in Nat
  BY ByteBitsAssumption
<1> QED BY <1>1, ByteBitsAssumption DEF ClearBits

\* The lowest clear bit of a candidate byte is a free block of that byte.
LEMMA CandidateBlock ==
  ASSUME NEW k \in Nat, Candidate(k)
  PROVE  /\ Min(ClearBits(k)) \in Blocks \ bitmap
         /\ k * ByteBits =< Min(ClearBits(k)) /\ Min(ClearBits(k)) < k * ByteBits + ByteBits
<1> DEFINE m == Min(ClearBits(k))
<1>1. m \in ClearBits(k) /\ m \in Nat /\ m < BlockCount
  BY ClearBitsNat, MinNat DEF Candidate
<1>2. m \notin bitmap /\ m \in k * ByteBits .. k * ByteBits + ByteBits - 1
  BY <1>1 DEF ClearBits
<1>3. m \in Blocks
  BY <1>1, BlockCountAssumption DEF Blocks
<1>4. k * ByteBits \in Nat /\ ByteBits \in Nat
  BY ByteBitsAssumption
<1> HIDE DEF m
<1>5. k * ByteBits =< m /\ m < k * ByteBits + ByteBits
  BY <1>1, <1>2, <1>4
<1> QED BY <1>2, <1>3, <1>5 DEF m

LEMMA StartIsByte ==
  ASSUME hint \in Blocks
  PROVE  /\ hint \in Nat /\ hint \div ByteBits \in Nat /\ (hint \div ByteBits) * ByteBits =< hint
         /\ BitmapBytes \in Nat /\ BlockCount =< BitmapBytes * ByteBits
<1>1. hint \in Nat
  BY BlockCountAssumption DEF Blocks
<1> DEFINE top == BlockCount + ByteBits - 1
           n   == top \div ByteBits
<1>2. top \in Nat
  BY BlockCountAssumption, ByteBitsAssumption
<1> HIDE DEF top
<1>3. n \in Nat /\ top < n * ByteBits + ByteBits
  BY <1>2, ByteOf
<1>4. n * ByteBits \in Nat
  BY <1>3, ByteBitsAssumption
<1> HIDE DEF n
<1>5. BlockCount =< n * ByteBits
  BY <1>3, <1>4, BlockCountAssumption, ByteBitsAssumption DEF top
<1> QED BY <1>1, <1>3, <1>5, ByteOf DEF n, top, BitmapBytes

\* Both passes answer NULL when every block is in use.
LEMMA FindFreeFull ==
  ASSUME BelowHintUsed, bitmap = Blocks
  PROVE  FindFree = NoBlock
<1>1. \A k \in Nat : ~Candidate(k)
  BY CandidateBlock
<1>2. ASSUME NEW lo \in Nat, NEW hi \in Nat
      PROVE  ScanPass(lo, hi) = NoBlock
  <2>1. \A byte \in lo .. hi - 1 : byte \in Nat
    OBVIOUS
  <2>2. {byte \in lo .. hi - 1 : Candidate(byte)} = {}
    BY <1>1, <2>1
  <2> QED BY <2>2 DEF ScanPass
<1> QED BY <1>2, StartIsByte DEF FindFree, BelowHintUsed

\* The first pass finds the lowest free block when there is one.
LEMMA FindFreeFirst ==
  ASSUME BelowHintUsed, bitmap # Blocks
  PROVE  FindFree = Min(Blocks \ bitmap) /\ FindFree \in Blocks \ bitmap
<1> DEFINE F     == Blocks \ bitmap
           f     == Min(F)
           k     == f \div ByteBits
           start == hint \div ByteBits
<1>1. F # {} /\ F \subseteq Nat
  <2>1. Blocks \subseteq Nat
    BY BlockCountAssumption DEF Blocks
  <2> QED BY <2>1 DEF BelowHintUsed
<1>2. f \in F /\ f \in Nat /\ f < BlockCount /\ \A y \in F : f =< y
  <2>1. f \in F /\ \A y \in F : f =< y
    BY <1>1, MinNat
  <2>2. f \in Blocks
    BY <2>1
  <2>3. \A b \in Blocks : b \in Nat /\ b < BlockCount
    BY BlockCountAssumption DEF Blocks
  <2> HIDE DEF F
  <2> QED BY <2>1, <2>2, <2>3
<1> HIDE DEF f
<1>3. k \in Nat /\ k * ByteBits =< f /\ f < k * ByteBits + ByteBits
  BY <1>2, ByteOf
<1>4. hint =< f
  BY <1>2, StartIsByte DEF BelowHintUsed
<1>5. start \in Nat /\ start * ByteBits =< hint /\ BitmapBytes \in Nat /\ BlockCount =< BitmapBytes * ByteBits /\ hint \in Nat
  BY StartIsByte DEF BelowHintUsed
<1> HIDE DEF k, start
<1>6. k * ByteBits \in Nat /\ start * ByteBits \in Nat /\ BitmapBytes * ByteBits \in Nat /\ BlockCount \in Nat /\ ByteBits \in Nat
  BY <1>3, <1>5, ByteBitsAssumption, BlockCountAssumption
<1>7. start =< k
  <2>1. ASSUME k < start PROVE FALSE
    <3>1. k * ByteBits + ByteBits =< start * ByteBits
      BY <1>3, <1>5, <2>1, BytesOrdered
    <3> QED BY <1>2, <1>3, <1>4, <1>5, <1>6, <3>1
  <2> QED BY <1>3, <1>5, <2>1
<1>8. k < BitmapBytes
  <2>1. ASSUME BitmapBytes < k PROVE FALSE
    <3>1. BitmapBytes * ByteBits + ByteBits =< k * ByteBits
      BY <1>3, <1>5, <2>1, BytesOrdered
    <3> QED BY <1>2, <1>3, <1>5, <1>6, <3>1
  <2>2. ASSUME BitmapBytes = k PROVE FALSE
    BY <1>2, <1>3, <1>5, <1>6, <2>2
  <2> QED BY <1>3, <1>5, <2>1, <2>2
<1>9. ClearBits(k) \subseteq Nat /\ f \in ClearBits(k)
  BY <1>2, <1>3, <1>6, ClearBitsNat DEF ClearBits
<1>10. Candidate(k)
  <2>1. Min(ClearBits(k)) \in Nat /\ Min(ClearBits(k)) =< f
    BY <1>9, MinNat
  <2> QED BY <1>2, <1>6, <1>9, <2>1 DEF Candidate
<1>11. Min(ClearBits(k)) = f
  <2>1. f =< Min(ClearBits(k))
    BY <1>2, <1>3, <1>10, CandidateBlock
  <2>2. Min(ClearBits(k)) \in Nat /\ Min(ClearBits(k)) =< f
    BY <1>9, MinNat
  <2> QED BY <1>2, <2>1, <2>2
<1> DEFINE bytes == {byte \in start .. BitmapBytes - 1 : Candidate(byte)}
<1>12. bytes \subseteq Nat /\ k \in bytes
  BY <1>3, <1>5, <1>7, <1>8, <1>10
<1>13. ASSUME NEW j \in bytes PROVE k =< j
  <2>1. j \in Nat /\ Candidate(j)
    BY <1>12
  <2>2. ASSUME j < k PROVE FALSE
    <3> DEFINE m == Min(ClearBits(j))
    <3>1. m \in F /\ m < j * ByteBits + ByteBits
      BY <2>1, CandidateBlock
    <3>2. j * ByteBits + ByteBits =< k * ByteBits
      BY <1>3, <2>1, <2>2, BytesOrdered
    <3>3. m \in Nat /\ f =< m /\ j * ByteBits \in Nat
      BY <1>1, <1>2, <2>1, <3>1, ByteBitsAssumption
    <3> HIDE DEF m
    <3> QED BY <1>2, <1>3, <1>6, <3>1, <3>2, <3>3
  <2> QED BY <1>3, <2>1, <2>2
<1> HIDE DEF bytes
<1>14. Min(bytes) = k
  BY <1>12, <1>13, MinIs
<1>15. ScanPass(start, BitmapBytes) = f
  BY <1>11, <1>12, <1>14 DEF ScanPass, bytes
<1>16. f # NoBlock
  BY <1>2 DEF NoBlock
<1>17. FindFree = f
  BY <1>15, <1>16 DEF FindFree, start
<1> QED BY <1>2, <1>17 DEF f

-----------------------------------------------------------------------------
(***************************************************************************)
(* The inductive invariant: PoolSafe with what the hint promises in place  *)
(* of what follows from it for the scan.                                   *)
(***************************************************************************)
PoolInv == PoolTypeOK /\ StatsAgree /\ ExclusiveOwnership /\ (alive => BelowHintUsed)

LEMMA BlocksFinite ==
  /\ Blocks \subseteq Nat /\ IsFiniteSet(Blocks) /\ Cardinality(Blocks) = BlockCount /\ BlockCount \in Nat
  /\ 0 \in Blocks /\ NoBlock \notin Blocks /\ \A b \in Blocks : b < BlockCount
<1>1. Blocks \subseteq Nat /\ 0 \in Blocks /\ NoBlock \notin Blocks /\ \A b \in Blocks : b < BlockCount
  BY BlockCountAssumption DEF Blocks, NoBlock
<1>2. IsFiniteSet(Blocks) /\ Cardinality(Blocks) = BlockCount
  BY FS_Interval, BlockCountAssumption DEF Blocks
<1> QED BY <1>1, <1>2, BlockCountAssumption

\* memory_pool_alloc finds a block exactly when one is free, the lowest.
LEMMA FindFreeFinds ==
  ASSUME PoolInv, alive
  PROVE  /\ FindFree # NoBlock <=> bitmap # Blocks
         /\ FindFree # NoBlock => /\ FindFree \in Blocks \ bitmap
                                  /\ FindFree = Min(Blocks \ bitmap)
                                  /\ \A b \in Blocks : b < FindFree => b \in bitmap
<1>1. CASE bitmap = Blocks
  BY <1>1, FindFreeFull DEF PoolInv
<1>2. CASE bitmap # Blocks
  <2>1. FindFree = Min(Blocks \ bitmap) /\ FindFree \in Blocks \ bitmap
    BY <1>2, FindFreeFirst DEF PoolInv
  <2>2. \A y \in Blocks \ bitmap : Min(Blocks \ bitmap) =< y
    BY <2>1, BlocksFinite, MinNat
  <2>3. ASSUME NEW b \in Blocks, b < FindFree PROVE b \in bitmap
    <3>1. b \notin bitmap => FindFree =< b
      BY <2>1, <2>2
    <3>2. FindFree \in Nat /\ b \in Nat
      BY <2>1, BlocksFinite
    <3> QED BY <2>3, <3>1, <3>2
  <2> QED BY <1>2, <2>1, <2>3, BlocksFinite
<1> QED BY <1>1, <1>2

\* The counters of the bitmap: a bit set, a bit cleared.
LEMMA BitSet ==
  ASSUME bitmap \subseteq Blocks, NEW b \in Blocks
  PROVE  /\ Cardinality(bitmap) \in Nat /\ Cardinality(bitmap) =< BlockCount
         /\ b \notin bitmap => /\ Cardinality(bitmap \cup {b}) = Cardinality(bitmap) + 1
                               /\ Cardinality(bitmap) < BlockCount
         /\ b \in bitmap => /\ Cardinality(bitmap \ {b}) = Cardinality(bitmap) - 1
                            /\ Cardinality(bitmap) > 0
<1>1. IsFiniteSet(bitmap) /\ Cardinality(bitmap) =< BlockCount /\ Cardinality(bitmap) \in Nat
  BY BlocksFinite, FS_Subset, FS_CardinalityType
<1>2. b \notin bitmap => Cardinality(bitmap \cup {b}) = Cardinality(bitmap) + 1
  BY <1>1, FS_AddElement
<1>3. b \notin bitmap => Cardinality(bitmap) < BlockCount
  <2>1. bitmap \cup {b} \in SUBSET Blocks
    OBVIOUS
  <2>2. Cardinality(bitmap \cup {b}) =< BlockCount
    BY <2>1, BlocksFinite, FS_Subset
  <2> QED BY <1>1, <1>2, <2>2, BlocksFinite
<1>4. b \in bitmap => Cardinality(bitmap \ {b}) = Cardinality(bitmap) - 1
  BY <1>1, FS_RemoveElement
<1>5. b \in bitmap => Cardinality(bitmap) > 0
  BY <1>1, FS_EmptySet
<1> QED BY <1>1, <1>2, <1>3, <1>4, <1>5

\* Ownership, block by block.
LEMMA OwnersOfBits ==
  ExclusiveOwnership <=>
    /\ \A s, t \in PoolThreads : s # t => Owned(s) \cap Owned(t) = {}
    /\ \A t \in PoolThreads : claimed[t] \notin held[t]
    /\ \A b : b \in bitmap <=> \E t \in PoolThreads : b \in Owned(t)
BY DEF ExclusiveOwnership

LEMMA ClaimKeeps ==
  ASSUME PoolInv, NEW t \in PoolThreads, AllocClaim(t)
  PROVE  PoolInv'
<1> DEFINE f == FindFree
<1>0. PoolTypeOK /\ alive /\ alive' = alive /\ StatsAgree /\ ExclusiveOwnership /\ BelowHintUsed
  BY DEF AllocClaim, PoolInv
<1>1. f \in Blocks \ bitmap /\ (\A b \in Blocks : b < f => b \in bitmap) /\ f \in Nat
  BY <1>0, FindFreeFinds, BlocksFinite DEF AllocClaim
<1>2. /\ bitmap' = bitmap \cup {f} /\ hint' = HintAfter(f) /\ claimed' = [claimed EXCEPT ![t] = f]
      /\ claimed[t] = NoBlock /\ held' = held /\ content' = content
      /\ stats' = [stats EXCEPT !.used = @ + 1, !.free = @ - 1, !.alloc = @ + 1,
                                !.peak = IF stats.used + 1 > @ THEN stats.used + 1 ELSE @]
  BY DEF AllocClaim
<1> HIDE DEF f
<1>3. /\ stats.used = Cardinality(bitmap) /\ stats.used < BlockCount /\ stats.used \in Nat
      /\ Cardinality(bitmap') = stats.used + 1 /\ BlockCount \in Nat
  BY <1>0, <1>1, <1>2, BitSet, BlocksFinite DEF PoolTypeOK, StatsAgree
<1>4. /\ stats' \in StatsType /\ stats'.used = stats.used + 1 /\ stats'.free = stats.free - 1
      /\ stats'.alloc = stats.alloc + 1 /\ stats'.freed = stats.freed
      /\ stats'.peak = IF stats.used + 1 > stats.peak THEN stats.used + 1 ELSE stats.peak
  <2>1. stats \in StatsType /\ stats.used + stats.free = BlockCount
    BY <1>0 DEF PoolTypeOK, StatsAgree
  <2> DEFINE p == IF stats.used + 1 > stats.peak THEN stats.used + 1 ELSE stats.peak
  <2>2. /\ stats.used + 1 \in 0 .. BlockCount /\ stats.free - 1 \in 0 .. BlockCount /\ stats.alloc + 1 \in Nat
        /\ p \in 0 .. BlockCount
    BY <1>3, <2>1 DEF StatsType
  <2>3. stats' = [stats EXCEPT !.used = stats.used + 1, !.free = stats.free - 1, !.alloc = stats.alloc + 1, !.peak = p]
    BY <1>2
  <2> HIDE DEF p
  <2>4. /\ stats' \in StatsType /\ stats'.used = stats.used + 1 /\ stats'.free = stats.free - 1
        /\ stats'.alloc = stats.alloc + 1 /\ stats'.freed = stats.freed /\ stats'.peak = p
    BY <2>1, <2>2, <2>3 DEF StatsType
  <2> QED BY <2>4 DEF p
<1>5. StatsAgree'
  <2>1. stats.peak \in Nat /\ stats.alloc \in Nat /\ stats.freed \in Nat /\ stats.free \in Nat
    BY <1>0, BlocksFinite DEF PoolTypeOK, StatsType
  <2> QED BY <1>0, <1>3, <1>4, <2>1 DEF StatsAgree
<1>6. hint' \in Blocks /\ BelowHintUsed'
  <2>1. hint' \in Blocks
    BY <1>1, <1>2, BlockCountAssumption DEF HintAfter, Blocks
  <2>2. \A b \in Blocks : b < hint' => b \in bitmap'
    BY <1>1, <1>2, BlocksFinite DEF HintAfter
  <2> QED BY <1>0, <1>1, <1>2, <2>1, <2>2 DEF BelowHintUsed, Blocks
<1>7. claimed' \in [PoolThreads -> Blocks \cup {NoBlock}]
  BY <1>0, <1>1, <1>2 DEF PoolTypeOK
<1>8. PoolTypeOK'
  BY <1>0, <1>1, <1>2, <1>4, <1>6, <1>7 DEF PoolTypeOK, Blocks, StatsType, NoBlock
<1>9. ExclusiveOwnership'
  <2>1. Owned(t)' = Owned(t) \cup {f} /\ \A s \in PoolThreads : s # t => Owned(s)' = Owned(s)
    BY <1>0, <1>1, <1>2, BlocksFinite DEF PoolTypeOK, Owned
  <2>2. \A s \in PoolThreads : f \notin Owned(s)
    BY <1>0, <1>1, OwnersOfBits
  <2>3. \A s, u \in PoolThreads : s # u => Owned(s)' \cap Owned(u)' = {}
    BY <1>0, <2>1, <2>2 DEF ExclusiveOwnership
  <2>4. \A s \in PoolThreads : claimed'[s] \notin held'[s]
    BY <1>0, <1>2, <2>2 DEF PoolTypeOK, ExclusiveOwnership, Owned
  <2>5. bitmap' = UNION {Owned(s)' : s \in PoolThreads}
    BY <1>0, <1>2, <2>1 DEF ExclusiveOwnership
  <2> QED BY <2>3, <2>4, <2>5 DEF ExclusiveOwnership
<1> QED BY <1>5, <1>6, <1>8, <1>9 DEF PoolInv

LEMMA ReturnKeeps ==
  ASSUME PoolInv, NEW t \in PoolThreads, AllocReturn(t)
  PROVE  PoolInv'
<1>0. PoolTypeOK /\ StatsAgree /\ ExclusiveOwnership
  BY DEF PoolInv
<1>1. /\ UNCHANGED <<bitmap, hint, stats, alive>>
      /\ held' = [held EXCEPT ![t] = @ \cup {claimed[t]}] /\ claimed' = [claimed EXCEPT ![t] = NoBlock]
      /\ content' = [content EXCEPT ![claimed[t]] = "zero"] /\ claimed[t] \in Blocks
  BY <1>0 DEF AllocReturn, PoolTypeOK
<1>2. StatsAgree' /\ (alive => BelowHintUsed)'
  BY <1>0, <1>1 DEF StatsAgree, BelowHintUsed, PoolInv, Blocks
<1>3. held' \in [PoolThreads -> SUBSET Blocks] /\ claimed' \in [PoolThreads -> Blocks \cup {NoBlock}]
  BY <1>0, <1>1 DEF PoolTypeOK
<1>4. content' \in [Blocks -> {"zero", "dirty"}]
  BY <1>0, <1>1 DEF PoolTypeOK
<1>5. PoolTypeOK'
  BY <1>0, <1>1, <1>3, <1>4 DEF PoolTypeOK, Blocks, StatsType, NoBlock
<1>6. ExclusiveOwnership'
  <2>1. \A s \in PoolThreads : Owned(s)' = Owned(s)
    BY <1>0, <1>1, BlocksFinite DEF PoolTypeOK, Owned
  <2>2. \A s \in PoolThreads : claimed'[s] \notin held'[s]
    BY <1>0, <1>1, <1>3, BlocksFinite DEF PoolTypeOK, ExclusiveOwnership
  <2> QED BY <1>0, <1>1, <2>1, <2>2 DEF ExclusiveOwnership
<1> QED BY <1>2, <1>5, <1>6 DEF PoolInv

LEMMA FullKeeps ==
  ASSUME PoolInv, NEW t \in PoolThreads, AllocFull(t)
  PROVE  PoolInv'
<1>0. PoolTypeOK /\ StatsAgree /\ ExclusiveOwnership
  BY DEF PoolInv
<1>1. UNCHANGED <<bitmap, hint, content, claimed, held, alive>> /\ stats' = [stats EXCEPT !.fail = stats.fail + 1]
  BY DEF AllocFull
<1>2. /\ stats' \in StatsType /\ stats'.used = stats.used /\ stats'.free = stats.free
      /\ stats'.alloc = stats.alloc /\ stats'.freed = stats.freed /\ stats'.peak = stats.peak
  BY <1>0, <1>1 DEF PoolTypeOK, StatsType
<1>3. StatsAgree' /\ (alive => BelowHintUsed)' /\ ExclusiveOwnership'
  BY <1>0, <1>1, <1>2 DEF StatsAgree, BelowHintUsed, PoolInv, Blocks, ExclusiveOwnership, Owned
<1> QED BY <1>0, <1>1, <1>2, <1>3 DEF PoolInv, PoolTypeOK, Blocks, StatsType, NoBlock

LEMMA UseKeeps ==
  ASSUME PoolInv, NEW t \in PoolThreads, NEW b \in Blocks, Use(t, b)
  PROVE  PoolInv'
<1>1. UNCHANGED <<bitmap, hint, stats, claimed, held, alive>> /\ content' \in [Blocks -> {"zero", "dirty"}]
  BY DEF Use, PoolInv, PoolTypeOK
<1> QED
  BY <1>1 DEF PoolInv, PoolTypeOK, StatsAgree, ExclusiveOwnership, Owned, BelowHintUsed, Blocks, StatsType, NoBlock

LEMMA FreeKeeps ==
  ASSUME PoolInv, NEW t \in PoolThreads, NEW b \in Blocks, Free(t, b)
  PROVE  PoolInv'
<1>0. PoolTypeOK /\ alive /\ alive' = alive /\ StatsAgree /\ ExclusiveOwnership /\ BelowHintUsed
  BY DEF Free, PoolInv
<1>1. /\ b \in held[t] /\ b \in bitmap /\ bitmap' = bitmap \ {b} /\ hint' = (IF b < hint THEN b ELSE hint)
      /\ stats' = [stats EXCEPT !.used = stats.used - 1, !.free = stats.free + 1, !.freed = stats.freed + 1]
      /\ held' = [held EXCEPT ![t] = @ \ {b}] /\ content' = content /\ claimed' = claimed
  BY DEF Free
<1>2. /\ stats.used = Cardinality(bitmap) /\ stats.used > 0 /\ stats.used =< BlockCount /\ stats.used \in Nat
      /\ Cardinality(bitmap') = stats.used - 1 /\ BlockCount \in Nat
  BY <1>0, <1>1, BitSet, BlocksFinite DEF PoolTypeOK, StatsAgree
<1>3. /\ stats' \in StatsType /\ stats'.used = stats.used - 1 /\ stats'.free = stats.free + 1
      /\ stats'.alloc = stats.alloc /\ stats'.freed = stats.freed + 1 /\ stats'.peak = stats.peak
  <2>1. stats \in StatsType /\ stats.used + stats.free = BlockCount
    BY <1>0 DEF PoolTypeOK, StatsAgree
  <2>2. stats.used - 1 \in 0 .. BlockCount /\ stats.free + 1 \in 0 .. BlockCount /\ stats.freed + 1 \in Nat
    BY <1>2, <2>1 DEF StatsType
  <2> QED BY <1>1, <2>1, <2>2 DEF StatsType
<1>4. StatsAgree'
  <2>1. stats.peak \in Nat /\ stats.alloc \in Nat /\ stats.freed \in Nat /\ stats.free \in Nat
    BY <1>0, BlocksFinite DEF PoolTypeOK, StatsType
  <2> QED BY <1>0, <1>2, <1>3, <2>1 DEF StatsAgree
<1>5. BelowHintUsed'
  <2>1. hint \in Nat /\ b \in Nat /\ Blocks \subseteq Nat
    BY <1>0, BlocksFinite DEF PoolTypeOK
  <2>2. hint' \in Blocks /\ \A c \in Blocks : c < hint' => c \in bitmap'
    BY <1>0, <1>1, <2>1 DEF BelowHintUsed, PoolTypeOK
  <2> QED BY <1>0, <1>1, <2>2 DEF BelowHintUsed, Blocks
<1>6. PoolTypeOK'
  <2>1. held' \in [PoolThreads -> SUBSET Blocks]
    BY <1>0, <1>1 DEF PoolTypeOK
  <2> QED BY <1>0, <1>1, <1>3, <1>5, <2>1 DEF PoolTypeOK, BelowHintUsed, Blocks, StatsType, NoBlock
<1>7. ExclusiveOwnership'
  <2>1. Owned(t)' = Owned(t) \ {b} /\ \A s \in PoolThreads : s # t => Owned(s)' = Owned(s)
    BY <1>0, <1>1 DEF PoolTypeOK, Owned, ExclusiveOwnership
  <2>2. b \in Owned(t) /\ \A s \in PoolThreads : s # t => b \notin Owned(s)
    BY <1>0, <1>1 DEF Owned, ExclusiveOwnership
  <2>3. \A s, u \in PoolThreads : s # u => Owned(s)' \cap Owned(u)' = {}
    BY <1>0, <2>1 DEF ExclusiveOwnership
  <2>4. \A s \in PoolThreads : claimed'[s] \notin held'[s]
    BY <1>0, <1>1 DEF PoolTypeOK, ExclusiveOwnership
  <2>5. bitmap' = UNION {Owned(s)' : s \in PoolThreads}
    BY <1>0, <1>1, <2>1, <2>2 DEF ExclusiveOwnership
  <2> QED BY <2>3, <2>4, <2>5 DEF ExclusiveOwnership
<1> QED BY <1>4, <1>5, <1>6, <1>7 DEF PoolInv

\* An empty pool, as memory_pool_create and memory_pool_reset leave it.
LEMMA EmptyPool ==
  ASSUME bitmap' = {}, held' = [t \in PoolThreads |-> {}], \A t \in PoolThreads : claimed'[t] = NoBlock
  PROVE  ExclusiveOwnership'
<1>1. \A t \in PoolThreads : Owned(t)' = {}
  BY DEF Owned
<1> QED BY <1>1 DEF ExclusiveOwnership

LEMMA FreshStatsType ==
  FreshStats \in StatsType /\ FreshStats.used = 0 /\ FreshStats.free = BlockCount /\ FreshStats.peak = 0
  /\ FreshStats.alloc = 0 /\ FreshStats.freed = 0
BY BlockCountAssumption DEF FreshStats, StatsType

LEMMA ResetKeeps ==
  ASSUME PoolInv, Reset
  PROVE  PoolInv'
<1>1. ExclusiveOwnership'
  BY EmptyPool DEF Reset
<1>2. StatsAgree'
  BY FreshStatsType, FS_EmptySet, BlockCountAssumption DEF Reset, StatsAgree
<1>3. BelowHintUsed'
  BY BlocksFinite DEF Reset, BelowHintUsed, Blocks
<1>4. PoolTypeOK'
  BY BlocksFinite, FreshStatsType DEF Reset, PoolInv, PoolTypeOK, Blocks, StatsType, NoBlock
<1> QED BY <1>1, <1>2, <1>3, <1>4 DEF PoolInv

LEMMA DestroyKeeps ==
  ASSUME PoolInv, Destroy
  PROVE  PoolInv'
<1>1. ExclusiveOwnership'
  BY EmptyPool DEF Destroy
<1>2. PoolTypeOK'
  BY BlocksFinite DEF Destroy, PoolInv, PoolTypeOK, Blocks, StatsType, NoBlock
<1> QED BY <1>1, <1>2 DEF PoolInv, StatsAgree, Destroy

LEMMA PoolStart == PoolInit => PoolInv
<1> SUFFICES ASSUME PoolInit PROVE PoolInv
  OBVIOUS
<1>1. ExclusiveOwnership
  <2>1. \A t \in PoolThreads : Owned(t) = {} /\ claimed[t] \notin held[t]
    BY DEF PoolInit, Owned
  <2> QED BY <2>1 DEF PoolInit, ExclusiveOwnership
<1>2. StatsAgree
  BY FreshStatsType, FS_EmptySet, BlockCountAssumption DEF PoolInit, StatsAgree
<1>3. BelowHintUsed
  BY BlocksFinite DEF PoolInit, BelowHintUsed
<1>4. PoolTypeOK
  BY BlocksFinite, FreshStatsType DEF PoolInit, PoolTypeOK
<1> QED BY <1>1, <1>2, <1>3, <1>4 DEF PoolInv

LEMMA PoolStep == PoolInv /\ [PoolNext]_poolVars => PoolInv'
<1>1. ASSUME PoolInv, PoolNext PROVE PoolInv'
  BY <1>1, ClaimKeeps, ReturnKeeps, FullKeeps, UseKeeps, FreeKeeps, ResetKeeps, DestroyKeeps DEF PoolNext
<1>2. ASSUME PoolInv, UNCHANGED poolVars PROVE PoolInv'
  BY <1>2 DEF poolVars, PoolInv, PoolTypeOK, StatsAgree, ExclusiveOwnership, Owned, BelowHintUsed, Blocks, StatsType, NoBlock
<1> QED BY <1>1, <1>2

\* The invariant gives first fit.
LEMMA PoolInvSafe == PoolInv => PoolSafe
<1> SUFFICES ASSUME PoolInv PROVE HintIsFirstFit
  BY DEF PoolInv, PoolSafe
<1>1. \A b \in Blocks : b < hint => b \in bitmap \/ ~alive
  BY DEF PoolInv, BelowHintUsed
<1>2. ASSUME alive, bitmap # Blocks PROVE FindFree = Min(Blocks \ bitmap)
  BY <1>2, FindFreeFirst DEF PoolInv
<1> QED BY <1>1, <1>2 DEF HintIsFirstFit

\* What an allocation answers, in one step.
LEMMA AnswerStep ==
  ASSUME PoolInv, PoolNext
  PROVE  /\ \A t \in PoolThreads : \A b \in held'[t] \ held[t] : content'[b] = "zero"
         /\ stats'.fail > stats.fail => bitmap = Blocks
<1> DEFINE Zeroed == \A t \in PoolThreads : \A b \in held'[t] \ held[t] : content'[b] = "zero"
           Full   == stats'.fail > stats.fail => bitmap = Blocks
<1>0. PoolTypeOK /\ stats.fail \in Nat
  BY DEF PoolInv, PoolTypeOK, StatsType
<1>1. ASSUME NEW t \in PoolThreads, AllocClaim(t) PROVE Zeroed /\ Full
  <2>1. stats'.fail = stats.fail
    BY <1>0, <1>1 DEF AllocClaim, PoolTypeOK, StatsType
  <2> QED BY <1>0, <1>1, <2>1 DEF AllocClaim
<1>2. ASSUME NEW t \in PoolThreads, AllocReturn(t) PROVE Zeroed /\ Full
  BY <1>0, <1>2 DEF AllocReturn, PoolTypeOK
<1>3. ASSUME NEW t \in PoolThreads, AllocFull(t) PROVE Zeroed /\ Full
  BY <1>3, FindFreeFinds DEF AllocFull
<1>4. ASSUME NEW t \in PoolThreads, NEW b \in Blocks, Use(t, b) PROVE Zeroed /\ Full
  BY <1>0, <1>4 DEF Use
<1>5. ASSUME NEW t \in PoolThreads, NEW b \in Blocks, Free(t, b) PROVE Zeroed /\ Full
  <2>1. stats'.fail = stats.fail
    BY <1>0, <1>5 DEF Free, PoolTypeOK, StatsType
  <2>2. \A s \in PoolThreads : held'[s] \subseteq held[s]
    BY <1>0, <1>5 DEF Free, PoolTypeOK
  <2> QED BY <1>0, <2>1, <2>2
<1>6. ASSUME Reset PROVE Zeroed /\ Full
  <2>1. stats'.fail = 0
    BY <1>6 DEF Reset, FreshStats
  <2> QED BY <1>0, <1>6, <2>1 DEF Reset
<1>7. ASSUME Destroy PROVE Zeroed /\ Full
  BY <1>0, <1>7 DEF Destroy
<1> HIDE DEF Zeroed, Full
<1>8. Zeroed /\ Full
  BY <1>1, <1>2, <1>3, <1>4, <1>5, <1>6, <1>7 DEF PoolNext
<1> QED BY <1>8 DEF Zeroed, Full

-----------------------------------------------------------------------------
\* Between any two critical sections of any number of threads, no block has
\* two owners and none is lost, memory_pool_stats_t agrees with the bitmap,
\* and the hint leads memory_pool_alloc to the lowest free block, also when
\* the last byte of the bitmap is only partly used.
THEOREM PoolCorrect == PoolSpec => []PoolSafe
BY PoolStart, PoolStep, PoolInvSafe, PTL DEF PoolSpec

\* memory_pool_alloc hands out only zeroed blocks, although it clears them
\* after it has released the mutex, and answers NULL only when no block is
\* free.
THEOREM PoolAnswers == PoolSpec => AllocAnswers
<1> DEFINE Zeroed == \A t \in PoolThreads : \A b \in held'[t] \ held[t] : content'[b] = "zero"
           Full   == stats'.fail > stats.fail => bitmap = Blocks
<1>1. ASSUME PoolInv, PoolNext PROVE Zeroed /\ Full
  BY <1>1, AnswerStep
<1> HIDE DEF Zeroed, Full
<1>2. PoolInv /\ [PoolNext]_poolVars => [Zeroed]_poolVars /\ [Full]_poolVars
  BY <1>1
<1>3. PoolSpec => [][Zeroed]_poolVars /\ [][Full]_poolVars
  BY <1>2, PoolStart, PoolStep, PTL DEF PoolSpec
<1> QED BY <1>3 DEF Zeroed, Full, AllocAnswers, HandedOutZeroed, FullMeansFull

-----------------------------------------------------------------------------
(***************************************************************************)
(* Proofs about the stored registry of sm_registry.c, for any numbers of   *)
(* names, processes, threads and buckets and any hash function: the array  *)
(* and the hash table over it stay in step, and together they implement    *)
(* the bounded map RegistryMap.                                            *)
(***************************************************************************)

\* The indices of an array.
Places(array) == 1 .. Len(array)

\* An array of entries whose names are all different.
Array(array) ==
    /\ array \in Seq(ServiceEntry)
    /\ \A i, j \in Places(array) : array[i].name = array[j].name => i = j

\* An update under way has its index inside the array.
UpdatesInside == \A t \in RegThreads : upd[t] # Idle => upd[t].idx \in Places(registry)

RegInv == RegistrySafe /\ Array(registry) /\ UpdatesInside

-----------------------------------------------------------------------------
\* What Compact leaves: one entry less, the later ones moved down.
LEMMA CompactIs ==
  ASSUME NEW array, Array(array), NEW i \in Places(array)
  PROVE  /\ Compact(array, i) \in Seq(ServiceEntry)
         /\ Len(Compact(array, i)) = Len(array) - 1
         /\ Places(Compact(array, i)) = 1 .. Len(array) - 1
         /\ \A k \in 1 .. Len(array) - 1 :
              Compact(array, i)[k] = IF k < i THEN array[k] ELSE array[k + 1]
<1>1. array \in Seq(ServiceEntry) /\ Len(array) \in Nat /\ i \in 1 .. Len(array)
  BY DEF Array, Places
<1>2. Len(array) - 1 \in Nat
  BY <1>1
<1>3. \A k \in 1 .. Len(array) : array[k] \in ServiceEntry
  BY <1>1
<1>4. \A k \in 1 .. Len(array) - 1 : k \in 1 .. Len(array) /\ k + 1 \in 1 .. Len(array)
  BY <1>1
<1>5. Compact(array, i) \in [1 .. Len(array) - 1 -> ServiceEntry]
  BY <1>3, <1>4 DEF Compact
<1>6. Compact(array, i) \in Seq(ServiceEntry) /\ Len(Compact(array, i)) = Len(array) - 1
  BY <1>2, <1>5
<1> QED BY <1>6 DEF Compact, Places

\* Names stay different when an entry is taken out, and the name of that
\* entry is gone.
LEMMA CompactArray ==
  ASSUME NEW array, Array(array), NEW i \in Places(array)
  PROVE  /\ Array(Compact(array, i))
         /\ \A k \in Places(Compact(array, i)) : Compact(array, i)[k].name # array[i].name
<1>1. Len(array) \in Nat /\ i \in 1 .. Len(array)
  BY DEF Array, Places
<1> DEFINE From(k) == IF k < i THEN k ELSE k + 1
<1>2. \A k \in 1 .. Len(array) - 1 : From(k) \in 1 .. Len(array) /\ From(k) # i
  BY <1>1
<1>3. \A k \in 1 .. Len(array) - 1 : Compact(array, i)[k] = array[From(k)]
  BY CompactIs
<1>4. \A k, m \in 1 .. Len(array) - 1 : From(k) = From(m) => k = m
  BY <1>1
<1> DEFINE C == Compact(array, i)
<1>5. C \in Seq(ServiceEntry) /\ Places(C) = 1 .. Len(array) - 1
  BY CompactIs
<1>6. \A k, m \in 1 .. Len(array) : array[k].name = array[m].name => k = m
  BY DEF Array, Places
<1>7. \A k \in 1 .. Len(array) - 1 : C[k] = array[From(k)]
  BY <1>3
<1> HIDE DEF From, C
<1>8. \A k, m \in Places(C) : C[k].name = C[m].name => k = m
  BY <1>2, <1>4, <1>5, <1>6, <1>7, SMTT(30)
<1>9. \A k \in Places(C) : C[k].name # array[i].name
  BY <1>1, <1>2, <1>5, <1>6, <1>7
<1> QED BY <1>5, <1>8, <1>9 DEF Array, C

\* Appending an entry of a new name to an array gives an array.
LEMMA AppendArray ==
  ASSUME NEW array, Array(array), NEW e \in ServiceEntry,
         \A k \in Places(array) : array[k].name # e.name
  PROVE  /\ Array(Append(array, e))
         /\ Len(Append(array, e)) = Len(array) + 1
         /\ Append(array, e)[Len(array) + 1] = e
         /\ \A k \in Places(array) : Append(array, e)[k] = array[k]
<1>1. array \in Seq(ServiceEntry) /\ Len(array) \in Nat
  BY DEF Array
<1>2. /\ Append(array, e) \in Seq(ServiceEntry)
      /\ Len(Append(array, e)) = Len(array) + 1
      /\ Append(array, e)[Len(array) + 1] = e
      /\ \A k \in 1 .. Len(array) : Append(array, e)[k] = array[k]
  BY <1>1
<1>3. \A k \in 1 .. Len(array) + 1 : k \in 1 .. Len(array) \/ k = Len(array) + 1
  BY <1>1
<1> QED BY <1>1, <1>2, <1>3 DEF Array, Places

\* Inserting the appended entry is what a rebuild would have given.
LEMMA InsertIsRebuild ==
  ASSUME NEW array, Array(array), NEW e \in ServiceEntry,
         \A k \in Places(array) : array[k].name # e.name
  PROVE  hash_insert(hash_rebuild(array), e.name, Len(array) + 1) = hash_rebuild(Append(array, e))
<1>1. hash_name[e.name] \in Buckets
  BY RegistryAssumption DEF ServiceEntry
<1>2. Len(array) \in Nat
  BY DEF Array
<1> DEFINE A == Append(array, e)
           R == hash_rebuild(array)
<1>3. \A b \in Buckets :
        hash_rebuild(A)[b] = R[b] \cup (IF b = hash_name[e.name] THEN {Len(array) + 1} ELSE {})
  <2> SUFFICES ASSUME NEW b \in Buckets
               PROVE  {i \in 1 .. Len(A) : hash_name[A[i].name] = b} =
                      {i \in 1 .. Len(array) : hash_name[array[i].name] = b}
                        \cup (IF b = hash_name[e.name] THEN {Len(array) + 1} ELSE {})
    BY DEF hash_rebuild
  <2>1. /\ Len(A) = Len(array) + 1
        /\ A[Len(array) + 1] = e
        /\ \A k \in 1 .. Len(array) : A[k] = array[k]
    BY AppendArray DEF Places
  <2>2. 1 .. Len(A) = 1 .. Len(array) \cup {Len(array) + 1}
    BY <1>2, <2>1
  <2> HIDE DEF A
  <2> QED BY <1>2, <2>1, <2>2
<1>4. hash_insert(R, e.name, Len(array) + 1) = [R EXCEPT ![hash_name[e.name]] = @ \cup {Len(array) + 1}]
  BY DEF hash_insert
<1>5. DOMAIN R = Buckets /\ DOMAIN hash_rebuild(A) = Buckets
      /\ R = [b \in Buckets |-> R[b]] /\ hash_rebuild(A) = [b \in Buckets |-> hash_rebuild(A)[b]]
  BY DEF hash_rebuild
<1> HIDE DEF A, R
<1> DEFINE I == [R EXCEPT ![hash_name[e.name]] = @ \cup {Len(array) + 1}]
<1>6. DOMAIN I = Buckets /\ I = [b \in Buckets |-> I[b]]
  BY <1>5
<1>7. \A b \in Buckets : I[b] = hash_rebuild(A)[b]
  BY <1>1, <1>3, <1>5
<1> HIDE DEF I
<1>8. I = hash_rebuild(A)
  BY <1>5, <1>6, <1>7
<1> QED BY <1>4, <1>8 DEF R, A, I

\* What hash_find gives over an array and the table that belongs to it.
Find(n, array) ==
    LET found == Matches(n, array, hash_rebuild(array))
    IN  IF found = {} THEN NotFound ELSE Max(found)

\* hash_find finds the entry of a name where there is one.
LEMMA FindIs ==
  ASSUME NEW array, Array(array), NEW n \in Names
  PROVE  /\ Find(n, array) = NotFound => \A i \in Places(array) : array[i].name # n
         /\ Find(n, array) # NotFound => Find(n, array) \in Places(array) /\ array[Find(n, array)].name = n
         /\ \A i \in Places(array) : array[i].name = n => Find(n, array) = i
<1>1. hash_name[n] \in Buckets
  BY RegistryAssumption
<1>2. Matches(n, array, hash_rebuild(array)) = {i \in Places(array) : array[i].name = n}
  BY <1>1 DEF Matches, hash_rebuild, Places
<1>3. CASE {i \in Places(array) : array[i].name = n} = {}
  BY <1>2, <1>3 DEF Find
<1>4. CASE {i \in Places(array) : array[i].name = n} # {}
  <2>1. PICK i \in Places(array) : array[i].name = n
    BY <1>4
  <2>2. {k \in Places(array) : array[k].name = n} = {i}
    BY <2>1 DEF Array
  <2>3. i \in Nat /\ i # 0
    BY <2>1 DEF Places, Array
  <2>4. Max({i}) = i
    BY <2>3 DEF Max
  <2>5. Find(n, array) = i
    BY <1>2, <2>2, <2>4 DEF Find
  <2> QED BY <2>1, <2>2, <2>3, <2>5 DEF NotFound
<1> QED BY <1>3, <1>4

\* hash_find, in a state and in the next.
LEMMA FindNow ==
  ASSUME HashMatchesArray, NEW n
  PROVE  hash_find(n) = Find(n, registry)
BY DEF HashMatchesArray, hash_find, Find

LEMMA FindNext ==
  ASSUME HashMatchesArray', NEW n
  PROVE  hash_find(n)' = Find(n, registry')
BY DEF HashMatchesArray, hash_find, Find

\* A rebuilt table is a table.
LEMMA RebuildType ==
  ASSUME NEW array, Array(array), Len(array) =< MaxServices
  PROVE  hash_rebuild(array) \in [Buckets -> SUBSET Indices]
<1>1. Len(array) \in Nat /\ MaxServices \in Nat
  BY RegistryAssumption DEF Array
<1>2. 1 .. Len(array) \subseteq Indices
  BY <1>1 DEF Indices
<1> QED BY <1>2 DEF hash_rebuild

\* A store into one entry that keeps its name changes neither the names nor
\* the hash table.
LEMMA StoreKeeps ==
  ASSUME NEW array, Array(array), NEW i \in Places(array), NEW e \in ServiceEntry,
         e.name = array[i].name
  PROVE  LET new == [array EXCEPT ![i] = e]
         IN  /\ Array(new) /\ Len(new) = Len(array)
             /\ hash_rebuild(new) = hash_rebuild(array)
             /\ new[i] = e /\ \A k \in Places(array) : k # i => new[k] = array[k]
             /\ \A k \in Places(array) : new[k].name = array[k].name
<1> DEFINE new == [array EXCEPT ![i] = e]
<1>1. array \in Seq(ServiceEntry) /\ i \in 1 .. Len(array)
  BY DEF Array, Places
<1>2. new \in Seq(ServiceEntry) /\ Len(new) = Len(array)
  BY <1>1
<1>3. new[i] = e /\ \A k \in Places(array) : k # i => new[k] = array[k]
  BY <1>1 DEF Places
<1>4. \A k \in Places(array) : new[k].name = array[k].name
  BY <1>3
<1> HIDE DEF new
<1>5. Array(new)
  BY <1>2, <1>4 DEF Array, Places
<1>6. hash_rebuild(new) = hash_rebuild(array)
  BY <1>2, <1>4 DEF hash_rebuild, Places
<1> QED BY <1>2, <1>3, <1>4, <1>5, <1>6 DEF new

-----------------------------------------------------------------------------
\* A step that gives the array a new, well-formed content with the table and
\* the count that belong to it, while no update is under way.
LEMMA WriterKeeps ==
  ASSUME RegInv, Unread, Array(registry'), Len(registry') =< MaxServices,
         hash_table' = hash_rebuild(registry'), hash_pool_used' = Len(registry'),
         UNCHANGED <<live, upd>>
  PROVE  RegInv'
<1>1. hash_table' \in [Buckets -> SUBSET Indices]
  BY RebuildType
<1>2. registry' \in Seq(ServiceEntry) /\ Len(registry') \in Nat
  BY DEF Array
<1>3. RegTypeOK'
  BY <1>1, <1>2 DEF RegInv, RegistrySafe, RegTypeOK
<1>4. UpdatesInside'
  BY DEF Unread, UpdatesInside
<1>5. PoolBounded' /\ HashMatchesArray'
  BY DEF PoolBounded, HashMatchesArray
<1> QED BY <1>3, <1>4, <1>5 DEF RegInv, RegistrySafe, Array, Places

\* A step of an update: one entry stored, the index kept or given up.
LEMMA UpdaterKeeps ==
  ASSUME RegInv, NEW t \in RegThreads, NEW i \in Places(registry), NEW e \in ServiceEntry,
         e.name = registry[i].name, registry' = [registry EXCEPT ![i] = e],
         NEW u \in {Idle} \cup [kind : {"beat", "time", "count"}, idx : {i}],
         upd' = [upd EXCEPT ![t] = u],
         UNCHANGED <<hash_table, hash_pool_used, live>>
  PROVE  RegInv'
<1>1. /\ Array(registry') /\ Len(registry') = Len(registry)
      /\ hash_rebuild(registry') = hash_rebuild(registry)
  BY StoreKeeps, ZenonT(60) DEF RegInv
<1>2. i \in Indices
  BY RegistryAssumption DEF RegInv, RegistrySafe, PoolBounded, Array, Places, Indices
<1>3. upd' \in [RegThreads -> {Idle} \cup [kind : {"beat", "time", "count"}, idx : Indices]]
  BY <1>2 DEF RegInv, RegistrySafe, RegTypeOK
<1>4. RegTypeOK'
  BY <1>1, <1>3 DEF RegInv, RegistrySafe, RegTypeOK, Array
<1>5. UpdatesInside'
  <2> SUFFICES ASSUME NEW s \in RegThreads, upd'[s] # Idle
               PROVE  upd'[s].idx \in Places(registry')
    BY DEF UpdatesInside
  <2>1. Places(registry') = Places(registry)
    BY <1>1 DEF Places
  <2>2. CASE s = t
    BY <2>1, <2>2 DEF RegInv, RegistrySafe, RegTypeOK
  <2>3. CASE s # t
    BY <2>1, <2>3 DEF RegInv, RegistrySafe, RegTypeOK, UpdatesInside
  <2> QED BY <2>2, <2>3
<1>6. PoolBounded' /\ HashMatchesArray'
  BY <1>1 DEF RegInv, RegistrySafe, PoolBounded, HashMatchesArray
<1> QED BY <1>1, <1>4, <1>5, <1>6 DEF RegInv, RegistrySafe

LEMMA NewEntryType ==
  ASSUME NEW n \in Names, NEW p \in Pids
  PROVE  NewEntry(n, p) \in ServiceEntry /\ NewEntry(n, p).name = n
BY RegistryAssumption DEF NewEntry, ServiceEntry, Status, Ages

\* Each writer leaves the array well-formed, with the table and the count
\* that belong to it.
LEMMA AddNewKeeps ==
  ASSUME RegInv, NEW n \in Names, NEW p \in Pids, AddNew(n, p)
  PROVE  RegInv' /\ Array(registry') /\ Len(registry') =< MaxServices
<1> DEFINE e == NewEntry(n, p)
<1>1. e \in ServiceEntry /\ e.name = n
  BY NewEntryType
<1>2. Array(registry) /\ hash_table = hash_rebuild(registry) /\ hash_pool_used = Len(registry)
  BY DEF RegInv, RegistrySafe, HashMatchesArray, PoolBounded
<1>3. \A k \in Places(registry) : registry[k].name # n
  BY <1>2, FindNow, FindIs DEF AddNew, RegInv, RegistrySafe
<1>4. /\ registry' = Append(registry, e)
      /\ hash_table' = hash_insert(hash_table, n, Len(registry) + 1)
      /\ hash_pool_used' = hash_pool_used + 1 /\ Len(registry) < MaxServices
      /\ Unread /\ UNCHANGED <<live, upd>>
  BY DEF AddNew
<1> HIDE DEF e
<1>5. Array(registry') /\ Len(registry') = Len(registry) + 1
  BY <1>1, <1>2, <1>3, <1>4, AppendArray
<1>6. hash_table' = hash_rebuild(registry')
  BY <1>1, <1>2, <1>3, <1>4, InsertIsRebuild
<1>7. Len(registry') =< MaxServices
  BY <1>2, <1>4, <1>5, RegistryAssumption DEF Array
<1> QED BY <1>2, <1>4, <1>5, <1>6, <1>7, WriterKeeps

LEMMA AddReplacingKeeps ==
  ASSUME RegInv, NEW n \in Names, NEW p \in Pids, AddReplacing(n, p)
  PROVE  RegInv'
<1> DEFINE e == NewEntry(n, p)
           old == hash_find(n)
           rest == Compact(registry, old)
<1>1. e \in ServiceEntry /\ e.name = n
  BY NewEntryType
<1>2. Array(registry) /\ HashMatchesArray
  BY DEF RegInv, RegistrySafe
<1>3. old \in Places(registry) /\ registry[old].name = n
  BY <1>2, FindNow, FindIs DEF AddReplacing
<1>4. /\ registry' = Append(rest, e)
      /\ hash_table' = hash_insert(hash_rebuild(rest), n, Len(rest) + 1)
      /\ hash_pool_used' = Len(rest) + 1 /\ Len(rest) < MaxServices
      /\ Unread /\ UNCHANGED <<live, upd>>
  BY DEF AddReplacing
<1>5. Array(rest) /\ \A k \in Places(rest) : rest[k].name # e.name
  BY <1>1, <1>2, <1>3, CompactArray
<1> HIDE DEF e, rest
<1>6. Array(registry') /\ Len(registry') = Len(rest) + 1
  BY <1>1, <1>4, <1>5, AppendArray
<1>7. hash_table' = hash_rebuild(registry')
  BY <1>1, <1>4, <1>5, InsertIsRebuild
<1>8. Len(registry') =< MaxServices
  BY <1>4, <1>5, <1>6, RegistryAssumption DEF Array
<1> QED BY <1>4, <1>6, <1>7, <1>8, WriterKeeps

LEMMA RemoveKeeps ==
  ASSUME RegInv, Unread, NEW i \in Places(registry), RemoveIndex(i)
  PROVE  RegInv'
<1>1. Array(Compact(registry, i)) /\ Len(Compact(registry, i)) = Len(registry) - 1
  BY CompactIs, CompactArray DEF RegInv
<1>2. Len(registry) \in Nat /\ Len(registry) =< MaxServices /\ MaxServices \in Nat
  BY RegistryAssumption DEF RegInv, RegistrySafe, PoolBounded, Array
<1> QED BY <1>1, <1>2, WriterKeeps DEF RemoveIndex

\* Time passing makes every entry of an array older and changes no name.
LEMMA AgedArray ==
  ASSUME NEW array, Array(array)
  PROVE  LET new == [i \in 1 .. Len(array) |-> [array[i] EXCEPT !.beat = Older(@), !.crash = Older(@)]]
         IN  /\ new \in Seq(ServiceEntry) /\ Len(new) = Len(array)
             /\ \A i \in Places(array) :
                  /\ new[i] = [array[i] EXCEPT !.beat = Older(@), !.crash = Older(@)]
                  /\ new[i].name = array[i].name
<1> DEFINE new == [i \in 1 .. Len(array) |-> [array[i] EXCEPT !.beat = Older(@), !.crash = Older(@)]]
<1>1. Len(array) \in Nat /\ \A i \in 1 .. Len(array) : array[i] \in ServiceEntry
  BY DEF Array
<1>2. \A a \in Ages : Older(a) \in Ages
  BY RegistryAssumption DEF Ages, Older
<1>3. \A e \in ServiceEntry : LET f == [e EXCEPT !.beat = Older(@), !.crash = Older(@)]
                              IN  f \in ServiceEntry /\ f.name = e.name
  BY <1>2 DEF ServiceEntry
<1>4. \A i \in 1 .. Len(array) : new[i] = [array[i] EXCEPT !.beat = Older(@), !.crash = Older(@)]
  OBVIOUS
<1>5. \A i \in 1 .. Len(array) : new[i] \in ServiceEntry /\ new[i].name = array[i].name
  BY <1>1, <1>3, <1>4
<1>6. new \in [1 .. Len(array) -> ServiceEntry]
  BY <1>5
<1> HIDE DEF new
<1>7. new \in Seq(ServiceEntry) /\ Len(new) = Len(array)
  BY <1>1, <1>6
<1> QED BY <1>4, <1>5, <1>7 DEF Places, new

LEMMA RegInductive ==
  ASSUME RegInv, [RegNext]_regVars
  PROVE  RegInv'
<1> DEFINE Kinds == {"beat", "time", "count"}
<1>0. /\ Array(registry) /\ HashMatchesArray /\ UpdatesInside
      /\ upd \in [RegThreads -> {Idle} \cup [kind : Kinds, idx : Indices]]
      /\ \A i \in Places(registry) : registry[i] \in ServiceEntry
  BY DEF RegInv, RegistrySafe, RegTypeOK, Array, Places
<1>1. \A n \in Names : hash_find(n) # NotFound => hash_find(n) \in Places(registry)
  BY <1>0, FindNow, FindIs
<1>2. ASSUME NEW t \in RegThreads, upd[t].kind \in Kinds
      PROVE  upd[t] # Idle /\ upd[t].idx \in Places(registry)
  BY <1>0, <1>2 DEF UpdatesInside, Idle
<1>3. ASSUME NEW n \in Names, sm_registry_remove(n) \/ \E p \in Pids : sm_registry_remove_if_owner(n, p)
      PROVE  RegInv'
  BY <1>1, <1>3, RemoveKeeps DEF sm_registry_remove_if_owner, sm_registry_remove
<1>4. ASSUME sm_registry_cleanup
      PROVE  RegInv'
  <2>1. Array(<<>>) /\ Len(<<>>) = 0
    BY DEF Array, Places
  <2>2. hash_rebuild(<<>>) = EmptyTable
    BY DEF hash_rebuild, EmptyTable
  <2> QED BY <1>4, <2>1, <2>2, RegistryAssumption, WriterKeeps DEF sm_registry_cleanup
<1>5. ASSUME NEW t \in RegThreads, NEW n \in Names, HeartbeatTime(t, n)
      PROVE  RegInv'
  <2> DEFINE i == hash_find(n)
             e == [registry[i] EXCEPT !.beat = 0]
  <2>1. i \in Places(registry) /\ registry' = [registry EXCEPT ![i] = e]
        /\ upd' = [upd EXCEPT ![t] = [kind |-> "beat", idx |-> i]]
        /\ UNCHANGED <<hash_table, hash_pool_used, live>>
    BY <1>1, <1>5 DEF HeartbeatTime, Enter
  <2>2. e \in ServiceEntry /\ e.name = registry[i].name
    BY <1>0, <2>1, RegistryAssumption DEF ServiceEntry, Ages
  <2> HIDE DEF e, i
  <2> QED BY <2>1, <2>2, UpdaterKeeps
<1>6. ASSUME NEW t \in RegThreads, HeartbeatStatus(t)
      PROVE  RegInv'
  <2> DEFINE i == upd[t].idx
             e == [registry[i] EXCEPT !.status = "running"]
  <2>1. i \in Places(registry) /\ registry' = [registry EXCEPT ![i] = e]
        /\ upd' = [upd EXCEPT ![t] = Idle]
        /\ UNCHANGED <<hash_table, hash_pool_used, live>>
    BY <1>2, <1>6 DEF HeartbeatStatus, Leave
  <2>2. e \in ServiceEntry /\ e.name = registry[i].name
    BY <1>0, <2>1 DEF ServiceEntry, Status
  <2> HIDE DEF e, i
  <2> QED BY <2>1, <2>2, UpdaterKeeps
<1>7. ASSUME NEW t \in RegThreads, NEW n \in Names, NEW s \in {"crashed", "dead"}, UpdateStatus(t, n, s)
      PROVE  RegInv'
  <2> DEFINE i == hash_find(n)
             e == [registry[i] EXCEPT !.status = s]
             u == IF s = "crashed" THEN [kind |-> "time", idx |-> i] ELSE Idle
  <2>1. i \in Places(registry) /\ registry' = [registry EXCEPT ![i] = e]
        /\ upd' = [upd EXCEPT ![t] = u]
        /\ UNCHANGED <<hash_table, hash_pool_used, live>>
    BY <1>1, <1>7 DEF UpdateStatus, Enter, Leave
  <2>2. e \in ServiceEntry /\ e.name = registry[i].name
    BY <1>0, <2>1 DEF ServiceEntry, Status
  <2>3. u \in {Idle} \cup [kind : Kinds, idx : {i}]
    OBVIOUS
  <2> HIDE DEF e, i, u
  <2> QED BY <2>1, <2>2, <2>3, UpdaterKeeps
<1>8. ASSUME NEW t \in RegThreads, UpdateCrashTime(t)
      PROVE  RegInv'
  <2> DEFINE i == upd[t].idx
             e == [registry[i] EXCEPT !.crash = 0]
  <2>1. i \in Places(registry) /\ registry' = [registry EXCEPT ![i] = e]
        /\ upd' = [upd EXCEPT ![t] = [kind |-> "count", idx |-> i]]
        /\ UNCHANGED <<hash_table, hash_pool_used, live>>
    BY <1>2, <1>8 DEF UpdateCrashTime, Enter
  <2>2. e \in ServiceEntry /\ e.name = registry[i].name
    BY <1>0, <2>1, RegistryAssumption DEF ServiceEntry, Ages
  <2> HIDE DEF e, i
  <2> QED BY <2>1, <2>2, UpdaterKeeps
<1>9. ASSUME NEW t \in RegThreads, UpdateRestartCount(t)
      PROVE  RegInv'
  <2> DEFINE i == upd[t].idx
             e == [registry[i] EXCEPT !.restarts = IF @ < RestartCap THEN @ + 1 ELSE @]
  <2>1. i \in Places(registry) /\ registry' = [registry EXCEPT ![i] = e]
        /\ upd' = [upd EXCEPT ![t] = Idle]
        /\ UNCHANGED <<hash_table, hash_pool_used, live>>
    BY <1>2, <1>9 DEF UpdateRestartCount, Leave
  <2>2. e \in ServiceEntry /\ e.name = registry[i].name
    BY <1>0, <2>1, RegistryAssumption DEF ServiceEntry
  <2> HIDE DEF e, i
  <2> QED BY <2>1, <2>2, UpdaterKeeps
<1>10. ASSUME TimePasses
       PROVE  RegInv'
  <2>1. /\ registry' \in Seq(ServiceEntry) /\ Len(registry') = Len(registry)
        /\ \A i \in Places(registry) : registry'[i].name = registry[i].name
    BY <1>0, <1>10, AgedArray DEF TimePasses
  <2>2. hash_rebuild(registry') = hash_rebuild(registry)
    BY <2>1 DEF hash_rebuild, Places
  <2> QED BY ZenonT(60), <1>10, <2>1, <2>2 DEF TimePasses, RegInv, RegistrySafe, RegTypeOK, PoolBounded, HashMatchesArray,
                                   Array, Places, UpdatesInside
<1>11. ASSUME NEW p \in Pids, ProcessExits(p) \/ ProcessStarts(p)
       PROVE  RegInv'
  BY <1>11 DEF ProcessExits, ProcessStarts, RegInv, RegistrySafe, RegTypeOK, PoolBounded, HashMatchesArray,
               Array, Places, UpdatesInside
<1>12. CASE UNCHANGED regVars
  BY <1>12 DEF regVars, RegInv, RegistrySafe, RegTypeOK, PoolBounded, HashMatchesArray, Array, Places, UpdatesInside
<1> QED BY <1>3, <1>4, <1>5, <1>6, <1>7, <1>8, <1>9, <1>10, <1>11, <1>12, AddNewKeeps, AddReplacingKeeps DEF RegNext

LEMMA RegInitInv == RegInit => RegInv
<1> SUFFICES ASSUME RegInit PROVE RegInv
  OBVIOUS
<1>1. Array(<<>>) /\ Len(<<>>) = 0 /\ hash_rebuild(<<>>) = EmptyTable
  BY DEF Array, Places, hash_rebuild, EmptyTable
<1>2. EmptyTable \in [Buckets -> SUBSET Indices]
  BY DEF EmptyTable
<1> QED BY <1>1, <1>2, RegistryAssumption
      DEF RegInit, RegInv, RegistrySafe, RegTypeOK, PoolBounded, HashMatchesArray, UpdatesInside, Array

\* The stored registry is sound at all times: sm_registry_add, the removals
\* and the updates under the read lock, from any number of threads, keep the
\* array inside SM_MAX_SERVICES, the node pool as large as the array, and the
\* hash table the one a rebuild would give.
THEOREM RegistryCorrect == RegSpec => []RegistrySafe
<1>1. RegInit => RegInv
  BY RegInitInv
<1>2. RegInv /\ [RegNext]_regVars => RegInv'
  BY RegInductive
<1>3. RegInv => RegistrySafe
  BY DEF RegInv
<1> QED BY <1>1, <1>2, <1>3, PTL DEF RegSpec

-----------------------------------------------------------------------------
(***************************************************************************)
(* The refinement: the map an array stands for, and what each change of    *)
(* the array does to it.                                                   *)
(***************************************************************************)
Cell(e) == [pid |-> e.pid, status |-> e.status, restarts |-> e.restarts, beat |-> e.beat, crash |-> e.crash]

NamesOf(array) == {array[i].name : i \in Places(array)}

MapOf(array) == [n \in NamesOf(array) |-> Cell(array[Find(n, array)])]

\* What the map holds.
LEMMA MapHolds ==
  ASSUME NEW array, Array(array)
  PROVE  /\ DOMAIN MapOf(array) = NamesOf(array)
         /\ NamesOf(array) \subseteq Names
         /\ \A i \in Places(array) : MapOf(array)[array[i].name] = Cell(array[i])
<1>0. \A i \in Places(array) : array[i] \in ServiceEntry
  BY DEF Array, Places
<1>1. \A i \in Places(array) : array[i].name \in Names
  BY <1>0 DEF ServiceEntry
<1>2. \A i \in Places(array) : Find(array[i].name, array) = i
  BY <1>1, FindIs
<1> QED BY <1>1, <1>2 DEF MapOf, NamesOf

\* Two maps are the same when they hold the same.
LEMMA MapIs ==
  ASSUME NEW array, Array(array), NEW f, f = [n \in NamesOf(array) |-> f[n]],
         \A i \in Places(array) : f[array[i].name] = Cell(array[i])
  PROVE  MapOf(array) = f
<1>1. ASSUME NEW n \in NamesOf(array)
      PROVE  MapOf(array)[n] = f[n]
  <2>1. PICK i \in Places(array) : n = array[i].name
    BY DEF NamesOf
  <2>2. MapOf(array)[array[i].name] = Cell(array[i])
    BY MapHolds
  <2> QED BY <2>1, <2>2
<1>2. MapOf(array) = [n \in NamesOf(array) |-> MapOf(array)[n]]
  BY DEF MapOf
<1> QED BY <1>1, <1>2

\* There are as many names as entries.
LEMMA MapCount ==
  ASSUME NEW array, Array(array)
  PROVE  IsFiniteSet(NamesOf(array)) /\ Cardinality(NamesOf(array)) = Len(array)
<1> DEFINE f == [i \in Places(array) |-> array[i].name]
<1>1. Len(array) \in Nat /\ Places(array) = 1 .. Len(array)
  BY DEF Array, Places
<1>2. f \in [Places(array) -> NamesOf(array)] /\ \A n \in NamesOf(array) : \E i \in Places(array) : f[i] = n
  BY DEF NamesOf
<1>3. \A i, j \in Places(array) : f[i] = f[j] => i = j
  BY DEF Array
<1> HIDE DEF f
<1>4. f \in Bijection(Places(array), NamesOf(array))
  BY <1>2, <1>3 DEF Bijection, Injection, Surjection, IsInjective
<1>5. ExistsBijection(Places(array), NamesOf(array))
  BY <1>4 DEF ExistsBijection
<1>6. IsFiniteSet(Places(array)) /\ Cardinality(Places(array)) = Len(array)
  BY <1>1, FS_Interval, SMTT(30)
<1> QED BY <1>5, <1>6, FS_Bijection

LEMMA MapAppend ==
  ASSUME NEW array, Array(array), NEW e \in ServiceEntry,
         \A k \in Places(array) : array[k].name # e.name
  PROVE  MapOf(Append(array, e)) =
           [m \in NamesOf(array) \cup {e.name} |-> IF m = e.name THEN Cell(e) ELSE MapOf(array)[m]]
<1> DEFINE A == Append(array, e)
           f == [m \in NamesOf(array) \cup {e.name} |-> IF m = e.name THEN Cell(e) ELSE MapOf(array)[m]]
<1>1. /\ Array(A) /\ Len(A) = Len(array) + 1 /\ A[Len(array) + 1] = e
      /\ \A k \in Places(array) : A[k] = array[k]
  BY AppendArray
<1>2. Len(array) \in Nat
  BY DEF Array
<1> HIDE DEF A
<1>3. Places(A) = Places(array) \cup {Len(array) + 1}
  BY <1>1, <1>2 DEF Places
<1>4. NamesOf(A) = NamesOf(array) \cup {e.name}
  BY <1>1, <1>3 DEF NamesOf
<1>5. ASSUME NEW i \in Places(A)
      PROVE  f[A[i].name] = Cell(A[i])
  <2>1. CASE i \in Places(array)
    <3>1. A[i] = array[i] /\ array[i].name # e.name /\ array[i].name \in NamesOf(array)
      BY <1>1, <2>1 DEF NamesOf
    <3>2. MapOf(array)[array[i].name] = Cell(array[i])
      BY <2>1, MapHolds
    <3> QED BY <3>1, <3>2
  <2>2. CASE i = Len(array) + 1
    BY <1>1, <2>2
  <2> QED BY <1>3, <2>1, <2>2
<1>6. f = [n \in NamesOf(A) |-> f[n]]
  BY <1>4
<1> HIDE DEF f
<1>7. Array(A)
  BY <1>1
<1>8. MapOf(A) = f
  BY <1>5, <1>6, <1>7, MapIs
<1> QED BY <1>8 DEF A, f

LEMMA MapCompact ==
  ASSUME NEW array, Array(array), NEW i \in Places(array)
  PROVE  /\ NamesOf(Compact(array, i)) = NamesOf(array) \ {array[i].name}
         /\ MapOf(Compact(array, i)) = [m \in NamesOf(array) \ {array[i].name} |-> MapOf(array)[m]]
<1> DEFINE C == Compact(array, i)
           f == [m \in NamesOf(array) \ {array[i].name} |-> MapOf(array)[m]]
           From(k) == IF k < i THEN k ELSE k + 1
           Back(k) == IF k < i THEN k ELSE k - 1
<1>1. Len(array) \in Nat /\ i \in 1 .. Len(array) /\ Places(array) = 1 .. Len(array)
  BY DEF Array, Places
<1>2. /\ Array(C) /\ Places(C) = 1 .. Len(array) - 1
      /\ \A k \in Places(C) : C[k].name # array[i].name
  BY CompactIs, CompactArray
<1>3. \A k \in Places(C) : From(k) \in Places(array) /\ C[k] = array[From(k)]
  <2>1. \A k \in 1 .. Len(array) - 1 : From(k) \in 1 .. Len(array)
    BY <1>1
  <2>2. \A k \in 1 .. Len(array) - 1 : C[k] = array[From(k)]
    BY CompactIs
  <2> QED BY <1>1, <1>2, <2>1, <2>2
<1>4. \A k \in Places(array) : k # i => Back(k) \in Places(C) /\ From(Back(k)) = k
  BY <1>1, <1>2
<1> HIDE DEF C, From, Back
<1>5. NamesOf(C) = NamesOf(array) \ {array[i].name}
  <2>1. NamesOf(C) \subseteq NamesOf(array) \ {array[i].name}
    BY <1>2, <1>3 DEF NamesOf
  <2>2. ASSUME NEW n \in NamesOf(array) \ {array[i].name}
        PROVE  n \in NamesOf(C)
    <3>1. PICK k \in Places(array) : n = array[k].name
      BY DEF NamesOf
    <3>2. Back(k) \in Places(C) /\ C[Back(k)] = array[k]
      BY <1>3, <1>4, <3>1
    <3> QED BY <3>1, <3>2 DEF NamesOf
  <2> QED BY <2>1, <2>2
<1>6. ASSUME NEW k \in Places(C)
      PROVE  f[C[k].name] = Cell(C[k])
  <2>1. C[k].name \in NamesOf(array) \ {array[i].name}
    BY <1>5 DEF NamesOf
  <2>2. MapOf(array)[array[From(k)].name] = Cell(array[From(k)])
    BY <1>3, MapHolds
  <2> QED BY <1>3, <2>1, <2>2
<1>7. f = [m \in NamesOf(C) |-> f[m]]
  BY <1>5
<1> HIDE DEF f
<1>8. MapOf(C) = f
  BY <1>2, <1>6, <1>7, MapIs
<1> QED BY <1>5, <1>8 DEF C, f

LEMMA MapStore ==
  ASSUME NEW array, Array(array), NEW i \in Places(array), NEW e \in ServiceEntry,
         e.name = array[i].name
  PROVE  LET new == [array EXCEPT ![i] = e]
         IN  /\ NamesOf(new) = NamesOf(array)
             /\ MapOf(new) = [MapOf(array) EXCEPT ![e.name] = Cell(e)]
<1> DEFINE new == [array EXCEPT ![i] = e]
           f == [m \in NamesOf(array) |-> IF m = e.name THEN Cell(e) ELSE MapOf(array)[m]]
<1>1. /\ Array(new) /\ Len(new) = Len(array) /\ new[i] = e
      /\ \A k \in Places(array) : k # i => new[k] = array[k]
      /\ \A k \in Places(array) : new[k].name = array[k].name
  BY StoreKeeps
<1> HIDE DEF new
<1>2. Places(new) = Places(array)
  BY <1>1 DEF Places
<1>3. NamesOf(new) = NamesOf(array)
  BY <1>1, <1>2 DEF NamesOf
<1>4. ASSUME NEW k \in Places(new)
      PROVE  f[new[k].name] = Cell(new[k])
  <2>1. new[k].name \in NamesOf(array)
    BY <1>3 DEF NamesOf
  <2>2. CASE k = i
    BY <1>1, <2>1, <2>2
  <2>3. CASE k # i
    <3>1. new[k] = array[k] /\ array[k].name # e.name
      BY <1>1, <1>2, <2>3 DEF Array
    <3>2. MapOf(array)[array[k].name] = Cell(array[k])
      BY <1>2, MapHolds
    <3> QED BY <2>1, <3>1, <3>2
  <2> QED BY <2>2, <2>3
<1>5. f = [m \in NamesOf(new) |-> f[m]]
  BY <1>3
<1>6. f = [MapOf(array) EXCEPT ![e.name] = Cell(e)]
  BY DEF MapOf
<1> HIDE DEF f
<1>7. MapOf(new) = f
  BY <1>1, <1>4, <1>5, MapIs, SMTT(30)
<1> QED BY <1>3, <1>6, <1>7 DEF new

\* A store into a field of an entry is a store into that field of its cell.
LEMMA CellStore ==
  ASSUME NEW e \in ServiceEntry, NEW v
  PROVE  /\ Cell([e EXCEPT !.beat = v]) = [Cell(e) EXCEPT !.beat = v]
         /\ Cell([e EXCEPT !.status = v]) = [Cell(e) EXCEPT !.status = v]
         /\ Cell([e EXCEPT !.crash = v]) = [Cell(e) EXCEPT !.crash = v]
         /\ Cell([e EXCEPT !.restarts = v]) = [Cell(e) EXCEPT !.restarts = v]
<1> DEFINE Is(c, p, s, r, b, h) == c \in [pid : {p}, status : {s}, restarts : {r}, beat : {b}, crash : {h}]
<1>1. ASSUME NEW c, NEW d, NEW p, NEW s, NEW r, NEW b, NEW h, Is(c, p, s, r, b, h), Is(d, p, s, r, b, h)
      PROVE  c = d
  BY <1>1
<1>2. /\ Is(Cell([e EXCEPT !.beat = v]), e.pid, e.status, e.restarts, v, e.crash)
      /\ Is([Cell(e) EXCEPT !.beat = v], e.pid, e.status, e.restarts, v, e.crash)
  BY DEF Cell, ServiceEntry
<1>3. /\ Is(Cell([e EXCEPT !.status = v]), e.pid, v, e.restarts, e.beat, e.crash)
      /\ Is([Cell(e) EXCEPT !.status = v], e.pid, v, e.restarts, e.beat, e.crash)
  BY DEF Cell, ServiceEntry
<1>4. /\ Is(Cell([e EXCEPT !.crash = v]), e.pid, e.status, e.restarts, e.beat, v)
      /\ Is([Cell(e) EXCEPT !.crash = v], e.pid, e.status, e.restarts, e.beat, v)
  BY DEF Cell, ServiceEntry
<1>5. /\ Is(Cell([e EXCEPT !.restarts = v]), e.pid, e.status, v, e.beat, e.crash)
      /\ Is([Cell(e) EXCEPT !.restarts = v], e.pid, e.status, v, e.beat, e.crash)
  BY DEF Cell, ServiceEntry
<1> HIDE DEF Is
<1> QED BY <1>1, <1>2, <1>3, <1>4, <1>5

LEMMA MapAged ==
  ASSUME NEW array, Array(array)
  PROVE  LET new == [i \in 1 .. Len(array) |-> [array[i] EXCEPT !.beat = Older(@), !.crash = Older(@)]]
         IN  MapOf(new) = [n \in NamesOf(array) |->
                             [MapOf(array)[n] EXCEPT !.beat = Older(@), !.crash = Older(@)]]
<1> DEFINE new == [i \in 1 .. Len(array) |-> [array[i] EXCEPT !.beat = Older(@), !.crash = Older(@)]]
           f == [n \in NamesOf(array) |-> [MapOf(array)[n] EXCEPT !.beat = Older(@), !.crash = Older(@)]]
<1>1. /\ new \in Seq(ServiceEntry) /\ Len(new) = Len(array)
      /\ \A i \in Places(array) : new[i] = [array[i] EXCEPT !.beat = Older(@), !.crash = Older(@)]
                                /\ new[i].name = array[i].name
  BY AgedArray
<1>2. \A i \in Places(array) : array[i] \in ServiceEntry
  BY DEF Array, Places
<1> HIDE DEF new
<1>3. Places(new) = Places(array) /\ Array(new)
  BY <1>1 DEF Places, Array
<1>4. NamesOf(new) = NamesOf(array)
  BY <1>1, <1>3, ZenonT(60) DEF NamesOf
<1>5. ASSUME NEW k \in Places(new)
      PROVE  f[new[k].name] = Cell(new[k])
  <2>1. array[k].name \in NamesOf(array) /\ new[k].name = array[k].name
    BY <1>1, <1>3 DEF NamesOf
  <2>2. MapOf(array)[array[k].name] = Cell(array[k])
    BY <1>3, MapHolds
  <2>3. \A e \in ServiceEntry : Cell([e EXCEPT !.beat = Older(@), !.crash = Older(@)])
                               = [Cell(e) EXCEPT !.beat = Older(@), !.crash = Older(@)]
    <3> SUFFICES ASSUME NEW e \in ServiceEntry
                 PROVE  Cell([e EXCEPT !.beat = Older(@), !.crash = Older(@)])
                          = [Cell(e) EXCEPT !.beat = Older(@), !.crash = Older(@)]
      OBVIOUS
    <3> DEFINE g == [e EXCEPT !.beat = Older(@), !.crash = Older(@)]
               h == [pid |-> e.pid, status |-> e.status, restarts |-> e.restarts,
                     beat |-> Older(e.beat), crash |-> Older(e.crash)]
    <3>1. /\ g.pid = e.pid /\ g.status = e.status /\ g.restarts = e.restarts
          /\ g.beat = Older(e.beat) /\ g.crash = Older(e.crash)
      BY DEF ServiceEntry
    <3> DEFINE aged == [Cell(e) EXCEPT !.beat = Older(@), !.crash = Older(@)]
    <3>2. aged \in [pid : {e.pid}, status : {e.status}, restarts : {e.restarts},
                  beat : {Older(e.beat)}, crash : {Older(e.crash)}]
      BY DEF Cell
    <3> HIDE DEF g, aged
    <3>3. aged = h
      BY <3>2
    <3>4. Cell(g) = h
      BY <3>1 DEF Cell
    <3> QED BY <3>3, <3>4 DEF g, aged
  <2>4. Cell(new[k]) = [Cell(array[k]) EXCEPT !.beat = Older(@), !.crash = Older(@)]
    BY <1>1, <1>2, <1>3, <2>3
  <2> QED BY <2>1, <2>2, <2>4
<1>6. f = [n \in NamesOf(new) |-> f[n]]
  BY <1>4
<1> HIDE DEF f
<1>7. MapOf(new) = f
  BY <1>3, <1>5, <1>6, MapIs
<1> QED BY <1>7, ZenonT(60) DEF new, f

-----------------------------------------------------------------------------
\* The names hash_find finds are those of the array.
LEMMA NamesFound ==
  ASSUME NEW array, Array(array)
  PROVE  {n \in Names : Find(n, array) # NotFound} = NamesOf(array)
<1>1. ASSUME NEW n \in Names, Find(n, array) # NotFound
      PROVE  n \in NamesOf(array)
  BY <1>1, FindIs DEF NamesOf
<1>2. ASSUME NEW n \in NamesOf(array)
      PROVE  n \in Names /\ Find(n, array) # NotFound
  <2>1. PICK i \in Places(array) : n = array[i].name
    BY DEF NamesOf
  <2>2. n \in Names
    BY MapHolds
  <2>3. Find(n, array) = i
    BY <2>1, <2>2, FindIs
  <2> QED BY <2>2, <2>3 DEF Places, NotFound, Array
<1> QED BY <1>1, <1>2

\* The mapped registry is the map of the array, in a state and in the next.
LEMMA MappedNow ==
  ASSUME RegInv
  PROVE  MappedReg = MapOf(registry)
<1>1. Array(registry) /\ HashMatchesArray
  BY DEF RegInv, RegistrySafe
<1>2. \A n : hash_find(n) = Find(n, registry)
  BY <1>1, FindNow
<1>3. MappedNames = NamesOf(registry)
  BY <1>1, <1>2, NamesFound DEF MappedNames
<1> QED BY <1>2, <1>3 DEF MappedReg, MapOf, MappedEntry, Cell

LEMMA MappedNext ==
  ASSUME RegInv'
  PROVE  MappedReg' = MapOf(registry')
<1>1. Array(registry') /\ HashMatchesArray'
  BY DEF RegInv, RegistrySafe, Array, Places
<1>2. \A n : hash_find(n)' = Find(n, registry')
  BY <1>1, FindNext
<1>3. MappedNames' = NamesOf(registry')
  BY <1>1, <1>2, NamesFound DEF MappedNames
<1> QED BY <1>2, <1>3 DEF MappedReg, MapOf, MappedEntry, Cell

\* The mapped operations: a thread is idle in the map when it is here.
LEMMA MappedIdle ==
  ASSUME RegInv
  PROVE  /\ \A t \in RegThreads : MappedOps[t] = Map!Idle <=> upd[t] = Idle
         /\ Unread <=> Map!Unread
<1>1. \A t \in RegThreads : upd[t] # Idle => upd[t].kind \in {"beat", "time", "count"}
  BY DEF RegInv, RegistrySafe, RegTypeOK
<1>2. \A t \in RegThreads : MappedOps[t] = Map!Idle <=> upd[t] = Idle
  <2> SUFFICES ASSUME NEW t \in RegThreads
               PROVE  MappedOp(t) = Map!Idle <=> upd[t] = Idle
    BY DEF MappedOps
  <2>1. CASE upd[t] = Idle
    BY <2>1 DEF MappedOp, Idle, Map!Idle
  <2>2. CASE upd[t] # Idle
    <3>1. MappedOp(t).kind = upd[t].kind /\ upd[t].kind # "none"
      BY <1>1, <2>2 DEF MappedOp
    <3> QED BY <2>2, <3>1 DEF Map!Idle
  <2> QED BY <2>1, <2>2
<1> QED BY <1>2 DEF Unread, Map!Unread

\* Where no thread moves and names stay where they are in use, the mapped
\* operations stay.
LEMMA MappedOpsStay ==
  ASSUME RegInv, upd' = upd,
         \A t \in RegThreads : upd[t] # Idle => registry'[upd[t].idx].name = registry[upd[t].idx].name
  PROVE  MappedOps' = MappedOps
BY DEF MappedOps, MappedOp

\* The map counts as the registry does.
LEMMA MapCardinality == \A S : Map!Cardinality(S) = Cardinality(S)
BY DEF Cardinality, Map!Cardinality

\* Adding a name the array does not have.
WithNew(array, n, p) ==
    [m \in NamesOf(array) \cup {n} |-> IF m = n THEN Map!FreshEntry(p) ELSE MapOf(array)[m]]

LEMMA AppendSimulates ==
  ASSUME NEW array, Array(array), NEW n \in Names, NEW p \in Pids,
         \A k \in Places(array) : array[k].name # n
  PROVE  MapOf(Append(array, NewEntry(n, p))) = WithNew(array, n, p)
<1> DEFINE e == NewEntry(n, p)
<1>1. e \in ServiceEntry /\ e.name = n
  BY NewEntryType
<1>2. Cell(e) = Map!FreshEntry(p)
  BY DEF Cell, NewEntry, Map!FreshEntry
<1> HIDE DEF e
<1>3. MapOf(Append(array, e)) =
        [m \in NamesOf(array) \cup {e.name} |-> IF m = e.name THEN Cell(e) ELSE MapOf(array)[m]]
  BY <1>1, MapAppend
<1> QED BY <1>1, <1>2, <1>3 DEF e, WithNew

LEMMA AddNewSimulates ==
  ASSUME RegInv, RegInv', NEW n \in Names, NEW p \in Pids, AddNew(n, p)
  PROVE  Map!Add(n, p)
<1>1. /\ MappedReg = MapOf(registry) /\ MappedReg' = MapOf(registry')
      /\ Array(registry) /\ HashMatchesArray
  BY MappedNow, MappedNext DEF RegInv, RegistrySafe
<1>2. \A k \in Places(registry) : registry[k].name # n
  BY <1>1, FindNow, FindIs DEF AddNew
<1>3. n \notin NamesOf(registry) /\ DOMAIN MappedReg = NamesOf(registry)
  BY <1>1, <1>2, MapHolds DEF NamesOf
<1>4. Cardinality(DOMAIN MappedReg \ {n}) < MaxServices
  <2>1. DOMAIN MappedReg \ {n} = NamesOf(registry)
    BY <1>3
  <2> QED BY <1>1, <2>1, MapCount DEF AddNew
<1>5. MappedReg' = [m \in DOMAIN MappedReg \cup {n} |-> IF m = n THEN Map!FreshEntry(p) ELSE MappedReg[m]]
  <2>1. registry' = Append(registry, NewEntry(n, p))
    BY DEF AddNew
  <2>2. MapOf(Append(registry, NewEntry(n, p))) = WithNew(registry, n, p)
    BY <1>1, <1>2, AppendSimulates
  <2> QED BY <1>1, <1>3, <2>1, <2>2 DEF WithNew
<1>6. MappedOps' = MappedOps /\ Map!Unread
  BY MappedIdle, MappedOpsStay DEF AddNew, Unread
<1>7. UNCHANGED live
  BY DEF AddNew
<1> QED BY <1>3, <1>4, <1>5, <1>6, <1>7, MapCardinality DEF Map!Add, Map!Available

LEMMA AddReplacingSimulates ==
  ASSUME RegInv, RegInv', NEW n \in Names, NEW p \in Pids, AddReplacing(n, p)
  PROVE  Map!Add(n, p)
<1> DEFINE old == hash_find(n)
           rest == Compact(registry, old)
<1>1. /\ MappedReg = MapOf(registry) /\ MappedReg' = MapOf(registry')
      /\ Array(registry) /\ HashMatchesArray
  BY MappedNow, MappedNext DEF RegInv, RegistrySafe
<1>2. /\ old \in Places(registry) /\ registry[old].name = n /\ registry[old].pid \notin live
      /\ registry' = Append(rest, NewEntry(n, p)) /\ Len(rest) < MaxServices
      /\ Unread /\ UNCHANGED <<live, upd>>
  BY <1>1, FindNow, FindIs DEF AddReplacing
<1>3. /\ Array(rest) /\ \A k \in Places(rest) : rest[k].name # n
      /\ NamesOf(rest) = NamesOf(registry) \ {n}
      /\ MapOf(rest) = [m \in NamesOf(registry) \ {n} |-> MapOf(registry)[m]]
  <2>1. /\ NamesOf(rest) = NamesOf(registry) \ {registry[old].name}
        /\ MapOf(rest) = [m \in NamesOf(registry) \ {registry[old].name} |-> MapOf(registry)[m]]
    BY <1>1, <1>2, MapCompact
  <2>2. Array(rest) /\ \A k \in Places(rest) : rest[k].name # registry[old].name
    BY <1>1, <1>2, CompactArray
  <2> HIDE DEF rest, old
  <2> QED BY <1>2, <2>1, <2>2
<1> HIDE DEF rest, old
<1>4. DOMAIN MappedReg = NamesOf(registry) /\ n \in NamesOf(registry)
  BY <1>1, <1>2, MapHolds DEF NamesOf
<1>5. Cardinality(DOMAIN MappedReg \ {n}) < MaxServices
  BY <1>2, <1>3, <1>4, MapCount, ZenonT(60)
<1>6. MappedReg' = [m \in DOMAIN MappedReg \cup {n} |-> IF m = n THEN Map!FreshEntry(p) ELSE MappedReg[m]]
  <2>1. MapOf(Append(rest, NewEntry(n, p))) = WithNew(rest, n, p)
    BY <1>3, AppendSimulates
  <2>2. NamesOf(rest) \cup {n} = DOMAIN MappedReg \cup {n}
    BY <1>3, <1>4
  <2>3. \A m \in NamesOf(rest) \cup {n} : m # n => MapOf(rest)[m] = MappedReg[m]
    BY <1>1, <1>3
  <2> QED BY <1>1, <1>2, <2>1, <2>2, <2>3 DEF WithNew
<1>7. MappedReg[n].pid \notin live
  <2>1. MapOf(registry)[n] = Cell(registry[old])
    BY <1>1, <1>2, MapHolds
  <2> QED BY <1>1, <1>2, <2>1 DEF Cell
<1>8. MappedOps' = MappedOps /\ Map!Unread
  BY <1>2, MappedIdle, MappedOpsStay DEF Unread
<1> QED BY <1>2, <1>5, <1>6, <1>7, <1>8, MapCardinality DEF Map!Add, Map!Available

LEMMA RemoveSimulates ==
  ASSUME RegInv, RegInv', NEW n \in Names, Unread, hash_find(n) # NotFound, RemoveIndex(hash_find(n))
  PROVE  /\ Map!Remove(n)
         /\ n \in DOMAIN MappedReg /\ MappedReg[n].pid = registry[hash_find(n)].pid
<1> DEFINE i == hash_find(n)
<1>1. /\ MappedReg = MapOf(registry) /\ MappedReg' = MapOf(registry')
      /\ Array(registry) /\ HashMatchesArray
  BY MappedNow, MappedNext DEF RegInv, RegistrySafe
<1>2. i \in Places(registry) /\ registry[i].name = n
  BY <1>1, FindNow, FindIs
<1>3. registry' = Compact(registry, i) /\ UNCHANGED <<live, upd>>
  BY DEF RemoveIndex
<1> HIDE DEF i
<1>4. DOMAIN MappedReg = NamesOf(registry) /\ n \in NamesOf(registry) /\ MappedReg[n] = Cell(registry[i])
  BY <1>1, <1>2, MapHolds DEF NamesOf
<1>5. MappedReg' = [m \in DOMAIN MappedReg \ {n} |-> MappedReg[m]]
  <2>1. MapOf(Compact(registry, i)) = [m \in NamesOf(registry) \ {registry[i].name} |-> MapOf(registry)[m]]
    BY <1>1, <1>2, MapCompact
  <2> QED BY <1>1, <1>2, <1>3, <1>4, <2>1
<1>6. MappedOps' = MappedOps /\ Map!Unread
  BY <1>3, MappedIdle, MappedOpsStay DEF Unread
<1> QED BY <1>3, <1>4, <1>5, <1>6 DEF Map!Remove, Map!Without, Cell, i

\* One step of an update by thread t, and what it is to the map: one store
\* into the entry of the name at the index, and the thread's operation.
Stores(i, e, t, u) ==
    /\ registry' = [registry EXCEPT ![i] = e]
    /\ upd' = [upd EXCEPT ![t] = u]
    /\ live' = live

MapStores(n, c, t, o) ==
    /\ n \in DOMAIN MappedReg
    /\ MappedReg' = [MappedReg EXCEPT ![n] = c]
    /\ MappedOps' = [MappedOps EXCEPT ![t] = o]
    /\ live' = live

OpOf(u, n) == IF u = Idle THEN Map!Idle ELSE [kind |-> u.kind, name |-> n]

LEMMA UpdateMaps ==
  ASSUME RegInv, RegInv', NEW t \in RegThreads, NEW i \in Places(registry), NEW e \in ServiceEntry,
         e.name = registry[i].name,
         NEW u \in {Idle} \cup [kind : {"beat", "time", "count"}, idx : {i}],
         Stores(i, e, t, u)
  PROVE  /\ MappedReg[e.name] = Cell(registry[i])
         /\ MapStores(e.name, Cell(e), t, OpOf(u, e.name))
<1>0. registry' = [registry EXCEPT ![i] = e] /\ upd' = [upd EXCEPT ![t] = u] /\ live' = live
  BY DEF Stores
<1>1. /\ MappedReg = MapOf(registry) /\ MappedReg' = MapOf(registry')
      /\ Array(registry) /\ UpdatesInside /\ DOMAIN upd = RegThreads
  BY MappedNow, MappedNext DEF RegInv, RegistrySafe, RegTypeOK
<1>2. e.name \in DOMAIN MappedReg /\ MappedReg[e.name] = Cell(registry[i])
  <2>1. DOMAIN MapOf(registry) = NamesOf(registry) /\ MapOf(registry)[registry[i].name] = Cell(registry[i])
    BY <1>1, MapHolds
  <2>2. registry[i].name \in NamesOf(registry)
    BY DEF NamesOf
  <2> QED BY <1>1, <2>1, <2>2
<1>3. MappedReg' = [MappedReg EXCEPT ![e.name] = Cell(e)]
  BY <1>0, <1>1, MapStore
<1>4. \A k \in Places(registry) : registry'[k].name = registry[k].name
  BY <1>0, <1>1, StoreKeeps
<1>5. ASSUME NEW s \in RegThreads
      PROVE  MappedOp(s)' = IF s = t THEN OpOf(u, e.name) ELSE MappedOp(s)
  <2>1. CASE s # t
    <3>1. upd'[s] = upd[s]
      BY <1>0, <1>1, <2>1
    <3>2. upd[s] # Idle => registry'[upd[s].idx].name = registry[upd[s].idx].name
      BY <1>1, <1>4 DEF UpdatesInside
    <3> QED BY <2>1, <3>1, <3>2 DEF MappedOp
  <2>2. CASE s = t
    <3>1. upd'[s] = u
      BY <1>0, <1>1, <2>2
    <3>2. CASE u = Idle
      BY <2>2, <3>1, <3>2 DEF MappedOp, Idle, Map!Idle, OpOf
    <3>3. CASE u # Idle
      <4>1. u.idx = i /\ registry'[i].name = e.name
        BY <1>4, <3>3
      <4> QED BY <2>2, <3>1, <3>3, <4>1 DEF MappedOp, OpOf
    <3> QED BY <3>2, <3>3
  <2> QED BY <2>1, <2>2
<1>6. MappedOps' = [MappedOps EXCEPT ![t] = OpOf(u, e.name)]
  BY <1>5 DEF MappedOps
<1> QED BY <1>0, <1>2, <1>3, <1>6 DEF MapStores

LEMMA UpdateSimulates ==
  ASSUME RegInv, RegInv', NEW t \in RegThreads
  PROVE  /\ \A n \in Names : HeartbeatTime(t, n) => Map!BeatBegin(t, n)
         /\ HeartbeatStatus(t) => Map!BeatEnd(t)
         /\ \A n \in Names : \A s \in {"crashed", "dead"} : UpdateStatus(t, n, s) => Map!StatusBegin(t, n, s)
         /\ UpdateCrashTime(t) => Map!CrashTime(t)
         /\ UpdateRestartCount(t) => Map!CrashCount(t)
<1> DEFINE Kinds == {"beat", "time", "count"}
           Op(k, i) == [kind |-> k, idx |-> i]
<1>0. /\ Array(registry) /\ HashMatchesArray /\ UpdatesInside
      /\ upd \in [RegThreads -> {Idle} \cup [kind : Kinds, idx : Indices]]
      /\ \A i \in Places(registry) : registry[i] \in ServiceEntry
  BY DEF RegInv, RegistrySafe, RegTypeOK, Array, Places
<1>1. \A n \in Names : hash_find(n) # NotFound =>
        hash_find(n) \in Places(registry) /\ registry[hash_find(n)].name = n
  BY <1>0, FindNow, FindIs
<1>2. ASSUME upd[t].kind \in Kinds
      PROVE  /\ upd[t] # Idle /\ upd[t].idx \in Places(registry)
             /\ MappedOps[t] = [kind |-> upd[t].kind, name |-> registry[upd[t].idx].name]
  BY <1>0, <1>2 DEF UpdatesInside, Idle, MappedOps, MappedOp
\* The operation of the map that an update under way at index i stands for.
<1>3. ASSUME NEW k \in Kinds, NEW i, NEW n
      PROVE  /\ Op(k, i) \in {Idle} \cup [kind : Kinds, idx : {i}]
             /\ OpOf(Op(k, i), n) = [kind |-> k, name |-> n]
  BY DEF OpOf, Idle
<1>3a. \A n : OpOf(Idle, n) = Map!Idle
  BY DEF OpOf
<1>4. ASSUME NEW n \in Names, HeartbeatTime(t, n)
      PROVE  Map!BeatBegin(t, n)
  <2> DEFINE i == hash_find(n)
             e == [registry[i] EXCEPT !.beat = 0]
  <2>1. upd[t] = Idle /\ i \in Places(registry) /\ registry[i].name = n /\ Stores(i, e, t, Op("beat", i))
    BY <1>1, <1>4 DEF HeartbeatTime, Enter, Stores
  <2>2. e \in ServiceEntry /\ e.name = n
    BY <1>0, <2>1, RegistryAssumption DEF ServiceEntry, Ages
  <2>3. Cell(e) = [Cell(registry[i]) EXCEPT !.beat = 0]
    BY <1>0, <2>1, CellStore
  <2> HIDE DEF e, i, Op
  <2>4. MappedReg[n] = Cell(registry[i]) /\ MapStores(n, Cell(e), t, [kind |-> "beat", name |-> n])
    BY <1>3, <2>1, <2>2, UpdateMaps
  <2> QED BY <2>1, <2>3, <2>4, MappedIdle DEF Map!BeatBegin, MapStores
<1>5. ASSUME HeartbeatStatus(t)
      PROVE  Map!BeatEnd(t)
  <2> DEFINE i == upd[t].idx
             e == [registry[i] EXCEPT !.status = "running"]
  <2>1. upd[t].kind = "beat" /\ i \in Places(registry) /\ Stores(i, e, t, Idle)
    BY <1>2, <1>5 DEF HeartbeatStatus, Leave, Stores
  <2>2. e \in ServiceEntry /\ e.name = registry[i].name
    BY <1>0, <2>1 DEF ServiceEntry, Status
  <2>3. Cell(e) = [Cell(registry[i]) EXCEPT !.status = "running"]
    BY <1>0, <2>1, CellStore
  <2>4. MappedOps[t].kind = "beat" /\ MappedOps[t].name = registry[i].name
    BY <1>2, <2>1
  <2> HIDE DEF e, i
  <2>5. MappedReg[e.name] = Cell(registry[i]) /\ MapStores(e.name, Cell(e), t, Map!Idle)
    BY <1>3a, <2>1, <2>2, UpdateMaps
  <2> QED BY <2>2, <2>3, <2>4, <2>5 DEF Map!BeatEnd, MapStores
<1>6. ASSUME NEW n \in Names, NEW s \in {"crashed", "dead"}, UpdateStatus(t, n, s)
      PROVE  Map!StatusBegin(t, n, s)
  <2> DEFINE i == hash_find(n)
             e == [registry[i] EXCEPT !.status = s]
             u == IF s = "crashed" THEN Op("time", i) ELSE Idle
  <2>1. upd[t] = Idle /\ i \in Places(registry) /\ registry[i].name = n /\ Stores(i, e, t, u)
    BY <1>1, <1>6 DEF UpdateStatus, Enter, Leave, Stores
  <2>2. e \in ServiceEntry /\ e.name = n
    BY <1>0, <2>1 DEF ServiceEntry, Status
  <2>3. Cell(e) = [Cell(registry[i]) EXCEPT !.status = s]
    BY <1>0, <2>1, CellStore
  <2> HIDE DEF Op
  <2>4. /\ u \in {Idle} \cup [kind : Kinds, idx : {i}]
        /\ OpOf(u, n) = IF s = "crashed" THEN [kind |-> "time", name |-> n] ELSE Map!Idle
    BY <1>3, <1>3a
  <2> HIDE DEF e, i, u
  <2>5. MappedReg[n] = Cell(registry[i]) /\ MapStores(n, Cell(e), t, OpOf(u, n))
    BY <2>1, <2>2, <2>4, UpdateMaps
  <2> QED BY <2>1, <2>3, <2>4, <2>5, MappedIdle DEF Map!StatusBegin, MapStores
<1>7. ASSUME UpdateCrashTime(t)
      PROVE  Map!CrashTime(t)
  <2> DEFINE i == upd[t].idx
             e == [registry[i] EXCEPT !.crash = 0]
  <2>1. upd[t].kind = "time" /\ i \in Places(registry) /\ Stores(i, e, t, Op("count", i))
    BY <1>2, <1>7 DEF UpdateCrashTime, Enter, Stores
  <2>2. e \in ServiceEntry /\ e.name = registry[i].name
    BY <1>0, <2>1, RegistryAssumption DEF ServiceEntry, Ages
  <2>3. Cell(e) = [Cell(registry[i]) EXCEPT !.crash = 0]
    BY <1>0, <2>1, CellStore
  <2>4. MappedOps[t] = [kind |-> "time", name |-> registry[i].name]
    BY <1>2, <2>1
  <2> HIDE DEF e, i, Op
  <2>5. MappedReg[e.name] = Cell(registry[i]) /\ MapStores(e.name, Cell(e), t, [kind |-> "count", name |-> e.name])
    BY <1>3, <2>1, <2>2, UpdateMaps
  <2> DEFINE o == [MappedOps[t] EXCEPT !.kind = "count"]
  <2>6. o \in [kind : {"count"}, name : {registry[i].name}]
    BY <2>4
  <2> HIDE DEF o
  <2>7. o = [kind |-> "count", name |-> e.name]
    BY <2>2, <2>6
  <2>8. MappedOps' = [MappedOps EXCEPT ![t] = [MappedOps[t] EXCEPT !.kind = "count"]]
    BY <2>5, <2>7 DEF o, MapStores
  <2>9. MappedOps[t].kind = "time" /\ MappedOps[t].name = registry[i].name
    BY <2>4
  <2>10. MappedReg' = [MappedReg EXCEPT ![MappedOps[t].name].crash = 0] /\ live' = live
    BY <2>2, <2>3, <2>5, <2>9 DEF MapStores
  <2> QED BY <2>8, <2>9, <2>10 DEF Map!CrashTime
<1>8. ASSUME UpdateRestartCount(t)
      PROVE  Map!CrashCount(t)
  <2> DEFINE i == upd[t].idx
             v == IF registry[i].restarts < RestartCap THEN registry[i].restarts + 1 ELSE registry[i].restarts
             e == [registry[i] EXCEPT !.restarts = v]
  <2>1. upd[t].kind = "count" /\ i \in Places(registry) /\ Stores(i, e, t, Idle)
    BY <1>2, <1>8 DEF UpdateRestartCount, Leave, Stores
  <2>2. e \in ServiceEntry /\ e.name = registry[i].name
    BY <1>0, <2>1, RegistryAssumption DEF ServiceEntry
  <2>3. MappedOps[t].kind = "count" /\ MappedOps[t].name = registry[i].name
    BY <1>2, <2>1
  <2>4. v = Map!Counted(Cell(registry[i]).restarts)
    BY DEF Map!Counted, Cell
  <2> HIDE DEF v
  <2>5. Cell(e) = [Cell(registry[i]) EXCEPT !.restarts = v]
    BY <1>0, <2>1, CellStore
  <2> HIDE DEF e, i
  <2>6. MappedReg[e.name] = Cell(registry[i]) /\ MapStores(e.name, Cell(e), t, Map!Idle)
    BY <1>3a, <2>1, <2>2, UpdateMaps
  <2> QED BY <2>2, <2>3, <2>4, <2>5, <2>6 DEF Map!CrashCount, MapStores
<1> QED BY <1>4, <1>5, <1>6, <1>7, <1>8

\* A step of the stored registry is a step of the map, or leaves it alone.
LEMMA RegistryStep ==
  ASSUME RegInv, RegInv', [RegNext]_regVars
  PROVE  [Map!MapNext]_(Map!mapVars)
<1>1. ASSUME NEW n \in Names, NEW p \in Pids, AddNew(n, p) \/ AddReplacing(n, p)
      PROVE  Map!MapNext
  BY <1>1, AddNewSimulates, AddReplacingSimulates DEF Map!MapNext
<1>2. ASSUME NEW n \in Names, NEW p \in Pids, sm_registry_remove_if_owner(n, p)
      PROVE  Map!MapNext
  <2>1. Map!RemoveIfOwner(n, p)
    BY <1>2, RemoveSimulates DEF sm_registry_remove_if_owner, Map!RemoveIfOwner
  <2> QED BY <2>1 DEF Map!MapNext
<1>3. ASSUME NEW n \in Names, sm_registry_remove(n)
      PROVE  Map!MapNext
  <2>1. Map!Remove(n)
    BY <1>3, RemoveSimulates DEF sm_registry_remove
  <2> QED BY <2>1 DEF Map!MapNext
<1>4. ASSUME sm_registry_cleanup
      PROVE  Map!MapNext
  <2>1. registry' = <<>> /\ UNCHANGED <<live, upd>> /\ Unread
    BY <1>4 DEF sm_registry_cleanup
  <2>2. MappedReg' = MapOf(<<>>)
    BY <2>1, MappedNext
  <2>3. NamesOf(<<>>) = {}
    BY DEF NamesOf, Places
  <2>4. MapOf(<<>>) = [n \in {} |-> MappedReg[n]]
    BY <2>3 DEF MapOf
  <2>5. MappedOps' = MappedOps /\ Map!Unread
    BY <2>1, MappedIdle, MappedOpsStay DEF Unread
  <2> QED BY <2>1, <2>2, <2>4, <2>5 DEF Map!MapNext, Map!Clear
<1>5. ASSUME NEW t \in RegThreads,
             \/ \E n \in Names : HeartbeatTime(t, n)
             \/ HeartbeatStatus(t)
             \/ \E n \in Names, s \in {"crashed", "dead"} : UpdateStatus(t, n, s)
             \/ UpdateCrashTime(t)
             \/ UpdateRestartCount(t)
      PROVE  Map!MapNext
  BY <1>5, UpdateSimulates DEF Map!MapNext
<1>6. ASSUME TimePasses
      PROVE  Map!MapNext
  <2>1. Array(registry) /\ MappedReg = MapOf(registry) /\ MappedReg' = MapOf(registry')
    BY MappedNow, MappedNext DEF RegInv
  <2>2. MapOf(registry') = [n \in NamesOf(registry) |->
                              [MapOf(registry)[n] EXCEPT !.beat = Older(@), !.crash = Older(@)]]
    BY <1>6, <2>1, MapAged DEF TimePasses
  <2>3. DOMAIN MappedReg = NamesOf(registry)
    BY <2>1, MapHolds
  <2>4. \A a : Older(a) = Map!Older(a)
    BY SMTT(30) DEF Older, Map!Older
  <2>5. MappedReg' = [n \in DOMAIN MappedReg |->
                        [MappedReg[n] EXCEPT !.beat = Map!Older(@), !.crash = Map!Older(@)]]
    BY <2>1, <2>2, <2>3, <2>4
  <2>6. MappedOps' = MappedOps
    <3>1. \A i \in Places(registry) : registry'[i].name = registry[i].name
      BY <1>6, <2>1, AgedArray DEF TimePasses
    <3> QED BY <1>6, <3>1, MappedOpsStay DEF TimePasses, RegInv, UpdatesInside
  <2> QED BY <1>6, <2>5, <2>6 DEF Map!MapNext, Map!Tick, TimePasses
<1>7. ASSUME registry' = registry, upd' = upd
      PROVE  MappedReg' = MappedReg /\ MappedOps' = MappedOps
  BY <1>7, MappedNow, MappedNext, MappedOpsStay
<1>8. ASSUME NEW p \in Pids, ProcessExits(p)
      PROVE  Map!MapNext
  <2>1. Map!Exit(p)
    BY <1>7, <1>8 DEF ProcessExits, Map!Exit
  <2> QED BY <2>1 DEF Map!MapNext
<1>9. ASSUME NEW p \in Pids, ProcessStarts(p)
      PROVE  Map!MapNext
  <2>1. Map!Start(p)
    BY <1>7, <1>9 DEF ProcessStarts, Map!Start
  <2> QED BY <2>1 DEF Map!MapNext
<1>10. CASE UNCHANGED regVars
  BY <1>7, <1>10 DEF regVars, Map!mapVars
<1>11. CASE RegNext
  <2>1. Map!MapNext
    BY <1>1, <1>2, <1>3, <1>4, <1>5, <1>6, <1>8, <1>9, <1>11 DEF RegNext
  <2> QED BY <2>1
<1> QED BY <1>10, <1>11

\* The array and the hash table of sm_registry.c implement the map: every
\* add, removal and update, from any number of threads, is the map's, so the
\* stores of sm_registry_update_status land in the entry it looked up.
THEOREM RegistryImplementsMap == RegSpec => ImplementsMap
<1>1. RegInit => RegInv
  BY RegInitInv
<1>2. RegInv /\ [RegNext]_regVars => RegInv'
  BY RegInductive
<1>3. RegInit => Map!MapInit
  <2> SUFFICES ASSUME RegInit PROVE Map!MapInit
    OBVIOUS
  <2>1. RegInv /\ registry = <<>> /\ live \in SUBSET Pids /\ \A t \in RegThreads : upd[t] = Idle
    BY RegInitInv DEF RegInit
  <2>2. MappedReg = MapOf(<<>>)
    BY <2>1, MappedNow
  <2>3. NamesOf(<<>>) = {}
    BY DEF NamesOf, Places
  <2>4. MappedReg = [n \in {} |-> Map!FreshEntry(CHOOSE p \in Pids : TRUE)]
    BY <2>2, <2>3 DEF MapOf
  <2>5. MappedOps = [t \in RegThreads |-> Map!Idle]
    BY <2>1 DEF MappedOps, MappedOp, Idle, Map!Idle
  <2> QED BY <2>1, <2>4, <2>5 DEF Map!MapInit
<1>4. RegInv /\ RegInv' /\ [RegNext]_regVars => [Map!MapNext]_(Map!mapVars)
  BY RegistryStep
<1> QED BY <1>1, <1>2, <1>3, <1>4, PTL DEF RegSpec, ImplementsMap, Map!MapSpec
=============================================================================

----------------------------- MODULE HalProofs -----------------------------
(***************************************************************************)
(* Proofs about the HAL.  The device registry, for every size of the       *)
(* table, every hash function and every number of devices and threads:     *)
(* lookups are complete, reference counts are exact, and no device is used *)
(* after it was freed.  The layers: any positions and orders of a sensor's *)
(* channels, any number of buffers and formats of a camera, any rates and  *)
(* buffer sizes of a PCM stream, and a pin of the GPIO interface.          *)
(***************************************************************************)
EXTENDS MCHal, TLAPS, FiniteSetTheorems, WellFoundedInduction

(***************************************************************************)
(* The device registry.                                                    *)
(***************************************************************************)
\* A probe stays inside the table.
LEMMA SlotInTable ==
    ASSUME NEW n \in Names, NEW k \in Slots
    PROVE  Slot(n, k) \in Slots
  <1>1. Hash[n] \in Nat /\ Size \in Nat \ {0} /\ k \in Nat
    BY RegistryAssumption DEF Slots
  <1>2. (Hash[n] + k) % Size \in 0 .. Size - 1
    BY <1>1
  <1> QED
    BY <1>2 DEF Slot, Slots

\* The loop that looks for the first of some probes finds one of them.
LEMMA FirstIsMember ==
    ASSUME NEW K \in SUBSET Slots, K # {}
    PROVE  First(K) \in K
  <1>1. K \subseteq Nat
    BY RegistryAssumption DEF Slots
  <1>2. IsWellFoundedOn(OpToRel(<, Nat), Nat)
    BY NatLessThanWellFounded
  <1>3. PICK k \in K : \A j \in K : ~ (<<j, k>> \in OpToRel(<, Nat))
    BY <1>1, <1>2, WFMin
  <1>4. \A i, j \in Nat : i < j => <<i, j>> \in OpToRel(<, Nat)
    BY Zenon DEF OpToRel
  <1>5. \A j \in K : ~ (j < k)
    BY <1>1, <1>3, <1>4, Zenon
  <1>6. \A j \in K : k =< j
    BY <1>1, <1>5
  <1> QED
    BY <1>6 DEF First

TableType == table \in [Slots -> Devices \cup {Empty, Tombstone}]

\* A lookup of the name of device x meets slot i.
Met(i, x) == \E k \in Matches(DevName[x]) : Slot(DevName[x], k) = i

\* The inductive invariant: the table has its type, every device is met
\* where it is, and a name has one slot.
AllMet   == \A i \in Slots, x \in Devices : table[i] = x => Met(i, x)
OneSlot  == \A i, j \in Slots, x, y \in Devices :
               table[i] = x /\ table[j] = y /\ DevName[x] = DevName[y] => i = j
TableInv == TableType /\ AllMet /\ OneSlot

\* A slot that is given something other than Empty cuts no probe sequence
\* off: a device in another slot is still met.
LEMMA OthersStillMet ==
    ASSUME TableInv, NEW s \in Slots, NEW v \in Devices \cup {Tombstone},
           table' = [table EXCEPT ![s] = v],
           NEW i \in Slots, i # s, NEW x \in Devices, table[i] = x
    PROVE  Met(i, x)'
  <1> DEFINE n == DevName[x]
  <1>1. n \in Names
    BY RegistryAssumption
  <1>2. table'[i] = x
    BY DEF TableInv, TableType
  <1>3. PICK k \in Matches(n) : Slot(n, k) = i
    BY DEF TableInv, AllMet, Met
  <1>4. k \in Slots /\ \A j \in 0 .. k - 1 : j \in Slots /\ table[Slot(n, j)] # Empty
    BY <1>3, RegistryAssumption DEF Matches, Probes, Slots
  <1>5. ASSUME NEW j \in 0 .. k - 1
        PROVE  table'[Slot(n, j)] # Empty
    <2>1. Slot(n, j) \in Slots
      BY <1>1, <1>4, SlotInTable
    <2> QED
      BY <1>4, <2>1, RegistryAssumption DEF TableInv, TableType
  <1>6. k \in Matches(n)'
    BY <1>2, <1>3, <1>4, <1>5 DEF Matches, Probes, Slot
  <1> QED
    BY <1>3, <1>6 DEF Met, Slot

\* hal_device_register keeps lookups complete: it enters a name only after
\* its probes have met no device of that name, in a slot they passed.
LEMMA RegisterKeeps ==
    ASSUME TableInv, NEW t \in Threads, NEW d \in Devices, Register(t, d)
    PROVE  TableInv'
  <1> DEFINE n == DevName[d]
  <1>1. /\ n \in Names /\ Matches(n) = {} /\ Ends(n) # {}
        /\ table' = [table EXCEPT ![Slot(n, First(Usable(n)))] = d]
    BY RegistryAssumption DEF Register
  <1>2. Ends(n) \subseteq Usable(n) /\ Usable(n) \subseteq Probes(n) /\ Probes(n) \subseteq Slots
    BY DEF Ends, Usable, Probes
  <1>3. PICK k \in Usable(n) : k = First(Usable(n))
    BY <1>1, <1>2, FirstIsMember
  <1> DEFINE s == Slot(n, k)
  <1>4. k \in Slots /\ s \in Slots
    BY <1>1, <1>2, <1>3, SlotInTable
  <1>5. /\ table' = [table EXCEPT ![s] = d]
        /\ table'[s] = d /\ \A i \in Slots : i # s => table'[i] = table[i]
    BY <1>1, <1>3, <1>4 DEF TableInv, TableType
  <1>6. TableType'
    BY <1>4, <1>5 DEF TableInv, TableType
  <1>7. \A i \in Slots, x \in Devices : table[i] = x => DevName[x] # n
    BY <1>1 DEF TableInv, AllMet, Met
  <1>8. Met(s, d)'
    <2>1. ASSUME NEW j \in 0 .. k - 1
          PROVE  table'[Slot(n, j)] # Empty
      <3>1. j \in Slots /\ table[Slot(n, j)] # Empty
        BY <1>2, <1>3, <1>4, RegistryAssumption DEF Probes, Slots
      <3>2. Slot(n, j) \in Slots
        BY <1>1, <3>1, SlotInTable
      <3> QED
        BY <1>5, <3>1, <3>2, RegistryAssumption
    <2>2. k \in Matches(n)'
      BY <1>4, <1>5, <2>1 DEF Matches, Probes, Slot
    <2> QED
      BY <2>2 DEF Met, Slot
  <1>9. AllMet'
    <2> SUFFICES ASSUME NEW i \in Slots, NEW x \in Devices, table'[i] = x
                 PROVE  Met(i, x)'
      BY DEF AllMet, Slots
    <2>1. CASE i = s
      BY <1>5, <1>8, <2>1
    <2>2. CASE i # s
      BY <1>4, <1>5, <2>2, OthersStillMet
    <2> QED
      BY <2>1, <2>2
  <1>10. OneSlot'
    BY <1>5, <1>7 DEF TableInv, OneSlot, Slots
  <1> QED
    BY <1>6, <1>9, <1>10 DEF TableInv

\* hal_device_unregister keeps lookups complete, because it leaves a
\* tombstone.
LEMMA UnregisterKeeps ==
    ASSUME TableInv, NEW t \in Threads, NEW d \in Devices, Unregister(t, d)
    PROVE  TableInv'
  <1> DEFINE n == DevName[d]
             K == {k \in Probes(n) : table[Slot(n, k)] = d}
             s == Slot(n, First(K))
  <1>1. n \in Names /\ K # {} /\ table' = [table EXCEPT ![s] = Tombstone]
    BY RegistryAssumption DEF Unregister
  <1>2. First(K) \in K
    BY <1>1, FirstIsMember DEF Probes
  <1>3. s \in Slots
    BY <1>1, <1>2, SlotInTable DEF Probes
  <1>4. table'[s] = Tombstone /\ \A i \in Slots : i # s => table'[i] = table[i]
    BY <1>1, <1>3 DEF TableInv, TableType
  <1>5. TableType'
    BY <1>1, <1>3 DEF TableInv, TableType
  <1>6. AllMet'
    <2> SUFFICES ASSUME NEW i \in Slots, NEW x \in Devices, table'[i] = x
                 PROVE  Met(i, x)'
      BY DEF AllMet, Slots
    <2>1. i # s /\ table[i] = x
      BY <1>4, RegistryAssumption
    <2> QED
      BY <1>1, <1>3, <2>1, OthersStillMet
  <1>7. OneSlot'
    BY <1>4, RegistryAssumption DEF TableInv, OneSlot, Slots
  <1> QED
    BY <1>5, <1>6, <1>7 DEF TableInv

\* Every step keeps lookups complete; only two operations touch the table.
LEMMA NextKeeps == TableInv /\ [Next]_vars => TableInv'
  <1> SUFFICES ASSUME TableInv, [Next]_vars
               PROVE  TableInv'
    OBVIOUS
  <1>1. CASE table' = table
    BY <1>1 DEF TableInv, TableType, AllMet, OneSlot, Met, Matches, Probes, Slot, Slots
  <1>2. CASE \E t \in Threads, d \in Devices : Register(t, d)
    BY <1>2, RegisterKeeps
  <1>3. CASE \E t \in Threads, d \in Devices : Unregister(t, d)
    BY <1>3, UnregisterKeeps
  <1>4. \/ table' = table
        \/ \E t \in Threads, d \in Devices : Register(t, d)
        \/ \E t \in Threads, d \in Devices : Unregister(t, d)
    <2>1. CASE Next
      BY <2>1 DEF Next, Create, Ref, Unref, Operate, Open, Close, Start, Stop, Find, List,
                  IterateBegin, IterateEnd, UnrefRegistry, TeardownStop, TeardownClose, TeardownFree
    <2>2. CASE UNCHANGED vars
      BY <2>2 DEF vars
    <2> QED
      BY SMTT(30), <2>1, <2>2
  <1> QED
    BY <1>1, <1>2, <1>3, <1>4

\* hal_device_find meets every registered device, however long devices have
\* been registered and unregistered around it, for every table size and
\* every hash function.
THEOREM HalFindComplete == Spec => []FindIsComplete
  <1>1. Init => TableInv
    BY RegistryAssumption DEF Init, TableInv, TableType, AllMet, OneSlot
  <1>2. TableInv => FindIsComplete
    BY DEF TableInv, AllMet, OneSlot, Met, FindIsComplete
  <1> QED
    BY <1>1, <1>2, NextKeeps, PTL DEF Spec

-----------------------------------------------------------------------------
(***************************************************************************)
(* Reference counts and the life of a device.  The invariant is about one  *)
(* device at a time: what there is of references to it, and who tears it   *)
(* down.                                                                   *)
(***************************************************************************)
Freeing(d) == {t \in Threads : call[t] = In("free", d)}

Finite(d) == IsFiniteSet(SlotsOf(d)) /\ IsFiniteSet(HeldRefs(d)) /\ IsFiniteSet(Unreffing(d))

Total(d) == Cardinality(SlotsOf(d)) + Cardinality(HeldRefs(d)) + Cardinality(Unreffing(d))

Unreachable(d) == SlotsOf(d) = {} /\ Unreffing(d) = {} /\ \A t \in Threads : holds[t][d] = 0

\* A device is torn down by one thread, while it is allocated and nobody can
\* reach it, and it is closed before it is freed.
LifeInv(d) ==
    /\ \A s, t \in Tearing(d) : s = t
    /\ Tearing(d) # {} => life[d] = "live"
    /\ Tearing(d) # {} \/ life[d] # "live" => Unreachable(d)
    /\ Freeing(d) # {} \/ life[d] = "freed" => state[d] = "closed"

DevInv(d) == Finite(d) /\ refs[d] = Total(d) /\ LifeInv(d)

CountInv == IsFiniteSet(UsedSlots) /\ count = Cardinality(UsedSlots)

HalInv == TypeOK /\ CountInv /\ \A d \in Devices : DevInv(d)

LEMMA SlotsFinite == IsFiniteSet(Slots)
  BY FS_Interval, RegistryAssumption DEF Slots

\* The references threads hold: one more, one less.
LEMMA HeldPairs ==
    ASSUME NEW d \in Devices, NEW x
    PROVE  x \in HeldRefs(d) <=> \E t \in Threads : \E k \in 1 .. holds[t][d] : x = <<t, k>>
  BY DEF HeldRefs

HoldsBecomes(t, d, k) == holds'[t][d] = k /\ \A s \in Threads \ {t} : holds'[s][d] = holds[s][d]

LEMMA HeldMore ==
    ASSUME TypeOK, NEW t \in Threads, NEW d \in Devices, IsFiniteSet(HeldRefs(d)),
           HoldsBecomes(t, d, holds[t][d] + 1)
    PROVE  /\ IsFiniteSet(HeldRefs(d)') /\ Cardinality(HeldRefs(d)') = Cardinality(HeldRefs(d)) + 1
           /\ Cardinality(HeldRefs(d)) \in Nat
  <1> DEFINE new == <<t, holds[t][d] + 1>>
  <1>1. \A s \in Threads : holds[s][d] \in Nat
    BY DEF TypeOK
  <1>2. new \notin HeldRefs(d)
    BY <1>1, HeldPairs
  <1>3. HeldRefs(d)' = HeldRefs(d) \cup {new}
    <2>1. ASSUME NEW x PROVE x \in HeldRefs(d)' <=> \E s \in Threads : \E k \in 1 .. holds'[s][d] : x = <<s, k>>
      BY DEF HeldRefs
    <2>2. 1 .. holds'[t][d] = (1 .. holds[t][d]) \cup {holds[t][d] + 1}
      BY <1>1 DEF HoldsBecomes
    <2>3. ASSUME NEW x \in HeldRefs(d)' PROVE x \in HeldRefs(d) \cup {new}
      <3>1. PICK s \in Threads : \E k \in 1 .. holds'[s][d] : x = <<s, k>>
        BY <2>1
      <3>2. CASE s = t
        BY <3>1, <3>2, <2>2, HeldPairs
      <3>3. CASE s # t
        BY <3>1, <3>3, HeldPairs DEF HoldsBecomes
      <3> QED BY <3>2, <3>3
    <2>4. ASSUME NEW x \in HeldRefs(d) \cup {new} PROVE x \in HeldRefs(d)'
      <3>1. CASE x = new
        BY <3>1, <2>1, <2>2
      <3>2. CASE x \in HeldRefs(d)
        <4>1. PICK s \in Threads : \E k \in 1 .. holds[s][d] : x = <<s, k>>
          BY <3>2, HeldPairs
        <4>2. CASE s = t
          BY <4>1, <4>2, <2>1, <2>2
        <4>3. CASE s # t
          BY <4>1, <4>3, <2>1 DEF HoldsBecomes
        <4> QED BY <4>2, <4>3
      <3> QED BY <3>1, <3>2
    <2> QED BY <2>3, <2>4
  <1> QED BY <1>2, <1>3, FS_AddElement, FS_CardinalityType

LEMMA HeldLess ==
    ASSUME TypeOK, NEW t \in Threads, NEW d \in Devices, IsFiniteSet(HeldRefs(d)),
           holds[t][d] > 0, HoldsBecomes(t, d, holds[t][d] - 1)
    PROVE  /\ IsFiniteSet(HeldRefs(d)') /\ Cardinality(HeldRefs(d)') = Cardinality(HeldRefs(d)) - 1
           /\ Cardinality(HeldRefs(d)') \in Nat
  <1> DEFINE old == <<t, holds[t][d]>>
  <1>1. \A s \in Threads : holds[s][d] \in Nat
    BY DEF TypeOK
  <1>2. old \in HeldRefs(d)
    BY <1>1, HeldPairs
  <1>3. HeldRefs(d)' = HeldRefs(d) \ {old}
    <2>1. ASSUME NEW x PROVE x \in HeldRefs(d)' <=> \E s \in Threads : \E k \in 1 .. holds'[s][d] : x = <<s, k>>
      BY DEF HeldRefs
    <2>2. 1 .. holds'[t][d] = (1 .. holds[t][d]) \ {holds[t][d]}
      BY <1>1 DEF HoldsBecomes
    <2>3. ASSUME NEW x \in HeldRefs(d)' PROVE x \in HeldRefs(d) \ {old}
      <3>1. PICK s \in Threads : \E k \in 1 .. holds'[s][d] : x = <<s, k>>
        BY <2>1
      <3>2. CASE s = t
        BY <3>1, <3>2, <2>2, HeldPairs
      <3>3. CASE s # t
        BY <3>1, <3>3, HeldPairs DEF HoldsBecomes
      <3> QED BY <3>2, <3>3
    <2>4. ASSUME NEW x \in HeldRefs(d) \ {old} PROVE x \in HeldRefs(d)'
      <3>1. PICK s \in Threads : \E k \in 1 .. holds[s][d] : x = <<s, k>>
        BY <2>4, HeldPairs
      <3>2. CASE s = t
        BY <3>1, <3>2, <2>1, <2>2, <2>4
      <3>3. CASE s # t
        BY <3>1, <3>3, <2>1 DEF HoldsBecomes
      <3> QED BY <3>2, <3>3
    <2> QED BY <2>3, <2>4
  <1> QED BY <1>2, <1>3, FS_RemoveElement, FS_CardinalityType

LEMMA HeldNone ==
    ASSUME TypeOK, NEW d \in Devices
    PROVE  HeldRefs(d) = {} <=> \A t \in Threads : holds[t][d] = 0
  <1>1. \A s \in Threads : holds[s][d] \in Nat
    BY DEF TypeOK
  <1>2. ASSUME NEW t \in Threads, holds[t][d] # 0 PROVE HeldRefs(d) # {}
    <2>1. <<t, 1>> \in HeldRefs(d)
      BY <1>1, <1>2, HeldPairs
    <2> QED BY <2>1
  <1>3. ASSUME \A t \in Threads : holds[t][d] = 0 PROVE HeldRefs(d) = {}
    BY <1>3, HeldPairs
  <1> QED BY <1>2, <1>3

\* A thread goes on to another step of its call.
CallBecomes(t, c) == call' = [call EXCEPT ![t] = c]

LEMMA CallSets ==
    ASSUME TypeOK, NEW t \in Threads, NEW c, CallBecomes(t, c), NEW d \in Devices
    PROVE  /\ Unreffing(d)' = IF c = In("unref", d) THEN Unreffing(d) \cup {t} ELSE Unreffing(d) \ {t}
           /\ Freeing(d)' = IF c = In("free", d) THEN Freeing(d) \cup {t} ELSE Freeing(d) \ {t}
           /\ Tearing(d)' = IF c \in [step : {"stop", "close", "free"}, dev : {d}]
                            THEN Tearing(d) \cup {t} ELSE Tearing(d) \ {t}
  <1>1. \A s \in Threads : call'[s] = IF s = t THEN c ELSE call[s]
    BY DEF TypeOK, CallBecomes
  <1>2. Unreffing(d)' = IF c = In("unref", d) THEN Unreffing(d) \cup {t} ELSE Unreffing(d) \ {t}
    BY <1>1 DEF Unreffing, In
  <1>3. Freeing(d)' = IF c = In("free", d) THEN Freeing(d) \cup {t} ELSE Freeing(d) \ {t}
    BY <1>1 DEF Freeing, In
  <1> DEFINE T == [step : {"stop", "close", "free"}, dev : {d}]
  <1>4. Tearing(d)' = {s \in Threads : call'[s] \in T} /\ Tearing(d) = {s \in Threads : call[s] \in T}
    BY DEF Tearing
  <1> HIDE DEF T
  <1>5. Tearing(d)' = IF c \in T THEN Tearing(d) \cup {t} ELSE Tearing(d) \ {t}
    BY <1>1, <1>4
  <1> QED BY <1>2, <1>3, <1>5 DEF T

\* Which call is which.
LEMMA CallKinds ==
    ASSUME NEW d, NEW e, NEW s \in {"unref", "stop", "close", "free"}
    PROVE  /\ In(s, d) = In("unref", e) <=> s = "unref" /\ d = e
           /\ In(s, d) = In("free", e) <=> s = "free" /\ d = e
           /\ In(s, d) \in [step : {"stop", "close", "free"}, dev : {e}] <=> s # "unref" /\ d = e
           /\ In(s, d).step = s /\ In(s, d).dev = d
           /\ Idle # In("unref", e) /\ Idle # In("free", e)
           /\ Idle \notin [step : {"stop", "close", "free"}, dev : {e}]
           /\ [step |-> "iterate"] # In("unref", e) /\ [step |-> "iterate"] # In("free", e)
           /\ [step |-> "iterate"] \notin [step : {"stop", "close", "free"}, dev : {e}]
  <1>1. In(s, d).step = s /\ In(s, d).dev = d
    BY DEF In
  <1>2. In(s, d) = In("unref", e) <=> s = "unref" /\ d = e
    BY DEF In
  <1>3. In(s, d) = In("free", e) <=> s = "free" /\ d = e
    BY DEF In
  <1>4. In(s, d) \in [step : {"stop", "close", "free"}, dev : {e}] <=> s # "unref" /\ d = e
    BY DEF In
  <1>5. Idle.step = "idle" /\ [step |-> "iterate"].step = "iterate"
    BY DEF Idle
  <1>6. \A x \in [step : {"stop", "close", "free"}, dev : {e}] : x.step \in {"stop", "close", "free"}
    OBVIOUS
  <1>7. In("unref", e).step = "unref" /\ In("free", e).step = "free"
    BY DEF In
  <1>8. Idle # In("unref", e) /\ Idle # In("free", e) /\ [step |-> "iterate"] # In("unref", e) /\ [step |-> "iterate"] # In("free", e)
    BY <1>5, <1>7
  <1>9. Idle \notin [step : {"stop", "close", "free"}, dev : {e}]
    BY <1>5, <1>6
  <1>10. [step |-> "iterate"] \notin [step : {"stop", "close", "free"}, dev : {e}]
    BY <1>5, <1>6
  <1> QED BY <1>1, <1>2, <1>3, <1>4, <1>8, <1>9, <1>10

\* The call a thread is in, from its step.
LEMMA CallIs ==
    ASSUME TypeOK, NEW t \in Threads
    PROVE  /\ call[t].step \in {"unref", "stop", "close", "free"} =>
                call[t].dev \in Devices /\ call[t] = In(call[t].step, call[t].dev)
           /\ call[t].step = "iterate" => call[t] = [step |-> "iterate"]
  <1>1. \/ call[t] = Idle \/ call[t] = [step |-> "iterate"]
        \/ call[t] \in [step : {"unref", "stop", "close", "free"}, dev : Devices]
    BY DEF TypeOK
  <1>2. CASE call[t] = Idle
    BY <1>2 DEF Idle
  <1>3. CASE call[t] = [step |-> "iterate"]
    BY <1>3
  <1>4. CASE call[t] \in [step : {"unref", "stop", "close", "free"}, dev : Devices]
    BY <1>4 DEF In
  <1> QED BY <1>1, <1>2, <1>3, <1>4

\* A slot of the table is given a device, or a tombstone.
LEMMA SlotGiven ==
    ASSUME TypeOK, CountInv, NEW i \in Slots, table[i] \in {Empty, Tombstone}, NEW d \in Devices, Finite(d),
           table' = [table EXCEPT ![i] = d]
    PROVE  /\ IsFiniteSet(SlotsOf(d)') /\ Cardinality(SlotsOf(d)') = Cardinality(SlotsOf(d)) + 1
           /\ IsFiniteSet(UsedSlots') /\ Cardinality(UsedSlots') = Cardinality(UsedSlots) + 1
           /\ \A e \in Devices : e # d => SlotsOf(e)' = SlotsOf(e)
  <1>1. table \in [Slots -> Devices \cup {Empty, Tombstone}] /\ table[i] \notin Devices
    BY RegistryAssumption DEF TypeOK
  <1>2. SlotsOf(d)' = SlotsOf(d) \cup {i} /\ i \notin SlotsOf(d)
    BY <1>1 DEF SlotsOf, Slots
  <1>3. UsedSlots' = UsedSlots \cup {i} /\ i \notin UsedSlots
    BY <1>1 DEF UsedSlots, Slots
  <1>4. \A e \in Devices : e # d => SlotsOf(e)' = SlotsOf(e)
    BY <1>1 DEF SlotsOf, Slots
  <1> QED BY <1>2, <1>3, <1>4, FS_AddElement DEF Finite, CountInv

LEMMA SlotTaken ==
    ASSUME TypeOK, CountInv, NEW i \in Slots, NEW d \in Devices, table[i] = d, Finite(d),
           table' = [table EXCEPT ![i] = Tombstone]
    PROVE  /\ IsFiniteSet(SlotsOf(d)') /\ Cardinality(SlotsOf(d)') = Cardinality(SlotsOf(d)) - 1
           /\ IsFiniteSet(UsedSlots') /\ Cardinality(UsedSlots') = Cardinality(UsedSlots) - 1
           /\ Cardinality(UsedSlots') \in Nat
           /\ \A e \in Devices : e # d => SlotsOf(e)' = SlotsOf(e)
  <1>1. table \in [Slots -> Devices \cup {Empty, Tombstone}] /\ Tombstone \notin Devices
    BY RegistryAssumption DEF TypeOK
  <1>2. SlotsOf(d)' = SlotsOf(d) \ {i} /\ i \in SlotsOf(d)
    BY <1>1 DEF SlotsOf, Slots
  <1>3. UsedSlots' = UsedSlots \ {i} /\ i \in UsedSlots
    BY <1>1 DEF UsedSlots, Slots
  <1>4. \A e \in Devices : e # d => SlotsOf(e)' = SlotsOf(e)
    BY <1>1 DEF SlotsOf, Slots
  <1> QED BY <1>2, <1>3, <1>4, FS_RemoveElement, FS_CardinalityType DEF Finite, CountInv

\* A step that has nothing to do with a device keeps its part of the
\* invariant.
SameCalls(e) == Unreffing(e)' = Unreffing(e) /\ Tearing(e)' = Tearing(e) /\ Freeing(e)' = Freeing(e)

Same(e) ==
    /\ SlotsOf(e)' = SlotsOf(e) /\ SameCalls(e)
    /\ \A s \in Threads : holds'[s][e] = holds[s][e]
    /\ refs'[e] = refs[e] /\ life'[e] = life[e] /\ state'[e] = state[e]

LEMMA SameHeld ==
    ASSUME NEW e \in Devices, \A s \in Threads : holds'[s][e] = holds[s][e]
    PROVE  HeldRefs(e)' = HeldRefs(e)
  <1>1. \A x : x \in HeldRefs(e)' <=> \E t \in Threads : \E k \in 1 .. holds'[t][e] : x = <<t, k>>
    BY DEF HeldRefs
  <1> QED BY <1>1, HeldPairs

LEMMA Untouched ==
    ASSUME NEW e \in Devices, DevInv(e), Same(e)
    PROVE  DevInv(e)'
  <1>1. HeldRefs(e)' = HeldRefs(e)
    BY SameHeld DEF Same
  <1>2. Finite(e)' /\ (refs[e] = Total(e))'
    BY <1>1 DEF DevInv, Same, SameCalls, Finite, Total
  <1>3. LifeInv(e)'
    BY DEF DevInv, Same, SameCalls, LifeInv, Unreachable
  <1> QED BY <1>2, <1>3 DEF DevInv

LEMMA CallsKept ==
    ASSUME call' = call, NEW e
    PROVE  SameCalls(e)
  BY DEF SameCalls, Unreffing, Tearing, Freeing, In

LEMMA SlotsKept ==
    ASSUME table' = table
    PROVE  UsedSlots' = UsedSlots /\ \A e : SlotsOf(e)' = SlotsOf(e)
  BY DEF UsedSlots, SlotsOf, Slots

\* The calls that have nothing to do with device e.
NotOf(c, e) ==
    c # In("unref", e) /\ c # In("free", e) /\ c \notin [step : {"stop", "close", "free"}, dev : {e}]

LEMMA OtherCalls ==
    ASSUME TypeOK, NEW t \in Threads, NEW c, CallBecomes(t, c), NEW e \in Devices, NotOf(call[t], e), NotOf(c, e)
    PROVE  SameCalls(e)
  <1>1. t \notin Unreffing(e) /\ t \notin Freeing(e) /\ t \notin Tearing(e)
    BY DEF NotOf, Unreffing, Freeing, Tearing
  <1> QED BY <1>1, CallSets DEF NotOf, SameCalls

LEMMA NotOfOthers ==
    ASSUME NEW d, NEW e, d # e
    PROVE  /\ NotOf(Idle, e) /\ NotOf([step |-> "iterate"], e)
           /\ \A s \in {"unref", "stop", "close", "free"} : NotOf(In(s, d), e)
  BY CallKinds DEF NotOf

LEMMA NotOfAny ==
    ASSUME NEW e
    PROVE  NotOf(Idle, e) /\ NotOf([step |-> "iterate"], e)
  BY CallKinds DEF NotOf

LEMMA FreeingTears ==
    ASSUME NEW d
    PROVE  Freeing(d) \subseteq Tearing(d)
  BY CallKinds DEF Freeing, Tearing

\* A device somebody can reach is allocated and not torn down.
LEMMA Reached ==
    ASSUME NEW d \in Devices, DevInv(d), ~Unreachable(d)
    PROVE  Tearing(d) = {} /\ Freeing(d) = {} /\ life[d] = "live"
  BY FreeingTears DEF DevInv, LifeInv

LEMMA LiveDev ==
    ASSUME NEW d \in Devices, Tearing(d)' = {}, life'[d] = "live"
    PROVE  LifeInv(d)'
  <1>1. Freeing(d)' = {}
    <2>1. Freeing(d)' \subseteq Tearing(d)'
      BY CallKinds DEF Freeing, Tearing, In
    <2> QED BY <2>1
  <1> QED BY <1>1 DEF LifeInv

\* The type of the calls.
Calls == {Idle, [step |-> "iterate"]} \cup [step : {"unref", "stop", "close", "free"}, dev : Devices]

LEMMA InCalls ==
    /\ Idle \in Calls /\ [step |-> "iterate"] \in Calls
    /\ \A s \in {"unref", "stop", "close", "free"}, d \in Devices : In(s, d) \in Calls
  BY DEF Calls, In

LEMMA TypeIs ==
    TypeOK <=> /\ table \in [Slots -> Devices \cup {Empty, Tombstone}]
               /\ count \in Nat
               /\ refs \in [Devices -> Nat]
               /\ life \in [Devices -> {"none", "live", "freed"}]
               /\ state \in [Devices -> States]
               /\ holds \in [Threads -> [Devices -> Nat]]
               /\ call \in [Threads -> Calls]
  BY DEF TypeOK, Calls

LEMMA TypeNext ==
    ASSUME /\ table' \in [Slots -> Devices \cup {Empty, Tombstone}]
           /\ count' \in Nat
           /\ refs' \in [Devices -> Nat]
           /\ life' \in [Devices -> {"none", "live", "freed"}]
           /\ state' \in [Devices -> States]
           /\ holds' \in [Threads -> [Devices -> Nat]]
           /\ call' \in [Threads -> Calls]
    PROVE  TypeOK'
  BY DEF TypeOK, Calls, Slots, States, Idle

LEMMA CreateKeeps ==
    ASSUME HalInv, NEW t \in Threads, NEW d \in Devices, Create(t, d)
    PROVE  HalInv'
  <1>0. TypeOK /\ DevInv(d) /\ TypeOK'
    <2>1. TypeOK /\ DevInv(d)
      BY DEF HalInv
    <2>2. holds' \in [Threads -> [Devices -> Nat]]
      BY <2>1 DEF Create, TypeOK
    <2>3. /\ refs' \in [Devices -> Nat] /\ life' \in [Devices -> {"none", "live", "freed"}]
          /\ state' \in [Devices -> States]
      BY <2>1 DEF Create, TypeOK, States
    <2> QED BY <2>1, <2>2, <2>3, TypeIs, TypeNext DEF Create
  <1>1. Unreachable(d) /\ Tearing(d) = {} /\ Finite(d)
    BY <1>0 DEF Create, DevInv, LifeInv
  <1>2. HoldsBecomes(t, d, holds[t][d] + 1) /\ HeldRefs(d) = {}
    BY <1>0, <1>1, HeldNone DEF Create, TypeOK, Unreachable, HoldsBecomes
  <1>3. IsFiniteSet(HeldRefs(d)') /\ Cardinality(HeldRefs(d)') = 1
    BY <1>0, <1>1, <1>2, HeldMore, FS_EmptySet DEF Finite
  <1>4. /\ SlotsOf(d)' = {} /\ Unreffing(d)' = {} /\ Tearing(d)' = {}
        /\ UsedSlots' = UsedSlots /\ \A e \in Devices : SlotsOf(e)' = SlotsOf(e)
    BY <1>1, SlotsKept, CallsKept DEF Create, Unreachable, SameCalls
  <1>5. DevInv(d)'
    <2>1. refs'[d] = 1 /\ life'[d] = "live"
      BY <1>0 DEF Create, TypeOK
    <2>2. Finite(d)' /\ refs'[d] = Total(d)'
      BY <1>3, <1>4, <2>1, FS_EmptySet DEF Finite, Total
    <2> QED BY <1>4, <2>1, <2>2, LiveDev DEF DevInv
  <1>6. ASSUME NEW e \in Devices, e # d PROVE DevInv(e)'
    <2>1. Same(e)
      BY <1>0, <1>4, <1>6, CallsKept DEF Create, TypeOK, Same
    <2> QED BY <2>1, Untouched DEF HalInv
  <1>7. CountInv'
    BY <1>4 DEF HalInv, CountInv, Create
  <1> QED BY <1>0, <1>5, <1>6, <1>7 DEF HalInv

\* An owner, or a lookup in the registry, adds a reference to a device that
\* somebody can reach.
Taken(t, d) ==
    /\ refs'  = [refs EXCEPT ![d] = @ + 1]
    /\ holds' = [holds EXCEPT ![t][d] = @ + 1]
    /\ UNCHANGED <<table, count, life, state, call>>

LEMMA TakenKeeps ==
    ASSUME HalInv, NEW t \in Threads, NEW d \in Devices, ~Unreachable(d), Taken(t, d)
    PROVE  HalInv'
  <1>0. TypeOK /\ DevInv(d) /\ TypeOK'
    <2>1. TypeOK /\ DevInv(d)
      BY DEF HalInv
    <2>2. holds' \in [Threads -> [Devices -> Nat]] /\ refs' \in [Devices -> Nat]
      BY <2>1 DEF Taken, TypeOK
    <2> QED BY <2>1, <2>2, TypeIs, TypeNext DEF Taken
  <1>1. Tearing(d) = {} /\ life[d] = "live" /\ Finite(d) /\ refs[d] = Total(d)
    BY <1>0, Reached DEF DevInv
  <1>2. HoldsBecomes(t, d, holds[t][d] + 1)
    BY <1>0 DEF Taken, TypeOK, HoldsBecomes
  <1>3. /\ IsFiniteSet(HeldRefs(d)') /\ Cardinality(HeldRefs(d)') = Cardinality(HeldRefs(d)) + 1
        /\ Cardinality(HeldRefs(d)) \in Nat
    BY <1>0, <1>1, <1>2, HeldMore DEF Finite
  <1>4. /\ SlotsOf(d)' = SlotsOf(d) /\ Unreffing(d)' = Unreffing(d) /\ Tearing(d)' = {}
        /\ UsedSlots' = UsedSlots /\ \A e \in Devices : SlotsOf(e)' = SlotsOf(e)
    BY <1>1, SlotsKept, CallsKept DEF Taken, SameCalls
  <1>5. DevInv(d)'
    <2>1. refs'[d] = refs[d] + 1 /\ life'[d] = "live"
      BY <1>0, <1>1 DEF Taken, TypeOK
    <2>2. Finite(d)'
      BY <1>1, <1>3, <1>4 DEF Finite
    <2>3. refs'[d] = Total(d)'
      <3>1. Cardinality(SlotsOf(d)) \in Nat /\ Cardinality(Unreffing(d)) \in Nat
        BY <1>1, FS_CardinalityType DEF Finite
      <3> QED BY <1>1, <1>3, <1>4, <2>1, <3>1 DEF Total
    <2> QED BY <1>4, <2>1, <2>2, <2>3, LiveDev DEF DevInv
  <1>6. ASSUME NEW e \in Devices, e # d PROVE DevInv(e)'
    <2>1. Same(e)
      BY <1>0, <1>4, <1>6, CallsKept DEF Taken, TypeOK, Same
    <2> QED BY <2>1, Untouched DEF HalInv
  <1>7. CountInv'
    BY <1>4 DEF HalInv, CountInv, Taken
  <1> QED BY <1>0, <1>5, <1>6, <1>7 DEF HalInv

LEMMA RefKeeps ==
    ASSUME HalInv, NEW t \in Threads, NEW d \in Devices, Ref(t, d)
    PROVE  HalInv'
  <1>1. ~Unreachable(d)
    BY DEF Ref, Unreachable
  <1> QED BY <1>1, TakenKeeps DEF Ref, Taken

LEMMA FindKeeps ==
    ASSUME HalInv, NEW t \in Threads, NEW n \in Names, Find(t, n)
    PROVE  HalInv'
  <1> DEFINE d == table[Slot(n, First(Matches(n)))]
  <1>1. Matches(n) \subseteq Slots /\ Matches(n) # {}
    BY DEF Find, Matches, Probes
  <1>2. First(Matches(n)) \in Matches(n)
    BY <1>1, FirstIsMember
  <1>3. Slot(n, First(Matches(n))) \in Slots /\ d \in Devices
    BY <1>1, <1>2, SlotInTable DEF Matches
  <1>4. ~Unreachable(d)
    BY <1>3 DEF Unreachable, SlotsOf
  <1> QED BY <1>3, <1>4, TakenKeeps DEF Find, Taken

\* hal_device_list takes a reference to every device it lists.
LEMMA ListKeeps ==
    ASSUME HalInv, NEW t \in Threads, NEW max, List(t, max)
    PROVE  HalInv'
  <1> DEFINE L == Listed(max)
  <1>1. \A d \in Devices : d \in L => SlotsOf(d) # {}
    BY DEF Listed, SlotsOf
  <1>2. /\ refs' = [d \in Devices |-> refs[d] + IF d \in L THEN 1 ELSE 0]
        /\ holds' = [holds EXCEPT ![t] = [d \in Devices |-> holds[t][d] + IF d \in L THEN 1 ELSE 0]]
        /\ UNCHANGED <<table, count, life, state, call>>
    BY DEF List
  <1> HIDE DEF L
  <1>3. TypeOK /\ TypeOK'
    <2>1. TypeOK
      BY DEF HalInv
    <2>2. refs' \in [Devices -> Nat]
      BY <1>2, <2>1 DEF TypeOK
    <2>3. [d \in Devices |-> holds[t][d] + IF d \in L THEN 1 ELSE 0] \in [Devices -> Nat]
      BY <2>1 DEF TypeOK
    <2>4. holds' \in [Threads -> [Devices -> Nat]]
      BY <1>2, <2>1, <2>3 DEF TypeOK
    <2> QED BY <1>2, <2>1, <2>2, <2>4, TypeIs, TypeNext
  <1>4. /\ \A e \in Devices : SlotsOf(e)' = SlotsOf(e) /\ SameCalls(e)
        /\ UsedSlots' = UsedSlots
    BY <1>2, SlotsKept, CallsKept
  <1>5. ASSUME NEW d \in Devices PROVE DevInv(d)'
    <2>1. \A s \in Threads \ {t} : holds'[s][d] = holds[s][d]
      BY <1>2, <1>3 DEF TypeOK
    <2>2. holds'[t][d] = holds[t][d] + IF d \in L THEN 1 ELSE 0
      BY <1>2, <1>3 DEF TypeOK
    <2>3. refs'[d] = refs[d] + IF d \in L THEN 1 ELSE 0
      BY <1>2
    <2>4. DevInv(d) /\ Finite(d) /\ refs[d] = Total(d)
      BY DEF HalInv, DevInv
    <2>5. CASE d \notin L
      <3>1. Same(d)
        BY <1>2, <1>3, <1>4, <2>1, <2>2, <2>3, <2>5 DEF Same, TypeOK
      <3> QED BY <2>4, <3>1, Untouched
    <2>6. CASE d \in L
      <3>1. Tearing(d) = {} /\ life[d] = "live"
        BY <1>1, <2>4, <2>6, Reached DEF Unreachable
      <3>2. /\ IsFiniteSet(HeldRefs(d)') /\ Cardinality(HeldRefs(d)') = Cardinality(HeldRefs(d)) + 1
            /\ Cardinality(HeldRefs(d)) \in Nat
        BY <1>3, <2>1, <2>2, <2>4, <2>6, HeldMore DEF Finite, HoldsBecomes
      <3>3. Cardinality(SlotsOf(d)) \in Nat /\ Cardinality(Unreffing(d)) \in Nat
        BY <2>4, FS_CardinalityType DEF Finite
      <3>4. refs'[d] = Total(d)'
        BY <1>4, <2>3, <2>4, <2>6, <3>2, <3>3 DEF Total, SameCalls
      <3>5. Finite(d)'
        BY <1>4, <2>4, <3>2 DEF Finite, SameCalls
      <3>6. Tearing(d)' = {} /\ life'[d] = "live"
        BY <1>2, <1>4, <3>1 DEF SameCalls
      <3> QED BY <3>4, <3>5, <3>6, LiveDev DEF DevInv
    <2> QED BY <2>5, <2>6
  <1>6. CountInv'
    BY <1>2, <1>4 DEF HalInv, CountInv
  <1> QED BY <1>3, <1>5, <1>6 DEF HalInv

\* hal_device_register puts the device into a slot that was not in use, with
\* a reference of the registry's own.
LEMMA RegisterCounts ==
    ASSUME HalInv, NEW t \in Threads, NEW d \in Devices, Register(t, d)
    PROVE  HalInv'
  <1> DEFINE n == DevName[d]
             i == Slot(n, First(Usable(n)))
  <1>1. Usable(n) \subseteq Slots /\ Usable(n) # {} /\ n \in Names
    BY RegistryAssumption DEF Register, Usable, Ends, Probes
  <1>2. First(Usable(n)) \in Usable(n)
    BY <1>1, FirstIsMember
  <1>3. i \in Slots /\ table[i] \in {Empty, Tombstone}
    BY <1>1, <1>2, SlotInTable DEF Usable
  <1>4. /\ table' = [table EXCEPT ![i] = d] /\ count' = count + 1 /\ refs' = [refs EXCEPT ![d] = @ + 1]
        /\ UNCHANGED <<life, state, holds, call>> /\ holds[t][d] > 0
    BY DEF Register
  <1> HIDE DEF i
  <1>5. TypeOK /\ CountInv /\ DevInv(d) /\ Finite(d) /\ refs[d] = Total(d)
    BY DEF HalInv, DevInv
  <1>6. /\ IsFiniteSet(SlotsOf(d)') /\ Cardinality(SlotsOf(d)') = Cardinality(SlotsOf(d)) + 1
        /\ IsFiniteSet(UsedSlots') /\ Cardinality(UsedSlots') = Cardinality(UsedSlots) + 1
        /\ \A e \in Devices : e # d => SlotsOf(e)' = SlotsOf(e)
    BY <1>3, <1>4, <1>5, SlotGiven
  <1>7. TypeOK'
    <2>1. table' \in [Slots -> Devices \cup {Empty, Tombstone}] /\ count' \in Nat /\ refs' \in [Devices -> Nat]
      BY <1>3, <1>4, <1>5 DEF TypeOK
    <2> QED BY <1>4, <1>5, <2>1, TypeIs, TypeNext
  <1>8. DevInv(d)'
    <2>1. Tearing(d) = {} /\ life[d] = "live"
      BY <1>4, <1>5, Reached DEF Unreachable
    <2>2. Tearing(d)' = {} /\ life'[d] = "live" /\ Unreffing(d)' = Unreffing(d) /\ HeldRefs(d)' = HeldRefs(d)
      BY <1>4, <2>1, CallsKept, SameHeld DEF SameCalls
    <2>3. /\ Cardinality(SlotsOf(d)) \in Nat /\ Cardinality(HeldRefs(d)) \in Nat
          /\ Cardinality(Unreffing(d)) \in Nat
      BY <1>5, FS_CardinalityType DEF Finite
    <2>4. refs'[d] = Total(d)'
      BY <1>4, <1>5, <1>6, <2>2, <2>3 DEF Total, TypeOK
    <2>5. Finite(d)'
      BY <1>5, <1>6, <2>2 DEF Finite
    <2> QED BY <2>2, <2>4, <2>5, LiveDev DEF DevInv
  <1>9. ASSUME NEW e \in Devices, e # d PROVE DevInv(e)'
    <2>1. Same(e)
      BY <1>4, <1>5, <1>6, <1>9, CallsKept DEF TypeOK, Same
    <2> QED BY <2>1, Untouched DEF HalInv
  <1>10. CountInv'
    BY <1>4, <1>5, <1>6 DEF CountInv
  <1> QED BY <1>7, <1>8, <1>9, <1>10 DEF HalInv

\* hal_device_unregister: the registry's reference becomes one that the
\* caller has yet to drop.
LEMMA UnregisterCounts ==
    ASSUME HalInv, NEW t \in Threads, NEW d \in Devices, Unregister(t, d)
    PROVE  HalInv'
  <1> DEFINE n == DevName[d]
             K == {k \in Probes(n) : table[Slot(n, k)] = d}
             i == Slot(n, First(K))
  <1>1. K \subseteq Slots /\ K # {} /\ n \in Names
    BY RegistryAssumption DEF Unregister, Probes
  <1>2. First(K) \in K
    BY <1>1, FirstIsMember
  <1>3. i \in Slots /\ table[i] = d
    BY <1>1, <1>2, SlotInTable
  <1>4. /\ table' = [table EXCEPT ![i] = Tombstone] /\ count' = count - 1
        /\ CallBecomes(t, In("unref", d)) /\ call[t] = Idle
        /\ UNCHANGED <<refs, life, state, holds>> /\ holds[t][d] > 0
    BY DEF Unregister, CallBecomes, Ready
  <1> HIDE DEF i
  <1>5. TypeOK /\ CountInv /\ DevInv(d) /\ Finite(d) /\ refs[d] = Total(d)
    BY DEF HalInv, DevInv
  <1>6. /\ IsFiniteSet(SlotsOf(d)') /\ Cardinality(SlotsOf(d)') = Cardinality(SlotsOf(d)) - 1
        /\ IsFiniteSet(UsedSlots') /\ Cardinality(UsedSlots') = Cardinality(UsedSlots) - 1
        /\ Cardinality(UsedSlots') \in Nat
        /\ \A e \in Devices : e # d => SlotsOf(e)' = SlotsOf(e)
    BY <1>3, <1>4, <1>5, SlotTaken
  <1>7. TypeOK'
    <2>1. table' \in [Slots -> Devices \cup {Empty, Tombstone}] /\ count' \in Nat
      BY <1>3, <1>4, <1>5, <1>6 DEF TypeOK, CountInv
    <2>2. call' \in [Threads -> Calls]
      BY <1>4, <1>5, InCalls, TypeIs DEF CallBecomes
    <2> QED BY <1>4, <1>5, <2>1, <2>2, TypeIs, TypeNext
  <1>8. DevInv(d)'
    <2>1. Tearing(d) = {} /\ life[d] = "live"
      BY <1>4, <1>5, Reached DEF Unreachable
    <2>2. Tearing(d)' = {} /\ Unreffing(d)' = Unreffing(d) \cup {t}
      BY <1>4, <1>5, <2>1, CallSets, CallKinds, SMTT(30)
    <2>3. t \notin Unreffing(d)
      BY <1>4, CallKinds DEF Unreffing
    <2>4. IsFiniteSet(Unreffing(d)') /\ Cardinality(Unreffing(d)') = Cardinality(Unreffing(d)) + 1
      BY <1>5, <2>2, <2>3, FS_AddElement DEF Finite
    <2>5. life'[d] = "live" /\ HeldRefs(d)' = HeldRefs(d)
      BY <1>4, <2>1, SameHeld
    <2>6. /\ Cardinality(SlotsOf(d)) \in Nat /\ Cardinality(HeldRefs(d)) \in Nat
          /\ Cardinality(Unreffing(d)) \in Nat
      BY <1>5, FS_CardinalityType DEF Finite
    <2>7. refs'[d] = Total(d)'
      BY <1>4, <1>5, <1>6, <2>4, <2>5, <2>6 DEF Total
    <2>8. Finite(d)'
      BY <1>5, <1>6, <2>4, <2>5 DEF Finite
    <2> QED BY <2>2, <2>5, <2>7, <2>8, LiveDev DEF DevInv
  <1>9. ASSUME NEW e \in Devices, e # d PROVE DevInv(e)'
    <2>1. SameCalls(e)
      BY <1>4, <1>5, <1>9, OtherCalls, NotOfOthers
    <2>2. Same(e)
      BY <1>4, <1>5, <1>6, <1>9, <2>1 DEF Same
    <2> QED BY <2>2, Untouched DEF HalInv
  <1>10. CountInv'
    BY <1>4, <1>5, <1>6 DEF CountInv
  <1> QED BY <1>7, <1>8, <1>9, <1>10 DEF HalInv

\* A reference is dropped, one that a thread held or one that an unregister
\* call had taken over.  The last one starts the teardown of a device that
\* nobody can reach any more.
LEMMA DropCounts ==
    ASSUME TypeOK, NEW t \in Threads, NEW d \in Devices, DevInv(d), Tearing(d) = {}, Freeing(d) = {}, life[d] = "live",
           Finite(d)', Total(d)' = Total(d) - 1, Total(d)' \in Nat, Dropped(t, d), life' = life, TypeOK',
           call[t] = Idle \/ call[t] = In("unref", d)
    PROVE  DevInv(d)'
  <1>1. refs'[d] = refs[d] - 1 /\ refs[d] = Total(d) /\ life'[d] = "live"
    BY DEF Dropped, TypeOK, DevInv
  <1>2. refs'[d] = Total(d)'
    BY <1>1
  <1>3. CASE refs[d] # 1
    <2>1. CallBecomes(t, Idle)
      BY <1>3 DEF Dropped, CallBecomes
    <2>2. Tearing(d)' = {}
      BY <2>1, CallSets, CallKinds
    <2> QED BY <1>1, <1>2, <2>2, LiveDev DEF DevInv
  <1>4. CASE refs[d] = 1
    <2>1. CallBecomes(t, In("stop", d))
      BY <1>4 DEF Dropped, CallBecomes
    <2>2. Tearing(d)' = {t} /\ Freeing(d)' = {}
      <3>1. /\ In("stop", d) \in [step : {"stop", "close", "free"}, dev : {d}]
            /\ In("stop", d) # In("free", d)
        BY CallKinds
      <3> QED BY <2>1, <3>1, CallSets
    <2>3. /\ Cardinality(SlotsOf(d)') = 0 /\ Cardinality(HeldRefs(d)') = 0 /\ Cardinality(Unreffing(d)') = 0
      <3>1. /\ Cardinality(SlotsOf(d)') \in Nat /\ Cardinality(HeldRefs(d)') \in Nat
            /\ Cardinality(Unreffing(d)') \in Nat
        BY FS_CardinalityType DEF Finite
      <3>2. Total(d)' = 0
        BY <1>1, <1>2, <1>4
      <3> QED BY <3>1, <3>2 DEF Total
    <2>4. SlotsOf(d)' = {} /\ HeldRefs(d)' = {} /\ Unreffing(d)' = {}
      BY <2>3, FS_EmptySet DEF Finite
    <2>5. \A s \in Threads : holds'[s][d] = 0
      <3>1. \A s \in Threads : holds'[s][d] \in Nat
        BY DEF TypeOK
      <3>2. ASSUME NEW s \in Threads, holds'[s][d] # 0 PROVE FALSE
        <4>1. <<s, 1>> \in HeldRefs(d)'
          BY <3>1, <3>2 DEF HeldRefs
        <4> QED BY <2>4, <4>1
      <3> QED BY <3>2
    <2>6. LifeInv(d)'
      BY <1>1, <2>2, <2>4, <2>5 DEF LifeInv, Unreachable
    <2> QED BY <1>2, <2>6 DEF DevInv
  <1> QED BY <1>3, <1>4

LEMMA DroppedCall ==
    ASSUME TypeOK, NEW t \in Threads, NEW d \in Devices, Dropped(t, d)
    PROVE  \E c \in {In("stop", d), Idle} : CallBecomes(t, c)
  BY DEF Dropped, CallBecomes

LEMMA UnrefKeeps ==
    ASSUME HalInv, NEW t \in Threads, NEW d \in Devices, Unref(t, d)
    PROVE  HalInv'
  <1>1. TypeOK /\ CountInv /\ DevInv(d) /\ Finite(d) /\ refs[d] = Total(d)
    BY DEF HalInv, DevInv
  <1>2. /\ call[t] = Idle /\ holds[t][d] > 0 /\ holds' = [holds EXCEPT ![t][d] = @ - 1] /\ Dropped(t, d)
        /\ UNCHANGED <<table, count, life, state>>
    BY DEF Unref, Ready
  <1>3. Tearing(d) = {} /\ Freeing(d) = {} /\ life[d] = "live"
    BY <1>1, <1>2, Reached DEF Unreachable
  <1>4. PICK c \in {In("stop", d), Idle} : CallBecomes(t, c)
    BY <1>1, <1>2, DroppedCall
  <1>5. /\ IsFiniteSet(HeldRefs(d)') /\ Cardinality(HeldRefs(d)') = Cardinality(HeldRefs(d)) - 1
        /\ Cardinality(HeldRefs(d)') \in Nat
    <2>1. HoldsBecomes(t, d, holds[t][d] - 1)
      BY <1>1, <1>2 DEF HoldsBecomes, TypeOK
    <2> QED BY <1>1, <1>2, <2>1, HeldLess DEF Finite
  <1>6. Unreffing(d)' = Unreffing(d) /\ SlotsOf(d)' = SlotsOf(d)
    <2>1. c # In("unref", d) /\ t \notin Unreffing(d)
      BY <1>2, <1>4, CallKinds DEF Unreffing
    <2> QED BY <1>1, <1>2, <1>4, <2>1, CallSets, SlotsKept
  <1>7. Finite(d)' /\ Total(d)' = Total(d) - 1 /\ Total(d)' \in Nat /\ Total(d) \in Nat
    <2>1. /\ Cardinality(SlotsOf(d)) \in Nat /\ Cardinality(HeldRefs(d)) \in Nat
          /\ Cardinality(Unreffing(d)) \in Nat
      BY <1>1, FS_CardinalityType DEF Finite
    <2> QED BY <1>1, <1>5, <1>6, <2>1 DEF Finite, Total
  <1>8. TypeOK'
    <2>1. holds' \in [Threads -> [Devices -> Nat]]
      BY <1>1, <1>2 DEF TypeOK
    <2>2. refs' \in [Devices -> Nat]
      <3>1. refs[d] - 1 \in Nat
        BY <1>1, <1>7
      <3> QED BY <1>1, <1>2, <3>1 DEF TypeOK, Dropped
    <2>3. call' \in [Threads -> Calls]
      BY <1>1, <1>4, InCalls, TypeIs DEF CallBecomes
    <2> QED BY <1>1, <1>2, <2>1, <2>2, <2>3, TypeIs, TypeNext
  <1>9. DevInv(d)'
    BY <1>1, <1>2, <1>3, <1>7, <1>8, DropCounts
  <1>10. ASSUME NEW e \in Devices, e # d PROVE DevInv(e)'
    <2>1. SameCalls(e)
      BY <1>1, <1>2, <1>4, <1>10, OtherCalls, NotOfOthers
    <2>2. Same(e)
      BY <1>1, <1>2, <1>10, <2>1, SlotsKept DEF Same, TypeOK, Dropped
    <2> QED BY <2>2, Untouched DEF HalInv
  <1>11. CountInv'
    BY <1>1, <1>2, SlotsKept DEF CountInv
  <1> QED BY <1>8, <1>9, <1>10, <1>11 DEF HalInv

LEMMA UnrefRegistryKeeps ==
    ASSUME HalInv, NEW t \in Threads, UnrefRegistry(t)
    PROVE  HalInv'
  <1>0. PICK d \in Devices : call[t].dev = d /\ call[t] = In("unref", d)
    BY CallIs DEF UnrefRegistry, HalInv
  <1>2. Dropped(t, d) /\ UNCHANGED <<table, count, life, state, holds>>
    BY <1>0 DEF UnrefRegistry
  <1>1. TypeOK /\ CountInv /\ DevInv(d) /\ Finite(d) /\ refs[d] = Total(d)
    BY <1>0 DEF HalInv, DevInv
  <1>3. t \in Unreffing(d) /\ Tearing(d) = {} /\ Freeing(d) = {} /\ life[d] = "live"
    <2>1. t \in Unreffing(d)
      BY <1>0 DEF Unreffing
    <2> QED BY <1>0, <1>1, <2>1, Reached DEF Unreachable
  <1>4. PICK c \in {In("stop", d), Idle} : CallBecomes(t, c)
    BY <1>0, <1>1, <1>2, DroppedCall
  <1>5. Unreffing(d)' = Unreffing(d) \ {t} /\ SlotsOf(d)' = SlotsOf(d) /\ HeldRefs(d)' = HeldRefs(d)
    <2>1. c # In("unref", d)
      BY <1>4, CallKinds
    <2> QED BY <1>0, <1>1, <1>2, <1>4, <2>1, CallSets, SlotsKept, SameHeld
  <1>6. IsFiniteSet(Unreffing(d)') /\ Cardinality(Unreffing(d)') = Cardinality(Unreffing(d)) - 1
    BY <1>1, <1>3, <1>5, FS_RemoveElement DEF Finite
  <1>7. Finite(d)' /\ Total(d)' = Total(d) - 1 /\ Total(d)' \in Nat /\ Total(d) \in Nat
    <2>1. /\ Cardinality(SlotsOf(d)) \in Nat /\ Cardinality(HeldRefs(d)) \in Nat
          /\ Cardinality(Unreffing(d)) \in Nat /\ Cardinality(Unreffing(d)') \in Nat
      BY <1>1, <1>6, FS_CardinalityType DEF Finite
    <2> QED BY <1>1, <1>5, <1>6, <2>1 DEF Finite, Total
  <1>8. TypeOK'
    <2>2. refs' \in [Devices -> Nat]
      <3>1. refs[d] - 1 \in Nat
        BY <1>1, <1>7
      <3> QED BY <1>1, <1>2, <3>1 DEF TypeOK, Dropped
    <2>3. call' \in [Threads -> Calls]
      BY <1>0, <1>1, <1>4, InCalls, TypeIs DEF CallBecomes
    <2> QED BY <1>1, <1>2, <2>2, <2>3, TypeIs, TypeNext
  <1>9. DevInv(d)'
    BY <1>0, <1>1, <1>2, <1>3, <1>7, <1>8, DropCounts
  <1>10. ASSUME NEW e \in Devices, e # d PROVE DevInv(e)'
    <2>1. SameCalls(e)
      BY <1>0, <1>1, <1>4, <1>10, OtherCalls, NotOfOthers
    <2>2. Same(e)
      BY <1>0, <1>1, <1>2, <1>10, <2>1, SlotsKept DEF Same, TypeOK, Dropped
    <2> QED BY <2>2, Untouched DEF HalInv
  <1>11. CountInv'
    BY <1>1, <1>2, SlotsKept DEF CountInv
  <1> QED BY <1>8, <1>9, <1>10, <1>11 DEF HalInv

\* The steps of a teardown: stop, close, free.
LEMMA TearingOne ==
    ASSUME TypeOK, NEW t \in Threads, NEW d \in Devices, DevInv(d), NEW s \in {"stop", "close", "free"},
           call[t] = In(s, d)
    PROVE  Tearing(d) = {t} /\ life[d] = "live" /\ Unreachable(d) /\ t \notin Unreffing(d)
           /\ (Freeing(d) # {} <=> s = "free")
  <1>1. t \in Tearing(d)
    BY CallKinds DEF Tearing
  <1>2. t \in Freeing(d) <=> s = "free"
    BY CallKinds DEF Freeing
  <1>3. Tearing(d) = {t}
    BY <1>1 DEF DevInv, LifeInv
  <1> QED BY <1>1, <1>2, <1>3, FreeingTears DEF DevInv, LifeInv, Unreachable

\* A step of the teardown of device d that changes only its state.
TearStep(t, d, s, next) ==
    /\ call[t] = In(s, d) /\ CallBecomes(t, In(next, d))
    /\ \E x \in States : state' = [state EXCEPT ![d] = x] /\ (next = "free" => x = "closed")
    /\ UNCHANGED <<table, count, refs, life, holds>>

LEMMA TearStepKeeps ==
    ASSUME HalInv, NEW t \in Threads, NEW d \in Devices, NEW s \in {"stop", "close"}, NEW next \in {"close", "free"},
           TearStep(t, d, s, next)
    PROVE  HalInv'
  <1>1. TypeOK /\ CountInv /\ DevInv(d)
    BY DEF HalInv
  <1>2. Tearing(d) = {t} /\ life[d] = "live" /\ Unreachable(d) /\ t \notin Unreffing(d) /\ Freeing(d) = {}
    BY <1>1, TearingOne DEF TearStep
  <1>3. PICK x \in States : state' = [state EXCEPT ![d] = x] /\ (next = "free" => x = "closed")
    BY DEF TearStep
  <1>4. /\ call[t] = In(s, d) /\ CallBecomes(t, In(next, d)) /\ UNCHANGED <<table, count, refs, life, holds>>
    BY DEF TearStep
  <1>5. TypeOK'
    <2>1. call' \in [Threads -> Calls] /\ state' \in [Devices -> States]
      BY <1>1, <1>3, <1>4, InCalls, TypeIs DEF CallBecomes
    <2> QED BY <1>1, <1>4, <2>1, TypeIs, TypeNext
  <1>6. /\ Tearing(d)' = {t} /\ Unreffing(d)' = Unreffing(d) /\ (Freeing(d)' # {} => next = "free")
        /\ SlotsOf(d)' = SlotsOf(d) /\ HeldRefs(d)' = HeldRefs(d)
    <2>1. /\ In(next, d) \in [step : {"stop", "close", "free"}, dev : {d}] /\ In(next, d) # In("unref", d)
          /\ (In(next, d) = In("free", d) <=> next = "free")
      BY CallKinds
    <2>2. Tearing(d)' = {t} /\ Unreffing(d)' = Unreffing(d) /\ (Freeing(d)' # {} => next = "free")
      BY <1>1, <1>2, <1>4, <2>1, CallSets
    <2> QED BY <1>4, <2>2, SlotsKept, SameHeld
  <1>7. DevInv(d)'
    <2>1. Finite(d)' /\ refs'[d] = Total(d)'
      BY <1>1, <1>4, <1>6 DEF DevInv, Finite, Total
    <2>2. state'[d] = x
      BY <1>1, <1>3 DEF TypeOK
    <2>3. LifeInv(d)'
      BY <1>2, <1>3, <1>4, <1>6, <2>2 DEF LifeInv, Unreachable
    <2> QED BY <2>1, <2>3 DEF DevInv
  <1>8. ASSUME NEW e \in Devices, e # d PROVE DevInv(e)'
    <2>1. SameCalls(e)
      BY <1>1, <1>4, <1>8, OtherCalls, NotOfOthers
    <2>2. Same(e)
      BY <1>1, <1>3, <1>4, <1>8, <2>1, SlotsKept DEF Same, TypeOK
    <2> QED BY <2>2, Untouched DEF HalInv
  <1>9. CountInv'
    BY <1>1, <1>4, SlotsKept DEF CountInv
  <1> QED BY <1>5, <1>7, <1>8, <1>9 DEF HalInv

LEMMA TeardownStopKeeps ==
    ASSUME HalInv, NEW t \in Threads, TeardownStop(t) \/ TeardownClose(t)
    PROVE  HalInv'
  <1>1. CASE TeardownStop(t)
    <2>1. PICK d \in Devices : call[t].dev = d /\ call[t] = In("stop", d)
      BY <1>1, CallIs DEF TeardownStop, HalInv
    <2>2. state \in [Devices -> States] /\ "open" \in States
      BY DEF HalInv, TypeOK, States
    <2>3. \E x \in States : state' = [state EXCEPT ![d] = x]
      <3>1. CASE state' = [state EXCEPT ![d] = "open"]
        BY <2>2, <3>1
      <3>2. CASE state' = state
        <4>1. state' = [state EXCEPT ![d] = state[d]] /\ state[d] \in States
          BY <2>2, <3>2
        <4> QED BY <4>1
      <3> QED BY <1>1, <2>1, <3>1, <3>2 DEF TeardownStop
    <2>4. TearStep(t, d, "stop", "close")
      BY <1>1, <2>1, <2>3 DEF TeardownStop, TearStep, CallBecomes
    <2> QED BY <2>4, TearStepKeeps
  <1>2. CASE TeardownClose(t)
    <2>1. PICK d \in Devices : call[t].dev = d /\ call[t] = In("close", d)
      BY <1>2, CallIs DEF TeardownClose, HalInv
    <2>2. TearStep(t, d, "close", "free")
      BY <1>2, <2>1 DEF TeardownClose, TearStep, CallBecomes, States
    <2> QED BY <2>2, TearStepKeeps
  <1> QED BY <1>1, <1>2

LEMMA TeardownFreeKeeps ==
    ASSUME HalInv, NEW t \in Threads, TeardownFree(t)
    PROVE  HalInv'
  <1>0. PICK d \in Devices : call[t].dev = d /\ call[t] = In("free", d)
    BY CallIs DEF TeardownFree, HalInv
  <1>1. TypeOK /\ CountInv /\ DevInv(d)
    BY DEF HalInv
  <1>2. /\ Tearing(d) = {t} /\ Unreachable(d) /\ t \notin Unreffing(d) /\ Freeing(d) # {} /\ state[d] = "closed"
    BY <1>0, <1>1, TearingOne DEF DevInv, LifeInv
  <1>3. /\ CallBecomes(t, Idle) /\ life' = [life EXCEPT ![d] = "freed"]
        /\ UNCHANGED <<table, count, refs, state, holds>>
    BY <1>0 DEF TeardownFree, CallBecomes
  <1>4. TypeOK'
    <2>1. call' \in [Threads -> Calls] /\ life' \in [Devices -> {"none", "live", "freed"}]
      BY <1>1, <1>3, InCalls, TypeIs DEF CallBecomes
    <2> QED BY <1>1, <1>3, <2>1, TypeIs, TypeNext
  <1>5. /\ Tearing(d)' = {} /\ Unreffing(d)' = Unreffing(d) /\ SlotsOf(d)' = SlotsOf(d) /\ HeldRefs(d)' = HeldRefs(d)
    <2>1. /\ Idle \notin [step : {"stop", "close", "free"}, dev : {d}] /\ Idle # In("unref", d)
      BY CallKinds
    <2> QED BY <1>1, <1>2, <1>3, <2>1, CallSets, SlotsKept, SameHeld
  <1>6. DevInv(d)'
    <2>1. Finite(d)' /\ refs'[d] = Total(d)'
      BY <1>1, <1>3, <1>5 DEF DevInv, Finite, Total
    <2>2. life'[d] = "freed" /\ state'[d] = "closed"
      BY <1>1, <1>2, <1>3 DEF TypeOK
    <2>3. LifeInv(d)'
      BY <1>2, <1>3, <1>5, <2>2 DEF LifeInv, Unreachable
    <2> QED BY <2>1, <2>3 DEF DevInv
  <1>7. ASSUME NEW e \in Devices, e # d PROVE DevInv(e)'
    <2>1. SameCalls(e)
      BY <1>0, <1>1, <1>3, <1>7, OtherCalls, NotOfOthers
    <2>2. Same(e)
      BY <1>1, <1>3, <1>7, <2>1, SlotsKept DEF Same, TypeOK
    <2> QED BY <2>2, Untouched DEF HalInv
  <1>8. CountInv'
    BY <1>1, <1>3, SlotsKept DEF CountInv
  <1> QED BY <1>4, <1>6, <1>7, <1>8 DEF HalInv

\* An owner operates the device: nobody tears it down.
LEMMA OperateKeeps ==
    ASSUME HalInv, NEW t \in Threads, NEW d \in Devices, NEW from, NEW to \in States, Operate(t, d, from, to)
    PROVE  HalInv'
  <1>1. TypeOK /\ CountInv /\ DevInv(d)
    BY DEF HalInv
  <1>2. /\ state' = [state EXCEPT ![d] = to] /\ holds[t][d] > 0
        /\ UNCHANGED <<table, count, refs, life, holds, call>>
    BY DEF Operate
  <1>3. Tearing(d) = {} /\ life[d] = "live"
    BY <1>1, <1>2, Reached DEF Unreachable
  <1>4. TypeOK'
    BY <1>1, <1>2, TypeIs, TypeNext
  <1>5. DevInv(d)'
    <2>1. Finite(d)' /\ refs'[d] = Total(d)' /\ Tearing(d)' = {}
      BY <1>1, <1>2, <1>3, SlotsKept, CallsKept, SameHeld DEF DevInv, Finite, Total, SameCalls
    <2> QED BY <1>2, <1>3, <2>1, LiveDev DEF DevInv
  <1>6. ASSUME NEW e \in Devices, e # d PROVE DevInv(e)'
    <2>1. Same(e)
      BY <1>1, <1>2, <1>6, SlotsKept, CallsKept DEF Same, TypeOK
    <2> QED BY <2>1, Untouched DEF HalInv
  <1>7. CountInv'
    BY <1>1, <1>2, SlotsKept DEF CountInv
  <1> QED BY <1>4, <1>5, <1>6, <1>7 DEF HalInv

LEMMA IterateKeeps ==
    ASSUME HalInv, NEW t \in Threads, IterateBegin(t) \/ IterateEnd(t)
    PROVE  HalInv'
  <1>1. TypeOK /\ CountInv
    BY DEF HalInv
  <1>2. PICK c \in {Idle, [step |-> "iterate"]} : CallBecomes(t, c)
    BY DEF IterateBegin, IterateEnd, CallBecomes
  <1>3. call[t] \in {Idle, [step |-> "iterate"]} /\ UNCHANGED <<table, count, refs, life, state, holds>>
    BY <1>1, CallIs DEF IterateBegin, IterateEnd, Ready
  <1>4. TypeOK'
    <2>1. call' \in [Threads -> Calls]
      BY <1>1, <1>2, InCalls, TypeIs DEF CallBecomes
    <2> QED BY <1>1, <1>3, <2>1, TypeIs, TypeNext
  <1>5. ASSUME NEW e \in Devices PROVE DevInv(e)'
    <2>1. SameCalls(e)
      BY <1>1, <1>2, <1>3, OtherCalls, NotOfAny
    <2>2. Same(e)
      BY <1>3, <2>1, SlotsKept DEF Same
    <2> QED BY <2>2, Untouched DEF HalInv
  <1>6. CountInv'
    BY <1>1, <1>3, SlotsKept DEF CountInv
  <1> QED BY <1>4, <1>5, <1>6 DEF HalInv

LEMMA HalStep == HalInv /\ [Next]_vars => HalInv'
  <1>1. ASSUME HalInv, UNCHANGED vars PROVE HalInv'
    <2>1. UNCHANGED <<table, count, refs, life, state, holds, call>>
      BY <1>1 DEF vars
    <2>2. ASSUME NEW e \in Devices PROVE DevInv(e)'
      <3>1. Same(e)
        BY <2>1, SlotsKept, CallsKept DEF Same
      <3> QED BY <1>1, <3>1, Untouched DEF HalInv
    <2>3. TypeOK' /\ CountInv'
      BY <1>1, <2>1, TypeIs, TypeNext, SlotsKept DEF HalInv, CountInv
    <2> QED BY <2>2, <2>3 DEF HalInv
  <1>2. ASSUME HalInv, Next PROVE HalInv'
    <2>1. PICK t \in Threads :
            \/ \E d \in Devices : \/ Create(t, d) \/ Ref(t, d) \/ Unref(t, d)
                                  \/ Open(t, d) \/ Close(t, d) \/ Start(t, d) \/ Stop(t, d)
                                  \/ Register(t, d) \/ Unregister(t, d)
            \/ \E n \in Names : Find(t, n)
            \/ \E max \in 1 .. Size : List(t, max)
            \/ IterateBegin(t) \/ IterateEnd(t)
            \/ UnrefRegistry(t) \/ TeardownStop(t) \/ TeardownClose(t) \/ TeardownFree(t)
      BY <1>2 DEF Next
    <2>2. ASSUME NEW d \in Devices, Open(t, d) \/ Close(t, d) \/ Start(t, d) \/ Stop(t, d) PROVE HalInv'
      <3>1. "open" \in States /\ "closed" \in States /\ "active" \in States
        BY DEF States
      <3> QED BY <1>2, <2>2, <3>1, OperateKeeps DEF Open, Close, Start, Stop
    <2> QED
      BY <1>2, <2>1, <2>2, CreateKeeps, RefKeeps, UnrefKeeps, RegisterCounts, UnregisterCounts, FindKeeps, ListKeeps,
         IterateKeeps, UnrefRegistryKeeps, TeardownStopKeeps, TeardownFreeKeeps
  <1> QED BY <1>1, <1>2

LEMMA HalStart == Init => HalInv
  <1> SUFFICES ASSUME Init PROVE HalInv
    OBVIOUS
  <1>1. TypeOK
    <2>1. call \in [Threads -> Calls]
      BY InCalls DEF Init
    <2> QED BY <2>1, TypeIs, RegistryAssumption DEF Init, States
  <1>2. UsedSlots = {} /\ \A d \in Devices : SlotsOf(d) = {}
    BY RegistryAssumption DEF Init, UsedSlots, SlotsOf
  <1>3. CountInv
    BY <1>2, FS_EmptySet DEF Init, CountInv
  <1>4. ASSUME NEW d \in Devices PROVE DevInv(d)
    <2>1. Unreffing(d) = {} /\ Freeing(d) = {} /\ Tearing(d) = {}
      BY CallKinds DEF Init, Unreffing, Freeing, Tearing
    <2>2. HeldRefs(d) = {}
      BY <1>1, HeldNone DEF Init
    <2>3. Finite(d) /\ refs[d] = Total(d)
      BY <1>2, <2>1, <2>2, FS_EmptySet DEF Finite, Total, Init
    <2>4. LifeInv(d)
      BY <1>2, <2>1 DEF LifeInv, Unreachable, Init
    <2> QED BY <2>3, <2>4 DEF DevInv
  <1> QED BY <1>1, <1>3, <1>4 DEF HalInv

LEMMA HalInvSafe == HalInv => HalSafe
  <1> SUFFICES ASSUME HalInv PROVE HalSafe
    OBVIOUS
  <1>1. TypeOK /\ CountsExact
    BY DEF HalInv, CountInv, CountsExact, DevInv, Total
  <1>2. ASSUME NEW d \in Devices PROVE Cardinality(Tearing(d)) =< 1
    <2>1. CASE Tearing(d) = {}
      BY <2>1, FS_EmptySet
    <2>2. CASE Tearing(d) # {}
      <3>1. PICK t : Tearing(d) = {t}
        <4>1. \A s, u \in Tearing(d) : s = u
          BY DEF HalInv, DevInv, LifeInv
        <4> QED BY <2>2, <4>1
      <3>2. Cardinality({t}) = 1
        BY FS_Singleton
      <3> QED BY <3>1, <3>2
    <2> QED BY <2>1, <2>2
  <1>3. NoUseAfterFree
    BY <1>2 DEF HalInv, DevInv, LifeInv, Unreachable, NoUseAfterFree
  <1> QED BY <1>1, <1>3 DEF HalSafe

\* The reference counts of hal_interface.c are exact and nobody reaches a
\* device that is being torn down or was freed, whatever threads create,
\* look up, list, register, unregister and drop at the same time, for any
\* number of threads and devices and any size of the table.
THEOREM HalRegistrySafe == Spec => []HalSafe
  BY HalStart, HalStep, HalInvSafe, PTL DEF Spec

(***************************************************************************)
(* The camera.                                                             *)
(***************************************************************************)
CameraRec == [state : {"absent", "closed", "open", "active"}, v4l2_fd : BOOLEAN, mapped : SUBSET Buffers,
              count : 0 .. BufferCount, streaming : BOOLEAN, config : Formats, set : BOOLEAN]
V4l2Rec   == [owner : [Buffers -> {"none", "user", "queued", "done"}], on : BOOLEAN, format : Formats]

\* The buffers that are mapped are the ones the driver has allocated, and
\* frames are held only while the stream runs.
CameraInv ==
    /\ camera \in CameraRec /\ v4l2 \in V4l2Rec /\ held \subseteq Buffers
    /\ CameraFramesExclusive /\ CameraHoldsNothing
    /\ camera.v4l2_fd => \A b \in Buffers : /\ b \in camera.mapped <=> b < camera.count
                                            /\ v4l2.owner[b] = "none" <=> b >= camera.count
    /\ camera.state # "active" => held = {}

LEMMA CameraInitHolds == CameraInit => CameraInv
<1> SUFFICES ASSUME CameraInit PROVE CameraInv
  OBVIOUS
<1>1. (CHOOSE f \in Formats : TRUE) \in Formats
  BY CameraAssumption
<1>2. camera \in CameraRec /\ v4l2 \in V4l2Rec
  BY <1>1, CameraAssumption DEF CameraInit, NoCamera, NoBuffers, CameraRec, V4l2Rec
<1>3. /\ camera.state = "absent" /\ camera.v4l2_fd = FALSE /\ camera.mapped = {} /\ camera.streaming = FALSE
      /\ v4l2.owner = NoBuffers /\ v4l2.on = FALSE /\ held = {}
  BY DEF CameraInit, NoCamera
<1>4. CameraFramesExclusive
  BY <1>3 DEF CameraFramesExclusive
<1>5. CameraHoldsNothing
  BY <1>2, <1>3 DEF CameraHoldsNothing, CameraRec, V4l2Rec
<1> QED BY <1>2, <1>3, <1>4, <1>5 DEF CameraInv

\* camera_close and a failed allocation both release the buffers.
LEMMA ReleaseFields ==
  ASSUME NEW c \in CameraRec
  PROVE  LET r == release_mmap_buffers(c)
         IN  /\ r \in CameraRec /\ r.state = c.state /\ r.v4l2_fd = FALSE /\ r.mapped = {}
             /\ r.streaming = c.streaming
<1>1. 0 \in 0 .. BufferCount /\ {} \in SUBSET Buffers
  BY CameraAssumption
<1>2. [c EXCEPT !.mapped = {}, !.count = 0, !.v4l2_fd = FALSE] \in CameraRec
  BY <1>1 DEF CameraRec
<1> QED BY <1>2 DEF release_mmap_buffers, CameraRec

\* camera_open, when it succeeds, of a device that is not open.
LEMMA OpenKeeps ==
  ASSUME CameraInv, ~camera.v4l2_fd, NEW c \in CameraRec, c.streaming = FALSE, NEW f \in Formats, NEW n \in 2 .. BufferCount,
         CameraBecomes(camera_open(c, f, n)), held' = held
  PROVE  CameraInv'
<1>1. n \in 0 .. BufferCount /\ 0 .. n - 1 \in SUBSET Buffers
  BY CameraAssumption DEF Buffers
<1>2. /\ camera' \in CameraRec /\ camera'.state = "open" /\ camera'.v4l2_fd = TRUE /\ camera'.mapped = 0 .. n - 1
      /\ camera'.count = n /\ camera'.config = f /\ camera'.set = FALSE /\ camera'.streaming = FALSE
  BY <1>1 DEF CameraBecomes, camera_open, CameraRec
<1>3. /\ v4l2' \in V4l2Rec /\ v4l2'.format = f /\ v4l2'.on = v4l2.on
      /\ v4l2'.owner = [b \in Buffers |-> IF b < n THEN "user" ELSE "none"]
  BY DEF CameraBecomes, camera_open, CameraInv, V4l2Rec
<1>4. v4l2.on = FALSE /\ held = {}
  BY DEF CameraInv, CameraHoldsNothing, CameraRec, V4l2Rec
<1>5. \A b \in Buffers : (b \in 0 .. n - 1 <=> b < n) /\ (v4l2'.owner[b] = "none" <=> b >= n)
  BY <1>3, CameraAssumption DEF Buffers
<1>6. CameraFramesExclusive' /\ CameraHoldsNothing'
  BY <1>2, <1>3, <1>4 DEF CameraFramesExclusive, CameraHoldsNothing
<1> QED BY <1>2, <1>3, <1>4, <1>5, <1>6 DEF CameraInv, CameraRec, V4l2Rec, Buffers

\* A device that is not open: whatever became of its configuration, it has
\* no descriptor, no mapping, and the driver no buffer.
LEMMA NotOpenKeeps ==
  ASSUME camera' \in CameraRec, v4l2' \in V4l2Rec, camera'.state \in {"absent", "closed"}, camera'.v4l2_fd = FALSE,
         camera'.mapped = {}, camera'.streaming = FALSE, v4l2'.on = FALSE, v4l2'.owner = NoBuffers, held' = {}
  PROVE  CameraInv'
BY DEF CameraInv, CameraFramesExclusive, CameraHoldsNothing, CameraRec, V4l2Rec, NoBuffers, Buffers

LEMMA CameraInitKeeps ==
  ASSUME CameraInv, CameraServiceInit
  PROVE  CameraInv'
<1>1. ~camera.v4l2_fd /\ camera.state = "absent" /\ held = {} /\ v4l2.owner = NoBuffers /\ v4l2.on = FALSE /\ held' = held
  BY DEF CameraServiceInit, CameraInv, CameraHoldsNothing, CameraRec, V4l2Rec
<1>2. NoCamera \in CameraRec /\ \A f \in Formats : camera_hal_create(f) \in CameraRec /\ camera_hal_create(f).streaming = FALSE
  <2>1. (CHOOSE f \in Formats : TRUE) \in Formats
    BY CameraAssumption
  <2>2. NoCamera \in CameraRec /\ NoCamera.streaming = FALSE
    BY <2>1, CameraAssumption DEF NoCamera, CameraRec
  <2> QED BY <2>2 DEF camera_hal_create, CameraRec
<1>3. ASSUME NEW f \in Formats, NEW g \in Formats, NEW n \in 2 .. BufferCount, CameraBecomes(camera_open(camera_hal_create(f), g, n))
      PROVE  CameraInv'
  BY <1>1, <1>2, <1>3, OpenKeeps
<1>4. CASE CameraBecomes(<<NoCamera, v4l2>>)
  <2>1. camera' = NoCamera /\ v4l2' = v4l2
    BY <1>4 DEF CameraBecomes
  <2> QED BY <1>1, <1>2, <2>1, NotOpenKeeps DEF NoCamera, CameraInv
<1> QED BY <1>3, <1>4 DEF CameraServiceInit

LEMMA CameraReopenKeeps ==
  ASSUME CameraInv, CameraReopen
  PROVE  CameraInv'
<1>1. /\ camera \in CameraRec /\ v4l2 \in V4l2Rec
      /\ ~camera.v4l2_fd /\ camera.state = "closed" /\ camera.mapped = {} /\ camera.streaming = FALSE
      /\ held = {} /\ v4l2.owner = NoBuffers /\ v4l2.on = FALSE /\ held' = held
  BY DEF CameraReopen, CameraInv, CameraHoldsNothing, CameraRec, V4l2Rec
<1>2. PICK g \in Formats, n \in 2 .. BufferCount :
         \/ CameraBecomes(camera_open(camera, g, n))
         \/ CameraBecomes(CameraOpenFails(camera))
         \/ CameraBecomes(NoBufferList(camera, g, n))
         \/ \E m \in 0 .. n - 1 : CameraBecomes(AllocationFails(camera, g, n, 0 .. m - 1))
  BY DEF CameraReopen
<1>3. n \in 0 .. BufferCount /\ \A m \in 0 .. n - 1 : 0 .. m - 1 \in SUBSET Buffers
  BY CameraAssumption DEF Buffers
<1>4. CASE CameraBecomes(camera_open(camera, g, n))
  BY <1>1, <1>4, OpenKeeps
<1>5. CASE CameraBecomes(CameraOpenFails(camera))
  BY <1>1, <1>5, NotOpenKeeps DEF CameraBecomes, CameraOpenFails, CameraRec
<1>6. CASE CameraBecomes(NoBufferList(camera, g, n))
  BY <1>1, <1>3, <1>6, NotOpenKeeps DEF CameraBecomes, NoBufferList, DriverReleased, CameraRec, V4l2Rec, NoBuffers
<1>7. ASSUME NEW m \in 0 .. n - 1, CameraBecomes(AllocationFails(camera, g, n, 0 .. m - 1)) PROVE CameraInv'
  <2>1. /\ camera' \in CameraRec /\ camera'.state = "closed" /\ camera'.v4l2_fd = FALSE /\ camera'.mapped = {}
        /\ camera'.streaming = FALSE
    <3> DEFINE c == [camera EXCEPT !.config = g, !.set = FALSE, !.count = n, !.mapped = 0 .. m - 1]
    <3>1. c \in CameraRec /\ c.state = "closed" /\ c.streaming = FALSE
      BY <1>1, <1>3 DEF CameraRec
    <3>2. camera' = release_mmap_buffers(c)
      BY <1>7 DEF CameraBecomes, AllocationFails
    <3> QED BY <3>1, <3>2, ReleaseFields
  <2>2. v4l2' \in V4l2Rec /\ v4l2'.on = FALSE /\ v4l2'.owner = NoBuffers
    BY <1>1, <1>7 DEF CameraBecomes, AllocationFails, DriverReleased, V4l2Rec, NoBuffers
  <2> QED BY <1>1, <2>1, <2>2, NotOpenKeeps
<1> QED BY <1>2, <1>4, <1>5, <1>6, <1>7

LEMMA CameraEndKeeps ==
  ASSUME CameraInv, CameraClose \/ CameraServiceCleanup
  PROVE  CameraInv'
<1>1. camera \in CameraRec /\ v4l2 \in V4l2Rec /\ (~camera.v4l2_fd => v4l2.owner = NoBuffers /\ v4l2.on = FALSE)
  BY DEF CameraInv, CameraHoldsNothing, CameraRec, V4l2Rec
<1>2. DriverReleased(v4l2) \in V4l2Rec /\ DriverReleased(v4l2).on = FALSE /\ DriverReleased(v4l2).owner = NoBuffers
  BY <1>1 DEF DriverReleased, V4l2Rec, NoBuffers
<1>3. CASE CameraClose
  <2>1. /\ camera' \in CameraRec /\ camera'.state = "closed" /\ camera'.v4l2_fd = FALSE /\ camera'.mapped = {}
        /\ camera'.streaming = FALSE
    <3> DEFINE r == release_mmap_buffers(camera)
    <3>1. r \in CameraRec /\ r.v4l2_fd = FALSE /\ r.mapped = {}
      BY <1>1, ReleaseFields
    <3>2. camera' = [r EXCEPT !.streaming = FALSE, !.state = "closed"]
      BY <1>3 DEF CameraClose
    <3> HIDE DEF r
    <3> QED BY <3>1, <3>2 DEF CameraRec
  <2> QED BY <1>1, <1>2, <1>3, <2>1, NotOpenKeeps DEF CameraClose
<1>4. CASE CameraServiceCleanup
  <2>1. (CHOOSE f \in Formats : TRUE) \in Formats
    BY CameraAssumption
  <2>2. NoCamera \in CameraRec
    BY <2>1, CameraAssumption DEF NoCamera, CameraRec
  <2> QED BY <1>2, <1>4, <2>2, NotOpenKeeps DEF CameraServiceCleanup, NoCamera
<1> QED BY <1>3, <1>4

\* Starting, stopping, and the frames: the device stays open.
LEMMA CameraStreamKeeps ==
  ASSUME CameraInv, CameraStart \/ CameraStartFails \/ CameraStop
  PROVE  CameraInv'
<1> USE DEF CameraRec, V4l2Rec
<1>1. camera \in CameraRec /\ v4l2 \in V4l2Rec /\ held \subseteq Buffers /\ CameraFramesExclusive /\ CameraHoldsNothing
  BY DEF CameraInv
<1>2. camera.state \in {"open", "active"} /\ camera.v4l2_fd = TRUE
  BY <1>1 DEF CameraStart, CameraStartFails, CameraStop, CameraHoldsNothing
<1>3. \A b \in Buffers : (b \in camera.mapped <=> b < camera.count) /\ (v4l2.owner[b] = "none" <=> b >= camera.count)
  BY <1>2 DEF CameraInv
<1>4. CASE CameraStart
  <2>1. /\ camera' \in CameraRec /\ camera' = [camera EXCEPT !.streaming = TRUE, !.state = "active"]
        /\ held' = {} /\ camera.state = "open"
    BY <1>1, <1>4 DEF CameraStart, CameraInv
  <2>2. /\ v4l2' \in V4l2Rec /\ v4l2'.on = TRUE /\ v4l2'.format = v4l2.format
        /\ \A b \in Buffers : v4l2'.owner[b] = IF b < camera.count THEN "queued" ELSE v4l2.owner[b]
    BY <1>1, <1>4 DEF CameraStart
  <2>3. /\ camera'.state = "active" /\ camera'.v4l2_fd = TRUE /\ camera'.mapped = camera.mapped /\ camera'.count = camera.count
        /\ camera'.streaming = TRUE /\ camera'.config = camera.config /\ camera'.set = camera.set
    BY <1>1, <1>2, <2>1
  <2>4. CameraFramesExclusive'
    BY <1>1, <1>3, <2>1, <2>2, <2>3 DEF CameraFramesExclusive
  <2>5. CameraHoldsNothing'
    BY <1>1, <1>2, <2>2, <2>3 DEF CameraHoldsNothing
  <2>6. \A b \in Buffers : v4l2'.owner[b] = "none" <=> b >= camera.count
    BY <1>1, <1>3, <2>2 DEF Buffers
  <2> QED BY <1>3, <2>1, <2>2, <2>3, <2>4, <2>5, <2>6 DEF CameraInv, Buffers
<1>5. CASE CameraStartFails
  <2>1. camera' = camera /\ held' = {} /\ camera.state = "open" /\ held = {}
    BY <1>5 DEF CameraStartFails, CameraInv
  <2>2. PICK n \in 0 .. camera.count : v4l2' = [v4l2 EXCEPT !.owner = [b \in Buffers |-> IF b < n THEN "queued" ELSE @[b]]]
    BY <1>5 DEF CameraStartFails
  <2>3. /\ v4l2' \in V4l2Rec /\ v4l2'.on = v4l2.on /\ v4l2'.format = v4l2.format
        /\ \A b \in Buffers : v4l2'.owner[b] = IF b < n THEN "queued" ELSE v4l2.owner[b]
    BY <1>1, <2>2
  <2>4. \A b \in Buffers : v4l2'.owner[b] = "none" <=> b >= camera.count
    BY <1>1, <1>3, <2>3 DEF Buffers
  <2> QED BY <1>1, <1>2, <1>3, <2>1, <2>3, <2>4 DEF CameraInv, CameraFramesExclusive, CameraHoldsNothing, Buffers
<1>6. CASE CameraStop
  <2>1. camera' \in CameraRec /\ camera' = [camera EXCEPT !.streaming = FALSE, !.state = "open"]
    BY <1>1, <1>6 DEF CameraStop
  <2>2. CASE camera.streaming
    <3>1. /\ v4l2' \in V4l2Rec /\ v4l2'.on = FALSE /\ v4l2'.format = v4l2.format /\ held' = {}
          /\ \A b \in Buffers : v4l2'.owner[b] = IF v4l2.owner[b] = "none" THEN "none" ELSE "user"
      <4>1. /\ v4l2' = [v4l2 EXCEPT !.on = FALSE, !.owner = [b \in Buffers |-> IF @[b] = "none" THEN "none" ELSE "user"]]
            /\ held' = {}
        BY <1>6, <2>2 DEF CameraStop
      <4> QED BY <1>1, <4>1
    <3> QED BY <1>1, <1>2, <1>3, <2>1, <3>1 DEF CameraInv, CameraFramesExclusive, CameraHoldsNothing, Buffers
  <2>3. CASE ~camera.streaming
    <3>1. v4l2' = v4l2 /\ held' = held /\ camera.state # "active" /\ held = {} /\ v4l2.on = FALSE
      BY <1>1, <1>6, <2>3 DEF CameraStop, CameraHoldsNothing, CameraInv
    <3> QED BY <1>1, <1>2, <1>3, <2>1, <3>1 DEF CameraInv, CameraFramesExclusive, CameraHoldsNothing, Buffers
  <2> QED BY <2>2, <2>3
<1> QED BY <1>4, <1>5, <1>6

\* One buffer changes hands between the driver and the application.
LEMMA HandOver ==
  ASSUME CameraInv, NEW buf \in Buffers, NEW to \in {"user", "queued", "done"}, camera' = camera, camera.state = "active",
         v4l2.owner[buf] # "none", v4l2' = [v4l2 EXCEPT !.owner[buf] = to],
         \/ to = "user" /\ held' = held \cup {buf}
         \/ to # "user" /\ held' = held \ {buf}
  PROVE  CameraInv'
<1> USE DEF CameraRec, V4l2Rec
<1>1. camera \in CameraRec /\ v4l2 \in V4l2Rec /\ held \subseteq Buffers /\ CameraFramesExclusive /\ CameraHoldsNothing
  BY DEF CameraInv
<1>2. /\ v4l2' \in V4l2Rec /\ v4l2'.on = v4l2.on /\ v4l2'.format = v4l2.format
      /\ \A b \in Buffers : v4l2'.owner[b] = IF b = buf THEN to ELSE v4l2.owner[b]
  BY <1>1
<1>3. camera.v4l2_fd = TRUE
  BY <1>1 DEF CameraHoldsNothing
<1>4. \A b \in Buffers : (b \in camera.mapped <=> b < camera.count) /\ (v4l2.owner[b] = "none" <=> b >= camera.count)
  BY <1>3 DEF CameraInv
<1>5. buf \in camera.mapped
  BY <1>1, <1>4 DEF Buffers
<1>6. CameraFramesExclusive'
  BY <1>1, <1>2, <1>5 DEF CameraFramesExclusive
<1>7. CameraHoldsNothing'
  BY <1>1, <1>2, <1>3 DEF CameraHoldsNothing
<1>8. \A b \in Buffers : v4l2'.owner[b] = "none" <=> b >= camera.count
  BY <1>2, <1>4
<1> QED BY <1>1, <1>2, <1>4, <1>6, <1>7, <1>8 DEF CameraInv, Buffers

LEMMA FramesKeep ==
  ASSUME CameraInv, Capture \/ ReturnFrame \/ DriverFills
  PROVE  CameraInv'
<1>1. held \subseteq Buffers /\ CameraFramesExclusive /\ CameraHoldsNothing /\ (camera.state # "active" => held = {})
  BY DEF CameraInv
<1>2. CASE Capture
  BY <1>2, HandOver DEF Capture
<1>3. CASE ReturnFrame
  <2>1. PICK b \in held : v4l2.owner[b] = "user" /\ v4l2' = [v4l2 EXCEPT !.owner[b] = "queued"] /\ held' = held \ {b}
    BY <1>3 DEF ReturnFrame
  <2>2. camera' = camera /\ camera.state = "active" /\ b \in Buffers
    BY <1>1, <1>3 DEF ReturnFrame
  <2> QED BY <2>1, <2>2, HandOver
<1>4. CASE DriverFills
  <2>1. PICK b \in Buffers : v4l2.owner[b] = "queued" /\ v4l2' = [v4l2 EXCEPT !.owner[b] = "done"]
    BY <1>4 DEF DriverFills
  <2>2. camera' = camera /\ camera.state = "active" /\ held' = held /\ b \notin held
    BY <1>1, <1>4, <2>1 DEF DriverFills, CameraHoldsNothing, CameraFramesExclusive
  <2> QED BY <2>1, <2>2, HandOver
<1> QED BY <1>2, <1>3, <1>4

LEMMA ConfigKeeps ==
  ASSUME CameraInv, NEW f \in Formats, SetConfig(f)
  PROVE  CameraInv'
<1>1. camera \in CameraRec /\ v4l2 \in V4l2Rec
  BY DEF CameraInv
<1>2. /\ camera' \in CameraRec /\ camera'.state = camera.state /\ camera'.v4l2_fd = camera.v4l2_fd
      /\ camera'.mapped = camera.mapped /\ camera'.count = camera.count /\ camera'.streaming = camera.streaming
      /\ camera'.set = TRUE /\ v4l2' = v4l2 /\ held' = held
  BY <1>1 DEF SetConfig, CameraRec
<1> QED BY <1>1, <1>2 DEF CameraInv, CameraFramesExclusive, CameraHoldsNothing

\* Of a camera with any number of buffers, whatever failed on the way: a
\* frame the application holds is mapped and the driver keeps off it, no
\* buffer is lost between the two, and a closed device holds nothing.
THEOREM CameraCorrect == CameraInit /\ [][CameraNext]_cameraVars => []CameraSafe
<1>1. CameraInv /\ [CameraNext]_cameraVars => CameraInv'
  <2> SUFFICES ASSUME CameraInv, [CameraNext]_cameraVars PROVE CameraInv'
    OBVIOUS
  <2>1. CASE CameraNext
    BY <2>1, CameraInitKeeps, CameraReopenKeeps, CameraEndKeeps, CameraStreamKeeps, FramesKeep, ConfigKeeps DEF CameraNext
  <2>2. CASE UNCHANGED cameraVars
    BY <2>2 DEF cameraVars, CameraInv, CameraFramesExclusive, CameraHoldsNothing
  <2> QED BY <2>1, <2>2
<1>2. CameraInv => CameraSafe
  BY DEF CameraInv, CameraSafe, CameraTypeOK, CameraRec, V4l2Rec
<1> QED BY <1>1, <1>2, CameraInitHolds, PTL

-----------------------------------------------------------------------------
(***************************************************************************)
(* The layout of a scan.                                                   *)
(***************************************************************************)
\* The channels p, q and r in the order of their scan indices: their slots
\* are 0, 2 and 4, and that is where the kernel puts them.
LEMMA LayoutOrdered ==
  ASSUME NEW index \in [Axes -> Int], NEW p \in Axes, NEW q \in Axes, NEW r \in Axes,
         Axes = {p, q, r}, index[p] < index[q], index[q] < index[r]
  PROVE  /\ compute_iio_scan_layout(index)[p] = 0 /\ compute_iio_scan_layout(index)[q] = 2
         /\ compute_iio_scan_layout(index)[r] = 4
         /\ ScanOrder(index)[1] = p /\ ScanOrder(index)[2] = q /\ ScanOrder(index)[3] = r
<1>1. p # q /\ q # r /\ p # r
  OBVIOUS
<1>2. /\ {b \in Axes : index[b] < index[p]} = {}
      /\ {b \in Axes : index[b] < index[q]} = {p}
      /\ {b \in Axes : index[b] < index[r]} = {p, q}
  OBVIOUS
<1>3. Cardinality({}) = 0 /\ Cardinality({p}) = 1
  BY FS_EmptySet, FS_Singleton
<1>4. Cardinality({p, q}) = 2
  <2>1. IsFiniteSet({p}) /\ Cardinality({p}) = 1
    BY FS_Singleton
  <2>2. Cardinality({p} \cup {q}) = Cardinality({p}) + 1
    BY <1>1, <2>1, FS_AddElement
  <2>3. {p} \cup {q} = {p, q}
    OBVIOUS
  <2> QED BY <2>1, <2>2, <2>3
<1>5. /\ compute_iio_scan_layout(index)[p] = 0 /\ compute_iio_scan_layout(index)[q] = 2
      /\ compute_iio_scan_layout(index)[r] = 4
  BY <1>2, <1>3, <1>4, SMTT(30) DEF compute_iio_scan_layout
<1> DEFINE Ordered(s) == \A i, j \in 1 .. 3 : i < j => index[s[i]] < index[s[j]]
           s0 == [i \in 1 .. 3 |-> IF i = 1 THEN p ELSE IF i = 2 THEN q ELSE r]
           o == ScanOrder(index)
<1>6. s0 \in [1 .. 3 -> Axes] /\ Ordered(s0)
  <2>1. s0[1] = p /\ s0[2] = q /\ s0[3] = r /\ s0 \in [1 .. 3 -> Axes]
    OBVIOUS
  <2> HIDE DEF s0
  <2>2. \A i \in 1 .. 3 : i = 1 \/ i = 2 \/ i = 3
    OBVIOUS
  <2> QED BY <2>1, <2>2
<1> HIDE DEF s0
<1>7. o \in [1 .. 3 -> Axes] /\ Ordered(o)
  BY <1>6 DEF ScanOrder
<1> HIDE DEF o
<1>8. index[o[1]] < index[o[2]] /\ index[o[2]] < index[o[3]] /\ o[1] \in Axes /\ o[2] \in Axes /\ o[3] \in Axes
  BY <1>7
<1>9. o[1] = p /\ o[2] = q /\ o[3] = r
  BY <1>8
<1> QED BY <1>5, <1>9 DEF o

\* The slot open_iio_buffer computes for a channel is the one the kernel
\* puts it in, whatever the order of the channels.
LEMMA LayoutRight ==
  ASSUME NEW k, k.index \in Indices, HasIndices(k)
  PROVE  /\ compute_iio_scan_layout(k.index) \in [Axes -> 0 .. 4]
         /\ \A a \in Axes : ScanOrder(k.index)[compute_iio_scan_layout(k.index)[a] \div 2 + 1] = a
<1> DEFINE index == k.index
<1>1. index \in [Axes -> Int] /\ \A a, b \in Axes : index[a] = index[b] => a = b
  BY SensorAssumption DEF HasIndices
<1> DEFINE Right == /\ compute_iio_scan_layout(index) \in [Axes -> 0 .. 4]
                    /\ \A a \in Axes : ScanOrder(index)[compute_iio_scan_layout(index)[a] \div 2 + 1] = a
<1>2. ASSUME NEW p \in Axes, NEW q \in Axes, NEW r \in Axes, Axes = {p, q, r}, index[p] < index[q], index[q] < index[r]
      PROVE  Right
  <2> DEFINE l == compute_iio_scan_layout(index)
             o == ScanOrder(index)
  <2>1. l[p] = 0 /\ l[q] = 2 /\ l[r] = 4 /\ o[1] = p /\ o[2] = q /\ o[3] = r
    BY <1>1, <1>2, LayoutOrdered
  <2>2. l = [a \in Axes |-> l[a]]
    BY DEF compute_iio_scan_layout
  <2> HIDE DEF l, o
  <2>3. \A a \in Axes : l[a] \in 0 .. 4
    BY <1>2, <2>1
  <2>4. l \in [Axes -> 0 .. 4]
    BY <2>2, <2>3
  <2>5. l[p] \div 2 + 1 = 1 /\ l[q] \div 2 + 1 = 2 /\ l[r] \div 2 + 1 = 3
    BY <2>1
  <2>6. \A a \in Axes : o[l[a] \div 2 + 1] = a
    BY <1>2, <2>1, <2>5
  <2> QED BY <2>4, <2>6 DEF l, o
<1> HIDE DEF Right, index
<1>3. Axes = {"x", "y", "z"} /\ "x" # "y" /\ "y" # "z" /\ "x" # "z"
  BY DEF Axes
<1>4. index["x"] # index["y"] /\ index["y"] # index["z"] /\ index["x"] # index["z"]
  BY <1>1, <1>3
<1>5. index["x"] \in Int /\ index["y"] \in Int /\ index["z"] \in Int
  BY <1>1, <1>3
<1>6. Right
  <2>1. CASE index["x"] < index["y"] /\ index["y"] < index["z"]
    BY <1>2, <1>3, <2>1
  <2>2. CASE index["x"] < index["z"] /\ index["z"] < index["y"]
    BY <1>2, <1>3, <2>2
  <2>3. CASE index["y"] < index["x"] /\ index["x"] < index["z"]
    BY <1>2, <1>3, <2>3
  <2>4. CASE index["y"] < index["z"] /\ index["z"] < index["x"]
    BY <1>2, <1>3, <2>4
  <2>5. CASE index["z"] < index["x"] /\ index["x"] < index["y"]
    BY <1>2, <1>3, <2>5
  <2>6. CASE index["z"] < index["y"] /\ index["y"] < index["x"]
    BY <1>2, <1>3, <2>6
  <2> QED BY <1>4, <1>5, <2>1, <2>2, <2>3, <2>4, <2>5, <2>6
<1> QED BY <1>6 DEF Right, index

-----------------------------------------------------------------------------
(***************************************************************************)
(* The sensor.                                                             *)
(***************************************************************************)
SensorRec == [state : {"absent", "closed", "open", "active"}, three : BOOLEAN, enable_buffer : BOOLEAN,
              buffer_fd : BOOLEAN, layout : [Axes -> 0 .. 4], scale : Scales, offset : [Axes -> Int], rate : Rates]
IioRec    == [index : Indices, writable : BOOLEAN, scale : {0, 2}, enabled : BOOLEAN, rate : Rates, pose : Poses]
RestRec   == [pose : [Axes -> Int], scale : {0, 1, 2}]

\* The device d and the kernel k agree on the buffer, and its layout is the
\* kernel's for as long as it is read from.
BufferInv(d, k) ==
    /\ d \in SensorRec /\ k \in IioRec
    /\ k.writable => k.enabled = d.buffer_fd
    /\ d.buffer_fd => HasIndices(k) /\ d.layout = compute_iio_scan_layout(k.index)

\* The offsets are the ones of the last full calibration.
RestInv == rest.scale # 0 => \A a \in Axes : sensor.offset[a] = -(rest.pose[a] * rest.scale)

SensorInv ==
    /\ BufferInv(sensor, iio) /\ rest \in RestRec /\ RestInv
    /\ sensor.state \in {"absent", "closed"} => ~sensor.buffer_fd
    /\ sensor.state = "absent" => rest.scale = 0

\* open_iio_buffer of a device that does not read from the buffer.
LEMMA OpenBuffer ==
  ASSUME NEW d, NEW k, BufferInv(d, k), ~d.buffer_fd, NEW o \in open_iio_buffer(d, k)
  PROVE  BufferInv(o[1], o[2]) /\ o[1].state = d.state /\ o[1].offset = d.offset /\ o[1].three = d.three
<1> DEFINE e == [d EXCEPT !.layout = compute_iio_scan_layout(k.index)]
<1>1. d \in SensorRec /\ k \in IioRec /\ d.buffer_fd = FALSE
  BY DEF BufferInv, SensorRec
<1>2. CASE ~(d.three /\ HasIndices(k))
  <2>1. o = <<d, k>>
    BY <1>2 DEF open_iio_buffer
  <2> QED BY <2>1
<1>3. CASE d.three /\ HasIndices(k)
  <2>1. \/ o = <<[e EXCEPT !.buffer_fd = TRUE], BufferArmed(k, TRUE)>>
        \/ o = <<e, BufferArmed(k, FALSE)>>
    BY <1>3 DEF open_iio_buffer
  <2>2. compute_iio_scan_layout(k.index) \in [Axes -> 0 .. 4]
    BY <1>1, <1>3, LayoutRight DEF IioRec
  <2>3. /\ e \in SensorRec /\ e.layout = compute_iio_scan_layout(k.index) /\ e.state = d.state /\ e.offset = d.offset
        /\ e.buffer_fd = FALSE /\ e.three = d.three
    BY <1>1, <2>2 DEF SensorRec
  <2> HIDE DEF e
  <2>4. \A on \in BOOLEAN : /\ BufferArmed(k, on) \in IioRec /\ BufferArmed(k, on).index = k.index
                            /\ BufferArmed(k, on).writable => BufferArmed(k, on).enabled = on
    BY <1>1 DEF BufferArmed, IioRec
  <2>5. \A on \in BOOLEAN : HasIndices(BufferArmed(k, on))
    BY <1>3, <2>4 DEF HasIndices
  <2>6. CASE o = <<e, BufferArmed(k, FALSE)>>
    BY <2>3, <2>4, <2>6 DEF BufferInv
  <2>7. CASE o = <<[e EXCEPT !.buffer_fd = TRUE], BufferArmed(k, TRUE)>>
    <3> DEFINE f == [e EXCEPT !.buffer_fd = TRUE]
    <3>1. /\ f \in SensorRec /\ f.buffer_fd = TRUE /\ f.layout = e.layout /\ f.state = e.state /\ f.offset = e.offset
          /\ f.three = e.three
      BY <2>3 DEF SensorRec
    <3>2. o[1] = f /\ o[2] = BufferArmed(k, TRUE)
      BY <2>7
    <3> HIDE DEF f
    <3> QED BY <2>3, <2>4, <2>5, <3>1, <3>2 DEF BufferInv
  <2> QED BY <2>1, <2>6, <2>7
<1> QED BY <1>2, <1>3

LEMMA CloseBuffer ==
  ASSUME NEW d \in SensorRec, NEW k \in IioRec, NEW o, o = close_iio_buffer(d, k)
  PROVE  /\ BufferInv(o[1], o[2]) /\ o[1].state = d.state /\ o[1].offset = d.offset /\ o[1].buffer_fd = FALSE
         /\ o[2] = BufferArmed(k, FALSE)
<1>1. o[1] = [d EXCEPT !.buffer_fd = FALSE] /\ o[2] = BufferArmed(k, FALSE)
  BY DEF close_iio_buffer
<1>2. o[1] \in SensorRec /\ o[1].state = d.state /\ o[1].offset = d.offset /\ o[1].buffer_fd = FALSE
  BY <1>1 DEF SensorRec
<1>3. o[2] \in IioRec /\ (o[2].writable => o[2].enabled = FALSE)
  BY <1>1 DEF BufferArmed, IioRec
<1> QED BY <1>1, <1>2, <1>3 DEF BufferInv

LEMMA SensorOpen ==
  ASSUME NEW d, NEW k, BufferInv(d, k), ~d.buffer_fd, NEW o \in sensor_open(d, k)
  PROVE  BufferInv(o[1], o[2]) /\ o[1].state = "open" /\ o[1].offset = d.offset
<1> DEFINE e == [d EXCEPT !.scale = IF k.scale = 0 THEN 1 ELSE k.scale, !.state = "open"]
           l == [k EXCEPT !.rate = IF k.writable THEN d.rate ELSE @]
<1>1. d \in SensorRec /\ k \in IioRec /\ d.buffer_fd = FALSE
  BY DEF BufferInv, SensorRec
<1>2. e \in SensorRec /\ e.state = "open" /\ e.offset = d.offset /\ e.buffer_fd = FALSE
  <2>1. (IF k.scale = 0 THEN 1 ELSE k.scale) \in Scales
    BY <1>1 DEF IioRec, Scales
  <2> QED BY <1>1, <2>1 DEF SensorRec
<1>3. l \in IioRec /\ l.index = k.index /\ l.writable = k.writable /\ l.enabled = k.enabled
  BY <1>1 DEF IioRec, SensorRec
<1>4. o \in open_iio_buffer(e, l) \/ o = <<e, l>>
  BY DEF sensor_open
<1> HIDE DEF e, l
<1>5. BufferInv(e, l)
  BY <1>1, <1>2, <1>3 DEF BufferInv
<1> QED BY <1>2, <1>4, <1>5, OpenBuffer

LEMMA NoSensorFields ==
  /\ NoSensor \in SensorRec /\ NoSensor.state = "absent" /\ NoSensor.buffer_fd = FALSE /\ NoSensor.offset = Zero
  /\ NoRest \in RestRec /\ NoRest.scale = 0
<1>1. (CHOOSE r \in Rates : TRUE) \in Rates /\ Zero \in [Axes -> 0 .. 4] /\ Zero \in [Axes -> Int]
  BY SensorAssumption DEF Zero
<1> QED BY <1>1 DEF NoSensor, NoRest, SensorRec, RestRec, Scales

LEMMA SensorInitHolds == SensorInit => SensorInv
<1> SUFFICES ASSUME SensorInit PROVE SensorInv
  OBVIOUS
<1>1. iio \in IioRec /\ iio.enabled = FALSE
  <2>1. (CHOOSE r \in Rates : TRUE) \in Rates
    BY SensorAssumption
  <2> QED BY <2>1 DEF SensorInit, IioRec
<1>2. sensor = NoSensor /\ rest = NoRest
  BY DEF SensorInit
<1> QED BY <1>1, <1>2, NoSensorFields DEF SensorInv, BufferInv, RestInv

\* Opening, closing and freeing the device.
LEMMA SensorLifeKeeps ==
  ASSUME SensorInv, SensorServiceInit \/ SensorReopen \/ SensorClose \/ SensorServiceCleanup
  PROVE  SensorInv'
<1>1. /\ BufferInv(sensor, iio) /\ rest \in RestRec /\ sensor \in SensorRec /\ iio \in IioRec
  BY DEF SensorInv, BufferInv
<1>2. CASE SensorServiceInit
  <2>1. PICK three \in BOOLEAN, buffered \in BOOLEAN, rate \in Rates :
           \E o \in sensor_open(sensor_hal_create(three, buffered, rate), iio) : SensorBecomes(o)
    BY <1>2 DEF SensorServiceInit
  <2> DEFINE d == sensor_hal_create(three, buffered, rate)
  <2>2. d \in SensorRec /\ d.buffer_fd = FALSE
    BY NoSensorFields DEF sensor_hal_create, SensorRec
  <2>3. iio.writable => iio.enabled = FALSE
    BY <1>1, <1>2 DEF SensorServiceInit, SensorInv, BufferInv, SensorRec
  <2> HIDE DEF d
  <2>4. BufferInv(d, iio)
    BY <1>1, <2>2, <2>3 DEF BufferInv
  <2>5. PICK o \in sensor_open(d, iio) : SensorBecomes(o)
    BY <2>1 DEF d
  <2>6. BufferInv(o[1], o[2]) /\ o[1].state = "open"
    BY <2>2, <2>4, SensorOpen
  <2>7. rest.scale = 0 /\ rest' = rest
    BY <1>2 DEF SensorServiceInit, SensorInv
  <2> QED BY <1>1, <2>5, <2>6, <2>7 DEF SensorBecomes, SensorInv, RestInv
<1>3. CASE SensorReopen
  <2>1. PICK o \in sensor_open(sensor, iio) : SensorBecomes(o)
    BY <1>3 DEF SensorReopen
  <2>2. ~sensor.buffer_fd
    BY <1>3 DEF SensorReopen, SensorInv
  <2>3. BufferInv(o[1], o[2]) /\ o[1].state = "open" /\ o[1].offset = sensor.offset
    BY <1>1, <2>1, <2>2, SensorOpen
  <2>4. rest' = rest
    BY <1>3 DEF SensorReopen
  <2> QED BY <1>1, <2>1, <2>3, <2>4 DEF SensorBecomes, SensorInv, RestInv
<1>4. CASE SensorClose
  <2> DEFINE d == [sensor EXCEPT !.state = "closed"]
             o == close_iio_buffer(d, iio)
  <2>1. d \in SensorRec /\ d.state = "closed" /\ d.offset = sensor.offset
    BY <1>1 DEF SensorRec
  <2>2. SensorBecomes(o) /\ rest' = rest
    BY <1>4 DEF SensorClose, sensor_close
  <2> HIDE DEF d
  <2>3. BufferInv(o[1], o[2]) /\ o[1].state = "closed" /\ o[1].offset = sensor.offset /\ o[1].buffer_fd = FALSE
    BY <1>1, <2>1, CloseBuffer
  <2> HIDE DEF o
  <2> QED BY <1>1, <2>2, <2>3 DEF SensorBecomes, SensorInv, RestInv
<1>5. CASE SensorServiceCleanup
  <2> DEFINE o == sensor_close(sensor_stop(sensor), iio)
             p == sensor_priv_cleanup(o[1], o[2])
  <2>1. SensorBecomes(p) /\ rest' = NoRest
    BY <1>5 DEF SensorServiceCleanup
  <2>2. BufferInv(o[1], o[2])
    <3> DEFINE c == [sensor_stop(sensor) EXCEPT !.state = "closed"]
    <3>1. c \in SensorRec
      BY <1>1 DEF SensorRec, sensor_stop
    <3>2. o = close_iio_buffer(c, iio)
      BY DEF sensor_close
    <3> HIDE DEF c, o
    <3> QED BY <1>1, <3>1, <3>2, CloseBuffer
  <2>3. o[1] \in SensorRec /\ o[2] \in IioRec
    BY <2>2 DEF BufferInv
  <2> HIDE DEF o
  <2>4. p[1] = NoSensor /\ p[2] = BufferArmed(o[2], FALSE)
    BY <2>3 DEF sensor_priv_cleanup, close_iio_buffer
  <2>5. BufferArmed(o[2], FALSE) \in IioRec /\ (BufferArmed(o[2], FALSE).writable => BufferArmed(o[2], FALSE).enabled = FALSE)
    BY <2>3 DEF BufferArmed, IioRec
  <2> HIDE DEF p
  <2>6. sensor' = NoSensor /\ iio' \in IioRec /\ (iio'.writable => iio'.enabled = FALSE) /\ rest' = NoRest
    BY <2>1, <2>4, <2>5 DEF SensorBecomes
  <2> QED BY <2>6, NoSensorFields DEF SensorInv, BufferInv, RestInv
<1> QED BY <1>2, <1>3, <1>4, <1>5

LEMMA EnableKeeps ==
  ASSUME SensorInv, NEW enable \in BOOLEAN, EnableBuffer(enable)
  PROVE  SensorInv'
<1> DEFINE d == [sensor EXCEPT !.enable_buffer = enable]
<1>1. /\ BufferInv(sensor, iio) /\ rest \in RestRec /\ sensor \in SensorRec /\ iio \in IioRec /\ rest' = rest
      /\ sensor.state # "absent"
  BY DEF SensorInv, BufferInv, EnableBuffer
<1>2. /\ d \in SensorRec /\ d.state = sensor.state /\ d.buffer_fd = sensor.buffer_fd /\ d.offset = sensor.offset
      /\ d.layout = sensor.layout
  BY <1>1 DEF SensorRec
<1>3. \/ ~d.buffer_fd /\ d.state # "closed" /\ \E o \in open_iio_buffer(d, iio) : SensorBecomes(o)
      \/ SensorBecomes(close_iio_buffer(d, iio))
      \/ SensorBecomes(<<d, iio>>)
  BY DEF EnableBuffer
<1> HIDE DEF d
<1>4. BufferInv(d, iio)
  BY <1>1, <1>2 DEF BufferInv
<1>5. CASE ~d.buffer_fd /\ d.state # "closed" /\ \E o \in open_iio_buffer(d, iio) : SensorBecomes(o)
  <2>1. PICK o \in open_iio_buffer(d, iio) : SensorBecomes(o)
    BY <1>5
  <2>2. BufferInv(o[1], o[2]) /\ o[1].state = d.state /\ o[1].offset = d.offset
    BY <1>4, <1>5, OpenBuffer
  <2> QED BY <1>1, <1>2, <1>5, <2>1, <2>2 DEF SensorBecomes, SensorInv, RestInv
<1>6. CASE SensorBecomes(close_iio_buffer(d, iio))
  <2> DEFINE o == close_iio_buffer(d, iio)
  <2>1. BufferInv(o[1], o[2]) /\ o[1].state = d.state /\ o[1].offset = d.offset /\ o[1].buffer_fd = FALSE
    BY <1>1, <1>2, CloseBuffer
  <2> HIDE DEF o
  <2>2. SensorBecomes(o)
    BY <1>6 DEF o
  <2> QED BY <1>1, <1>2, <2>1, <2>2 DEF SensorBecomes, SensorInv, RestInv
<1>7. CASE SensorBecomes(<<d, iio>>)
  <2>1. sensor' = d /\ iio' = iio
    BY <1>7 DEF SensorBecomes
  <2> QED BY <1>1, <1>2, <1>4, <2>1 DEF SensorInv, RestInv
<1> QED BY <1>3, <1>5, <1>6, <1>7

\* The commands that touch neither the buffer nor its layout.
LEMMA CommandsKeep ==
  ASSUME SensorInv,
         \/ SensorStart \/ SensorStop \/ Moved
         \/ \E r \in Rates : SetRate(r)
         \/ \E s \in Scales : SetScale(s)
         \/ \E v \in {1} : SetOffsets(v)
         \/ \E readable \in {Axes, Axes \ {"y"}} : Calibrate(readable)
  PROVE  SensorInv'
<1> USE DEF SensorRec, IioRec
<1>1. /\ BufferInv(sensor, iio) /\ rest \in RestRec /\ sensor \in SensorRec /\ iio \in IioRec /\ RestInv
  BY DEF SensorInv, BufferInv
<1>2. ASSUME sensor' \in SensorRec, iio' \in IioRec, sensor'.buffer_fd = sensor.buffer_fd, sensor'.layout = sensor.layout,
             iio'.index = iio.index, iio'.writable = iio.writable, iio'.enabled = iio.enabled
      PROVE  BufferInv(sensor', iio')
  BY <1>1, <1>2 DEF BufferInv, HasIndices
<1>3. CASE SensorStart \/ SensorStop
  <2>1. /\ sensor' \in SensorRec /\ iio' = iio /\ sensor'.buffer_fd = sensor.buffer_fd /\ sensor'.layout = sensor.layout
        /\ sensor'.offset = sensor.offset /\ sensor'.state \in {"open", "active"} /\ rest' = rest
    BY <1>1, <1>3 DEF SensorStart, SensorStop, sensor_start, sensor_stop
  <2> QED BY <1>1, <1>2, <2>1 DEF SensorInv, RestInv
<1>4. CASE Moved
  <2>1. /\ sensor' = sensor /\ rest' = rest /\ iio' \in IioRec /\ iio'.index = iio.index
        /\ iio'.writable = iio.writable /\ iio'.enabled = iio.enabled
    BY <1>1, <1>4 DEF Moved
  <2> QED BY <1>1, <1>2, <2>1 DEF SensorInv, RestInv
<1>5. CASE \E r \in Rates : SetRate(r)
  <2>1. PICK r \in Rates : SetRate(r)
    BY <1>5
  <2>2. /\ sensor' \in SensorRec /\ sensor'.buffer_fd = sensor.buffer_fd /\ sensor'.layout = sensor.layout
        /\ sensor'.offset = sensor.offset /\ sensor'.state = sensor.state /\ rest' = rest
    BY <1>1, <2>1 DEF SetRate
  <2>3. iio' \in IioRec /\ iio'.index = iio.index /\ iio'.writable = iio.writable /\ iio'.enabled = iio.enabled
    <3>1. iio' = [iio EXCEPT !.rate = IF iio.writable THEN r ELSE iio.rate]
      BY <1>1, <2>1 DEF SetRate
    <3>2. (IF iio.writable THEN r ELSE iio.rate) \in Rates
      BY <1>1
    <3> QED BY <1>1, <3>1, <3>2
  <2> QED BY <1>1, <1>2, <2>2, <2>3 DEF SensorInv, RestInv
<1>6. CASE \E s \in Scales : SetScale(s)
  <2>1. /\ sensor' \in SensorRec /\ iio' = iio /\ sensor'.buffer_fd = sensor.buffer_fd /\ sensor'.layout = sensor.layout
        /\ sensor'.offset = sensor.offset /\ sensor'.state = sensor.state /\ rest' = rest
    BY <1>1, <1>6 DEF SetScale
  <2> QED BY <1>1, <1>2, <2>1 DEF SensorInv, RestInv
<1>7. CASE \E v \in {1} : SetOffsets(v)
  <2>1. /\ sensor' \in SensorRec /\ iio' = iio /\ sensor'.buffer_fd = sensor.buffer_fd /\ sensor'.layout = sensor.layout
        /\ sensor'.state = sensor.state /\ rest' = NoRest
    BY <1>1, <1>7 DEF SetOffsets
  <2> QED BY <1>1, <1>2, <2>1, NoSensorFields DEF SensorInv, RestInv
<1>8. CASE \E readable \in {Axes, Axes \ {"y"}} : Calibrate(readable)
  <2>1. PICK readable \in {Axes, Axes \ {"y"}} : Calibrate(readable)
    BY <1>8
  <2> DEFINE off == [a \in Axes |-> IF a \in readable THEN -read_sysfs_axis(sensor, iio, a) ELSE 0]
  <2>2. \A a \in Axes : iio.pose[a] \in Int /\ sensor.scale \in Int /\ iio.pose[a] * sensor.scale \in Int
    BY <1>1, SensorAssumption DEF Scales
  <2>3. off \in [Axes -> Int] /\ (readable = Axes => \A a \in Axes : off[a] = -(iio.pose[a] * sensor.scale))
    BY <2>2 DEF read_sysfs_axis, read_sysfs_int
  <2>4. /\ sensor' = IF ~sensor.three THEN sensor ELSE [sensor EXCEPT !.offset = off]
        /\ rest' = IF sensor.three /\ readable = Axes THEN [pose |-> iio.pose, scale |-> sensor.scale] ELSE NoRest
        /\ iio' = iio /\ sensor.state # "absent"
    BY <2>1 DEF Calibrate
  <2> HIDE DEF off
  <2>5. /\ sensor' \in SensorRec /\ sensor'.buffer_fd = sensor.buffer_fd /\ sensor'.layout = sensor.layout
        /\ sensor'.state = sensor.state /\ (sensor.three => sensor'.offset = off)
    BY <1>1, <2>3, <2>4
  <2>6. CASE sensor.three /\ readable = Axes
    <3>1. rest'.pose = iio.pose /\ rest'.scale = sensor.scale /\ rest' \in RestRec
      BY <1>1, <2>4, <2>6, SensorAssumption DEF RestRec, Scales
    <3>2. RestInv'
      BY <2>3, <2>5, <2>6, <3>1 DEF RestInv
    <3> QED BY <1>1, <1>2, <2>4, <2>5, <3>1, <3>2 DEF SensorInv
  <2>7. CASE ~(sensor.three /\ readable = Axes)
    <3>1. rest' = NoRest
      BY <2>4, <2>7
    <3> QED BY <1>1, <1>2, <2>4, <2>5, <3>1, NoSensorFields DEF SensorInv, RestInv
  <2> QED BY <2>6, <2>7
<1> QED BY <1>3, <1>4, <1>5, <1>6, <1>7, <1>8

\* Of a sensor whose channels come in any order and measure anything: a
\* closed device holds neither the buffer nor its descriptor, every axis is
\* read from its own slot, alike in both modes, and a device at rest where
\* it was calibrated reads zero.
THEOREM SensorCorrect == SensorInit /\ [][SensorNext]_sensorVars => []SensorSafe
<1>1. SensorInv /\ [SensorNext]_sensorVars => SensorInv'
  <2> SUFFICES ASSUME SensorInv, [SensorNext]_sensorVars PROVE SensorInv'
    OBVIOUS
  <2>1. CASE SensorNext
    BY <2>1, SensorLifeKeeps, EnableKeeps, CommandsKeep DEF SensorNext
  <2>2. CASE UNCHANGED sensorVars
    BY <2>2 DEF sensorVars, SensorInv, BufferInv, RestInv
  <2> QED BY <2>1, <2>2
<1>2. SensorInv => SensorSafe
  <2> SUFFICES ASSUME SensorInv PROVE SensorSafe
    OBVIOUS
  <2>1. sensor \in SensorRec /\ iio \in IioRec /\ BufferInv(sensor, iio)
    BY DEF SensorInv, BufferInv
  <2>2. SensorTypeOK
    BY <2>1 DEF SensorTypeOK, SensorRec
  <2>3. SensorHoldsNothing
    BY <2>1 DEF SensorHoldsNothing, SensorInv, BufferInv
  <2>4. ASSUME NEW a \in Axes PROVE ReadAxis(sensor, iio, a) = iio.pose[a] * sensor.scale + sensor.offset[a]
    <3>1. CASE sensor.buffer_fd
      <4>1. ScanOrder(iio.index)[sensor.layout[a] \div 2 + 1] = a
        BY <2>1, <3>1, LayoutRight DEF BufferInv, IioRec
      <4> QED BY <3>1, <4>1 DEF ReadAxis
    <3>2. CASE ~sensor.buffer_fd
      BY <3>2 DEF ReadAxis, read_sysfs_axis, read_sysfs_int
    <3> QED BY <3>1, <3>2
  <2>5. ASSUME NEW a \in Axes, rest = [pose |-> iio.pose, scale |-> sensor.scale]
        PROVE  iio.pose[a] * sensor.scale + sensor.offset[a] = 0
    <3>1. rest.pose = iio.pose /\ rest.scale = sensor.scale /\ sensor.scale # 0
      BY <2>1, <2>5 DEF SensorRec, Scales
    <3>2. sensor.offset[a] = -(iio.pose[a] * sensor.scale)
      BY <3>1 DEF SensorInv, RestInv
    <3>3. iio.pose[a] * sensor.scale \in Int
      BY <2>1, SensorAssumption DEF IioRec, SensorRec, Scales
    <3> QED BY <3>2, <3>3
  <2>6. SensorReadsRight
    BY <2>4, <2>5 DEF SensorReadsRight, sensor_service_hal_read_3axis
  <2> QED BY <2>2, <2>3, <2>6 DEF SensorSafe
<1> QED BY <1>1, <1>2, SensorInitHolds, PTL
(***************************************************************************)
(* The PCM stream.                                                         *)
(***************************************************************************)
FrameBytes == {1, 2, 3, 4, 6, 8}
AudioRec   == [state : {"absent", "closed", "open", "active"}, direction : {"capture", "playback"}, rate : PcmRates,
               bytes_per_frame : FrameBytes, volume : 0 .. 100, muted : BOOLEAN]
MovedRec   == [asked : Nat, got : Nat, frame : FrameBytes, failed : BOOLEAN]

\* A stream that runs has moved frames since the last failure.
PcmInv ==
    /\ audio \in AudioRec /\ moved \in MovedRec
    /\ pcm \in {"null", "setup", "prepared", "running", "xrun"}
    /\ PcmHandleFollowsState
    /\ moved.got =< moved.asked /\ moved.got % moved.frame = 0
    /\ moved.failed => pcm \notin {"running", "xrun"}

LEMMA NoAudioTyped == NoAudio \in AudioRec /\ NoAudio.state = "absent"
<1>1. (CHOOSE r \in PcmRates : TRUE) \in PcmRates
  BY PcmAssumption
<1> QED BY <1>1 DEF NoAudio, AudioRec, FrameBytes

LEMMA PcmInitHolds == PcmInit => PcmInv
<1> SUFFICES ASSUME PcmInit PROVE PcmInv
  OBVIOUS
<1>1. moved \in MovedRec /\ moved.got = 0 /\ moved.asked = 0 /\ moved.frame = 1 /\ moved.failed = FALSE
  BY DEF PcmInit, NoMove, MovedRec, FrameBytes
<1>2. 0 % 1 = 0
  OBVIOUS
<1> QED BY <1>1, <1>2, NoAudioTyped DEF PcmInit, PcmInv, PcmHandleFollowsState

\* audio_hal_create, for every format and number of channels.
LEMMA CreatedTyped ==
  ASSUME NEW dir \in {"capture", "playback"}, NEW f \in PcmFormats, NEW c \in Channels, NEW r \in PcmRates
  PROVE  audio_hal_create(dir, f, c, r) \in AudioRec
<1>1. audio_hal_bytes_per_frame(f, c) \in FrameBytes
  BY DEF PcmFormats, BytesPerSample, Channels, audio_hal_bytes_per_frame, FrameBytes
<1>2. NoAudio \in AudioRec
  BY NoAudioTyped
<1> QED BY <1>1, <1>2 DEF audio_hal_create, AudioRec

\* The steps that leave the outcome of the last transfer alone.
LEMMA PcmQuietStep ==
  ASSUME PcmInv, UNCHANGED moved, audio' \in AudioRec,
         pcm' \in {"null", "setup", "prepared"},
         (pcm' # "null") = (audio'.state \in {"open", "active"})
  PROVE  PcmInv'
BY DEF PcmInv, PcmHandleFollowsState

\* audio_open, whether it succeeds or not.
LEMMA PcmOpenStep == PcmInv /\ (AudioServiceInit \/ AudioReopen) => PcmInv'
<1> SUFFICES ASSUME PcmInv, AudioServiceInit \/ AudioReopen PROVE PcmInv'
  OBVIOUS
<1>1. ASSUME NEW d \in AudioRec, NEW s \in PcmRates, AudioOpened(d, s), UNCHANGED moved PROVE PcmInv'
  <2>1. audio' \in AudioRec /\ audio'.state = "open" /\ pcm' = "prepared"
    BY <1>1 DEF AudioOpened, AudioRec
  <2> QED BY <2>1, <1>1, PcmQuietStep
<1>2. CASE AudioServiceInit
  <2>1. PICK dir \in {"capture", "playback"}, f \in PcmFormats, c \in Channels, r \in PcmRates, s \in PcmRates :
          \/ AudioOpened(audio_hal_create(dir, f, c, r), s)
          \/ UNCHANGED <<audio, pcm>>
    BY <1>2 DEF AudioServiceInit
  <2>2. UNCHANGED moved
    BY <1>2 DEF AudioServiceInit
  <2>3. CASE AudioOpened(audio_hal_create(dir, f, c, r), s)
    BY <2>2, <2>3, <1>1, CreatedTyped
  <2>4. CASE UNCHANGED <<audio, pcm>>
    BY <2>2, <2>4 DEF PcmInv, PcmHandleFollowsState
  <2> QED BY <2>1, <2>3, <2>4
<1>3. CASE AudioReopen
  <2>1. audio \in AudioRec /\ audio.state = "closed" /\ UNCHANGED moved
    BY <1>3 DEF AudioReopen, PcmInv
  <2>2. ASSUME NEW s \in PcmRates, AudioOpened(audio, s) PROVE PcmInv'
    BY <2>1, <2>2, <1>1
  <2>3. CASE AudioOpenFails(audio)
    <3>1. PICK rate \in PcmRates : audio' = [audio EXCEPT !.rate = rate] /\ pcm' = "null"
      BY <2>3 DEF AudioOpenFails
    <3>2. audio' \in AudioRec /\ audio'.state = "closed"
      BY <2>1, <3>1 DEF AudioRec
    <3> QED BY <2>1, <3>1, <3>2, PcmQuietStep
  <2> QED BY <1>3, <2>2, <2>3 DEF AudioReopen
<1> QED BY <1>2, <1>3

\* The steps of audio_service_hal.c and of audio_control on an open device.
LEMMA PcmDeviceStep ==
  ASSUME PcmInv, AudioClose \/ AudioStart \/ AudioStop \/ AudioServiceCleanup \/ Drain \/ Recover
  PROVE  PcmInv'
<1> USE DEF PcmInv
<1>1. CASE AudioClose
  <2>1. audio' \in AudioRec /\ audio'.state = "closed"
    BY <1>1 DEF AudioClose, AudioRec
  <2> QED BY <1>1, <2>1, PcmQuietStep DEF AudioClose
<1>2. CASE AudioStart
  <2>1. audio' \in AudioRec /\ audio'.state = "active" /\ audio.state = "open"
    BY <1>2 DEF AudioStart, audio_start, AudioRec
  <2> QED BY <1>2, <2>1 DEF AudioStart, PcmHandleFollowsState
<1>3. CASE AudioStop
  <2>1. audio' \in AudioRec /\ audio'.state = "open" /\ audio.state \in {"open", "active"}
    BY <1>3 DEF AudioStop, audio_stop, AudioRec
  <2>2. pcm' = "prepared"
    BY <1>3, <2>1 DEF AudioStop, PcmHandleFollowsState
  <2> QED BY <1>3, <2>1, <2>2, PcmQuietStep DEF AudioStop
<1>4. CASE AudioServiceCleanup
  BY <1>4, NoAudioTyped, PcmQuietStep DEF AudioServiceCleanup
<1>5. CASE Drain
  BY <1>5, PcmQuietStep DEF Drain, PcmHandleFollowsState
<1>6. CASE Recover
  BY <1>6, PcmQuietStep DEF Recover, PcmHandleFollowsState
<1> QED BY <1>1, <1>2, <1>3, <1>4, <1>5, <1>6

\* audio_control, and the hardware.
LEMMA PcmControlStep ==
  ASSUME PcmInv, (\E v \in {0, 100, 101} : SetVolume(v)) \/ (\E m \in BOOLEAN : SetMute(m)) \/ Xrun
  PROVE  PcmInv'
<1> USE DEF PcmInv
<1>1. ASSUME NEW v \in {0, 100, 101}, SetVolume(v) PROVE PcmInv'
  <2>1. (IF v > 100 THEN 100 ELSE v) \in 0 .. 100
    OBVIOUS
  <2>2. audio' \in AudioRec /\ audio'.state = audio.state
    BY <1>1, <2>1 DEF SetVolume, AudioRec
  <2> QED BY <1>1, <2>2 DEF SetVolume, PcmHandleFollowsState
<1>2. ASSUME NEW m \in BOOLEAN, SetMute(m) PROVE PcmInv'
  <2>1. audio' \in AudioRec /\ audio'.state = audio.state
    BY <1>2 DEF SetMute, AudioRec
  <2> QED BY <1>2, <2>1 DEF SetMute, PcmHandleFollowsState
<1>3. CASE Xrun
  BY <1>3 DEF Xrun, PcmHandleFollowsState
<1> QED BY <1>1, <1>2, <1>3

\* Whole frames: what n frames are in bytes.
LEMMA FramesToBytes ==
  ASSUME NEW bytes \in Nat, NEW fb \in FrameBytes, NEW n \in 0 .. (bytes \div fb)
  PROVE  n * fb \in Nat /\ n * fb =< bytes /\ (n * fb) % fb = 0
<1>1. CASE fb = 1 BY <1>1
<1>2. CASE fb = 2 BY <1>2
<1>3. CASE fb = 3 BY <1>3
<1>4. CASE fb = 4 BY <1>4
<1>5. CASE fb = 6 BY <1>5
<1>6. CASE fb = 8 BY <1>6
<1> QED BY <1>1, <1>2, <1>3, <1>4, <1>5, <1>6 DEF FrameBytes

\* audio_read and audio_write.
LEMMA PcmTransferStep ==
  ASSUME PcmInv, NEW dir \in {"capture", "playback"},
         TransferFails(dir) \/ \E x \in 1 .. MaxFrames * 4 : Transfer(x, dir)
  PROVE  PcmInv'
<1>1. CASE TransferFails(dir)
  <2>1. moved' \in MovedRec /\ moved'.got = 0 /\ moved'.asked = 0 /\ moved'.frame = 1
    BY <1>1 DEF TransferFails, NoMove, MovedRec, FrameBytes
  <2>2. 0 % 1 = 0
    OBVIOUS
  <2>3. pcm' \in {"prepared", "setup"} /\ pcm # "null"
    BY <1>1 DEF TransferFails
  <2> QED BY <1>1, <2>1, <2>2, <2>3 DEF TransferFails, PcmInv, PcmHandleFollowsState
<1>2. ASSUME NEW x \in 1 .. MaxFrames * 4, Transfer(x, dir) PROVE PcmInv'
  <2>1. x \in Nat /\ audio.bytes_per_frame \in FrameBytes
    BY PcmAssumption DEF PcmInv, AudioRec
  <2>2. PICK n \in 0 .. (x \div audio.bytes_per_frame) :
          moved' = [asked |-> x, got |-> n * audio.bytes_per_frame, frame |-> audio.bytes_per_frame, failed |-> FALSE]
    BY <1>2 DEF Transfer, PcmMoves
  <2>3. moved' \in MovedRec /\ moved'.got =< moved'.asked /\ moved'.got % moved'.frame = 0 /\ moved'.failed = FALSE
    BY <2>1, <2>2, FramesToBytes DEF MovedRec
  <2> QED BY <1>2, <2>3 DEF Transfer, PcmInv, PcmHandleFollowsState
<1> QED BY <1>1, <1>2

LEMMA PcmStep == PcmInv /\ [PcmNext]_pcmVars => PcmInv'
<1> SUFFICES ASSUME PcmInv, [PcmNext]_pcmVars PROVE PcmInv'
  OBVIOUS
<1>1. CASE UNCHANGED pcmVars
  BY <1>1 DEF PcmInv, pcmVars, PcmHandleFollowsState
<1>2. CASE PcmNext
  BY <1>2, PcmOpenStep, PcmDeviceStep, PcmControlStep, PcmTransferStep DEF PcmNext
<1> QED BY <1>1, <1>2

LEMMA PcmInvSafe == PcmInv => PcmSafe
BY DEF PcmInv, AudioRec, PcmSafe, PcmTypeOK, PcmTransfers

(***************************************************************************)
(* The GPIO pin.                                                           *)
(***************************************************************************)
PinRec   == [state : {"absent", "closed", "open", "active"}, value_fd : BOOLEAN, exported : BOOLEAN,
             direction : {"in", "out"}, initial : {0, 1}, edge : BOOLEAN]
SysfsRec == [exported : BOOLEAN, direction : {"in", "out"}, level : {0, 1}, edge : BOOLEAN, pending : BOOLEAN,
             taken : BOOLEAN]
ToldRec  == [rc : {"none", "ok", "io", "invalid"}, value : {-1, 0, 1}, agrees : BOOLEAN]

\* What a device and the kernel agree on: the file is open only on a pin the
\* device exported, and only such a pin is taken.
PinAgrees(d, k) ==
    /\ d.state \in {"open", "active"} => d.value_fd
    /\ d.value_fd => d.exported
    /\ d.exported => k.exported /\ k.direction = d.direction /\ (d.edge => k.edge)
    /\ k.taken => d.exported
    /\ d.state = "absent" => ~d.exported

PinTyped ==
    /\ pin \in PinRec /\ sysfs \in SysfsRec /\ told \in ToldRec
    /\ waiter \in {"no", "polling"} /\ edges \in BOOLEAN
    /\ woken \in {"none", "edge", "timeout"} /\ toggler \in {"no", "low", "high"}

PinInv ==
    /\ PinTyped
    /\ PinAgrees(pin, sysfs)
    /\ QueriesTellKernel
    /\ waiter = "polling" => pin.value_fd /\ sysfs.pending = edges

LEMMA PinInitHolds == PinInit => PinInv
<1> SUFFICES ASSUME PinInit PROVE PinInv
  OBVIOUS
<1>1. pin \in PinRec /\ pin.state = "absent" /\ pin.value_fd = FALSE /\ pin.exported = FALSE
  BY DEF PinInit, NoPin, PinRec
<1>2. sysfs \in SysfsRec /\ sysfs.taken = FALSE
  BY DEF PinInit, SysfsRec
<1>3. told \in ToldRec /\ told.rc = "none"
  BY DEF PinInit, NothingTold, ToldRec
<1> QED BY <1>1, <1>2, <1>3 DEF PinInit, PinInv, PinTyped, PinAgrees, QueriesTellKernel

\* What gpio_open writes is what the device remembers.
LEMMA ConfiguredFields ==
  ASSUME NEW d \in PinRec, NEW k \in SysfsRec
  PROVE  LET c == Configured(d, k)
         IN  /\ c \in SysfsRec /\ c.exported = TRUE /\ c.taken = TRUE /\ c.direction = d.direction
             /\ (d.edge => c.edge) /\ c.pending = k.pending
<1> DEFINE e == [k EXCEPT !.exported = TRUE, !.taken = TRUE]
           l == Directed(e, d.direction)
<1>1. e \in SysfsRec /\ e.exported = TRUE /\ e.taken = TRUE /\ e.pending = k.pending
  BY DEF SysfsRec
<1> HIDE DEF e
<1>2. /\ l \in SysfsRec /\ l.exported = TRUE /\ l.taken = TRUE /\ l.pending = k.pending
      /\ l.direction = d.direction
  BY <1>1 DEF Directed, SysfsRec, PinRec
<1>3. Configured(d, k) = [l EXCEPT !.level = IF d.direction = "out" THEN d.initial ELSE @,
                                   !.edge = IF d.edge THEN TRUE ELSE @]
  BY DEF Configured, e
<1> HIDE DEF l
<1> QED BY <1>2, <1>3 DEF SysfsRec, PinRec

\* gpio_open of a device that is closed: whether or not it succeeds, device
\* and kernel agree, and nothing that is pending is taken.
LEMMA GpioOpenAgrees ==
  ASSUME NEW d \in PinRec, NEW k \in SysfsRec, d.state = "closed", PinAgrees(d, k), NEW o \in gpio_open(d, k)
  PROVE  /\ o[1] \in PinRec /\ o[2] \in SysfsRec /\ PinAgrees(o[1], o[2])
         /\ o[1].state \in {"closed", "open"} /\ o[2].pending = k.pending
         /\ (d.value_fd => o[1].value_fd)
<1> DEFINE c == Configured(d, k)
<1>1. /\ c \in SysfsRec /\ c.exported = TRUE /\ c.taken = TRUE /\ c.direction = d.direction
      /\ (d.edge => c.edge) /\ c.pending = k.pending
  BY ConfiguredFields
<1> HIDE DEF c
<1>2. CASE o = <<[d EXCEPT !.exported = TRUE, !.value_fd = TRUE, !.state = "open"], c>>
  <2> DEFINE f == [d EXCEPT !.exported = TRUE, !.value_fd = TRUE, !.state = "open"]
  <2>1. /\ f \in PinRec /\ f.state = "open" /\ f.value_fd = TRUE /\ f.exported = TRUE
        /\ f.direction = d.direction /\ f.edge = d.edge
    BY DEF PinRec
  <2>2. o[1] = f /\ o[2] = c
    BY <1>2
  <2> HIDE DEF f
  <2> QED BY <1>1, <2>1, <2>2 DEF PinAgrees
<1>3. CASE o = <<[d EXCEPT !.exported = TRUE], c>>
  <2> DEFINE f == [d EXCEPT !.exported = TRUE]
  <2>1. /\ f \in PinRec /\ f.state = "closed" /\ f.value_fd = d.value_fd /\ f.exported = TRUE
        /\ f.direction = d.direction /\ f.edge = d.edge
    BY DEF PinRec
  <2>2. o[1] = f /\ o[2] = c
    BY <1>3
  <2> HIDE DEF f
  <2> QED BY <1>1, <2>1, <2>2 DEF PinAgrees
<1>4. CASE o = <<d, k>>
  BY <1>4
<1>5. \/ o = <<[d EXCEPT !.exported = TRUE, !.value_fd = TRUE, !.state = "open"], c>>
      \/ o = <<[d EXCEPT !.exported = TRUE], c>>
      \/ o = <<d, k>>
  BY Zenon DEF gpio_open, c
<1> QED BY <1>2, <1>3, <1>4, <1>5

\* What gpio_close and gpio_priv_cleanup give back.
LEMMA UnexportedFields ==
  ASSUME NEW d \in PinRec, NEW k \in SysfsRec, PinAgrees(d, k)
  PROVE  LET u == Unexported(d, k)
         IN  /\ u[1] \in PinRec /\ u[1].value_fd = FALSE /\ u[1].exported = FALSE
             /\ u[2] \in SysfsRec /\ u[2].taken = FALSE
<1>1. [d EXCEPT !.value_fd = FALSE, !.exported = FALSE] \in PinRec
  BY DEF PinRec
<1>2. /\ [k EXCEPT !.exported = FALSE, !.edge = FALSE, !.pending = FALSE, !.taken = FALSE] \in SysfsRec
      /\ [k EXCEPT !.exported = FALSE, !.edge = FALSE, !.pending = FALSE, !.taken = FALSE].taken = FALSE
  BY DEF SysfsRec
<1>3. ~d.exported => k.taken = FALSE
  BY DEF PinAgrees, SysfsRec
<1> QED BY <1>1, <1>2, <1>3 DEF Unexported, PinRec

LEMMA NoPinTyped == NoPin \in PinRec /\ NoPin.state = "absent" /\ NoPin.value_fd = FALSE /\ NoPin.exported = FALSE
BY DEF NoPin, PinRec

LEMMA PinInitStep == PinInv /\ GpioServiceInit => PinInv'
<1> SUFFICES ASSUME PinInv, GpioServiceInit PROVE PinInv'
  OBVIOUS
<1>1. /\ UNCHANGED <<waiter, edges, woken, toggler, told>> /\ pin.state = "absent" /\ pin.value_fd = FALSE
      /\ pin.exported = FALSE /\ sysfs.taken = FALSE /\ waiter = "no"
  BY DEF GpioServiceInit, PinInv, PinTyped, PinAgrees, PinRec, SysfsRec
<1>2. ASSUME pin' \in PinRec, sysfs' \in SysfsRec, PinAgrees(pin', sysfs') PROVE PinInv'
  BY <1>1, <1>2 DEF PinInv, PinTyped, QueriesTellKernel
<1>3. PICK dir \in {"in", "out"}, v \in {0, 1}, e \in BOOLEAN :
        \E d \in gpio_hal_create([gpio_hal_default_config EXCEPT !.direction = dir, !.initial = v, !.edge = e]) :
            IF d = NoPin THEN PinBecomes(<<NoPin, sysfs>>)
            ELSE \E o \in gpio_open(d, sysfs) : PinBecomes(IF o[1].state = "open" THEN o ELSE OpenFailed(o))
  BY Zenon DEF GpioServiceInit
<1> DEFINE cfg == [gpio_hal_default_config EXCEPT !.direction = dir, !.initial = v, !.edge = e]
<1>4. PICK d \in gpio_hal_create(cfg) :
            IF d = NoPin THEN PinBecomes(<<NoPin, sysfs>>)
            ELSE \E o \in gpio_open(d, sysfs) : PinBecomes(IF o[1].state = "open" THEN o ELSE OpenFailed(o))
  BY <1>3
<1>5. sysfs \in SysfsRec
  BY DEF PinInv, PinTyped
<1>6. ASSUME NEW k \in SysfsRec, k.taken = FALSE, pin' = NoPin, sysfs' = k PROVE PinInv'
  BY <1>2, <1>6, NoPinTyped DEF PinAgrees
<1>7. CASE d = NoPin
  BY <1>1, <1>4, <1>5, <1>6, <1>7 DEF PinBecomes
<1>8. CASE d # NoPin
  <2>1. cfg.direction = dir /\ cfg.initial = v /\ cfg.edge = e
    BY DEF gpio_hal_default_config
  <2>2. d = [NoPin EXCEPT !.state = "closed", !.direction = cfg.direction, !.initial = cfg.initial, !.edge = cfg.edge]
    BY <1>8 DEF gpio_hal_create
  <2>3. d \in PinRec /\ d.state = "closed" /\ d.exported = FALSE /\ d.value_fd = FALSE
    BY <2>1, <2>2 DEF NoPin, PinRec
  <2>4. PinAgrees(d, sysfs)
    BY <1>1, <2>3 DEF PinAgrees
  <2>5. PICK o \in gpio_open(d, sysfs) : PinBecomes(IF o[1].state = "open" THEN o ELSE OpenFailed(o))
    BY <1>4, <1>8
  <2>6. o[1] \in PinRec /\ o[2] \in SysfsRec /\ PinAgrees(o[1], o[2])
    BY <1>5, <2>3, <2>4, GpioOpenAgrees
  <2>7. CASE o[1].state = "open"
    BY <1>2, <2>5, <2>6, <2>7 DEF PinBecomes
  <2>8. CASE o[1].state # "open"
    <3>1. Unexported(o[1], o[2])[2] \in SysfsRec /\ Unexported(o[1], o[2])[2].taken = FALSE
      BY <2>6, UnexportedFields
    <3>2. pin' = NoPin /\ sysfs' = Unexported(o[1], o[2])[2]
      BY <2>5, <2>8 DEF PinBecomes, OpenFailed
    <3> QED BY <1>6, <3>1, <3>2
  <2> QED BY <2>7, <2>8
<1> QED BY <1>7, <1>8

LEMMA PinLifeStep ==
  ASSUME PinInv, GpioReopen \/ GpioClose \/ GpioStart \/ GpioStop \/ GpioServiceCleanup
  PROVE  PinInv'
<1>0. pin \in PinRec /\ sysfs \in SysfsRec /\ PinAgrees(pin, sysfs)
  BY DEF PinInv, PinTyped
<1>1. ASSUME UNCHANGED <<waiter, edges, woken, toggler, told>>,
             pin' \in PinRec, sysfs' \in SysfsRec, PinAgrees(pin', sysfs'),
             waiter = "polling" => sysfs'.pending = sysfs.pending /\ (pin.value_fd => pin'.value_fd)
      PROVE  PinInv'
  BY <1>1 DEF PinInv, PinTyped, QueriesTellKernel
<1>2. CASE GpioReopen
  <2>1. PICK o \in gpio_open(pin, sysfs) : PinBecomes(o)
    BY <1>2 DEF GpioReopen
  <2>2. pin.state = "closed" /\ UNCHANGED <<waiter, edges, woken, toggler, told>>
    BY <1>2 DEF GpioReopen
  <2>3. /\ o[1] \in PinRec /\ o[2] \in SysfsRec /\ PinAgrees(o[1], o[2])
        /\ o[2].pending = sysfs.pending /\ (pin.value_fd => o[1].value_fd)
    BY <1>0, <2>2, GpioOpenAgrees
  <2>4. pin' = o[1] /\ sysfs' = o[2]
    BY <2>1 DEF PinBecomes
  <2> QED BY <1>1, <2>2, <2>3, <2>4
<1>3. CASE GpioClose
  <2> DEFINE u == Unexported(pin, sysfs)
             f == [u[1] EXCEPT !.state = "closed"]
  <2>1. u[1] \in PinRec /\ u[1].value_fd = FALSE /\ u[1].exported = FALSE /\ u[2] \in SysfsRec /\ u[2].taken = FALSE
    BY <1>0, UnexportedFields
  <2>2. pin' = f /\ sysfs' = u[2]
    BY <1>3 DEF GpioClose, PinBecomes
  <2> HIDE DEF u
  <2>3. f \in PinRec /\ f.state = "closed" /\ f.value_fd = FALSE /\ f.exported = FALSE
    BY <2>1 DEF PinRec
  <2> HIDE DEF f
  <2>4. PinAgrees(f, u[2])
    BY <2>1, <2>3 DEF PinAgrees
  <2> QED BY <1>1, <1>3, <2>1, <2>2, <2>3, <2>4 DEF GpioClose
<1>4. CASE GpioStart \/ GpioStop
  <2>1. /\ pin' \in PinRec /\ pin'.state \in {"open", "active"} /\ pin.state \in {"open", "active"}
        /\ pin'.value_fd = pin.value_fd /\ pin'.exported = pin.exported /\ pin'.direction = pin.direction
        /\ pin'.edge = pin.edge
    BY <1>0, <1>4 DEF GpioStart, GpioStop, gpio_start, gpio_stop, PinRec
  <2>2. sysfs' = sysfs /\ UNCHANGED <<waiter, edges, woken, toggler, told>>
    BY <1>4 DEF GpioStart, GpioStop
  <2>3. PinAgrees(pin', sysfs')
    BY <1>0, <2>1, <2>2 DEF PinAgrees
  <2> QED BY <1>0, <1>1, <2>1, <2>2, <2>3
<1>5. CASE GpioServiceCleanup
  <2>1. Unexported(pin, sysfs)[2] \in SysfsRec /\ Unexported(pin, sysfs)[2].taken = FALSE
    BY <1>0, UnexportedFields
  <2>2. pin' = NoPin /\ sysfs' = Unexported(pin, sysfs)[2]
    BY <1>5 DEF GpioServiceCleanup, PinBecomes
  <2>3. PinAgrees(pin', sysfs')
    BY <2>1, <2>2, NoPinTyped DEF PinAgrees
  <2> QED BY <1>1, <1>5, <2>1, <2>2, <2>3, NoPinTyped DEF GpioServiceCleanup
<1> QED BY <1>2, <1>3, <1>4, <1>5

\* A read of the value file, whoever makes it.
LEMMA ReadStep ==
  ASSUME PinInv, ReadTakesEdge, UNCHANGED <<pin, waiter, woken>>, told' \in ToldRec,
         told'.rc = "ok" => told'.agrees, toggler' \in {"no", "low", "high"}
  PROVE  PinInv'
<1>1. /\ sysfs' \in SysfsRec /\ sysfs'.exported = sysfs.exported /\ sysfs'.direction = sysfs.direction
      /\ sysfs'.edge = sysfs.edge /\ sysfs'.taken = sysfs.taken
      /\ (pin.value_fd => sysfs'.pending = FALSE) /\ (~pin.value_fd => sysfs'.pending = sysfs.pending)
  BY DEF ReadTakesEdge, PinInv, PinTyped, SysfsRec
<1>2. edges' \in BOOLEAN /\ (pin.value_fd => edges' = FALSE) /\ (~pin.value_fd => edges' = edges)
  BY DEF ReadTakesEdge, PinInv, PinTyped
<1>3. PinAgrees(pin', sysfs')
  BY <1>1 DEF PinInv, PinAgrees
<1> QED BY <1>1, <1>2, <1>3 DEF PinInv, PinTyped, QueriesTellKernel

LEMMA LevelTyped == ASSUME PinInv PROVE Level \in {-1, 0, 1}
BY DEF PinInv, PinTyped, Level, SysfsRec, PinRec

\* The queries, and the first half of a toggle.
LEMMA PinQueryStep ==
  ASSUME PinInv, gpio_read \/ gpio_get_info \/ ControlQuery \/ validate_control_arg \/ ToggleRead
  PROVE  PinInv'
<1>0. pin \in PinRec /\ sysfs \in SysfsRec /\ told \in ToldRec /\ Level \in {-1, 0, 1}
  BY LevelTyped DEF PinInv, PinTyped
<1>1. CASE gpio_read
  <2>1. /\ told' = [rc |-> IF pin.value_fd THEN "ok" ELSE "io", value |-> Level, agrees |-> pin.value_fd => sysfs.exported]
        /\ ReadTakesEdge /\ UNCHANGED <<pin, waiter, woken, toggler>>
    BY <1>1 DEF gpio_read
  <2>2. pin.value_fd => sysfs.exported
    BY DEF PinInv, PinAgrees
  <2>3. told' = [rc |-> IF pin.value_fd THEN "ok" ELSE "io", value |-> Level, agrees |-> TRUE]
    BY <2>1, <2>2
  <2>4. told' \in ToldRec /\ told'.agrees
    BY <1>0, <2>3 DEF ToldRec
  <2> QED BY <2>1, <2>4, ReadStep DEF PinInv, PinTyped
<1>2. KernelAgrees
  BY DEF KernelAgrees, PinInv, PinAgrees
<1>3. CASE gpio_get_info
  <2>1. told' = [rc |-> "ok", value |-> Level, agrees |-> KernelAgrees] /\ ReadTakesEdge /\ UNCHANGED <<pin, waiter, woken, toggler>>
    BY <1>3 DEF gpio_get_info
  <2>2. told' = [rc |-> "ok", value |-> Level, agrees |-> TRUE]
    BY <1>2, <2>1
  <2>3. told' \in ToldRec /\ told'.agrees
    BY <1>0, <2>2 DEF ToldRec
  <2> QED BY <2>1, <2>3, ReadStep DEF PinInv, PinTyped
<1>4. CASE ControlQuery \/ validate_control_arg
  <2>1. \/ told' = [rc |-> "ok", value |-> -1, agrees |-> KernelAgrees]
        \/ told' = [rc |-> "invalid", value |-> -1, agrees |-> TRUE]
    BY <1>4 DEF ControlQuery, validate_control_arg
  <2>2. \/ told' = [rc |-> "ok", value |-> -1, agrees |-> TRUE]
        \/ told' = [rc |-> "invalid", value |-> -1, agrees |-> TRUE]
    BY <1>2, <2>1
  <2>3. \A r \in {"ok", "invalid"} : LET t == [rc |-> r, value |-> -1, agrees |-> TRUE] IN t \in ToldRec /\ t.agrees
    BY DEF ToldRec
  <2>4. UNCHANGED <<pin, sysfs, waiter, edges, woken, toggler>>
    BY <1>4 DEF ControlQuery, validate_control_arg
  <2>5. told' \in ToldRec /\ told'.agrees
    BY <2>2, <2>3
  <2> QED BY <2>4, <2>5 DEF PinInv, PinTyped, PinAgrees, QueriesTellKernel
<1>5. CASE ToggleRead
  <2>1. ReadTakesEdge /\ UNCHANGED <<pin, waiter, woken, told>> /\ toggler' \in {"no", "low", "high"}
    BY <1>5 DEF ToggleRead
  <2> QED BY <1>0, <2>1, ReadStep DEF PinInv, QueriesTellKernel
<1> QED BY <1>1, <1>3, <1>4, <1>5

\* Writes of the level, the direction and the edges.
LEMMA PinWriteStep ==
  ASSUME PinInv,
         \/ \E v \in {0, 1} : SetValue(v)
         \/ ToggleWrite
         \/ \E d \in {"in", "out"} : SetDirection(d)
         \/ \E e \in BOOLEAN : SetEdge(e)
  PROVE  PinInv'
<1>0. pin \in PinRec /\ sysfs \in SysfsRec /\ PinAgrees(pin, sysfs)
  BY DEF PinInv, PinTyped
<1>1. ASSUME NEW v \in {0, 1}
      PROVE  LET w == gpio_write(v)
             IN  /\ w \in SysfsRec /\ w.exported = sysfs.exported /\ w.direction = sysfs.direction
                 /\ w.edge = sysfs.edge /\ w.taken = sysfs.taken /\ w.pending = sysfs.pending
  BY <1>0 DEF gpio_write, SysfsRec
<1>2. ASSUME NEW v \in {0, 1}, sysfs' = gpio_write(v), UNCHANGED <<pin, waiter, edges, woken, told>>,
             toggler' \in {"no", "low", "high"}
      PROVE  PinInv'
  <2>1. PinAgrees(pin', sysfs')
    BY <1>0, <1>1, <1>2 DEF PinAgrees
  <2> QED BY <1>1, <1>2, <2>1 DEF PinInv, PinTyped, QueriesTellKernel
<1>3. ASSUME NEW v \in {0, 1}, SetValue(v) PROVE PinInv'
  BY <1>2, <1>3 DEF SetValue, PinInv, PinTyped
<1>4. CASE ToggleWrite
  BY <1>2, <1>4 DEF ToggleWrite
<1>5. ASSUME NEW d \in {"in", "out"}, SetDirection(d) PROVE PinInv'
  <2>1. /\ pin' \in PinRec /\ pin'.state = pin.state /\ pin'.value_fd = pin.value_fd /\ pin'.exported = pin.exported
        /\ pin'.direction = d /\ pin'.edge = pin.edge
    BY <1>0, <1>5 DEF SetDirection, PinRec
  <2>2. /\ sysfs' \in SysfsRec /\ sysfs'.exported = sysfs.exported /\ sysfs'.edge = sysfs.edge
        /\ sysfs'.taken = sysfs.taken /\ sysfs'.pending = sysfs.pending
        /\ (sysfs.exported => sysfs'.direction = d)
    BY <1>0, <1>5 DEF SetDirection, Directed, SysfsRec
  <2>3. PinAgrees(pin', sysfs')
    BY <1>0, <2>1, <2>2 DEF PinAgrees
  <2> QED BY <1>5, <2>1, <2>2, <2>3 DEF SetDirection, PinInv, PinTyped, QueriesTellKernel
<1>6. ASSUME NEW e \in BOOLEAN, SetEdge(e) PROVE PinInv'
  <2>1. /\ pin' \in PinRec /\ pin'.state = pin.state /\ pin'.value_fd = pin.value_fd /\ pin'.exported = pin.exported
        /\ pin'.direction = pin.direction /\ pin'.edge = e
    BY <1>0, <1>6 DEF SetEdge, PinRec
  <2>2. /\ sysfs' \in SysfsRec /\ sysfs'.exported = sysfs.exported /\ sysfs'.direction = sysfs.direction
        /\ sysfs'.taken = sysfs.taken /\ sysfs'.pending = sysfs.pending
        /\ (sysfs.exported => sysfs'.edge = e)
    BY <1>0, <1>6 DEF SetEdge, SysfsRec
  <2>3. PinAgrees(pin', sysfs')
    BY <1>0, <2>1, <2>2 DEF PinAgrees
  <2> QED BY <1>6, <2>1, <2>2, <2>3 DEF SetEdge, PinInv, PinTyped, QueriesTellKernel
<1> QED BY <1>3, <1>4, <1>5, <1>6

\* gpio_hal_wait_interrupt against the edges of the line.
LEMMA PinWaitStep == PinInv /\ (WaitBegin \/ WaitEnd \/ Edge) => PinInv'
<1> SUFFICES ASSUME PinInv, WaitBegin \/ WaitEnd \/ Edge PROVE PinInv'
  OBVIOUS
<1>0. pin \in PinRec /\ sysfs \in SysfsRec /\ PinAgrees(pin, sysfs) /\ edges \in BOOLEAN
  BY DEF PinInv, PinTyped
<1>1. CASE WaitBegin
  <2>1. /\ sysfs' \in SysfsRec /\ sysfs'.exported = sysfs.exported /\ sysfs'.direction = sysfs.direction
        /\ sysfs'.edge = sysfs.edge /\ sysfs'.taken = sysfs.taken /\ sysfs'.pending = FALSE
    BY <1>0, <1>1 DEF WaitBegin, SysfsRec
  <2>2. PinAgrees(pin', sysfs')
    BY <1>0, <1>1, <2>1 DEF PinAgrees, WaitBegin
  <2> QED BY <1>1, <2>1, <2>2 DEF WaitBegin, PinInv, PinTyped, QueriesTellKernel
<1>2. CASE WaitEnd
  <2>1. waiter = "polling" /\ sysfs.pending = edges
    BY <1>2 DEF WaitEnd, PinInv
  <2>2. woken' \in {"edge", "timeout"}
    BY <1>0, <1>2, <2>1 DEF WaitEnd
  <2> QED BY <1>0, <1>2, <2>2 DEF WaitEnd, PinInv, PinTyped, QueriesTellKernel, PinAgrees
<1>3. CASE Edge
  <2>0. 1 - sysfs.level \in {0, 1}
    BY <1>0 DEF SysfsRec
  <2>1. /\ sysfs' \in SysfsRec /\ sysfs'.exported = sysfs.exported /\ sysfs'.direction = sysfs.direction
        /\ sysfs'.edge = sysfs.edge /\ sysfs'.taken = sysfs.taken
        /\ (sysfs.edge => sysfs'.pending = TRUE) /\ (~sysfs.edge => sysfs'.pending = sysfs.pending)
    BY <1>0, <1>3, <2>0 DEF Edge, SysfsRec
  <2>2. edges' \in BOOLEAN /\ (waiter = "polling" /\ sysfs.edge => edges' = TRUE) /\ (~sysfs.edge => edges' = edges)
    BY <1>0, <1>3 DEF Edge
  <2>3. PinAgrees(pin', sysfs')
    BY <1>0, <1>3, <2>1 DEF PinAgrees, Edge
  <2>4. waiter' = "polling" => pin'.value_fd /\ sysfs'.pending = edges'
    BY <1>0, <1>3, <2>1, <2>2 DEF Edge, PinInv, SysfsRec
  <2> QED BY <1>3, <2>1, <2>2, <2>3, <2>4 DEF Edge, PinInv, PinTyped, QueriesTellKernel
<1> QED BY <1>1, <1>2, <1>3

LEMMA PinStep == PinInv /\ [PinNext]_pinVars => PinInv'
<1> SUFFICES ASSUME PinInv, [PinNext]_pinVars PROVE PinInv'
  OBVIOUS
<1>1. CASE UNCHANGED pinVars
  BY <1>1 DEF PinInv, pinVars, PinTyped, PinAgrees, QueriesTellKernel
<1>2. CASE PinNext
  BY <1>2, PinInitStep, PinLifeStep, PinQueryStep, PinWriteStep, PinWaitStep DEF PinNext
<1> QED BY <1>1, <1>2

LEMMA PinInvSafe == PinInv => PinSafe
<1> SUFFICES ASSUME PinInv PROVE PinSafe
  OBVIOUS
<1>1. PinTypeOK
  BY DEF PinInv, PinTyped, PinTypeOK, PinRec, SysfsRec, ToldRec
<1>2. PinFollowsDevice
  BY DEF PinInv, PinTyped, PinFollowsDevice, PinAgrees, SysfsRec
<1>3. WaitSeesItsEdges
  BY DEF PinInv, PinTyped, WaitSeesItsEdges
<1> QED BY <1>1, <1>2, <1>3 DEF PinInv, PinSafe

(***************************************************************************)
(* A PCM stream and a pin of the HAL are what the kernel has, after any    *)
(* sequence of operations in which any system call failed (audio_hal.c,    *)
(* gpio_hal.c): no handle is used that is not open and none is left        *)
(* behind, transfers report whole frames of the caller's buffer, a query   *)
(* answers what the kernel has, and no wait is woken by an edge before it. *)
(***************************************************************************)
THEOREM PcmPinCorrect == HalSpec => []PcmPinSafe
<1>1. HalInit => PcmInv /\ PinInv
  BY PcmInitHolds, PinInitHolds DEF HalInit
<1>2. [HalNext]_halVars => [PcmNext]_pcmVars /\ [PinNext]_pinVars
  BY DEF HalNext, halVars, pcmVars, pinVars
<1>3. PcmInv /\ PinInv /\ [HalNext]_halVars => PcmInv' /\ PinInv'
  BY <1>2, PcmStep, PinStep
<1>4. PcmInv /\ PinInv => PcmPinSafe
  BY PcmInvSafe, PinInvSafe DEF PcmPinSafe
<1> QED BY <1>1, <1>3, <1>4, PTL DEF HalSpec

=============================================================================

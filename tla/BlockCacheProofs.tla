-------------------------- MODULE BlockCacheProofs --------------------------
(***************************************************************************)
(* Proofs about BlockCache for every number of slots, every set of sectors *)
(* and every set of values: its types, the coherence invariant, and that   *)
(* it implements the plain disk of BlockDevice.                            *)
(***************************************************************************)
EXTENDS BlockCache, TLAPS

Inv == TypeOK /\ Coherent

(***************************************************************************)
(* Types.                                                                  *)
(***************************************************************************)
\* A slot that memset cleared is typed.
LEMMA EmptySlotType == EmptySlot \in SlotType
  BY CacheAssumption DEF EmptySlot, SlotType

\* Overwriting one slot with typed fields keeps the cache typed.
LEMMA FillType ==
  ASSUME TypeOK, NEW i \in Slots, NEW l \in Lba, NEW d \in BOOLEAN,
         NEW v \in Value, Fill(i, l, d, v)
  PROVE  cache' \in [Slots -> SlotType]
  BY DEF TypeOK, Fill, SlotType

\* No sector is in two slots, so a flush writes each sector from one slot.
LEMMA FlushDisk ==
  ASSUME Inv, NEW landed \in SUBSET DirtySlots, NEW i \in Slots,
         cache[i].lba \in Lba, i \in landed
  PROVE  /\ LandedFor(cache[i].lba, landed) = {i}
         /\ (CHOOSE k \in LandedFor(cache[i].lba, landed) :
               \A j \in LandedFor(cache[i].lba, landed) : j <= k) = i
  <1>1. LandedFor(cache[i].lba, landed) = {i}
    BY CacheAssumption DEF Inv, Coherent, LandedFor, DirtySlots
  <1>2. i <= i
    BY CacheAssumption DEF Slots
  <1>. QED  BY <1>1, <1>2

\* cache_flush_dirty leaves on each sector what it held, or its slot's data.
LEMMA FlushEffect ==
  ASSUME Inv, NEW landed \in SUBSET DirtySlots,
         disk' = FlushedDisk(landed),
         NEW l \in Lba
  PROVE  \/ disk'[l] = disk[l] /\ \A i \in landed : cache[i].lba # l
         \/ \E i \in Slots : i \in landed /\ cache[i].lba = l /\ disk'[l] = cache[i].data
  <1>1. CASE LandedFor(l, landed) = {}
    BY <1>1 DEF LandedFor, FlushedDisk
  <1>2. CASE LandedFor(l, landed) # {}
    <2>1. PICK i \in landed : cache[i].lba = l
      BY <1>2 DEF LandedFor
    <2>2. i \in Slots
      BY DEF DirtySlots
    <2>3. (CHOOSE k \in LandedFor(l, landed) :
               \A j \in LandedFor(l, landed) : j <= k) = i
      BY <2>1, <2>2, FlushDisk
    <2>4. disk'[l] = cache[i].data
      BY <1>2, <2>3 DEF FlushedDisk
    <2>. QED  BY <2>1, <2>2, <2>4
  <1>. QED  BY <1>1, <1>2

\* Every step keeps the types.
LEMMA TypeStep == Inv /\ [Next]_vars => TypeOK'
  <1> SUFFICES ASSUME Inv, [Next]_vars PROVE TypeOK'
    OBVIOUS
  <1> USE DEF Inv
  <1>1. ASSUME NEW l \in Lba, ReadHit(l) PROVE TypeOK'
    BY <1>1 DEF ReadHit, TypeOK
  <1>2. ASSUME NEW l \in Lba, ReadMiss(l) PROVE TypeOK'
    <2>1. disk[l] \in Value
      BY DEF TypeOK
    <2>2. cache' \in [Slots -> SlotType]
      BY <1>2, <2>1, FillType DEF ReadMiss
    <2>. QED  BY <1>2, <2>2 DEF ReadMiss, TypeOK
  <1>3. ASSUME NEW l \in Lba, ReadError(l) PROVE TypeOK'
    BY <1>3 DEF ReadError, TypeOK
  <1>4. ASSUME NEW l \in Lba, NEW v \in Value, CacheWrite(l, v) PROVE TypeOK'
    <2>1. cache' \in [Slots -> SlotType]
      BY <1>4, FillType DEF CacheWrite
    <2>2. disk' \in [Lba -> Value] /\ doubt' \subseteq Lba
      BY <1>4 DEF CacheWrite, AtaWrite, AtaWriteError, TypeOK
    <2>. QED  BY <2>1, <2>2 DEF TypeOK
  <1>5. CASE FlushDirty
    <2>1. PICK landed \in SUBSET DirtySlots :
            /\ disk' = FlushedDisk(landed)
            /\ cache' = [i \in Slots |-> [cache[i] EXCEPT !.dirty = FALSE]]
            /\ doubt' \subseteq doubt
      BY <1>5 DEF FlushDirty
    <2>2. \A l \in Lba : disk'[l] \in Value
      <3> TAKE l \in Lba
      <3>. QED  BY <2>1, FlushEffect DEF TypeOK, SlotType
    <2>3. disk' \in [Lba -> Value]
      BY <2>1, <2>2 DEF FlushedDisk
    <2>4. cache' \in [Slots -> SlotType]
      BY <2>1 DEF TypeOK, SlotType
    <2>. QED  BY <2>1, <2>3, <2>4 DEF TypeOK
  <1>6. CASE Mount
    BY <1>6, EmptySlotType DEF Mount, TypeOK
  <1>7. CASE UNCHANGED vars
    BY <1>7 DEF vars, TypeOK
  <1>. QED  BY <1>1, <1>2, <1>3, <1>4, <1>5, <1>6, <1>7 DEF Next

(***************************************************************************)
(* Coherence.                                                              *)
(***************************************************************************)
\* Putting l into slot i, when no other slot holds l, keeps the cache
\* coherent provided only sector l changes and it then agrees or is in doubt.
LEMMA FillCoherent ==
  ASSUME Inv, NEW i \in Slots, NEW l \in Lba, NEW d \in BOOLEAN, NEW v \in Value,
         Fill(i, l, d, v),
         \A j \in Slots : j # i => cache[j].lba # l,
         \A m \in Lba : m # l => disk'[m] = disk[m] /\ (m \in doubt => m \in doubt'),
         l \notin doubt' => disk'[l] = v
  PROVE  Coherent'
  <1>1. /\ cache'[i].lba = l
        /\ cache'[i].data = v
        /\ \A j \in Slots : j # i => cache'[j] = cache[j]
    BY DEF Fill, Inv, TypeOK
  <1>2. SUFFICES ASSUME NEW k \in Slots, cache'[k].lba # 0
                 PROVE  /\ cache'[k].lba \notin doubt' => cache'[k].data = disk'[cache'[k].lba]
                        /\ \A j \in Slots : cache'[j].lba = cache'[k].lba => j = k
    BY DEF Coherent
  <1>3. CASE k = i
    BY <1>1, <1>3
  <1>4. CASE k # i
    <2>1. cache[k].lba \in Lba /\ cache[k].lba # l
      BY <1>1, <1>2, <1>4 DEF Inv, TypeOK, SlotType
    <2>. QED  BY <1>1, <1>2, <1>4, <2>1 DEF Inv, Coherent
  <1>. QED  BY <1>3, <1>4

\* Every step keeps slots and sectors in agreement.
LEMMA CoherentStep == Inv /\ [Next]_vars => Coherent'
  <1> SUFFICES ASSUME Inv, [Next]_vars PROVE Coherent'
    OBVIOUS
  <1>1. ASSUME NEW l \in Lba, ReadHit(l) PROVE Coherent'
    BY <1>1 DEF ReadHit, Inv, Coherent
  <1>2. ASSUME NEW l \in Lba, ReadMiss(l) PROVE Coherent'
    <2>1. PICK i \in Slots : Fill(i, l, FALSE, disk[l])
      BY <1>2 DEF ReadMiss
    <2>2. disk[l] \in Value
      BY DEF Inv, TypeOK
    <2>3. disk' = disk /\ doubt' = doubt /\ \A j \in Slots : cache[j].lba # l
      BY <1>2 DEF ReadMiss, Cached
    <2>. QED  BY <2>1, <2>2, <2>3, FillCoherent
  <1>3. ASSUME NEW l \in Lba, ReadError(l) PROVE Coherent'
    BY <1>3 DEF ReadError, Inv, Coherent
  <1>4. ASSUME NEW l \in Lba, NEW v \in Value, CacheWrite(l, v) PROVE Coherent'
    <2>1. PICK i \in Slots : WriteSlot(i, l) /\ Fill(i, l, TRUE, v)
      BY <1>4 DEF CacheWrite
    <2>2. l # 0
      BY CacheAssumption
    <2>3. \A j \in Slots : j # i => cache[j].lba # l
      BY <2>1, <2>2 DEF WriteSlot, FirstSlot, Cached, Inv, Coherent
    <2>4. \A m \in Lba : m # l => disk'[m] = disk[m] /\ (m \in doubt => m \in doubt')
      BY <1>4 DEF CacheWrite, AtaWrite, AtaWriteError, Inv, TypeOK
    <2>5. l \notin doubt' => disk'[l] = v
      BY <1>4 DEF CacheWrite, AtaWrite, AtaWriteError, Inv, TypeOK
    <2>. QED  BY <2>1, <2>3, <2>4, <2>5, FillCoherent
  <1>5. CASE FlushDirty
    <2>1. PICK landed, done \in SUBSET DirtySlots :
            /\ done \subseteq landed
            /\ disk' = FlushedDisk(landed)
            /\ cache' = [i \in Slots |-> [cache[i] EXCEPT !.dirty = FALSE]]
            /\ doubt' = doubt \ {cache[i].lba : i \in done}
      BY <1>5 DEF FlushDirty
    <2>2. \A i \in Slots : cache'[i].lba = cache[i].lba /\ cache'[i].data = cache[i].data
      BY <2>1 DEF Inv, TypeOK, SlotType
    <2>3. SUFFICES ASSUME NEW k \in Slots, cache[k].lba # 0, cache[k].lba \notin doubt'
                   PROVE  cache[k].data = disk'[cache[k].lba]
      BY <2>2 DEF Coherent, Inv
    <2>4. cache[k].lba \in Lba
      BY <2>3 DEF Inv, TypeOK, SlotType
    <2>5. CASE cache[k].lba \in doubt
      <3>1. PICK i \in done : cache[i].lba = cache[k].lba
        BY <2>1, <2>3, <2>5
      <3>2. i \in landed /\ i \in Slots
        BY <2>1, <3>1 DEF DirtySlots
      <3>3. i = k
        BY <2>3, <3>1, <3>2 DEF Inv, Coherent
      <3>4. \/ \E n \in Slots : cache[n].lba = cache[k].lba /\ disk'[cache[k].lba] = cache[n].data
        BY <2>1, <2>4, <3>2, <3>3, FlushEffect
      <3>. QED  BY <2>3, <3>4 DEF Inv, Coherent
    <2>6. CASE cache[k].lba \notin doubt
      <3>1. cache[k].data = disk[cache[k].lba]
        BY <2>3, <2>6 DEF Inv, Coherent
      <3>2. \/ disk'[cache[k].lba] = disk[cache[k].lba]
            \/ \E n \in Slots : cache[n].lba = cache[k].lba /\ disk'[cache[k].lba] = cache[n].data
        BY <2>1, <2>4, FlushEffect
      <3>. QED  BY <2>3, <3>1, <3>2 DEF Inv, Coherent
    <2>. QED  BY <2>5, <2>6
  <1>6. CASE Mount
    BY <1>6 DEF Mount, EmptySlot, Coherent
  <1>7. CASE UNCHANGED vars
    BY <1>7 DEF vars, Inv, Coherent
  <1>. QED  BY <1>1, <1>2, <1>3, <1>4, <1>5, <1>6, <1>7 DEF Next

\* An empty cache is typed and coherent.
LEMMA InitInv == Init => Inv
  <1> SUFFICES ASSUME Init PROVE Inv
    OBVIOUS
  <1>1. TypeOK
    BY EmptySlotType DEF Init, TypeOK
  <1>2. Coherent
    BY DEF Init, Coherent, EmptySlot
  <1>. QED  BY <1>1, <1>2 DEF Inv

\* The cache, the disk and the history keep their types.
THEOREM TypeCorrect == Spec => []TypeOK
  <1>1. Inv /\ [Next]_vars => Inv'
    BY TypeStep, CoherentStep DEF Inv
  <1>2. Inv => TypeOK
    BY DEF Inv
  <1>. QED  BY InitInv, <1>1, <1>2, PTL DEF Spec

\* No slot ever differs from its sector unless the last write to it failed,
\* and no sector is in two slots, although cache_evict drops dirty slots.
THEOREM CacheCoherent == Spec => []Coherent
  <1>1. Inv /\ [Next]_vars => Inv'
    BY TypeStep, CoherentStep DEF Inv
  <1>2. Inv => Coherent
    BY DEF Inv
  <1>. QED  BY InitInv, <1>1, <1>2, PTL DEF Spec

(***************************************************************************)
(* Refinement.  On a sector that is not in doubt the view is the disk; on  *)
(* every sector with a slot it is the slot.                                *)
(***************************************************************************)
ViewProps ==
  \A l \in Lba : /\ ViewOf(l) \in Value
                 /\ l \notin doubt => ViewOf(l) = disk[l]
                 /\ ~Cached(l) => ViewOf(l) = disk[l]
                 /\ \A i \in Slots : cache[i].lba = l => ViewOf(l) = cache[i].data

\* What a sector reads as: its slot if it has one, else the disk.
LEMMA ViewFacts == Inv => ViewProps
  <1> SUFFICES ASSUME Inv, NEW l \in Lba
               PROVE  /\ ViewOf(l) \in Value
                      /\ l \notin doubt => ViewOf(l) = disk[l]
                      /\ ~Cached(l) => ViewOf(l) = disk[l]
                      /\ \A i \in Slots : cache[i].lba = l => ViewOf(l) = cache[i].data
    BY DEF ViewProps
  <1>1. ASSUME NEW i \in Slots, cache[i].lba = l PROVE ViewOf(l) = cache[i].data
    <2>1. l # 0
      BY CacheAssumption
    <2>2. \A j \in Slots : cache[j].lba = l => j = i
      BY <1>1, <2>1 DEF Inv, Coherent
    <2>3. i <= i
      BY CacheAssumption DEF Slots
    <2>4. FirstSlot(i, l) /\ \A j \in Slots : FirstSlot(j, l) => j = i
      BY <1>1, <2>2, <2>3 DEF FirstSlot
    <2>5. SlotOf(l) = i
      BY <2>4 DEF SlotOf
    <2>. QED  BY <1>1, <2>5 DEF ViewOf, Cached
  <1>2. ~Cached(l) => ViewOf(l) = disk[l]
    BY DEF ViewOf
  <1>3. l # 0
    BY CacheAssumption
  <1>4. l \notin doubt => ViewOf(l) = disk[l]
    BY <1>1, <1>2, <1>3 DEF Cached, Inv, Coherent
  <1>5. ViewOf(l) \in Value
    BY <1>1, <1>2 DEF Cached, Inv, TypeOK, SlotType
  <1>. QED  BY <1>1, <1>2, <1>4, <1>5

\* The facts above, after a step.
LEMMA ViewFactsPrime ==
  Inv' => \A l \in Lba : /\ ViewOf(l)' \in Value
                         /\ l \notin doubt' => ViewOf(l)' = disk'[l]
                         /\ \A i \in Slots : cache'[i].lba = l => ViewOf(l)' = cache'[i].data
  <1>1. Inv' => ViewProps'
    BY ViewFacts, PTL
  <1>. QED  BY <1>1 DEF ViewProps

View == [l \in Lba |-> ViewOf(l)]

\* A step that changes no sector outside doubt and S keeps the view there.
LEMMA OthersKeepView ==
  ASSUME Inv, Inv', NEW S \in SUBSET Lba,
         \A m \in Lba \ (doubt \cup S) : m \notin doubt' /\ disk'[m] = disk[m]
  PROVE  /\ View' \in [Lba -> Value]
         /\ \A m \in Lba \ (doubt \cup S) : View'[m] = View[m]
  <1>1. \A l \in Lba : ViewOf(l)' \in Value
    BY ViewFactsPrime
  <1>2. View' \in [Lba -> Value]
    BY <1>1 DEF View
  <1>3. ASSUME NEW m \in Lba, m \notin doubt, m \notin S PROVE View'[m] = View[m]
    <2>1. ViewOf(m)' = disk'[m]
      BY <1>3, ViewFactsPrime
    <2>2. ViewOf(m) = disk[m]
      BY <1>3, ViewFacts DEF ViewProps
    <2>. QED  BY <1>3, <2>1, <2>2 DEF View
  <1>. QED  BY <1>2, <1>3

\* Every step of the cache is a step of the plain disk, or no step of it.
LEMMA RefinementStep == Inv /\ Inv' /\ [Next]_vars => [Dev!Next]_(Dev!vars)
  <1> SUFFICES ASSUME Inv, Inv', [Next]_vars PROVE [Dev!Next]_(Dev!vars)
    OBVIOUS
  <1> USE DEF Dev!Next, Dev!OthersKeep, View
  <1>1. ASSUME NEW l \in Lba, ReadHit(l) PROVE Dev!Read(l)
    <2>1. PICK i \in Slots : cache[i].lba = l /\ ret' = Answer("read", l, TRUE, cache[i].data)
      BY <1>1 DEF ReadHit, FirstSlot
    <2>2. cache' = cache /\ disk' = disk /\ doubt' = doubt
      BY <1>1 DEF ReadHit
    <2>3. View'[l] = cache[i].data
      BY <2>1, <2>2, ViewFactsPrime
    <2>4. Dev!OthersKeep({})
      BY <2>2, OthersKeepView
    <2>. QED  BY <2>1, <2>2, <2>3, <2>4 DEF Dev!Read, Dev!Answer, Answer
  <1>2. ASSUME NEW l \in Lba, ReadMiss(l) PROVE Dev!Read(l)
    <2>1. PICK i \in Slots : Fill(i, l, FALSE, disk[l])
      BY <1>2 DEF ReadMiss
    <2>2. cache'[i].lba = l /\ cache'[i].data = disk[l]
      BY <2>1 DEF Fill, Inv, TypeOK
    <2>3. View'[l] = disk[l]
      BY <2>2, ViewFactsPrime
    <2>4. disk' = disk /\ doubt' = doubt /\ ret' = Answer("read", l, TRUE, disk[l])
      BY <1>2 DEF ReadMiss
    <2>5. Dev!OthersKeep({})
      BY <2>4, OthersKeepView
    <2>. QED  BY <2>3, <2>4, <2>5 DEF Dev!Read, Dev!Answer, Answer
  <1>3. ASSUME NEW l \in Lba, ReadError(l) PROVE Dev!ReadFail(l)
    <2>1. cache' = cache /\ disk' = disk /\ doubt' = doubt
      BY <1>3 DEF ReadError
    <2>2. \A m \in Lba : ViewOf(m)' = ViewOf(m)
      BY <2>1 DEF ViewOf, Cached, SlotOf, FirstSlot
    <2>3. View' = View
      BY <2>2
    <2>. QED  BY <1>3, <2>1, <2>3 DEF ReadError, Dev!ReadFail
  <1>4. ASSUME NEW l \in Lba, NEW v \in Value, CacheWrite(l, v)
        PROVE  Dev!Write(l, v) \/ Dev!WriteFail(l, v)
    <2>1. PICK i \in Slots : Fill(i, l, TRUE, v)
      BY <1>4 DEF CacheWrite
    <2>2. cache'[i].lba = l /\ cache'[i].data = v
      BY <2>1 DEF Fill, Inv, TypeOK
    <2>3. View'[l] = v
      BY <2>2, ViewFactsPrime
    <2>4. \A m \in Lba \ (doubt \cup {l}) : m \notin doubt' /\ disk'[m] = disk[m]
      BY <1>4 DEF CacheWrite, AtaWrite, AtaWriteError, Inv, TypeOK
    <2>5. Dev!OthersKeep({l})
      BY <2>4, OthersKeepView
    <2>. QED  BY <1>4, <2>3, <2>5
              DEF CacheWrite, AtaWrite, AtaWriteError, Dev!Write, Dev!WriteFail, Dev!Answer, Answer
  <1>5. ASSUME FlushDirty PROVE Dev!Settle
    <2>1. PICK landed, done \in SUBSET DirtySlots :
            disk' = FlushedDisk(landed) /\ doubt' \subseteq doubt /\ ret' = [op |-> "none"]
      BY <1>5 DEF FlushDirty
    <2>2. ASSUME NEW m \in Lba, m \notin doubt PROVE disk'[m] = disk[m]
      <3>1. m # 0
        BY CacheAssumption
      <3>2. \/ disk'[m] = disk[m]
            \/ \E n \in Slots : cache[n].lba = m /\ disk'[m] = cache[n].data
        BY <2>1, FlushEffect
      <3>. QED  BY <2>2, <3>1, <3>2 DEF Inv, Coherent
    <2>3. Dev!OthersKeep({})
      BY <2>1, <2>2, OthersKeepView
    <2>. QED  BY <2>1, <2>3 DEF Dev!Settle
  <1>6. ASSUME Mount PROVE Dev!Settle
    <2>1. disk' = disk /\ doubt' = doubt /\ ret' = [op |-> "none"]
      BY <1>6 DEF Mount
    <2>2. Dev!OthersKeep({})
      BY <2>1, OthersKeepView
    <2>. QED  BY <2>1, <2>2 DEF Dev!Settle
  <1>7. ASSUME UNCHANGED vars PROVE UNCHANGED Dev!vars
    <2>1. \A m \in Lba : ViewOf(m)' = ViewOf(m)
      BY <1>7 DEF vars, ViewOf, Cached, SlotOf, FirstSlot
    <2>. QED  BY <1>7, <2>1 DEF vars, Dev!vars
  <1>. QED  BY <1>1, <1>2, <1>3, <1>4, <1>5, <1>6, <1>7 DEF Next

\* The cache over the ATA disk implements a plain disk: reads return what the
\* last successful write stored, across evictions, flushes and restarts.
THEOREM CacheImplementsDevice == Spec => ImplementsDevice
  <1>1. Init => Dev!Init
    <2> SUFFICES ASSUME Init PROVE Dev!Init
      OBVIOUS
    <2>1. \A l \in Lba : ViewOf(l) \in Value
      BY InitInv, ViewFacts DEF ViewProps
    <2>. QED  BY <2>1 DEF Init, Dev!Init
  <1>2. Inv /\ [Next]_vars => Inv'
    BY TypeStep, CoherentStep DEF Inv
  <1>. QED  BY InitInv, <1>1, <1>2, RefinementStep, PTL DEF Spec, ImplementsDevice, Dev!Spec
=============================================================================

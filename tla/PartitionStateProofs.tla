------------------------ MODULE PartitionStateProofs ------------------------
(***************************************************************************)
(* Proofs about PartitionState for every set of GPUs, claims and shares.   *)
(*                                                                         *)
(* SlotsExclusive, CountsExact and the others are not inductive: whether a *)
(* release finds the slots it expects depends on where the loop that calls *)
(* it stands, and whether a restart finds a sound table depends on what    *)
(* was saved.  IInv adds the loop's position (LoopInv) and the soundness   *)
(* of the saved snapshot (SavedInv).                                       *)
(***************************************************************************)
EXTENDS PartitionState, FiniteSetTheorems, TLAPS

\* A slot table and the modes beside it, as SlotsExclusive and
\* LocksMatchHolders state them of the current ones.
Coherent(snap) ==
    LET held == Assigned(snap.slots) IN
    /\ \A s, t \in held : s # t /\ gpuOf[s] = gpuOf[t] => snap.slots[s] # snap.slots[t]
    /\ \A s \in held : /\ snap.mode = memoryOf[s]
                       /\ snap.compute[gpuOf[s]] = computeOf[s]
    /\ held = {} => snap.mode = NoMode
    /\ \A g \in Gpu : (\A s \in held : gpuOf[s] # g) => snap.compute[g] = NoMode

\* Such a table whose slots are in range, as SlotWithinPartitions has it.
Sound(snap) ==
    /\ Coherent(snap)
    /\ \A s \in Assigned(snap.slots) : snap.slots[s] < partitions[computeOf[s]]

SavedInv == Sound(saved)

\* What holds of the tables whatever the caller reserves; only the slots' range
\* depends on the scheduler.
CoreInv ==
    /\ SlotsExclusive
    /\ CountsExact
    /\ LocksMatchHolders

TableInv == CoreInv /\ SlotWithinPartitions

\* Claims other than the one being worked on are reserved iff they hold slots.
OthersWhole == \A c \in Claim \ {caller} : c \in reservedClaims <=> HeldBy(c) # {}

\* What the scheduler checked before the reservation still has room.
RoomFor(shares) ==
    \A s \in shares :
        Cardinality(HeldOn(gpuOf[s]) \cup {t \in shares : gpuOf[t] = gpuOf[s]})
            <= partitions[computeOf[s]]

LoopInv ==
    /\ OthersWhole
    /\ op = "none" => caller = NoClaim /\ todo = {}
    /\ op # "none" => caller \in Claim
    /\ op = "reserve" => /\ caller \notin reservedClaims
                         /\ todo \subseteq SharesOf(caller) \ Held
                         /\ done = HeldBy(caller)
                         /\ todo \cup done # {}
                         /\ RoomFor(todo)
    /\ op = "undo" => caller \notin reservedClaims /\ todo = HeldBy(caller)
    /\ op = "release" => caller \in reservedClaims /\ todo = HeldBy(caller)

IInv == TypeOK /\ TableInv /\ LoopInv /\ SavedInv

-----------------------------------------------------------------------------
(* Counting. *)

\* Every set of shares is finite and has a natural number of members.
LEMMA SharesFinite ==
    ASSUME NEW S \in SUBSET Share
    PROVE  IsFiniteSet(S) /\ Cardinality(S) \in Nat
BY SharesAssumption, FS_Subset, FS_CardinalityType

\* A share more counts for one more, a share less for one less.
LEMMA CountOneMore ==
    ASSUME NEW S \in SUBSET Share, NEW s \in Share, s \notin S
    PROVE  Cardinality(S \cup {s}) = Cardinality(S) + 1
BY SharesFinite, FS_AddElement

LEMMA CountOneLess ==
    ASSUME NEW S \in SUBSET Share, NEW s \in S
    PROVE  /\ Cardinality(S) > 0
           /\ Cardinality(S \ {s}) = Cardinality(S) - 1
<1>1. S \ {s} \in SUBSET Share
  OBVIOUS
<1>2. Cardinality(S \ {s}) = Cardinality(S) - 1
  BY SharesFinite, FS_RemoveElement
<1>3. QED
  BY <1>1, <1>2, SharesFinite

\* Only the empty set of shares counts zero.
LEMMA CountZero ==
    ASSUME NEW S \in SUBSET Share
    PROVE  Cardinality(S) = 0 <=> S = {}
BY SharesFinite, FS_EmptySet

\* A lowest free slot does not exceed the number of slots held on the GPU: the
\* slots below it are all held, by different shares.
LEMMA LowestFreeBound ==
    ASSUME TypeOK, NEW g \in Gpu, NEW n \in Nat, IsLowestFree(g, n)
    PROVE  n <= Cardinality(HeldOn(g))
<1> DEFINE holder == [m \in 0 .. (n - 1) |->
                         CHOOSE s \in HeldOn(g) : assignedSlots[s] = m]
<1>1. \A m \in 0 .. (n - 1) : /\ holder[m] \in HeldOn(g)
                              /\ assignedSlots[holder[m]] = m
  BY DEF IsLowestFree
<1>2. holder \in Injection(0 .. (n - 1), HeldOn(g))
  <2>1. holder \in [0 .. (n - 1) -> HeldOn(g)]
    BY <1>1
  <2>2. \A a, b \in 0 .. (n - 1) : holder[a] = holder[b] => a = b
    BY <1>1
  <2>3. QED
    BY <2>1, <2>2 DEF Injection, IsInjective
<1>3. HeldOn(g) \in SUBSET Share
  BY DEF HeldOn, Held
<1>4. Cardinality(0 .. (n - 1)) <= Cardinality(HeldOn(g))
  BY <1>2, <1>3, SharesFinite, FS_Injection
<1>5. Cardinality(0 .. (n - 1)) = n
  BY FS_Interval
<1>6. QED
  BY <1>4, <1>5


-----------------------------------------------------------------------------
(* What one share's reservation and one share's release do to the tables.  *)

TableTypes ==
    /\ activeMemoryMode \in MemoryMode \cup {NoMode}
    /\ gpuComputeModes \in [Gpu -> ComputeMode \cup {NoMode}]
    /\ gpuAllocCounts \in [Gpu -> Nat]
    /\ totalAllocCount \in Nat
    /\ assignedSlots \in [Share -> Slot \cup {NoSlot}]

\* A reservation adds its share, and only it, to the holders.
LEMMA ReserveHolders ==
    ASSUME TypeOK, NEW s \in Share, s \notin Held, ReservePartition(s)
    PROVE  /\ Held' = Held \cup {s}
           /\ HeldOn(gpuOf[s])' = HeldOn(gpuOf[s]) \cup {s}
           /\ \A g \in Gpu \ {gpuOf[s]} : HeldOn(g)' = HeldOn(g)
<1> USE DEF TypeOK, Held, HeldOn
<1>1. PICK n \in Slot : assignedSlots' = [assignedSlots EXCEPT ![s] = n]
  BY DEF ReservePartition
<1>2. Cardinality(Share) \in Nat
  BY SharesAssumption, FS_CardinalityType
<1>3. n # NoSlot
  BY <1>2 DEF Slot, NoSlot
<1>4. Held' = Held \cup {s}
  BY <1>1, <1>3
<1>5. QED
  BY <1>4, SharesAssumption

\* A release removes its share, and only it, from the holders.
LEMMA ReleaseHolders ==
    ASSUME TypeOK, NEW s \in Held, ReleasePartition(s)
    PROVE  /\ Held' = Held \ {s}
           /\ HeldOn(gpuOf[s])' = HeldOn(gpuOf[s]) \ {s}
           /\ \A g \in Gpu \ {gpuOf[s]} : HeldOn(g)' = HeldOn(g)
<1> USE DEF TypeOK, Held, HeldOn
<1>1. assignedSlots' = [assignedSlots EXCEPT ![s] = NoSlot]
  BY DEF ReleasePartition
<1>2. Held' = Held \ {s}
  BY <1>1
<1>3. QED
  BY <1>2, SharesAssumption

\* Reserving a share keeps the tables coherent.
LEMMA ReserveCore ==
    ASSUME TypeOK, CoreInv, NEW s \in Share, s \notin Held, ReservePartition(s)
    PROVE  TableTypes' /\ CoreInv'
<1> DEFINE g == gpuOf[s]
<1>0. g \in Gpu /\ computeOf[s] \in ComputeMode /\ memoryOf[s] \in MemoryMode
  BY SharesAssumption
<1>1. PICK n \in Slot : /\ IsLowestFree(g, n)
                        /\ assignedSlots' = [assignedSlots EXCEPT ![s] = n]
  BY DEF ReservePartition, IsSlotFor, Held
<1>2. Cardinality(Share) \in Nat /\ n \in Nat
  BY SharesAssumption, FS_CardinalityType DEF Slot
<1>3. Held \in SUBSET Share /\ HeldOn(g) \in SUBSET Share /\ s \notin HeldOn(g)
  BY DEF Held, HeldOn
<1>5. TableTypes'
  BY <1>0, <1>1 DEF TypeOK, TableTypes, ReservePartition
<1>6. SlotsExclusive'
  <2>1. \A t \in HeldOn(g) : assignedSlots[t] # n
    BY <1>1 DEF IsLowestFree
  <2>2. QED
    BY <1>1, <2>1, ReserveHolders
       DEF TypeOK, CoreInv, SlotsExclusive, Held, HeldOn
<1>8. CountsExact'
  <2>1. /\ gpuAllocCounts' = [gpuAllocCounts EXCEPT ![g] = @ + 1]
        /\ totalAllocCount' = totalAllocCount + 1
    BY DEF ReservePartition
  <2>2. /\ Cardinality(Held \cup {s}) = Cardinality(Held) + 1
        /\ Cardinality(HeldOn(g) \cup {s}) = Cardinality(HeldOn(g)) + 1
    BY <1>3, CountOneMore
  <2>3. Cardinality(Held') = totalAllocCount'
    BY <2>1, <2>2, ReserveHolders DEF CoreInv, CountsExact
  <2>4. \A h \in Gpu : Cardinality(HeldOn(h)') = gpuAllocCounts'[h]
    <3>1. /\ gpuAllocCounts'[g] = gpuAllocCounts[g] + 1
          /\ \A h \in Gpu \ {g} : gpuAllocCounts'[h] = gpuAllocCounts[h]
      BY <1>0, <2>1 DEF TypeOK
    <3>2. \A h \in Gpu : Cardinality(HeldOn(h)) = gpuAllocCounts[h]
      BY DEF CoreInv, CountsExact
    <3>3. QED
      BY <1>0, <2>2, <3>1, <3>2, ReserveHolders
  <2>5. QED
    BY <2>3, <2>4 DEF CountsExact
<1>9. LocksMatchHolders'
  <2>1. /\ activeMemoryMode' = memoryOf[s]
        /\ gpuComputeModes' = [gpuComputeModes EXCEPT ![g] = computeOf[s]]
        /\ activeMemoryMode \in {NoMode, memoryOf[s]}
        /\ gpuComputeModes[g] \in {NoMode, computeOf[s]}
    BY DEF ReservePartition, Compatible, MemoryCompatible, ComputeCompatible
  <2>2. \A t \in Held : /\ memoryOf[t] \in MemoryMode
                        /\ computeOf[t] \in ComputeMode
                        /\ gpuOf[t] \in Gpu
                        /\ activeMemoryMode = memoryOf[t]
                        /\ gpuComputeModes[gpuOf[t]] = computeOf[t]
    BY SharesAssumption DEF CoreInv, LocksMatchHolders, Held
  <2>3. \A t \in Held : memoryOf[t] = memoryOf[s]
    BY <2>1, <2>2, ModesAssumption
  <2>4. \A t \in Held : gpuOf[t] = g => computeOf[t] = computeOf[s]
    BY <2>1, <2>2, ModesAssumption
  <2>5. \A t \in Held' : /\ activeMemoryMode' = memoryOf[t]
                         /\ gpuComputeModes'[gpuOf[t]] = computeOf[t]
    BY <1>0, <2>1, <2>2, <2>3, <2>4, ReserveHolders DEF TypeOK
  <2>6. Held' # {}
    BY ReserveHolders
  <2>7. \A h \in Gpu : HeldOn(h)' = {} => gpuComputeModes'[h] = NoMode
    BY <1>0, <2>1, ReserveHolders DEF TypeOK, CoreInv, LocksMatchHolders
  <2>8. QED
    BY <2>5, <2>6, <2>7 DEF LocksMatchHolders
<1>10. QED
  BY <1>5, <1>6, <1>8, <1>9 DEF CoreInv

\* Reserving a share for which its GPU has room keeps all slots in range.
LEMMA ReserveTables ==
    ASSUME TypeOK, TableInv, NEW s \in Share, s \notin Held,
           Cardinality(HeldOn(gpuOf[s])) < partitions[computeOf[s]],
           ReservePartition(s)
    PROVE  TableTypes' /\ TableInv'
<1>1. PICK n \in Slot : /\ IsLowestFree(gpuOf[s], n)
                        /\ assignedSlots' = [assignedSlots EXCEPT ![s] = n]
  BY DEF ReservePartition, IsSlotFor, Held
<1>2. Cardinality(Share) \in Nat /\ n \in Nat
  BY SharesAssumption, FS_CardinalityType DEF Slot
<1>3. HeldOn(gpuOf[s]) \in SUBSET Share /\ gpuOf[s] \in Gpu /\ computeOf[s] \in ComputeMode
  BY SharesAssumption DEF Held, HeldOn
<1>4. n < partitions[computeOf[s]]
  BY <1>1, <1>2, <1>3, LowestFreeBound, SharesFinite, PartitionsAssumption
<1>5. SlotWithinPartitions'
  BY <1>1, <1>4, ReserveHolders
     DEF TypeOK, TableInv, SlotWithinPartitions, Held
<1>6. QED
  BY <1>5, ReserveCore DEF TableInv

\* Releasing a share that holds a slot keeps the tables coherent.
LEMMA ReleaseCore ==
    ASSUME TypeOK, CoreInv, NEW s \in Held, ReleasePartition(s)
    PROVE  TableTypes' /\ CoreInv'
<1> DEFINE g == gpuOf[s]
<1>0. g \in Gpu /\ s \in Share /\ s \in HeldOn(g)
  BY SharesAssumption DEF Held, HeldOn
<1>1. Held \in SUBSET Share /\ HeldOn(g) \in SUBSET Share
  BY DEF Held, HeldOn
<1>2. /\ Cardinality(Held \ {s}) = totalAllocCount - 1
      /\ totalAllocCount > 0
      /\ Cardinality(HeldOn(g) \ {s}) = gpuAllocCounts[g] - 1
      /\ gpuAllocCounts[g] > 0
  BY <1>0, <1>1, CountOneLess DEF CoreInv, CountsExact
<1>3. /\ gpuAllocCounts' = [gpuAllocCounts EXCEPT ![g] = @ - 1]
      /\ totalAllocCount' = totalAllocCount - 1
  BY <1>0, <1>2 DEF ReleasePartition, CountDown, TypeOK
<1>4. TableTypes'
  BY <1>0, <1>2, <1>3 DEF TypeOK, TableTypes, ReleasePartition
<1>5. /\ \A t \in Held' : t # s /\ assignedSlots'[t] = assignedSlots[t]
      /\ Held' = Held \ {s}
  BY <1>0, ReleaseHolders DEF ReleasePartition, TypeOK, Held
<1>6. SlotsExclusive'
  BY <1>5 DEF CoreInv, SlotsExclusive
<1>7. CountsExact'
  <2>1. Cardinality(Held') = totalAllocCount'
    BY <1>2, <1>3, ReleaseHolders
  <2>2. \A h \in Gpu : Cardinality(HeldOn(h)') = gpuAllocCounts'[h]
    BY <1>0, <1>2, <1>3, ReleaseHolders DEF TypeOK, CoreInv, CountsExact
  <2>3. QED
    BY <2>1, <2>2 DEF CountsExact
<1>8. LocksMatchHolders'
  <2>1. totalAllocCount' = 0 <=> Held' = {}
    BY <1>1, <1>2, <1>3, <1>5, CountZero
  <2>2. gpuAllocCounts'[g] = 0 <=> HeldOn(g)' = {}
    <3>1. HeldOn(g) \ {s} \in SUBSET Share
      BY <1>1
    <3>2. gpuAllocCounts'[g] = gpuAllocCounts[g] - 1
      BY <1>0, <1>3 DEF TypeOK
    <3>3. QED
      BY <1>2, <3>1, <3>2, CountZero, ReleaseHolders
  <2>3. \A t \in Held' : /\ activeMemoryMode' = memoryOf[t]
                         /\ gpuComputeModes'[gpuOf[t]] = computeOf[t]
    <3> SUFFICES ASSUME NEW t \in Held'
                 PROVE  /\ activeMemoryMode' = memoryOf[t]
                        /\ gpuComputeModes'[gpuOf[t]] = computeOf[t]
      OBVIOUS
    <3>1. /\ t \in Held /\ gpuOf[t] \in Gpu
          /\ activeMemoryMode = memoryOf[t]
          /\ gpuComputeModes[gpuOf[t]] = computeOf[t]
      BY <1>5, SharesAssumption DEF CoreInv, LocksMatchHolders, Held
    <3>2. gpuOf[t] = g => HeldOn(g)' # {}
      BY <1>5 DEF HeldOn
    <3>3. activeMemoryMode' = activeMemoryMode
      BY <2>1 DEF ReleasePartition
    <3>4. gpuComputeModes'[gpuOf[t]] = gpuComputeModes[gpuOf[t]]
      BY <2>2, <3>1, <3>2 DEF ReleasePartition, TypeOK
    <3>5. QED
      BY <3>1, <3>3, <3>4
  <2>4. Held' = {} => activeMemoryMode' = NoMode
    BY <2>1 DEF ReleasePartition
  <2>5. \A h \in Gpu : HeldOn(h)' = {} => gpuComputeModes'[h] = NoMode
    BY <1>0, <2>2, ReleaseHolders
       DEF ReleasePartition, TypeOK, CoreInv, LocksMatchHolders
  <2>6. QED
    BY <2>3, <2>4, <2>5 DEF LocksMatchHolders
<1>9. QED
  BY <1>4, <1>6, <1>7, <1>8 DEF CoreInv

LEMMA ReleaseTables ==
    ASSUME TypeOK, TableInv, NEW s \in Held, ReleasePartition(s)
    PROVE  TableTypes' /\ TableInv'
<1>1. /\ \A t \in Held' : t # s /\ assignedSlots'[t] = assignedSlots[t]
      /\ Held' = Held \ {s}
  BY ReleaseHolders DEF ReleasePartition, TypeOK, Held
<1>2. SlotWithinPartitions'
  BY <1>1 DEF TableInv, SlotWithinPartitions
<1>3. QED
  BY <1>2, ReleaseCore DEF TableInv

-----------------------------------------------------------------------------
(* Every step preserves IInv. *)

\* A step that leaves the tables alone keeps their invariants and holders.
LEMMA CoreUnchanged ==
    ASSUME TypeOK, CoreInv, UNCHANGED tableVars
    PROVE  /\ TableTypes' /\ CoreInv'
           /\ Held' = Held
           /\ \A g \in Gpu : HeldOn(g)' = HeldOn(g)
           /\ \A c \in Claim : HeldBy(c)' = HeldBy(c)
<1>1. Held' = Held
  BY DEF tableVars, Held
<1>2. \A g \in Gpu : HeldOn(g)' = HeldOn(g)
  BY <1>1 DEF HeldOn
<1>3. \A c \in Claim : HeldBy(c)' = HeldBy(c)
  BY <1>1 DEF HeldBy
<1>4. TableTypes'
  BY DEF TypeOK, TableTypes, tableVars, modeVars, countVars
<1>5. CountsExact'
  BY <1>1, <1>2 DEF CoreInv, CountsExact, tableVars, countVars
<1>6. SlotsExclusive'
  BY <1>1 DEF CoreInv, SlotsExclusive, tableVars
<1>7. LocksMatchHolders'
  BY <1>1, <1>2 DEF CoreInv, LocksMatchHolders, tableVars, modeVars
<1>8. QED
  BY <1>1, <1>2, <1>3, <1>4, <1>5, <1>6, <1>7 DEF CoreInv

LEMMA TablesUnchanged ==
    ASSUME TypeOK, TableInv, UNCHANGED tableVars
    PROVE  /\ TableTypes' /\ TableInv'
           /\ Held' = Held
           /\ \A g \in Gpu : HeldOn(g)' = HeldOn(g)
           /\ \A c \in Claim : HeldBy(c)' = HeldBy(c)
<1>1. SlotWithinPartitions'
  BY DEF TableInv, SlotWithinPartitions, tableVars, Held
<1>2. QED
  BY <1>1, CoreUnchanged DEF TableInv

\* The saved snapshot is untouched by everything but Save.
LEMMA SavedUnchanged ==
    ASSUME SavedInv, UNCHANGED saved
    PROVE  SavedInv'
BY DEF SavedInv, Sound, Coherent, Assigned

\* A snapshot of coherent tables is coherent.
LEMMA SnapshotCoherent ==
    ASSUME CoreInv
    PROVE  Coherent(CurrentSnapshot) /\ Assigned(CurrentSnapshot.slots) = Held
<1>1. Assigned(assignedSlots) = Held
  BY DEF Assigned, Held
<1>2. \A g \in Gpu : (\A s \in Held : gpuOf[s] # g) => HeldOn(g) = {}
  BY DEF HeldOn
<1>3. QED
  BY <1>1, <1>2
     DEF Coherent, CurrentSnapshot, CoreInv, SlotsExclusive, LocksMatchHolders

\* What a restart rebuilds from a coherent snapshot is coherent.
LEMMA RecoverCore ==
    ASSUME NEW snap \in Snapshot, Coherent(snap), RecoverFromSlots(snap)
    PROVE  /\ TableTypes' /\ CoreInv'
           /\ Held' = Assigned(snap.slots)
           /\ \A d \in Claim : HeldBy(d)' = {s \in Assigned(snap.slots) : claimOf[s] = d}
           /\ reservedClaims' \subseteq Claim
<1> USE DEF RecoverFromSlots
<1> DEFINE held == Assigned(snap.slots)
<1>1. /\ snap.mode \in MemoryMode \cup {NoMode}
      /\ snap.compute \in [Gpu -> ComputeMode \cup {NoMode}]
      /\ snap.slots \in [Share -> Slot \cup {NoSlot}]
  BY DEF Snapshot
<1>2. /\ held \in SUBSET Share /\ Held' = held
      /\ \A g \in Gpu : HeldOn(g)' = {s \in held : gpuOf[s] = g}
      /\ \A d \in Claim : HeldBy(d)' = {s \in held : claimOf[s] = d}
  BY DEF Assigned, Held, HeldOn, HeldBy
<1>3. /\ \A g \in Gpu : Cardinality({s \in held : gpuOf[s] = g}) \in Nat
      /\ Cardinality(held) \in Nat
  BY <1>2, SharesFinite
<1>4. TableTypes'
  BY <1>1, <1>3 DEF TableTypes
<1>5. {claimOf[s] : s \in held} \subseteq Claim
  BY <1>2, SharesAssumption
<1>6. CoreInv'
  <2>1. CountsExact'
    BY <1>2 DEF CountsExact
  <2>2. SlotsExclusive'
    BY <1>2 DEF Coherent, SlotsExclusive
  <2>3. LocksMatchHolders'
    BY <1>2 DEF Coherent, LocksMatchHolders
  <2>4. QED
    BY <2>1, <2>2, <2>3 DEF CoreInv
<1>7. QED
  BY <1>2, <1>4, <1>5, <1>6

LEMMA InitEstablishes == Init => IInv
<1> SUFFICES ASSUME Init PROVE IInv
  OBVIOUS
<1> USE DEF Init
<1>1. Cardinality(Share) \in Nat
  BY SharesAssumption, FS_CardinalityType
<1>2. TypeOK
  BY <1>1 DEF TypeOK, Ops, Snapshot, EmptySnapshot
<1>3. Held = {} /\ \A g \in Gpu : HeldOn(g) = {}
  BY DEF Held, HeldOn
<1>4. TableInv
  BY <1>3, FS_EmptySet
     DEF TableInv, CoreInv, SlotsExclusive, SlotWithinPartitions, CountsExact,
         LocksMatchHolders
<1>5. LoopInv
  BY <1>3 DEF LoopInv, OthersWhole, HeldBy
<1>6. SavedInv
  BY DEF SavedInv, Sound, Coherent, Assigned, EmptySnapshot
<1>7. QED
  BY <1>2, <1>4, <1>5, <1>6 DEF IInv

LEMMA BeginReserveStep ==
    ASSUME IInv, NEW c \in Claim, Reserve(c), UNCHANGED saved
    PROVE  IInv'
<1> USE DEF IInv
<1>1. PICK shares \in SUBSET SharesOf(c) :
          shares # {} /\ Fits(shares) /\ BeginReserve(c, shares)
  BY DEF Reserve
<1> USE <1>1 DEF BeginReserve
<1>2. /\ TableTypes' /\ TableInv' /\ Held' = Held
      /\ \A g \in Gpu : HeldOn(g)' = HeldOn(g)
      /\ \A d \in Claim : HeldBy(d)' = HeldBy(d)
  BY TablesUnchanged
<1>3. shares \subseteq Share
  BY DEF SharesOf
<1>4. TypeOK'
  BY <1>2, <1>3 DEF TypeOK, TableTypes, Ops
<1>5. HeldBy(c) = {} /\ caller = NoClaim
  BY ModesAssumption DEF LoopInv, OthersWhole, HasReservation
<1>6. OthersWhole'
  BY <1>2, <1>5, ModesAssumption DEF LoopInv, OthersWhole
<1>7. RoomFor(todo)'
  BY <1>2, <1>3, SharesAssumption DEF RoomFor, Fits
<1>8. LoopInv'
  <2>1. todo' \subseteq SharesOf(c) \ Held
    BY <1>5 DEF HeldBy, SharesOf
  <2>2. QED
    BY <1>2, <1>5, <1>6, <1>7, <2>1 DEF LoopInv, HasReservation
<1>9. QED
  BY <1>2, <1>4, <1>8, SavedUnchanged

LEMMA BeginReleaseStep ==
    ASSUME IInv, NEW c \in Claim, Release(c), UNCHANGED saved
    PROVE  IInv'
<1> USE DEF IInv, Release, BeginRelease
<1>1. /\ TableTypes' /\ TableInv' /\ Held' = Held
      /\ \A d \in Claim : HeldBy(d)' = HeldBy(d)
  BY TablesUnchanged
<1>2. HeldBy(c) \subseteq Share
  BY DEF HeldBy, Held
<1>3. TypeOK'
  BY <1>1, <1>2 DEF TypeOK, TableTypes, Ops
<1>4. LoopInv'
  BY <1>1, ModesAssumption DEF LoopInv, OthersWhole, HasReservation
<1>5. QED
  BY <1>1, <1>3, <1>4, SavedUnchanged

\* The shares of other claims are not affected by what one share does.
LEMMA OtherHolders ==
    ASSUME NEW s \in Share, Held' \in {Held \cup {s}, Held \ {s}}
    PROVE  \A d \in Claim \ {claimOf[s]} : HeldBy(d)' = HeldBy(d)
BY DEF HeldBy

LEMMA ReserveShareStep ==
    ASSUME IInv, NEW s \in Share, ReserveShare(s), UNCHANGED saved
    PROVE  IInv'
<1> USE DEF IInv, ReserveShare
<1> DEFINE g == gpuOf[s]
           here == {t \in todo : gpuOf[t] = g}
<1>1. /\ g \in Gpu /\ computeOf[s] \in ComputeMode
      /\ s \notin Held /\ claimOf[s] = caller /\ caller \in Claim
  BY SharesAssumption DEF LoopInv, SharesOf
<1>2. Cardinality(HeldOn(g)) < partitions[computeOf[s]]
  <2>1. /\ HeldOn(g) \in SUBSET Share
        /\ HeldOn(g) \cup here \in SUBSET Share
        /\ s \in (HeldOn(g) \cup here) \ HeldOn(g)
    BY <1>1 DEF HeldOn, Held, TypeOK
  <2>2. Cardinality(HeldOn(g) \cup {s}) <= Cardinality(HeldOn(g) \cup here)
    BY <2>1, SharesFinite, FS_Subset
  <2>3. Cardinality(HeldOn(g) \cup here) <= partitions[computeOf[s]]
    BY DEF LoopInv, RoomFor
  <2>4. partitions[computeOf[s]] \in Nat
    BY <1>1, PartitionsAssumption
  <2>5. QED
    BY <2>1, <2>2, <2>3, <2>4, CountOneMore, SharesFinite
<1>3. TableTypes' /\ TableInv'
  BY <1>1, <1>2, ReserveTables
<1>4. /\ Held' = Held \cup {s}
      /\ HeldOn(g)' = HeldOn(g) \cup {s}
      /\ \A h \in Gpu \ {g} : HeldOn(h)' = HeldOn(h)
  BY <1>1, ReserveHolders
<1>5. TypeOK'
  BY <1>3 DEF TypeOK, TableTypes
<1>6. HeldBy(caller)' = HeldBy(caller) \cup {s}
  BY <1>1, <1>4 DEF HeldBy
<1>7. OthersWhole'
  BY <1>1, <1>4, OtherHolders DEF LoopInv, OthersWhole
<1>8. RoomFor(todo)'
  <2> SUFFICES ASSUME NEW t \in todo'
               PROVE  Cardinality(HeldOn(gpuOf[t])' \cup {u \in todo' : gpuOf[u] = gpuOf[t]})
                        <= partitions[computeOf[t]]
    BY DEF RoomFor
  <2>1. t \in todo /\ gpuOf[t] \in Gpu
    BY SharesAssumption DEF TypeOK
  <2>2. HeldOn(gpuOf[t])' \cup {u \in todo' : gpuOf[u] = gpuOf[t]}
          = HeldOn(gpuOf[t]) \cup {u \in todo : gpuOf[u] = gpuOf[t]}
    BY <1>4, <2>1
  <2>3. QED
    BY <2>1, <2>2 DEF LoopInv, RoomFor
<1>9. LoopInv'
  <2>1. todo' \subseteq SharesOf(caller) \ Held'
    BY <1>4 DEF LoopInv
  <2>2. QED
    BY <1>1, <1>6, <1>7, <1>8, <2>1 DEF LoopInv, SharesOf
<1>10. QED
  BY <1>3, <1>5, <1>9, SavedUnchanged

LEMMA ReserveConflictStep ==
    ASSUME IInv, NEW s \in Share, ReserveConflict(s), UNCHANGED saved
    PROVE  IInv'
<1> USE DEF IInv, ReserveConflict
<1>1. /\ TableTypes' /\ TableInv' /\ Held' = Held
      /\ \A d \in Claim : HeldBy(d)' = HeldBy(d)
  BY TablesUnchanged
<1>2. TypeOK'
  BY <1>1 DEF TypeOK, TableTypes, Ops
<1>3. LoopInv'
  BY <1>1 DEF LoopInv, OthersWhole
<1>4. QED
  BY <1>1, <1>2, <1>3, SavedUnchanged

\* Undo and release free a share in the same way.
LEMMA FreeShareStep ==
    ASSUME IInv, NEW s \in Share, UndoShare(s) \/ ReleaseShare(s), UNCHANGED saved
    PROVE  IInv'
<1> USE DEF IInv
<1>1. /\ op \in {"undo", "release"} /\ s \in todo /\ ReleasePartition(s)
      /\ todo' = todo \ {s}
      /\ op' = op /\ caller' = caller /\ reservedClaims' = reservedClaims
      /\ done' \subseteq Share /\ taintsChanged' \in BOOLEAN
  BY DEF UndoShare, ReleaseShare, TypeOK
<1>2. s \in Held /\ claimOf[s] = caller /\ caller \in Claim /\ todo = HeldBy(caller)
  BY <1>1 DEF LoopInv, HeldBy
<1>3. TableTypes' /\ TableInv'
  BY <1>1, <1>2, ReleaseTables
<1>4. Held' = Held \ {s}
  BY <1>1, <1>2, ReleaseHolders
<1>5. TypeOK'
  BY <1>1, <1>3 DEF TypeOK, TableTypes
<1>6. HeldBy(caller)' = HeldBy(caller) \ {s}
  BY <1>1, <1>4 DEF HeldBy
<1>7. OthersWhole'
  BY <1>1, <1>2, <1>4, OtherHolders DEF LoopInv, OthersWhole
<1>8. LoopInv'
  BY <1>1, <1>2, <1>6, <1>7 DEF LoopInv
<1>9. QED
  BY <1>3, <1>5, <1>8, SavedUnchanged

LEMMA LoopDoneStep ==
    ASSUME IInv, ReserveDone \/ UndoDone \/ ReleaseDone, UNCHANGED saved
    PROVE  IInv'
<1> USE DEF IInv
<1>1. /\ LoopEnds /\ op \in {"reserve", "undo", "release"}
      /\ reservedClaims' \subseteq reservedClaims \cup {caller}
  BY DEF ReserveDone, UndoDone, ReleaseDone
<1>2. /\ TableTypes' /\ TableInv' /\ Held' = Held
      /\ \A d \in Claim : HeldBy(d)' = HeldBy(d)
  BY <1>1, TablesUnchanged DEF LoopEnds
<1>3. caller \in Claim /\ todo = {}
  BY <1>1 DEF LoopInv, LoopEnds
<1>4. TypeOK'
  BY <1>1, <1>2, <1>3 DEF TypeOK, TableTypes, LoopEnds, Ops
<1>5. \A d \in Claim : d \in reservedClaims' <=> HeldBy(d) # {}
  <2>1. caller \in reservedClaims' <=> HeldBy(caller) # {}
    BY <1>3 DEF ReserveDone, UndoDone, ReleaseDone, LoopInv
  <2>2. \A d \in Claim \ {caller} : d \in reservedClaims' <=> HeldBy(d) # {}
    BY DEF ReserveDone, UndoDone, ReleaseDone, LoopInv, OthersWhole
  <2>3. QED
    BY <2>1, <2>2
<1>6. LoopInv'
  BY <1>1, <1>2, <1>3, <1>5 DEF LoopInv, OthersWhole, LoopEnds
<1>7. QED
  BY <1>2, <1>4, <1>6, SavedUnchanged

LEMMA SaveStep ==
    ASSUME IInv, Save
    PROVE  IInv'
<1> USE DEF IInv, Save, psVars
<1>1. /\ TableTypes' /\ TableInv' /\ Held' = Held
      /\ \A g \in Gpu : HeldOn(g)' = HeldOn(g)
      /\ \A d \in Claim : HeldBy(d)' = HeldBy(d)
  BY TablesUnchanged
<1>2. TypeOK'
  BY <1>1 DEF TypeOK, TableTypes, Snapshot, CurrentSnapshot, loopVars
<1>3. LoopInv'
  BY <1>1 DEF LoopInv, OthersWhole, loopVars
<1>4. Sound(CurrentSnapshot)
  BY SnapshotCoherent DEF Sound, CurrentSnapshot, TableInv, SlotWithinPartitions
<1>5. SavedInv'
  BY <1>4 DEF SavedInv
<1>6. QED
  BY <1>1, <1>2, <1>3, <1>5

LEMMA RestartStep ==
    ASSUME IInv, Restart
    PROVE  IInv'
<1> USE DEF IInv, Restart, LoopReset
<1>1. /\ TableTypes' /\ CoreInv'
      /\ Held' = Assigned(saved.slots)
      /\ \A d \in Claim : HeldBy(d)' = {s \in Assigned(saved.slots) : claimOf[s] = d}
      /\ reservedClaims' \subseteq Claim
  BY RecoverCore DEF TypeOK, SavedInv, Sound
<1>2. TypeOK'
  BY <1>1 DEF TypeOK, TableTypes, Ops
<1>3. SlotWithinPartitions'
  BY <1>1 DEF SavedInv, Sound, SlotWithinPartitions, RecoverFromSlots
<1>4. LoopInv'
  BY <1>1, ModesAssumption DEF LoopInv, OthersWhole, RecoverFromSlots
<1>5. QED
  BY <1>1, <1>2, <1>3, <1>4, SavedUnchanged DEF TableInv

LEMMA NextPreserves == IInv /\ [Next]_vars => IInv'
<1> SUFFICES ASSUME IInv, [Next]_vars PROVE IInv'
  OBVIOUS
<1>1. CASE \E c \in Claim : (Reserve(c) \/ Release(c)) /\ UNCHANGED saved
  BY <1>1, BeginReserveStep, BeginReleaseStep
<1>2. CASE LoopStep /\ UNCHANGED saved
  BY <1>2, ReserveShareStep, ReserveConflictStep, FreeShareStep, LoopDoneStep
     DEF LoopStep
<1>3. CASE Save
  BY <1>3, SaveStep
<1>4. CASE Restart
  BY <1>4, RestartStep
<1>5. CASE UNCHANGED vars
  <2>1. /\ TableTypes' /\ TableInv' /\ Held' = Held
        /\ \A g \in Gpu : HeldOn(g)' = HeldOn(g)
        /\ \A d \in Claim : HeldBy(d)' = HeldBy(d)
    BY <1>5, TablesUnchanged DEF vars, psVars, IInv
  <2>2. TypeOK' /\ SavedInv'
    BY <1>5, <2>1, SavedUnchanged
       DEF IInv, TypeOK, TableTypes, vars, psVars, loopVars
  <2>3. RoomFor(todo)' <=> RoomFor(todo)
    BY <1>5, <2>1, SharesAssumption DEF RoomFor, vars, psVars, loopVars, IInv, TypeOK
  <2>4. LoopInv'
    BY <1>5, <2>1, <2>3 DEF IInv, LoopInv, OthersWhole, vars, psVars, loopVars
  <2>5. QED
    BY <2>1, <2>2, <2>4 DEF IInv
<1>6. QED
  BY <1>1, <1>2, <1>3, <1>4, <1>5 DEF Next

LEMMA InvariantHolds == Spec => []IInv
BY InitEstablishes, NextPreserves, PTL DEF Spec

-----------------------------------------------------------------------------
(* The theorems. *)

\* The bookkeeping stays well typed: in particular every slot the lowest-free
\* rule hands out is bounded, and the counters never go below zero.
THEOREM TypeCorrect == Spec => []TypeOK
BY InvariantHolds, PTL DEF IInv

\* Two shares never hold the same slot of one GPU (assignSlotLocked,
\* releaseSlotLocked, RecoverFromCheckpoint).
THEOREM NoSharedSlot == Spec => []SlotsExclusive
BY InvariantHolds, PTL DEF IInv, TableInv, CoreInv

\* No slot reaches the number of partitions the share's compute mode gives the
\* GPU, as long as the scheduler places no more shares than that.
THEOREM NoSlotPastPartitions == Spec => []SlotWithinPartitions
BY InvariantHolds, PTL DEF IInv, TableInv, CoreInv

\* Counters and slot table agree in every state of every loop.
THEOREM CountersNeverDrift == Spec => []CountsExact
BY InvariantHolds, PTL DEF IInv, TableInv, CoreInv

\* The mode locks are those of the holders, and go with the last of them.
THEOREM LocksFollowHolders == Spec => []LocksMatchHolders
BY InvariantHolds, PTL DEF IInv, TableInv, CoreInv

\* Between operations, a claim is marked reserved exactly when it holds slots.
THEOREM ReservationIsAllOrNothing == Spec => []ReservationsWhole
<1>1. IInv => ReservationsWhole
  <2> SUFFICES ASSUME IInv, op = "none"
               PROVE  reservedClaims = {claimOf[s] : s \in Held}
    BY DEF ReservationsWhole
  <2>1. \A c \in Claim : c \in reservedClaims <=> HeldBy(c) # {}
    BY ModesAssumption DEF IInv, LoopInv, OthersWhole
  <2>2. \A s \in Held : claimOf[s] \in Claim
    BY SharesAssumption DEF Held
  <2>3. reservedClaims \subseteq Claim
    BY DEF IInv, TypeOK
  <2>4. QED
    BY <2>1, <2>2, <2>3 DEF HeldBy
<1>2. QED
  BY <1>1, InvariantHolds, PTL

\* A held slot changes only by being released, restarts aside.
THEOREM HeldSlotsStay == Spec => SlotsNeverMove
<1> DEFINE Stay == ~Restart => \A s \in Held : assignedSlots'[s] \in {assignedSlots[s], NoSlot}
<1>1. IInv /\ [Next]_vars => [Stay]_vars
  <2> SUFFICES ASSUME IInv, Next, ~Restart, NEW s \in Held
               PROVE  assignedSlots'[s] \in {assignedSlots[s], NoSlot}
    OBVIOUS
  <2>0. s \in Share /\ assignedSlots \in [Share -> Slot \cup {NoSlot}]
    BY DEF IInv, TypeOK, Held
  <2>1. CASE UNCHANGED assignedSlots
    BY <2>1
  <2>2. CASE \E t \in Share : ReservePartition(t)
    <3>1. PICK t \in Share : ReservePartition(t)
      BY <2>2
    <3>2. PICK n \in Slot : IsSlotFor(t, n) /\ assignedSlots' = [assignedSlots EXCEPT ![t] = n]
      BY <3>1 DEF ReservePartition
    <3>3. QED
      BY <2>0, <3>2 DEF IsSlotFor, Held
  <2>3. CASE \E t \in Share : ReleasePartition(t)
    BY <2>0, <2>3 DEF ReleasePartition
  <2>4. UNCHANGED assignedSlots \/ (\E t \in Share : ReservePartition(t) \/ ReleasePartition(t))
    BY DEF Next, LoopStep, Reserve, Release, BeginReserve, BeginRelease,
           ReserveShare, ReserveConflict, UndoShare, ReleaseShare, ReserveDone,
           UndoDone, ReleaseDone, LoopEnds, Save, tableVars, psVars
  <2>5. QED
    BY <2>1, <2>2, <2>3, <2>4
<1>2. QED
  BY <1>1, InvariantHolds, PTL DEF Spec, SlotsNeverMove

-----------------------------------------------------------------------------
(* The bookkeeping implements the lease specification. *)

LEMMA AcquireStep ==
    ASSUME IInv, NEW s \in Share, ReserveShare(s), UNCHANGED saved
    PROVE  \E n \in 0 .. (partitions[computeOf[s]] - 1) : Lease!Acquire(s, n)
<1>1. s \notin Held /\ s \in todo /\ gpuOf[s] \in Gpu
  BY SharesAssumption DEF ReserveShare, IInv, LoopInv
<1>2. PICK n \in Slot : /\ IsLowestFree(gpuOf[s], n)
                        /\ assignedSlots' = [assignedSlots EXCEPT ![s] = n]
  BY <1>1 DEF ReserveShare, ReservePartition, IsSlotFor, Held
<1>3. IInv'
  BY ReserveShareStep
<1>4. Held' = Held \cup {s}
  BY <1>1, ReserveHolders DEF IInv, ReserveShare
<1>5. n \in 0 .. (partitions[computeOf[s]] - 1)
  <2>1. assignedSlots'[s] = n /\ n \in Nat
    BY <1>2, SharesAssumption, FS_CardinalityType DEF IInv, TypeOK, Slot
  <2>2. assignedSlots'[s] < partitions[computeOf[s]]
    BY <1>3, <1>4 DEF IInv, TableInv, SlotWithinPartitions
  <2>3. partitions[computeOf[s]] \in Nat
    BY SharesAssumption, PartitionsAssumption
  <2>4. QED
    BY <2>1, <2>2, <2>3
<1>6. \A t \in Held : /\ memoryOf[s] = memoryOf[t]
                      /\ gpuOf[s] = gpuOf[t] => computeOf[s] = computeOf[t]
  BY <1>3, <1>4 DEF IInv, TableInv, CoreInv, LocksMatchHolders
<1>7. \A t \in Held : gpuOf[t] = gpuOf[s] => assignedSlots[t] # n
  BY <1>2 DEF IsLowestFree, HeldOn
<1>8. Lease!Leased(assignedSlots) = Held
  BY DEF Lease!Leased, Held, Lease!NoLease, NoSlot
<1>9. Lease!Acquire(s, n)
  BY <1>1, <1>2, <1>6, <1>7, <1>8
     DEF Lease!Acquire, Lease!Agree, Held, Lease!NoLease, NoSlot
<1>10. QED
  BY <1>5, <1>9

LEMMA DropStep ==
    ASSUME IInv, NEW s \in Share, UndoShare(s) \/ ReleaseShare(s), UNCHANGED saved
    PROVE  Lease!Drop(s)
<1>1. s \in Held /\ ReleasePartition(s)
  BY DEF UndoShare, ReleaseShare, IInv, LoopInv, HeldBy
<1>2. QED
  BY <1>1 DEF ReleasePartition, Held, Lease!Drop, Lease!Leased, Lease!NoLease, NoSlot

\* Every behaviour of the bookkeeping is one of PartitionLease: a reservation
\* acquires a lease nobody has on a partition that exists, in agreement with
\* all other leases; everything else drops one, records, recovers or stutters.
THEOREM LeaseRefinement == Spec => ImplementsLease
<1>1. Init => Lease!Init
  BY DEF Init, EmptySnapshot, Lease!Init, Lease!NoLease, NoSlot
<1>2. IInv /\ [Next]_vars => [Lease!Next]_<<assignedSlots, saved.slots>>
  <2> SUFFICES ASSUME IInv, [Next]_vars
               PROVE  Lease!Next \/ UNCHANGED <<assignedSlots, saved.slots>>
    OBVIOUS
  <2>1. ASSUME NEW s \in Share, ReserveShare(s), UNCHANGED saved
        PROVE  Lease!Next
    BY <2>1, AcquireStep DEF Lease!Next
  <2>2. ASSUME NEW s \in Share, UndoShare(s) \/ ReleaseShare(s), UNCHANGED saved
        PROVE  Lease!Next
    BY <2>2, DropStep DEF Lease!Next
  <2>3. CASE Save
    BY <2>3 DEF Save, psVars, tableVars, CurrentSnapshot, Lease!Next, Lease!Record
  <2>4. CASE Restart
    BY <2>4 DEF Restart, RecoverFromSlots, Lease!Next, Lease!Recover
  <2>5. CASE UNCHANGED <<assignedSlots, saved>>
    BY <2>5
  <2>6. \/ UNCHANGED <<assignedSlots, saved>>
        \/ Save \/ Restart
        \/ \E s \in Share : /\ ReserveShare(s) \/ UndoShare(s) \/ ReleaseShare(s)
                            /\ UNCHANGED saved
    BY DEF Next, LoopStep, Reserve, Release, BeginReserve, BeginRelease,
           ReserveConflict, ReserveDone, UndoDone, ReleaseDone, LoopEnds,
           tableVars, vars, psVars
  <2>7. QED
    BY <2>1, <2>2, <2>3, <2>4, <2>5, <2>6
<1>3. QED
  BY <1>1, <1>2, InvariantHolds, PTL DEF Spec, ImplementsLease, Lease!Spec

=============================================================================

--------------------------- MODULE PartitionState ---------------------------
(***************************************************************************)
(* The in-memory partition bookkeeping of the kubelet plugin               *)
(* (cmd/gpu-kubeletplugin/partition.go): which allocation share holds      *)
(* which partition slot of which GPU, how many shares every GPU and the    *)
(* node carry, and the compute and memory modes those shares lock.         *)
(*                                                                         *)
(* ReserveClaim and ReleaseClaim are loops over the shares of a claim.     *)
(* PartitionState.mu is dropped between two shares, so one iteration is    *)
(* one action and "op", "caller", "todo", "done" and "taintsChanged" are   *)
(* the loop's local variables.  DeviceState's own lock admits one caller   *)
(* at a time, hence one set of locals.                                     *)
(*                                                                         *)
(* The slow half, ApplyPartition, and the checkpoint file are in           *)
(* DeviceState, which extends this module.                                 *)
(***************************************************************************)
EXTENDS Integers, FiniteSets

CONSTANTS
    Gpu,            \* the partitionable GPUs of the node
    Claim,          \* claim UIDs
    Share,          \* share keys: claim UID / request / device / share ID
    ComputeMode,    \* spx, dpx, qpx, cpx
    MemoryMode,     \* nps1, nps2, nps4
    NoMode,         \* the empty mode string
    NoClaim,        \* no loop is running
    claimOf,        \* claim UID encoded in a share key
    gpuOf,          \* the three parts of the device name in a share key,
    computeOf,      \*   see parseSyntheticPartitionDeviceName
    memoryOf,
    partitions      \* compute partitions a GPU has in each compute mode

ASSUME ModesAssumption ==
    /\ NoMode \notin ComputeMode
    /\ NoMode \notin MemoryMode
    /\ NoClaim \notin Claim

ASSUME SharesAssumption ==
    /\ IsFiniteSet(Share)
    /\ claimOf \in [Share -> Claim]
    /\ gpuOf \in [Share -> Gpu]
    /\ computeOf \in [Share -> ComputeMode]
    /\ memoryOf \in [Share -> MemoryMode]

ASSUME PartitionsAssumption == partitions \in [ComputeMode -> Nat \ {0}]

VARIABLES
    activeMemoryMode,   \* mode the node is locked to, or NoMode
    gpuComputeModes,    \* mode each GPU is locked to, or NoMode
    gpuAllocCounts,     \* shares counted on each GPU
    totalAllocCount,    \* shares counted on the node
    assignedSlots,      \* slot each share holds, or NoSlot
    reservedClaims,     \* claims marked as holding a reservation
    op, caller, todo, done, taintsChanged,      \* the running loop
    saved               \* the last snapshot written for a checkpoint

modeVars == <<activeMemoryMode, gpuComputeModes>>
countVars == <<gpuAllocCounts, totalAllocCount>>
tableVars == <<modeVars, countVars, assignedSlots>>
loopVars == <<op, caller, todo, done, taintsChanged>>
psVars == <<tableVars, reservedClaims, loopVars>>
vars == <<psVars, saved>>

NoSlot == -1
Slot == 0 .. Cardinality(Share)
Ops == {"none", "reserve", "undo", "release"}

SharesOf(c) == {s \in Share : claimOf[s] = c}
Held == {s \in Share : assignedSlots[s] # NoSlot}
HeldOn(g) == {s \in Held : gpuOf[s] = g}
HeldBy(c) == {s \in Held : claimOf[s] = c}

Snapshot == [mode : MemoryMode \cup {NoMode},
             compute : [Gpu -> ComputeMode \cup {NoMode}],
             slots : [Share -> Slot \cup {NoSlot}]]

CurrentSnapshot == [mode |-> activeMemoryMode,
                    compute |-> gpuComputeModes,
                    slots |-> assignedSlots]

TypeOK ==
    /\ activeMemoryMode \in MemoryMode \cup {NoMode}
    /\ gpuComputeModes \in [Gpu -> ComputeMode \cup {NoMode}]
    /\ gpuAllocCounts \in [Gpu -> Nat]
    /\ totalAllocCount \in Nat
    /\ assignedSlots \in [Share -> Slot \cup {NoSlot}]
    /\ reservedClaims \subseteq Claim
    /\ op \in Ops
    /\ caller \in Claim \cup {NoClaim}
    /\ todo \subseteq Share
    /\ done \subseteq Share
    /\ taintsChanged \in BOOLEAN
    /\ saved \in Snapshot

EmptySnapshot == [mode |-> NoMode,
                  compute |-> [g \in Gpu |-> NoMode],
                  slots |-> [s \in Share |-> NoSlot]]

Init ==
    /\ activeMemoryMode = NoMode
    /\ gpuComputeModes = [g \in Gpu |-> NoMode]
    /\ gpuAllocCounts = [g \in Gpu |-> 0]
    /\ totalAllocCount = 0
    /\ assignedSlots = [s \in Share |-> NoSlot]
    /\ reservedClaims = {}
    /\ op = "none"
    /\ caller = NoClaim
    /\ todo = {}
    /\ done = {}
    /\ taintsChanged = FALSE
    /\ saved = EmptySnapshot

-----------------------------------------------------------------------------
(* Slots and modes. *)

\* Mutant: the slot is derived from the allocation count.
IsLowestFree_Count(g, n) == n = gpuAllocCounts[g]

\* Mutant: a freed slot below a held one is never given out again.
IsLowestFree_NoReuse(g, n) ==
    /\ \A s \in HeldOn(g) : assignedSlots[s] < n
    /\ n > 0 => \E s \in HeldOn(g) : assignedSlots[s] = n - 1

IsLowestFree(g, n) ==
    /\ \A s \in HeldOn(g) : assignedSlots[s] # n
    /\ \A m \in 0 .. (n - 1) : \E s \in HeldOn(g) : assignedSlots[s] = m

\* The slot assignSlotLocked returns: the one held, else the lowest free one.
IsSlotFor(s, n) ==
    IF assignedSlots[s] # NoSlot THEN n = assignedSlots[s]
                                 ELSE IsLowestFree(gpuOf[s], n)

ComputeCompatible(s) == gpuComputeModes[gpuOf[s]] \in {NoMode, computeOf[s]}
\* Mutant: only the compute mode is validated.
MemoryCompatible_Any(s) == activeMemoryMode \in MemoryMode \cup {NoMode}

MemoryCompatible(s) == activeMemoryMode \in {NoMode, memoryOf[s]}
Compatible(s) == ComputeCompatible(s) /\ MemoryCompatible(s)

\* The memory modes whose devices carry the NoExecute conflict taint.
TaintedModes ==
    IF activeMemoryMode = NoMode THEN {} ELSE MemoryMode \ {activeMemoryMode}

ReservePartition(s) ==
    LET g == gpuOf[s] IN
    /\ Compatible(s)
    /\ gpuComputeModes' = [gpuComputeModes EXCEPT ![g] = computeOf[s]]
    /\ activeMemoryMode' = memoryOf[s]
    /\ \E n \in Slot : /\ IsSlotFor(s, n)
                       /\ assignedSlots' = [assignedSlots EXCEPT ![s] = n]
    /\ gpuAllocCounts' = [gpuAllocCounts EXCEPT ![g] = @ + 1]
    /\ totalAllocCount' = totalAllocCount + 1

CountDown(n) == IF n > 0 THEN n - 1 ELSE 0

\* Mutant: the GPU's compute lock outlives its last share.
ReleasePartition_KeepsCompute(s) ==
    /\ assignedSlots' = [assignedSlots EXCEPT ![s] = NoSlot]
    /\ gpuAllocCounts' = [gpuAllocCounts EXCEPT ![gpuOf[s]] = CountDown(@)]
    /\ totalAllocCount' = CountDown(totalAllocCount)
    /\ activeMemoryMode' = IF totalAllocCount' = 0 THEN NoMode
                                                   ELSE activeMemoryMode
    /\ UNCHANGED gpuComputeModes

\* Mutant: the node's memory lock goes with the last share of one GPU.
ReleasePartition_GpuUnlocksNode(s) ==
    LET g == gpuOf[s] IN
    /\ assignedSlots' = [assignedSlots EXCEPT ![s] = NoSlot]
    /\ gpuAllocCounts' = [gpuAllocCounts EXCEPT ![g] = CountDown(@)]
    /\ totalAllocCount' = CountDown(totalAllocCount)
    /\ gpuComputeModes' = IF gpuAllocCounts'[g] = 0
                          THEN [gpuComputeModes EXCEPT ![g] = NoMode]
                          ELSE gpuComputeModes
    /\ activeMemoryMode' = IF gpuAllocCounts'[g] = 0 THEN NoMode
                                                     ELSE activeMemoryMode

\* Mutant: the slots above the freed one move down.
ReleasePartition_Shifts(s) ==
    LET g == gpuOf[s] IN
    /\ assignedSlots' =
           [t \in Share |->
               IF t = s THEN NoSlot
               ELSE IF gpuOf[t] = g /\ assignedSlots[t] > assignedSlots[s]
                    THEN assignedSlots[t] - 1 ELSE assignedSlots[t]]
    /\ gpuAllocCounts' = [gpuAllocCounts EXCEPT ![g] = CountDown(@)]
    /\ totalAllocCount' = CountDown(totalAllocCount)
    /\ gpuComputeModes' = IF gpuAllocCounts'[g] = 0
                          THEN [gpuComputeModes EXCEPT ![g] = NoMode]
                          ELSE gpuComputeModes
    /\ activeMemoryMode' = IF totalAllocCount' = 0 THEN NoMode
                                                   ELSE activeMemoryMode

ReleasePartition(s) ==
    LET g == gpuOf[s] IN
    /\ assignedSlots' = [assignedSlots EXCEPT ![s] = NoSlot]
    /\ gpuAllocCounts' = [gpuAllocCounts EXCEPT ![g] = CountDown(@)]
    /\ totalAllocCount' = CountDown(totalAllocCount)
    /\ gpuComputeModes' = IF gpuAllocCounts'[g] = 0
                          THEN [gpuComputeModes EXCEPT ![g] = NoMode]
                          ELSE gpuComputeModes
    /\ activeMemoryMode' = IF totalAllocCount' = 0 THEN NoMode
                                                   ELSE activeMemoryMode

-----------------------------------------------------------------------------
(* ReserveClaim: every share of the claim or none of them. *)

HasReservation(c) == c \in reservedClaims

BeginReserve(c, shares) ==
    /\ op = "none"
    /\ ~HasReservation(c)
    /\ op' = "reserve"
    /\ caller' = c
    /\ todo' = shares
    /\ done' = {}
    /\ taintsChanged' = FALSE
    /\ UNCHANGED <<tableVars, reservedClaims>>

ReserveShare(s) ==
    /\ op = "reserve"
    /\ s \in todo
    /\ ReservePartition(s)
    /\ taintsChanged' = (taintsChanged \/ activeMemoryMode = NoMode)
    /\ todo' = todo \ {s}
    /\ done' = done \cup {s}
    /\ UNCHANGED <<op, caller, reservedClaims>>

\* Mutant: a conflict leaves the shares reserved so far in place.
ReserveConflict_NoUndo(s) ==
    /\ op = "reserve"
    /\ s \in todo
    /\ ~Compatible(s)
    /\ op' = "undo"
    /\ todo' = {}
    /\ done' = {}
    /\ taintsChanged' = FALSE
    /\ UNCHANGED <<tableVars, reservedClaims, caller>>

\* A share that conflicts: what this call reserved so far is to be undone.
ReserveConflict(s) ==
    /\ op = "reserve"
    /\ s \in todo
    /\ ~Compatible(s)
    /\ op' = "undo"
    /\ todo' = done
    /\ done' = {}
    /\ taintsChanged' = FALSE
    /\ UNCHANGED <<tableVars, reservedClaims, caller>>

LoopEnds ==
    /\ todo = {}
    /\ op' = "none"
    /\ caller' = NoClaim
    /\ done' = {}
    /\ taintsChanged' = FALSE
    /\ UNCHANGED <<tableVars, todo>>

\* Mutant: the claim is marked after the call's locals are cleared.
ReserveDone_MarkedLate ==
    /\ op = "reserve"
    /\ LoopEnds
    /\ reservedClaims' = reservedClaims \cup {caller'}

ReserveDone ==
    /\ op = "reserve"
    /\ LoopEnds
    /\ reservedClaims' = reservedClaims \cup {caller}

UndoShare(s) ==
    /\ op = "undo"
    /\ s \in todo
    /\ ReleasePartition(s)
    /\ todo' = todo \ {s}
    /\ UNCHANGED <<op, caller, done, taintsChanged, reservedClaims>>

UndoDone ==
    /\ op = "undo"
    /\ LoopEnds
    /\ UNCHANGED reservedClaims

(* ReleaseClaim: every share of a reserved claim, once. *)

BeginRelease(c, shares) ==
    /\ op = "none"
    /\ HasReservation(c)
    /\ op' = "release"
    /\ caller' = c
    /\ todo' = shares
    /\ done' = {}
    /\ taintsChanged' = FALSE
    /\ UNCHANGED <<tableVars, reservedClaims>>

ReleaseShare(s) ==
    /\ op = "release"
    /\ s \in todo
    /\ ReleasePartition(s)
    /\ taintsChanged' = (taintsChanged \/ totalAllocCount' = 0)
    /\ todo' = todo \ {s}
    /\ done' = done \cup {s}
    /\ UNCHANGED <<op, caller, reservedClaims>>

\* Mutant: the reservation marker survives the release.
ReleaseDone_KeepsMarker ==
    /\ op = "release"
    /\ LoopEnds
    /\ UNCHANGED reservedClaims

ReleaseDone ==
    /\ op = "release"
    /\ LoopEnds
    /\ reservedClaims' = reservedClaims \ {caller}

-----------------------------------------------------------------------------
(* What a restart rebuilds from a snapshot: counts and reservations come   *)
(* from the slots.  The restart also ends any loop that was running.       *)

Assigned(slots) == {s \in Share : slots[s] # NoSlot}

\* Mutant: the slots are read back, the counts are not rebuilt.
RecoverFromSlots_NoCounts(snap) ==
    /\ activeMemoryMode' = snap.mode
    /\ gpuComputeModes' = snap.compute
    /\ assignedSlots' = snap.slots
    /\ gpuAllocCounts' = [g \in Gpu |-> 0]
    /\ totalAllocCount' = 0
    /\ reservedClaims' = {claimOf[s] : s \in Assigned(snap.slots)}

RecoverFromSlots(snap) ==
    LET held == Assigned(snap.slots) IN
    /\ activeMemoryMode' = snap.mode
    /\ gpuComputeModes' = snap.compute
    /\ assignedSlots' = snap.slots
    /\ gpuAllocCounts' =
           [g \in Gpu |-> Cardinality({s \in held : gpuOf[s] = g})]
    /\ totalAllocCount' = Cardinality(held)
    /\ reservedClaims' = {claimOf[s] : s \in held}

LoopReset ==
    /\ op' = "none"
    /\ caller' = NoClaim
    /\ todo' = {}
    /\ done' = {}
    /\ taintsChanged' = FALSE

-----------------------------------------------------------------------------
(* The component on its own: claims are reserved with any non-empty set of *)
(* their shares that the scheduler can place, released with the shares     *)
(* they hold, saved between two operations, and recovered at any moment.   *)

\* The scheduler places a share only on a GPU with a free partition.
Fits(shares) ==
    \A s \in shares :
        Cardinality(HeldOn(gpuOf[s]) \cup {t \in shares : gpuOf[t] = gpuOf[s]})
            <= partitions[computeOf[s]]

Reserve(c) == \E shares \in SUBSET SharesOf(c) :
                  /\ shares # {}
                  /\ Fits(shares)
                  /\ BeginReserve(c, shares)

Release(c) == BeginRelease(c, HeldBy(c))

Save == /\ op = "none"
        /\ saved' = CurrentSnapshot
        /\ UNCHANGED psVars

Restart == /\ RecoverFromSlots(saved)
           /\ LoopReset
           /\ UNCHANGED saved

LoopStep ==
    \/ \E s \in Share : \/ ReserveShare(s)
                        \/ ReserveConflict(s)
                        \/ UndoShare(s)
                        \/ ReleaseShare(s)
    \/ ReserveDone
    \/ UndoDone
    \/ ReleaseDone

Next ==
    \/ /\ \/ \E c \in Claim : Reserve(c) \/ Release(c)
          \/ LoopStep
       /\ UNCHANGED saved
    \/ Save
    \/ Restart

Spec == Init /\ [][Next]_vars

-----------------------------------------------------------------------------
(* Properties. *)

\* No two shares ever hold the same partition slot of the same GPU, however
\* reservations, releases, conflicts and restarts interleave: a slot freed out
\* of order is reused without disturbing the others (assignSlotLocked).
SlotsExclusive ==
    \A s, t \in Held :
        s # t /\ gpuOf[s] = gpuOf[t] => assignedSlots[s] # assignedSlots[t]

\* Every slot indexes a partition that the share's own compute mode gives the
\* GPU: lowest-free assignment never climbs past the partition count, so
\* discoverPartitionDeviceNodes never meets "slot exceeds available partitions".
SlotWithinPartitions ==
    \A s \in Held : assignedSlots[s] < partitions[computeOf[s]]

\* The counters agree with the slot table in every state, in the middle of a
\* loop and after a restart included: neither a conflict's undo nor a repeated
\* release drifts them.
CountsExact ==
    /\ \A g \in Gpu : gpuAllocCounts[g] = Cardinality(HeldOn(g))
    /\ totalAllocCount = Cardinality(Held)

\* The node and GPU locks are exactly those of the shares that hold slots: all
\* of them agree with the locked modes, and a lock is gone as soon as its last
\* share is.
LocksMatchHolders ==
    /\ \A s \in Held : /\ activeMemoryMode = memoryOf[s]
                       /\ gpuComputeModes[gpuOf[s]] = computeOf[s]
    /\ Held = {} => activeMemoryMode = NoMode
    /\ \A g \in Gpu : HeldOn(g) = {} => gpuComputeModes[g] = NoMode

\* ReserveClaim is all or nothing: between two operations the claims marked as
\* reserved are exactly the claims that hold slots.
ReservationsWhole ==
    op = "none" => reservedClaims = {claimOf[s] : s \in Held}

\* Short of a restart, a share keeps the slot it was given until it is released.
SlotsNeverMove ==
    [][~Restart => \A s \in Held : assignedSlots'[s] \in {assignedSlots[s], NoSlot}]_vars

Lease == INSTANCE PartitionLease
             WITH lease <- assignedSlots, durable <- saved.slots

\* The bookkeeping implements the lease promise.
ImplementsLease == Lease!Spec

=============================================================================

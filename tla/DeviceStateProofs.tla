-------------------------- MODULE DeviceStateProofs --------------------------
(***************************************************************************)
(* Proofs about DeviceState for every set of GPUs, claims and shares and   *)
(* for both ways of reloading the driver: types, the control structure of  *)
(* a call, the bookkeeping of PartitionState under its real callers, and   *)
(* the taints that are published.                                          *)
(*                                                                         *)
(* The scheduler's promise Fits of PartitionState is not assumed here: a   *)
(* claim reserves all of its results, whatever else holds slots.           *)
(***************************************************************************)
EXTENDS DeviceState, PartitionStateProofs

SettingStages == {"apply", "trigger", "provision", "pending", "compute"}
ServingStages == {"devices", "cdi", "commit", "reply"}
PrepareStages == {"reserve", "publish", "rollback"} \cup SettingStages \cup ServingStages
UnprepareStages == {"unreserve", "uncommit", "unprepare", "unspec", "unwrite", "republish"}
ReleaseStages == {"rollback", "unreserve", "unprepare"}
RecordedStages == {"reply", "unprepare", "unspec", "unwrite"}

\* Where the call stands, what loop it runs and which GPUs it still has to set.
Control ==
    /\ stage = "idle" <=> rpcClaim = NoClaim
    /\ stage = "reserve" <=> op \in {"reserve", "undo"}
    /\ stage \in ReleaseStages <=> op = "release"
    /\ op # "none" => caller = rpcClaim
    /\ op = "none" => todo = {}
    /\ stage \in {"reserve", "publish"} \cup SettingStages =>
           applyTodo \subseteq GpusOf(rpcClaim)
    /\ stage \in SettingStages \ {"apply"} => applyTodo # {}
    /\ stage \in ServingStages => GpusOf(rpcClaim) # {}

\* What the call knows of its claim: whether it holds a reservation and is
\* recorded as prepared, and what the kubelet wants of it.
CallerKnows ==
    /\ stage \in {"publish"} \cup SettingStages \cup ServingStages => rpcClaim \in reservedClaims
    /\ stage \in {"uncommit", "unspec", "unwrite", "republish"} => rpcClaim \notin reservedClaims
    /\ stage \in RecordedStages <=> rpcClaim \in preparedClaims
    /\ stage \in PrepareStages => pod[rpcClaim] \in {"pending", "running"}
    /\ stage \in UnprepareStages => pod[rpcClaim] = "terminating"
    /\ \A c \in preparedClaims : pod[c] # "none" /\ GpusOf(c) # {}
    /\ "delete" \notin Faults => \A c \in Claim : pod[c] # "terminating"

ControlInv == DeviceTypeOK /\ Control /\ CallerKnows

-----------------------------------------------------------------------------
(* Types. *)

LEMMA ResultsType ==
    ASSUME NEW c \in Claim
    PROVE  /\ Results(c) \subseteq SharesOf(c) /\ SharesOf(c) \subseteq Share
           /\ GpusOf(c) \subseteq Gpu
BY SharesAssumption DEF Results, SharesOf, GpusOf

\* The modes a claim asks for are modes.
LEMMA WantedTypes ==
    ASSUME NEW c \in Claim
    PROVE  /\ GpusOf(c) # {} => MemoryWanted(c) \in MemoryMode
           /\ \A g \in GpusOf(c) : ComputeWanted(c, g) \in ComputeMode
<1>1. ASSUME NEW s \in Results(c) PROVE MemoryWanted(c) \in MemoryMode
  <2>1. s \in Share /\ memoryOf[s] \in MemoryMode
    BY <1>1, ResultsType, SharesAssumption
  <2>2. \E m \in MemoryMode : \E t \in Results(c) : m = memoryOf[t]
    BY <1>1, <2>1
  <2>3. QED
    BY <2>2 DEF MemoryWanted
<1>2. ASSUME NEW s \in Results(c) PROVE ComputeWanted(c, gpuOf[s]) \in ComputeMode
  <2>1. s \in Share /\ computeOf[s] \in ComputeMode
    BY <1>2, ResultsType, SharesAssumption
  <2>2. \E m \in ComputeMode : \E t \in Results(c) : gpuOf[t] = gpuOf[s] /\ m = computeOf[t]
    BY <1>2, <2>1
  <2>3. QED
    BY <2>2 DEF ComputeWanted
<1>3. QED
  BY <1>1, <1>2 DEF GpusOf

\* What a step does to the bookkeeping: nothing, one step of a loop, or the
\* start of one over the shares of a claim.
LoopStarts ==
    \E c \in Claim : \/ BeginReserve(c, Results(c))
                     \/ BeginRelease(c, Results(c))
                     \/ BeginRelease(c, HeldBy(c))

BookStep == UNCHANGED psVars \/ LoopStep \/ LoopStarts

LEMMA BookTypes ==
    ASSUME TypeOK, op # "none" => caller \in Claim, BookStep, saved' \in Snapshot
    PROVE  TypeOK'
<1> USE DEF TypeOK
<1>1. CASE UNCHANGED psVars
  BY <1>1 DEF psVars, tableVars, modeVars, countVars, loopVars
<1>2. ASSUME NEW c \in Claim, NEW S \in SUBSET Share, BeginReserve(c, S) \/ BeginRelease(c, S)
      PROVE  TypeOK'
  BY <1>2 DEF BeginReserve, BeginRelease, tableVars, modeVars, countVars, Ops
<1>3. CASE LoopStarts
  <2>1. \A c \in Claim : Results(c) \in SUBSET Share /\ HeldBy(c) \in SUBSET Share
    BY ResultsType DEF HeldBy, Held
  <2>2. QED
    BY <1>2, <1>3, <2>1 DEF LoopStarts
<1>4. ASSUME NEW s \in Share, ReservePartition(s) \/ ReleasePartition(s)
      PROVE  /\ activeMemoryMode' \in MemoryMode \cup {NoMode}
             /\ gpuComputeModes' \in [Gpu -> ComputeMode \cup {NoMode}]
             /\ gpuAllocCounts' \in [Gpu -> Nat]
             /\ totalAllocCount' \in Nat
             /\ assignedSlots' \in [Share -> Slot \cup {NoSlot}]
  <2>1. gpuOf[s] \in Gpu /\ computeOf[s] \in ComputeMode /\ memoryOf[s] \in MemoryMode
    BY SharesAssumption
  <2>2. \A n \in Nat : CountDown(n) \in Nat
    BY DEF CountDown
  <2>3. CASE ReservePartition(s)
    BY <2>1, <2>3 DEF ReservePartition
  <2>4. CASE ReleasePartition(s)
    BY <2>1, <2>2, <2>4 DEF ReleasePartition
  <2>5. QED
    BY <1>4, <2>3, <2>4
<1>5. ASSUME NEW s \in Share, ReserveShare(s) \/ UndoShare(s) \/ ReleaseShare(s)
      PROVE  TypeOK'
  BY <1>4, <1>5 DEF ReserveShare, UndoShare, ReleaseShare
<1>6. ASSUME NEW s \in Share, ReserveConflict(s) PROVE TypeOK'
  BY <1>6 DEF ReserveConflict, tableVars, modeVars, countVars, Ops
<1>7. CASE ReserveDone \/ UndoDone \/ ReleaseDone
  BY <1>7 DEF ReserveDone, UndoDone, ReleaseDone, LoopEnds, tableVars, modeVars,
              countVars, Ops
<1>8. QED
  BY <1>1, <1>3, <1>5, <1>6, <1>7 DEF BookStep, LoopStep

\* Every step but a restart takes the bookkeeping through one of its own steps.
LEMMA StepsBook ==
    ASSUME ControlInv, DeviceNext, ~Crash
    PROVE  BookStep
<1> USE DEF BookStep, LoopStep, LoopStarts
<1>1. ASSUME NEW c \in Claim, Kubelet(c) PROVE BookStep
  BY <1>1 DEF Kubelet, PrepareCached, PrepareStart, UnprepareUnknown, UnprepareStart, memVars
<1>2. ASSUME NEW c \in Claim, PodArrives(c) \/ PodDeleted(c) \/ ClaimReused(c)
      PROVE  BookStep
  BY <1>2 DEF PodArrives, PodDeleted, ClaimReused, memVars
<1>3. CASE ReloadCompletes \/ DeadlinePasses \/ Shutdown
  BY <1>3 DEF ReloadCompletes, DeadlinePasses, Shutdown, memVars
<1>4. ASSUME BeginRollback, stage # "idle" PROVE LoopStarts
  BY <1>4 DEF BeginRollback, ControlInv, DeviceTypeOK, Control
<1>5. CASE ReserveStep \/ RollbackStep \/ UnreserveStep \/ UnprepareRelease
  BY <1>5 DEF ReserveStep, RollbackStep, UnreserveStep, UnprepareRelease
<1>6. CASE PublishTaints \/ PollReload \/ StageMemory \/ UnloadDriver \/ ProvisionDriver
  BY <1>4, <1>6 DEF PublishTaints, PollReload, StageMemory, UnloadDriver, ProvisionDriver
<1>7. CASE SetCompute \/ PrepareDevices \/ CreateClaimSpecFile \/ CommitPrepare
  BY <1>4, <1>7 DEF SetCompute, PrepareDevices, CreateClaimSpecFile, CommitPrepare
<1>8. CASE ReloadPending \/ ReplyPrepared \/ UnreserveCommit \/ DeleteClaimSpecFile
  BY <1>8 DEF ReloadPending, ReplyPrepared, UnreserveCommit, DeleteClaimSpecFile, memVars
<1>9. CASE CommitUnprepare \/ UnprepareRepublish \/ StartupWire \/ StartupBuild \/ StartupPublish
  BY <1>9 DEF CommitUnprepare, UnprepareRepublish, StartupWire, StartupBuild, StartupPublish,
              memVars
<1>10. QED
  BY <1>1, <1>2, <1>3, <1>5, <1>6, <1>7, <1>8, <1>9 DEF DeviceNext, Running

\* A restart rebuilds a bookkeeping of the right types, from either form of the
\* checkpoint.
LEMMA CrashTypes ==
    ASSUME DeviceTypeOK, Crash
    PROVE  DeviceTypeOK'
<1> USE DEF DeviceTypeOK, Crash, RecoverFromCheckpoint, LoopReset, Return
<1> DEFINE keys == {positionalOf[s] : s \in UNION {Results(c) : c \in preparedClaims}}
           on(g) == {k \in keys : gpuOf[k] = g}
           before(k) == {j \in on(gpuOf[k]) : keyOrder[j] < keyOrder[k]}
<1>1. saved \in Snapshot /\ UNCHANGED saved
  BY DEF TypeOK, diskVars
<1>2. CASE RecoverFromSlots(saved)
  <2>1. /\ \A g \in Gpu : Cardinality({s \in Assigned(saved.slots) : gpuOf[s] = g}) \in Nat
        /\ Cardinality(Assigned(saved.slots)) \in Nat
        /\ {claimOf[s] : s \in Assigned(saved.slots)} \subseteq Claim
    BY SharesFinite, SharesAssumption DEF Assigned
  <2>2. TypeOK'
    BY <1>1, <1>2, <2>1 DEF TypeOK, RecoverFromSlots, Snapshot, Ops
  <2>3. QED
    BY <2>2 DEF StartupSteps, Stages, diskVars, hwVars
<1>3. CASE RecoverFromPrepared
  <2>1. keys \in SUBSET Share
    BY ResultsType, DeviceAssumption
  <2>2. \A S \in SUBSET Share : Cardinality(S) \in Nat /\ Cardinality(S) \in Slot
    <3> SUFFICES ASSUME NEW S \in SUBSET Share
                 PROVE  Cardinality(S) \in Nat /\ Cardinality(S) \in Slot
      OBVIOUS
    <3>1. Cardinality(S) \in Nat /\ Cardinality(Share) \in Nat
      BY SharesFinite
    <3>2. Cardinality(S) <= Cardinality(Share)
      BY SharesAssumption, FS_Subset
    <3>3. QED
      BY <3>1, <3>2 DEF Slot
  <2>3. \A g \in Gpu : on(g) \in SUBSET Share
    BY <2>1
  <2>4. \A k \in keys : Cardinality(before(k)) \in Slot
    BY <2>1, <2>2
  <2>5. assignedSlots' = [k \in Share |-> IF k \in keys THEN Cardinality(before(k)) ELSE NoSlot]
    BY <1>3 DEF RecoverFromPrepared
  <2>6. {claimOf[k] : k \in keys} \subseteq Claim
    BY <2>1, SharesAssumption
  <2>7. /\ assignedSlots' \in [Share -> Slot \cup {NoSlot}]
        /\ gpuAllocCounts' \in [Gpu -> Nat]
        /\ totalAllocCount' \in Nat
        /\ reservedClaims' \subseteq Claim
    BY <1>3, <2>1, <2>2, <2>3, <2>4, <2>5, <2>6 DEF RecoverFromPrepared
  <2>8. TypeOK'
    BY <1>1, <1>3, <2>7 DEF TypeOK, RecoverFromPrepared, Snapshot, Ops
  <2>9. QED
    BY <2>8 DEF StartupSteps, Stages, diskVars, hwVars
<1>4. QED
  BY <1>2, <1>3

RestTypes ==
    /\ memoryReload \in Marker /\ savedReload \in Marker
    /\ stage \in Stages /\ rpcClaim \in Claim \cup {NoClaim}
    /\ applyTodo \subseteq Gpu /\ republish \in BOOLEAN
    /\ startup \in StartupSteps /\ snapshot \subseteq MemoryMode /\ smi \in BOOLEAN
    /\ preparedClaims \subseteq Claim
    /\ preparedSlots \in [Share -> Slot \cup {NoSlot}]
    /\ driver \in {"loaded", "unloaded", "reloading"}
    /\ hwMemory \in [Gpu -> MemoryMode] /\ stagedMemory \in [Gpu -> MemoryMode]
    /\ hwCompute \in [Gpu -> ComputeMode]
    /\ published \subseteq MemoryMode
    /\ cdiSpecs \subseteq Claim
    /\ pod \in [Claim -> PodStates]

LEMMA TypeParts == DeviceTypeOK <=> TypeOK /\ RestTypes
BY DEF DeviceTypeOK, RestTypes

\* The other variables keep their types, and only a current snapshot is saved.
LEMMA StepTypes ==
    ASSUME ControlInv, DeviceNext, ~Crash
    PROVE  RestTypes' /\ saved' \in {saved, CurrentSnapshot}
<1> DEFINE Goal == RestTypes' /\ saved' \in {saved, CurrentSnapshot}
<1>1. RestTypes /\ TypeOK /\ Control
  BY TypeParts DEF ControlInv
<1>2. /\ TaintedModes \subseteq MemoryMode
      /\ assignedSlots \in [Share -> Slot \cup {NoSlot}]
      /\ taintsChanged \in BOOLEAN
      /\ \A c \in Claim : GpusOf(c) \subseteq Gpu
  BY <1>1, ResultsType DEF TaintedModes, TypeOK
<1> USE <1>1, <1>2 DEF RestTypes, Stages, PodStates, StartupSteps, GoTo, Return, RepublishIf, 
       mainVars, memVars, rpcVars, diskVars, hwVars
<1>3. ASSUME NEW c \in Claim, Kubelet(c) PROVE Goal
  BY <1>3 DEF Kubelet, PrepareCached, PrepareStart, UnprepareUnknown, UnprepareStart
<1>4. ASSUME NEW c \in Claim, PodArrives(c) \/ PodDeleted(c) \/ ClaimReused(c)
      PROVE  Goal
  BY <1>4 DEF PodArrives, PodDeleted, ClaimReused
<1>5. CASE ReloadCompletes \/ Shutdown
  BY <1>5, DeviceAssumption DEF ReloadCompletes, Shutdown, LoadDriver
<1>6. CASE DeadlinePasses
  <2>1. \A r \in Marker : Late(r) \in Marker
    BY DEF Late, Marker, NoReload
  <2>2. QED
    BY <1>6, <2>1 DEF DeadlinePasses
<1>7. CASE ReserveStep
  BY <1>7 DEF ReserveStep
<1>8. CASE PublishTaints
  BY <1>8 DEF PublishTaints, BeginRollback
<1>9. CASE RollbackStep
  BY <1>9 DEF RollbackStep
<1>10. CASE PollReload
  BY <1>10 DEF PollReload, BeginRollback, Marker
<1>11. CASE StageMemory
  <2>1. MemoryWanted(rpcClaim) \in MemoryMode
    BY <1>11, WantedTypes, ModesAssumption DEF StageMemory, Control, SettingStages
  <2>2. \A S : [g \in Gpu |-> IF g \in S THEN MemoryWanted(rpcClaim) ELSE stagedMemory[g]]
                 \in [Gpu -> MemoryMode]
    BY <2>1
  <2>3. stagedMemory' \in [Gpu -> MemoryMode]
    BY <1>11, <2>2 DEF StageMemory
  <2>4. QED
    BY <1>11, <2>3 DEF StageMemory, BeginRollback
<1>12. CASE UnloadDriver
  BY <1>12 DEF UnloadDriver, BeginRollback
<1>13. CASE ProvisionDriver
  <2>1. MemoryWanted(rpcClaim) \in MemoryMode
    BY <1>13, WantedTypes DEF ProvisionDriver, Control, SettingStages
  <2>2. [mode |-> MemoryWanted(rpcClaim), late |-> FALSE] \in Marker
    BY <2>1 DEF Marker
  <2>3. /\ driver' \in {"loaded", "unloaded", "reloading"}
        /\ hwMemory' \in [Gpu -> MemoryMode] /\ hwCompute' \in [Gpu -> ComputeMode]
    BY <1>13, DeviceAssumption DEF ProvisionDriver, LoadDriver
  <2>4. QED
    BY <1>13, <2>2, <2>3 DEF ProvisionDriver, BeginRollback
<1>14. CASE ReloadPending
  BY <1>14 DEF ReloadPending, WriteCheckpoint
<1>15. CASE SetCompute
  <2>1. \A g \in applyTodo : ComputeWanted(rpcClaim, g) \in ComputeMode
    BY <1>15, WantedTypes DEF SetCompute, Control, SettingStages
  <2>2. QED
    BY <1>15, <2>1 DEF SetCompute, BeginRollback
<1>16. CASE PrepareDevices
  BY <1>16 DEF PrepareDevices, BeginRollback
<1>17. CASE CreateClaimSpecFile
  BY <1>17 DEF CreateClaimSpecFile, BeginRollback, Control
<1>18. CASE CommitPrepare
  BY <1>18 DEF CommitPrepare, WriteCheckpoint, BeginRollback, Control
<1>19. CASE ReplyPrepared
  BY <1>19 DEF ReplyPrepared
<1>20. CASE UnreserveStep
  BY <1>20 DEF UnreserveStep
<1>21. CASE UnreserveCommit
  BY <1>21 DEF UnreserveCommit, WriteCheckpoint
<1>22. CASE UnprepareRelease
  BY <1>22 DEF UnprepareRelease
<1>23. CASE DeleteClaimSpecFile
  BY <1>23 DEF DeleteClaimSpecFile
<1>24. CASE CommitUnprepare
  BY <1>24 DEF CommitUnprepare, WriteCheckpoint
<1>25. CASE UnprepareRepublish
  BY <1>25 DEF UnprepareRepublish
<1>26. CASE StartupWire \/ StartupBuild \/ StartupPublish
  BY <1>26 DEF StartupWire, StartupBuild, StartupPublish
<1>27. QED
  BY <1>3, <1>4, <1>5, <1>6, <1>7, <1>8, <1>9, <1>10, <1>11, <1>12, <1>13, <1>14, <1>15,
     <1>16, <1>17, <1>18, <1>19, <1>20, <1>21, <1>22, <1>23, <1>24, <1>25, <1>26
     DEF DeviceNext, Running

-----------------------------------------------------------------------------
(* Control. *)

LEMMA ControlStep ==
    ASSUME ControlInv, DeviceNext
    PROVE  Control' /\ CallerKnows'
<1> DEFINE Goal == Control' /\ CallerKnows'
<1>1. RestTypes /\ op \in Ops
  BY TypeParts DEF ControlInv, TypeOK
<1>2. \A c \in Claim : GpusOf(c) \subseteq Gpu
  BY ResultsType
<1>3. NoClaim \notin Claim
  BY ModesAssumption
<1> USE <1>1, <1>2, <1>3 DEF ControlInv, Ops, Control, CallerKnows, RestTypes, Stages, PodStates,
       GoTo, Return, HasReservation, SettingStages, ServingStages, PrepareStages,
       UnprepareStages, ReleaseStages, RecordedStages, BeginRollback, BeginReserve,
       BeginRelease, LoopEnds, mainVars, memVars, rpcVars, diskVars, hwVars, psVars, loopVars
<1>4. ASSUME NEW c \in Claim, PrepareCached(c) PROVE Goal
  BY <1>4 DEF PrepareCached
<1>5. ASSUME NEW c \in Claim, PrepareStart(c) PROVE Goal
  <2>1. Control'
    BY <1>5 DEF PrepareStart
  <2>2. CallerKnows'
    BY <1>5 DEF PrepareStart
  <2>3. QED
    BY <2>1, <2>2
<1>6. ASSUME NEW c \in Claim, UnprepareUnknown(c) PROVE Goal
  BY <1>6 DEF UnprepareUnknown
<1>7. ASSUME NEW c \in Claim, UnprepareStart(c) PROVE Goal
  <2>1. Control'
    BY <1>7 DEF UnprepareStart
  <2>2. CallerKnows'
    BY <1>7 DEF UnprepareStart
  <2>3. QED
    BY <2>1, <2>2
<1>8. ASSUME NEW c \in Claim, PodArrives(c) PROVE Goal
  BY <1>8 DEF PodArrives
<1>9. ASSUME NEW c \in Claim, PodDeleted(c) \/ ClaimReused(c) PROVE Goal
  BY <1>9 DEF PodDeleted, ClaimReused, May
<1>10. CASE ReloadCompletes \/ DeadlinePasses \/ Shutdown
  BY <1>10 DEF ReloadCompletes, DeadlinePasses, Shutdown
<1>11. CASE Crash
  BY <1>11 DEF Crash, LoopReset
<1>12. CASE ReserveStep
  <2>1. Control'
    BY <1>12 DEF ReserveStep, ReserveShare, ReserveConflict, UndoShare, ReserveDone, UndoDone
  <2>2. CallerKnows'
    BY <1>12 DEF ReserveStep, ReserveShare, ReserveConflict, UndoShare, ReserveDone, UndoDone
  <2>3. QED
    BY <2>1, <2>2
<1>13. CASE PublishTaints
  <2>1. Control'
    BY <1>13 DEF PublishTaints
  <2>2. CallerKnows'
    BY <1>13 DEF PublishTaints
  <2>3. QED
    BY <2>1, <2>2
<1>14. CASE RollbackStep
  BY <1>14 DEF RollbackStep, ReleaseShare, ReleaseDone
<1>15. CASE PollReload
  BY <1>15 DEF PollReload
<1>16. CASE StageMemory
  BY <1>16 DEF StageMemory
<1>17. CASE UnloadDriver
  BY <1>17 DEF UnloadDriver
<1>18. CASE ProvisionDriver
  BY <1>18 DEF ProvisionDriver
<1>19. CASE ReloadPending
  <2>1. Control'
    BY <1>19 DEF ReloadPending
  <2>2. CallerKnows'
    BY <1>19 DEF ReloadPending
  <2>3. QED
    BY <2>1, <2>2
<1>20. CASE SetCompute
  BY <1>20 DEF SetCompute
<1>21. CASE PrepareDevices
  BY <1>21 DEF PrepareDevices
<1>22. CASE CreateClaimSpecFile
  BY <1>22 DEF CreateClaimSpecFile
<1>23. CASE CommitPrepare
  BY <1>23 DEF CommitPrepare
<1>24. CASE ReplyPrepared
  <2>1. Control'
    BY <1>24 DEF ReplyPrepared
  <2>2. CallerKnows'
    BY <1>24 DEF ReplyPrepared
  <2>3. QED
    BY <2>1, <2>2
<1>25. CASE UnreserveStep
  BY <1>25 DEF UnreserveStep, ReleaseShare, ReleaseDone
<1>26. CASE UnreserveCommit
  <2>1. Control'
    BY <1>26 DEF UnreserveCommit
  <2>2. CallerKnows'
    BY <1>26 DEF UnreserveCommit
  <2>3. QED
    BY <2>1, <2>2
<1>27. CASE UnprepareRelease
  BY <1>27 DEF UnprepareRelease, ReleaseShare, ReleaseDone
<1>28. CASE DeleteClaimSpecFile
  <2>1. Control'
    BY <1>28 DEF DeleteClaimSpecFile
  <2>2. CallerKnows'
    BY <1>28 DEF DeleteClaimSpecFile
  <2>3. QED
    BY <2>1, <2>2
<1>29. CASE CommitUnprepare
  <2>1. Control'
    BY <1>29 DEF CommitUnprepare
  <2>2. CallerKnows'
    BY <1>29 DEF CommitUnprepare
  <2>3. QED
    BY <2>1, <2>2
<1>30. CASE UnprepareRepublish
  <2>1. Control'
    BY <1>30 DEF UnprepareRepublish
  <2>2. CallerKnows'
    BY <1>30 DEF UnprepareRepublish
  <2>3. QED
    BY <2>1, <2>2
<1>31. CASE StartupWire \/ StartupBuild \/ StartupPublish
  BY <1>31 DEF StartupWire, StartupBuild, StartupPublish
<1>32. QED
  BY <1>4, <1>5, <1>6, <1>7, <1>8, <1>9, <1>10, <1>11, <1>12, <1>13, <1>14, <1>15,
     <1>16, <1>17, <1>18, <1>19, <1>20, <1>21, <1>22, <1>23, <1>24, <1>25, <1>26,
     <1>27, <1>28, <1>29, <1>30, <1>31
     DEF DeviceNext, Running, Kubelet

-----------------------------------------------------------------------------
(* The bookkeeping. *)

\* Between two loops a claim holds all of its results or nothing.
Whole(c) == HeldBy(c) = IF c \in reservedClaims THEN Results(c) ELSE {}

\* The tables are coherent, every claim but the one a loop works on is whole,
\* and the loop knows what is left to do.
Bookkeeping ==
    /\ CoreInv
    /\ \A c \in Claim : op = "none" \/ c # caller => Whole(c)
    /\ op = "reserve" => /\ caller \notin reservedClaims
                         /\ done = HeldBy(caller)
                         /\ todo = Results(caller) \ done
                         /\ done \subseteq Results(caller)
    /\ op = "undo" => caller \notin reservedClaims /\ todo = HeldBy(caller)
    /\ op = "release" => caller \in reservedClaims /\ todo = HeldBy(caller)

LEMMA BookkeepingStep ==
    ASSUME TypeOK, Bookkeeping, op # "none" => caller \in Claim, BookStep
    PROVE  Bookkeeping'
<1>1. \A c \in Claim : Results(c) \subseteq SharesOf(c)
  BY ResultsType
<1>2. ASSUME UNCHANGED tableVars
      PROVE  CoreInv' /\ \A d \in Claim : HeldBy(d)' = HeldBy(d)
  BY <1>2, CoreUnchanged DEF Bookkeeping
<1>3. CASE UNCHANGED psVars
  BY <1>2, <1>3 DEF Bookkeeping, Whole, psVars, loopVars
<1>4. ASSUME NEW c \in Claim, BeginReserve(c, Results(c)) PROVE Bookkeeping'
  BY <1>2, <1>4 DEF BeginReserve, Bookkeeping, Whole, HasReservation
<1>5. ASSUME NEW c \in Claim, BeginRelease(c, Results(c)) \/ BeginRelease(c, HeldBy(c))
      PROVE  Bookkeeping'
  BY <1>2, <1>5 DEF BeginRelease, Bookkeeping, Whole, HasReservation
<1>6. ASSUME NEW s \in Share, ReserveShare(s) PROVE Bookkeeping'
  <2>1. /\ caller \in Claim /\ s \in Results(caller) /\ s \notin HeldBy(caller)
        /\ claimOf[s] = caller
    BY <1>1, <1>6 DEF ReserveShare, Bookkeeping, SharesOf
  <2>2. s \notin Held
    BY <2>1 DEF HeldBy
  <2>3. CoreInv' /\ Held' = Held \cup {s}
    BY <1>6, <2>2, ReserveCore, ReserveHolders DEF ReserveShare, Bookkeeping
  <2>4. HeldBy(caller)' = HeldBy(caller) \cup {s}
    BY <1>6, <2>1, <2>3 DEF HeldBy, ReserveShare
  <2>5. \A d \in Claim \ {caller} : HeldBy(d)' = HeldBy(d)
    BY <2>1, <2>3, OtherHolders
  <2>6. QED
    BY <1>6, <2>1, <2>3, <2>4, <2>5 DEF ReserveShare, Bookkeeping, Whole
<1>7. ASSUME NEW s \in Share, ReserveConflict(s) PROVE Bookkeeping'
  BY <1>2, <1>7 DEF ReserveConflict, Bookkeeping, Whole
<1>8. ASSUME NEW s \in Share, UndoShare(s) \/ ReleaseShare(s) PROVE Bookkeeping'
  <2>1. /\ op \in {"undo", "release"} /\ s \in todo /\ ReleasePartition(s)
        /\ todo' = todo \ {s}
        /\ op' = op /\ caller' = caller /\ reservedClaims' = reservedClaims
    BY <1>8 DEF UndoShare, ReleaseShare
  <2>2. caller \in Claim /\ s \in Held /\ claimOf[s] = caller /\ todo = HeldBy(caller)
    BY <2>1 DEF Bookkeeping, HeldBy
  <2>3. CoreInv' /\ Held' = Held \ {s}
    BY <2>1, <2>2, ReleaseCore, ReleaseHolders DEF Bookkeeping
  <2>4. HeldBy(caller)' = HeldBy(caller) \ {s}
    BY <2>1, <2>3 DEF HeldBy
  <2>5. \A d \in Claim \ {caller} : HeldBy(d)' = HeldBy(d)
    BY <2>2, <2>3, OtherHolders
  <2>6. QED
    BY <2>1, <2>2, <2>3, <2>4, <2>5 DEF Bookkeeping, Whole
<1>9. CASE ReserveDone \/ UndoDone \/ ReleaseDone
  <2>1. LoopEnds /\ caller \in Claim /\ op \in {"reserve", "undo", "release"}
    BY <1>9 DEF ReserveDone, UndoDone, ReleaseDone
  <2>2. CoreInv' /\ \A d \in Claim : HeldBy(d)' = HeldBy(d)
    BY <1>2, <2>1 DEF LoopEnds
  <2>3. HeldBy(caller) = IF caller \in reservedClaims' THEN Results(caller) ELSE {}
    BY <1>9 DEF ReserveDone, UndoDone, ReleaseDone, LoopEnds, Bookkeeping
  <2>4. \A d \in Claim \ {caller} : d \in reservedClaims' <=> d \in reservedClaims
    BY <1>9 DEF ReserveDone, UndoDone, ReleaseDone
  <2>5. \A d \in Claim : Whole(d)'
    BY <2>1, <2>2, <2>3, <2>4 DEF Bookkeeping, Whole
  <2>6. QED
    BY <2>1, <2>2, <2>5 DEF Bookkeeping, LoopEnds
<1>10. QED
  BY <1>3, <1>4, <1>5, <1>6, <1>7, <1>8, <1>9 DEF BookStep, LoopStep, LoopStarts

-----------------------------------------------------------------------------
(* Types and control, for every set of faults. *)

\* The loop works for the running call, so it always has a caller.
LEMMA LoopHasCaller == ControlInv => (op # "none" => caller \in Claim)
BY ModesAssumption DEF ControlInv, Control, DeviceTypeOK, TypeOK, Ops, ReleaseStages

LEMMA SnapshotTypes == TypeOK => CurrentSnapshot \in Snapshot
BY DEF TypeOK, CurrentSnapshot, Snapshot

LEMMA ControlInit == DeviceInit => ControlInv
<1> SUFFICES ASSUME DeviceInit PROVE ControlInv
  OBVIOUS
<1>1. TypeOK
  BY InitEstablishes DEF DeviceInit, IInv
<1>2. RestTypes
  BY DeviceAssumption DEF DeviceInit, RestTypes, Marker, Stages, StartupSteps, PodStates
<1>3. Control
  BY DEF DeviceInit, Init, Control, ReleaseStages, SettingStages, ServingStages
<1>4. CallerKnows
  BY DEF DeviceInit, CallerKnows, ServingStages, SettingStages, RecordedStages, PrepareStages,
         UnprepareStages
<1>5. QED
  BY <1>1, <1>2, <1>3, <1>4, TypeParts DEF ControlInv

LEMMA ControlPreserved == ControlInv /\ [DeviceNext]_dsVars => ControlInv'
<1> SUFFICES ASSUME ControlInv, [DeviceNext]_dsVars PROVE ControlInv'
  OBVIOUS
<1>1. CASE UNCHANGED dsVars
  BY <1>1 DEF dsVars, memVars, psVars, tableVars, modeVars, countVars, loopVars, rpcVars,
              mainVars, diskVars, hwVars, ControlInv, DeviceTypeOK, TypeOK, Control, CallerKnows
<1>2. ASSUME DeviceNext, ~Crash PROVE DeviceTypeOK'
  <2>1. RestTypes' /\ saved' \in Snapshot
    BY <1>2, StepTypes, SnapshotTypes DEF ControlInv, DeviceTypeOK, TypeOK
  <2>2. TypeOK'
    BY <1>2, <2>1, StepsBook, LoopHasCaller, BookTypes DEF ControlInv, DeviceTypeOK
  <2>3. QED
    BY <2>1, <2>2 DEF DeviceTypeOK, RestTypes
<1>3. CASE Crash
  BY <1>3, CrashTypes, ControlStep DEF ControlInv, DeviceNext
<1>4. QED
  BY <1>1, <1>2, <1>3, ControlStep DEF ControlInv

LEMMA ControlHolds == DeviceSpec => []ControlInv
BY ControlInit, ControlPreserved, PTL DEF DeviceSpec

\* The node's state stays well typed through every call, failure and restart,
\* the positional recovery of a checkpoint without slots included.
THEOREM DeviceTypeCorrect == DeviceSpec => []DeviceTypeOK
BY ControlHolds, PTL DEF ControlInv

-----------------------------------------------------------------------------
(* The checkpoint and what a restart makes of it. *)

\* The failures under which a restart finds every prepared claim in the slots of
\* the checkpoint.  An Unprepare that gives up after it has released the claim
\* leaves a prepared claim without a slot; the next snapshot drops its slots,
\* and a restart may then fall back on positional keys.
Recoverable ==
    {"crash", "delete"} \subseteq Faults => "cdi" \notin Faults /\ "checkpoint" \notin Faults

SavedBy(c) == {s \in Assigned(saved.slots) : claimOf[s] = c}

\* A prepared claim is reserved, but for the end of its own Unprepare.
PreparedReserved ==
    \A c \in preparedClaims : \/ c \in reservedClaims
                              \/ c = rpcClaim /\ stage \in {"unspec", "unwrite"}

\* The snapshot on disk is coherent, has all of a claim or nothing of it, and
\* has all of every prepared claim.
Recorded ==
    /\ Coherent(saved)
    /\ \A c \in Claim : SavedBy(c) \in {{}, Results(c)}
    /\ "crash" \in Faults =>
          PreparedReserved /\ \A c \in preparedClaims : SavedBy(c) = Results(c)

BookInv == ControlInv /\ Bookkeeping /\ Recorded

\* The record on disk changes only together with a snapshot of whole claims.
LEMMA SavedSteps ==
    ASSUME ControlInv, DeviceNext
    PROVE  \/ UNCHANGED <<saved, preparedClaims>>
           \/ /\ WriteCheckpoint /\ op = "none" /\ UNCHANGED reservedClaims
              /\ stage' \notin {"unspec", "unwrite"}
<1> USE DEF diskVars, memVars, psVars, GoTo, Return
<1>1. stage \in {"pending", "commit", "uncommit", "unwrite"} => op = "none"
  BY DEF ControlInv, DeviceTypeOK, TypeOK, Ops, Control, ReleaseStages
<1>2. ASSUME NEW c \in Claim, Kubelet(c) \/ PodArrives(c) \/ PodDeleted(c) \/ ClaimReused(c)
      PROVE  UNCHANGED <<saved, preparedClaims>>
  BY <1>2 DEF Kubelet, PrepareCached, PrepareStart, UnprepareUnknown, UnprepareStart,
              PodArrives, PodDeleted, ClaimReused
<1>3. CASE ReloadCompletes \/ DeadlinePasses \/ Shutdown \/ Crash
  BY <1>3 DEF ReloadCompletes, DeadlinePasses, Shutdown, Crash
<1>4. CASE ReloadPending \/ CommitPrepare \/ UnreserveCommit \/ CommitUnprepare
  BY <1>1, <1>4 DEF ReloadPending, CommitPrepare, UnreserveCommit, CommitUnprepare
<1>5. CASE ReserveStep \/ PublishTaints \/ RollbackStep \/ PollReload \/ StageMemory
  BY <1>5 DEF ReserveStep, PublishTaints, RollbackStep, PollReload, StageMemory
<1>6. CASE UnloadDriver \/ ProvisionDriver \/ SetCompute \/ PrepareDevices \/ CreateClaimSpecFile
  BY <1>6 DEF UnloadDriver, ProvisionDriver, SetCompute, PrepareDevices, CreateClaimSpecFile
<1>7. CASE ReplyPrepared \/ UnreserveStep \/ UnprepareRelease \/ DeleteClaimSpecFile
  BY <1>7 DEF ReplyPrepared, UnreserveStep, UnprepareRelease, DeleteClaimSpecFile
<1>8. CASE UnprepareRepublish \/ StartupWire \/ StartupBuild \/ StartupPublish
  BY <1>8 DEF UnprepareRepublish, StartupWire, StartupBuild, StartupPublish
<1>9. QED
  BY <1>2, <1>3, <1>4, <1>5, <1>6, <1>7, <1>8 DEF DeviceNext, Running

LEMMA WriteRecords ==
    ASSUME Bookkeeping, op = "none", WriteCheckpoint
    PROVE  /\ Coherent(saved)'
           /\ \A c \in Claim : SavedBy(c)' = IF c \in reservedClaims THEN Results(c) ELSE {}
<1>1. Coherent(CurrentSnapshot) /\ Assigned(CurrentSnapshot.slots) = Held
  BY SnapshotCoherent DEF Bookkeeping
<1>2. \A c \in Claim : HeldBy(c) = IF c \in reservedClaims THEN Results(c) ELSE {}
  BY DEF Bookkeeping, Whole
<1>3. saved' = CurrentSnapshot
  BY DEF WriteCheckpoint
<1>4. Coherent(saved)'
  BY <1>1, <1>3 DEF Coherent, Assigned
<1>5. \A c \in Claim : SavedBy(c)' = HeldBy(c)
  BY <1>1, <1>3 DEF SavedBy, HeldBy, Assigned
<1>6. QED
  BY <1>2, <1>4, <1>5

\* A restart rebuilds the bookkeeping from slots, never from positional keys
\* that would name shares of no claim.
LEMMA RestartReadsSlots ==
    ASSUME ControlInv, Recorded, Crash
    PROVE  RecoverFromSlots(saved)
<1>1. CASE Assigned(saved.slots) # {}
  BY <1>1 DEF Crash, RecoverFromCheckpoint
<1>2. CASE Assigned(saved.slots) = {}
  <2> DEFINE keys == {positionalOf[s] : s \in UNION {Results(c) : c \in preparedClaims}}
             on(g) == {k \in keys : gpuOf[k] = g}
  <2>1. preparedClaims = {}
    <3>1. \A c \in preparedClaims : Results(c) # {} /\ SavedBy(c) = Results(c)
      BY DEF Crash, May, Recorded, ControlInv, CallerKnows, GpusOf
    <3>2. \A c \in preparedClaims : SavedBy(c) = {}
      BY <1>2 DEF SavedBy
    <3>3. QED
      BY <3>1, <3>2
  <2>2. keys = {} /\ \A g \in Gpu : on(g) = {s \in Assigned(saved.slots) : gpuOf[s] = g}
    BY <1>2, <2>1
  <2>3. saved.slots = [k \in Share |-> NoSlot]
    BY <1>2 DEF Assigned, ControlInv, DeviceTypeOK, TypeOK, Snapshot
  <2>4. RecoverFromPrepared
    BY <1>2 DEF Crash, RecoverFromCheckpoint
  <2>5. QED
    BY <1>2, <2>2, <2>3, <2>4 DEF RecoverFromPrepared, RecoverFromSlots
<1>3. QED
  BY <1>1, <1>2

LEMMA RestartBooks ==
    ASSUME ControlInv, Recorded, Crash
    PROVE  Bookkeeping' /\ Recorded' /\ reservedClaims' = {c \in Claim : SavedBy(c) # {}}
<1>1. RecoverFromSlots(saved) /\ UNCHANGED <<saved, preparedClaims>> /\ op' = "none"
  BY RestartReadsSlots DEF Crash, LoopReset, diskVars
<1>2. /\ CoreInv'
      /\ \A c \in Claim : HeldBy(c)' = SavedBy(c)
  BY <1>1, RecoverCore DEF Recorded, SavedBy, ControlInv, DeviceTypeOK, TypeOK
<1>3. reservedClaims' = {c \in Claim : SavedBy(c) # {}}
  BY <1>1, SharesAssumption DEF RecoverFromSlots, SavedBy, Assigned
<1>4. \A c \in Claim : Whole(c)'
  BY <1>2, <1>3 DEF Recorded, Whole
<1>5. Bookkeeping'
  BY <1>1, <1>2, <1>4 DEF Bookkeeping
<1>6. Coherent(saved)' /\ \A c \in Claim : SavedBy(c)' = SavedBy(c)
  BY <1>1 DEF Recorded, Coherent, SavedBy, Assigned
<1>7. \A c \in preparedClaims : c \in Claim /\ Results(c) # {}
  BY DEF ControlInv, CallerKnows, GpusOf, DeviceTypeOK
<1>8. PreparedReserved'
  BY <1>1, <1>3, <1>7 DEF PreparedReserved, Recorded, Crash, May
<1>9. Recorded'
  BY <1>1, <1>6, <1>7, <1>8 DEF Recorded
<1>10. QED
  BY <1>3, <1>5, <1>9

LEMMA PreparedReservedStep ==
    ASSUME ControlInv, PreparedReserved, "crash" \in Faults, Recoverable, DeviceNext, ~Crash
    PROVE  PreparedReserved'
<1>1. stage \in UnprepareStages => "cdi" \notin Faults /\ "checkpoint" \notin Faults
  BY DEF Recoverable, ControlInv, CallerKnows, UnprepareStages, Control, DeviceTypeOK
<1> USE <1>1, ModesAssumption DEF ControlInv, CallerKnows, Control, PreparedReserved, GoTo, Return,
       ServingStages, SettingStages, ReleaseStages, RecordedStages, UnprepareStages,
       BeginRollback, BeginReserve, BeginRelease, LoopEnds, May, mainVars, memVars, rpcVars,
       diskVars, psVars, loopVars
<1>2. ASSUME NEW c \in Claim, Kubelet(c) PROVE PreparedReserved'
  BY <1>2 DEF Kubelet, PrepareCached, PrepareStart, UnprepareUnknown, UnprepareStart, HasReservation
<1>3. ASSUME NEW c \in Claim, PodArrives(c) \/ PodDeleted(c) \/ ClaimReused(c)
      PROVE  PreparedReserved'
  BY <1>3 DEF PodArrives, PodDeleted, ClaimReused
<1>4. CASE ReloadCompletes \/ DeadlinePasses \/ Shutdown
  BY <1>4 DEF ReloadCompletes, DeadlinePasses, Shutdown
<1>5. CASE ReserveStep
  BY <1>5 DEF ReserveStep, ReserveShare, ReserveConflict, UndoShare, ReserveDone, UndoDone
<1>6. CASE RollbackStep \/ UnreserveStep \/ UnprepareRelease
  BY <1>6 DEF RollbackStep, UnreserveStep, UnprepareRelease, ReleaseShare, ReleaseDone
<1>7. CASE PublishTaints \/ PollReload \/ StageMemory \/ UnloadDriver \/ ProvisionDriver
  BY <1>7 DEF PublishTaints, PollReload, StageMemory, UnloadDriver, ProvisionDriver
<1>8. CASE ReloadPending \/ SetCompute \/ PrepareDevices \/ CreateClaimSpecFile
  BY <1>8 DEF ReloadPending, SetCompute, PrepareDevices, CreateClaimSpecFile
<1>9. CASE CommitPrepare \/ ReplyPrepared \/ UnreserveCommit
  BY <1>9 DEF CommitPrepare, ReplyPrepared, UnreserveCommit
<1>10. CASE DeleteClaimSpecFile \/ CommitUnprepare \/ UnprepareRepublish
  BY <1>10 DEF DeleteClaimSpecFile, CommitUnprepare, UnprepareRepublish
<1>11. CASE StartupWire \/ StartupBuild \/ StartupPublish
  BY <1>11 DEF StartupWire, StartupBuild, StartupPublish
<1>12. QED
  BY <1>2, <1>3, <1>4, <1>5, <1>6, <1>7, <1>8, <1>9, <1>10, <1>11 DEF DeviceNext, Running

LEMMA RecordedStep ==
    ASSUME ControlInv, Bookkeeping, Recorded, Recoverable, DeviceNext, ~Crash
    PROVE  Recorded'
<1>1. "crash" \in Faults => PreparedReserved'
  BY PreparedReservedStep DEF Recorded
<1>2. CASE UNCHANGED <<saved, preparedClaims>>
  <2>1. Coherent(saved)' /\ \A c \in Claim : SavedBy(c)' = SavedBy(c)
    BY <1>2 DEF Recorded, Coherent, SavedBy, Assigned
  <2>2. preparedClaims \subseteq Claim
    BY DEF ControlInv, DeviceTypeOK
  <2>3. QED
    BY <1>1, <1>2, <2>1, <2>2 DEF Recorded
<1>3. CASE /\ WriteCheckpoint /\ op = "none" /\ UNCHANGED reservedClaims
           /\ stage' \notin {"unspec", "unwrite"}
  <2>1. /\ Coherent(saved)'
        /\ \A c \in Claim : SavedBy(c)' = IF c \in reservedClaims THEN Results(c) ELSE {}
    BY <1>3, WriteRecords
  <2>2. reservedClaims' \subseteq Claim
    BY <1>3 DEF ControlInv, DeviceTypeOK, TypeOK
  <2>3. "crash" \in Faults => preparedClaims' \subseteq reservedClaims'
    BY <1>1, <1>3 DEF PreparedReserved
  <2>4. QED
    BY <1>1, <1>3, <2>1, <2>2, <2>3 DEF Recorded
<1>4. QED
  BY <1>2, <1>3, SavedSteps

LEMMA BookInit == DeviceInit => BookInv
<1> SUFFICES ASSUME DeviceInit PROVE BookInv
  OBVIOUS
<1>1. CoreInv /\ Coherent(saved)
  BY InitEstablishes DEF DeviceInit, IInv, TableInv, SavedInv, Sound
<1>2. Held = {} /\ Assigned(saved.slots) = {}
  BY DEF DeviceInit, Init, Held, Assigned, EmptySnapshot
<1>3. Bookkeeping
  BY <1>1, <1>2 DEF DeviceInit, Init, Bookkeeping, Whole, HeldBy
<1>4. Recorded
  BY <1>1, <1>2 DEF DeviceInit, Recorded, SavedBy, PreparedReserved
<1>5. QED
  BY <1>3, <1>4, ControlInit DEF BookInv

LEMMA BookPreserved ==
    ASSUME Recoverable
    PROVE  BookInv /\ [DeviceNext]_dsVars => BookInv'
<1> SUFFICES ASSUME BookInv, [DeviceNext]_dsVars PROVE Bookkeeping' /\ Recorded'
  BY ControlPreserved DEF BookInv
<1>1. CASE UNCHANGED dsVars
  <2>1. BookStep /\ UNCHANGED <<saved, preparedClaims, reservedClaims, rpcClaim, stage>>
    BY <1>1 DEF BookStep, dsVars, memVars, psVars, diskVars, rpcVars
  <2>2. Bookkeeping'
    BY <2>1, BookkeepingStep, LoopHasCaller DEF BookInv, ControlInv, DeviceTypeOK
  <2>3. Recorded'
    BY <2>1 DEF BookInv, Recorded, Coherent, SavedBy, Assigned, PreparedReserved
  <2>4. QED
    BY <2>2, <2>3
<1>2. CASE DeviceNext /\ ~Crash
  BY <1>2, StepsBook, BookkeepingStep, LoopHasCaller, RecordedStep
     DEF BookInv, ControlInv, DeviceTypeOK
<1>3. CASE Crash
  BY <1>3, RestartBooks DEF BookInv
<1>4. QED
  BY <1>1, <1>2, <1>3

LEMMA BookHolds ==
    ASSUME Recoverable
    PROVE  DeviceSpec => []BookInv
BY BookInit, BookPreserved, PTL DEF DeviceSpec

\* Two shares never hold the same slot of one GPU, the counters agree with the
\* slot table, and the locks with their holders, under the real callers: Prepare
\* and Unprepare with all their failures, and restarts that read the file.
THEOREM BookkeepingUnderCalls ==
    ASSUME Recoverable
    PROVE  DeviceSpec => [](SlotsExclusive /\ CountsExact /\ LocksMatchHolders)
BY BookHolds, PTL DEF BookInv, Bookkeeping, CoreInv

\* When Unprepare of a prepared claim comes to delete its CDI spec file, the
\* claim holds no slot any more.
THEOREM UnpreparedHoldsNothing ==
    ASSUME Recoverable
    PROVE  DeviceSpec => []UnprepareFreesSlots
<1>1. BookInv => UnprepareFreesSlots
  <2> SUFFICES ASSUME BookInv, stage = "unspec" PROVE HeldBy(rpcClaim) = {}
    BY DEF UnprepareFreesSlots
  <2>1. op = "none" /\ rpcClaim \in Claim /\ rpcClaim \notin reservedClaims
    BY ModesAssumption
       DEF BookInv, ControlInv, Control, CallerKnows, DeviceTypeOK, TypeOK, Ops, ReleaseStages
  <2>2. QED
    BY <2>1 DEF BookInv, Bookkeeping, Whole
<1>2. QED
  BY <1>1, BookHolds, PTL

\* A step changes the slots and the reservation of the running call's claim only.
LEMMA TablesFrame ==
    ASSUME ControlInv, Bookkeeping, BookStep, NEW c \in Claim, op = "none" \/ c # rpcClaim
    PROVE  /\ (c \in reservedClaims) => c \in reservedClaims'
           /\ \A s \in SharesOf(c) : assignedSlots'[s] = assignedSlots[s]
<1> USE DEF SharesOf, tableVars, psVars
<1>1. op # "none" => caller = rpcClaim
  BY DEF ControlInv, Control
<1>2. assignedSlots \in [Share -> Slot \cup {NoSlot}]
  BY DEF ControlInv, DeviceTypeOK, TypeOK
<1>3. CASE UNCHANGED psVars \/ LoopStarts
  BY <1>3 DEF LoopStarts, BeginReserve, BeginRelease
<1>4. ASSUME NEW s \in Share, ReserveShare(s) \/ UndoShare(s) \/ ReleaseShare(s)
      PROVE  /\ UNCHANGED reservedClaims
             /\ \A t \in SharesOf(c) : assignedSlots'[t] = assignedSlots[t]
  <2>1. op # "none" /\ claimOf[s] = caller /\ UNCHANGED reservedClaims
    BY <1>4, LoopHasCaller, ResultsType
       DEF ReserveShare, UndoShare, ReleaseShare, Bookkeeping, HeldBy
  <2>2. \A t \in Share \ {s} : assignedSlots'[t] = assignedSlots[t]
    BY <1>2, <1>4 DEF ReserveShare, UndoShare, ReleaseShare, ReservePartition, ReleasePartition
  <2>3. QED
    BY <1>1, <2>1, <2>2
<1>5. ASSUME NEW s \in Share, ReserveConflict(s) PROVE UNCHANGED <<assignedSlots, reservedClaims>>
  BY <1>5 DEF ReserveConflict
<1>6. CASE ReserveDone \/ UndoDone \/ ReleaseDone
  BY <1>1, <1>6 DEF ReserveDone, UndoDone, ReleaseDone, LoopEnds
<1>7. QED
  BY <1>3, <1>4, <1>5, <1>6 DEF BookStep, LoopStep

-----------------------------------------------------------------------------
(* What the scheduler has placed on the node. *)

Present == {c \in Claim : pod[c] # "none"}
Placed == UNION {Results(c) : c \in Present}
PlacedOn(g) == {s \in Placed : gpuOf[s] = g}

\* The claims with a pod never ask more of a GPU than it has, nor for two of its
\* compute modes.
PlacedFits ==
    \A s \in Placed : /\ Cardinality(PlacedOn(gpuOf[s])) <= partitions[computeOf[s]]
                      /\ \A t \in PlacedOn(gpuOf[s]) : computeOf[t] = computeOf[s]

LEMMA PlacedTypes == Placed \in SUBSET Share /\ \A g \in Gpu : PlacedOn(g) \in SUBSET Share
BY ResultsType DEF Placed, PlacedOn, Present

\* Only an arriving pod brings a claim to the node.
LEMMA PresentStep ==
    ASSUME ControlInv, DeviceNext
    PROVE  Present' \subseteq Present \/ \E c \in Claim : PodArrives(c)
<1>1. /\ pod \in [Claim -> PodStates]
      /\ stage \in PrepareStages => pod[rpcClaim] \in {"pending", "running"}
  BY DEF ControlInv, CallerKnows, DeviceTypeOK
<1> USE <1>1 DEF Present, PrepareStages, ServingStages
<1>2. ASSUME NEW c \in Claim, Kubelet(c) PROVE Present' \subseteq Present
  BY <1>2 DEF Kubelet, PrepareCached, PrepareStart, UnprepareUnknown, UnprepareStart
<1>3. ASSUME NEW c \in Claim, PodDeleted(c) \/ ClaimReused(c) PROVE Present' \subseteq Present
  BY <1>3 DEF PodDeleted, ClaimReused
<1>4. CASE ReloadCompletes \/ DeadlinePasses \/ Shutdown \/ Crash
  BY <1>4 DEF ReloadCompletes, DeadlinePasses, Shutdown, Crash
<1>5. CASE ReserveStep \/ PublishTaints \/ RollbackStep \/ PollReload \/ StageMemory
  BY <1>5 DEF ReserveStep, PublishTaints, RollbackStep, PollReload, StageMemory
<1>6. CASE UnloadDriver \/ ProvisionDriver \/ ReloadPending \/ SetCompute \/ PrepareDevices
  BY <1>6 DEF UnloadDriver, ProvisionDriver, ReloadPending, SetCompute, PrepareDevices
<1>7. CASE CreateClaimSpecFile \/ CommitPrepare \/ ReplyPrepared
  BY <1>7 DEF CreateClaimSpecFile, CommitPrepare, ReplyPrepared
<1>8. CASE UnreserveStep \/ UnreserveCommit \/ UnprepareRelease \/ DeleteClaimSpecFile
  BY <1>8 DEF UnreserveStep, UnreserveCommit, UnprepareRelease, DeleteClaimSpecFile
<1>9. CASE CommitUnprepare \/ UnprepareRepublish
  BY <1>9 DEF CommitUnprepare, UnprepareRepublish
<1>10. CASE StartupWire \/ StartupBuild \/ StartupPublish
  BY <1>10 DEF StartupWire, StartupBuild, StartupPublish
<1>11. QED
  BY <1>2, <1>3, <1>4, <1>5, <1>6, <1>7, <1>8, <1>9, <1>10 DEF DeviceNext, Running

LEMMA PlacedInit == DeviceInit => PlacedFits
BY DEF DeviceInit, PlacedFits, Placed, Present

LEMMA PlacedPreserved == ControlInv /\ PlacedFits /\ [DeviceNext]_dsVars => PlacedFits'
<1> SUFFICES ASSUME ControlInv, PlacedFits, [DeviceNext]_dsVars PROVE PlacedFits'
  OBVIOUS
<1>1. CASE Present' \subseteq Present
  <2> SUFFICES ASSUME NEW s \in Placed'
               PROVE  /\ Cardinality(PlacedOn(gpuOf[s])') <= partitions[computeOf[s]]
                      /\ \A t \in PlacedOn(gpuOf[s])' : computeOf[t] = computeOf[s]
    BY DEF PlacedFits
  <2>1. Placed' \subseteq Placed
    BY <1>1 DEF Placed
  <2>2. s \in Share /\ gpuOf[s] \in Gpu /\ partitions[computeOf[s]] \in Nat
    BY <2>1, PlacedTypes, SharesAssumption, PartitionsAssumption
  <2>3. PlacedOn(gpuOf[s])' \subseteq PlacedOn(gpuOf[s])
    BY <2>1 DEF PlacedOn
  <2>4. Cardinality(PlacedOn(gpuOf[s])') <= Cardinality(PlacedOn(gpuOf[s]))
    BY <2>2, <2>3, PlacedTypes, SharesFinite, FS_Subset
  <2>5. /\ Cardinality(PlacedOn(gpuOf[s])') \in Nat
        /\ Cardinality(PlacedOn(gpuOf[s])) \in Nat
    BY <2>2, <2>3, PlacedTypes, SharesFinite
  <2>6. QED
    BY <2>1, <2>2, <2>3, <2>4, <2>5 DEF PlacedFits
<1>2. ASSUME NEW c \in Claim, PodArrives(c) PROVE PlacedFits'
  <2>1. Present' = Present \cup {c}
    BY <1>2 DEF PodArrives, Present, ControlInv, DeviceTypeOK
  <2>2. Placed' = Placed \cup Results(c)
    BY <2>1 DEF Placed
  <2>3. Placed' = UNION {Results(d) : d \in {e \in Claim : pod[e] # "none"} \cup {c}}
    BY <2>1 DEF Placed, Present
  <2>4. \A s \in Results(c) :
            /\ Cardinality({t \in Placed' : gpuOf[t] = gpuOf[s]}) <= partitions[computeOf[s]]
            /\ \A t \in Placed' : gpuOf[t] = gpuOf[s] => computeOf[t] = computeOf[s]
    BY <1>2, <2>3 DEF PodArrives, Schedulable
  <2> SUFFICES ASSUME NEW s \in Placed'
               PROVE  /\ Cardinality({t \in Placed' : gpuOf[t] = gpuOf[s]})
                            <= partitions[computeOf[s]]
                      /\ \A t \in Placed' : gpuOf[t] = gpuOf[s] => computeOf[t] = computeOf[s]
    BY DEF PlacedFits, PlacedOn
  <2>5. CASE \E r \in Results(c) : gpuOf[r] = gpuOf[s]
    BY <2>4, <2>5
  <2>6. CASE \A r \in Results(c) : gpuOf[r] # gpuOf[s]
    <3>1. s \in Placed /\ {t \in Placed' : gpuOf[t] = gpuOf[s]} = PlacedOn(gpuOf[s])
      BY <2>2, <2>6 DEF PlacedOn
    <3>2. QED
      BY <2>2, <2>6, <3>1 DEF PlacedFits, PlacedOn
  <2>7. QED
    BY <2>5, <2>6
<1>3. CASE UNCHANGED dsVars
  BY <1>1, <1>3 DEF dsVars, Present
<1>4. QED
  BY <1>1, <1>2, <1>3, PresentStep

LEMMA PlacedHolds == DeviceSpec => [](ControlInv /\ PlacedFits)
BY ControlInit, ControlPreserved, PlacedInit, PlacedPreserved, PTL DEF DeviceSpec

\* A GPU of one partition has one share placed on it.
LEMMA WholeGpuAlone ==
    ASSUME PlacedFits, NEW s \in Placed, NEW t \in Placed, gpuOf[s] = gpuOf[t], s # t
    PROVE  computeOf[s] # WholeGpu
<1> SUFFICES ASSUME computeOf[s] = WholeGpu PROVE FALSE
  OBVIOUS
<1>1. gpuOf[s] \in Gpu /\ PlacedOn(gpuOf[s]) \in SUBSET Share
  BY PlacedTypes, SharesAssumption
<1>2. s \in PlacedOn(gpuOf[s]) /\ t \in PlacedOn(gpuOf[s]) \ {s}
  BY DEF PlacedOn
<1>3. Cardinality(PlacedOn(gpuOf[s])) <= 1
  BY DeviceAssumption DEF PlacedFits
<1>4. Cardinality(PlacedOn(gpuOf[s]) \ {s}) = Cardinality(PlacedOn(gpuOf[s])) - 1
  BY <1>1, <1>2, CountOneLess
<1>5. Cardinality(PlacedOn(gpuOf[s]) \ {s}) > 0
  BY <1>1, <1>2, CountOneLess
<1>6. QED
  BY <1>1, <1>3, <1>4, <1>5, SharesFinite

-----------------------------------------------------------------------------
(* The published taints: they are out before the driver is touched, and    *)
(* between two calls they are those of the active memory mode.             *)
(*                                                                         *)
(* The taints follow from the active memory mode, and that follows from    *)
(* the shares held.  A call that is the first to reserve, or the last to   *)
(* release, is the only one to change them; the invariants say what has    *)
(* been published while it is on its way.                                  *)

\* Calls wait for the end of NewDriver, and restarts find what was recorded.
Settled == Recoverable /\ "early" \notin Faults

\* In addition nothing keeps the taints from being published: no publication
\* fails, and no Unprepare gives up before it publishes.
Publishing ==
    /\ "early" \notin Faults /\ "publish" \notin Faults
    /\ "delete" \in Faults => "cdi" \notin Faults /\ "checkpoint" \notin Faults

\* The shares of all claims but one.
HeldByOthers(c) == {s \in Held : claimOf[s] # c}

\* The stages in which the running call has not published its own change yet.
Unpublished == {"reserve", "publish"} \cup ReleaseStages

TaintInv ==
    /\ stage # "idle" => startup = "done"
    /\ startup = "built" => snapshot = TaintedModes
    /\ startup = "done" =>
          /\ HeldByOthers(rpcClaim) # {} => published = TaintedModes
          /\ op = "reserve" /\ ~taintsChanged /\ Held # {} => published = TaintedModes
          /\ stage \notin Unpublished /\ Held # {} => published = TaintedModes

-----------------------------------------------------------------------------
(* What steps of the loops do to the taints. *)

LEMMA NothingHeldNoTaints == CoreInv /\ Held = {} => TaintedModes = {}
BY DEF CoreInv, LocksMatchHolders, TaintedModes

\* A share that stays held keeps the memory mode.
LEMMA HolderKeepsTaints ==
    ASSUME CoreInv, CoreInv', NEW s \in Held, s \in Held'
    PROVE  TaintedModes' = TaintedModes
BY DEF CoreInv, LocksMatchHolders, TaintedModes

LEMMA TaintsUnchanged ==
    ASSUME UNCHANGED tableVars
    PROVE  /\ Held' = Held /\ TaintedModes' = TaintedModes
           /\ \A c : {s \in Held' : claimOf[s] # c} = HeldByOthers(c)
BY DEF tableVars, modeVars, Held, TaintedModes, HeldByOthers

\* One share reserved or released, of the running call's claim.
LEMMA ShareStep ==
    ASSUME BookInv, NEW s \in Share, ReserveShare(s) \/ UndoShare(s) \/ ReleaseShare(s)
    PROVE  /\ CoreInv'
           /\ {t \in Held' : claimOf[t] # rpcClaim} = HeldByOthers(rpcClaim)
           /\ Held # {} /\ Held' # {} => TaintedModes' = TaintedModes
           /\ ReserveShare(s) => (Held = {} => taintsChanged') /\ (taintsChanged => taintsChanged')
           /\ ReleaseShare(s) => (Held' = {} => taintsChanged') /\ (taintsChanged => taintsChanged')
<1>1. /\ op # "none" /\ caller = rpcClaim /\ caller \in Claim
      /\ TypeOK /\ CoreInv /\ Bookkeeping
  BY LoopHasCaller
     DEF ReserveShare, UndoShare, ReleaseShare, BookInv, ControlInv, Control, DeviceTypeOK,
         Bookkeeping
<1>2. Results(caller) \subseteq SharesOf(caller)
  BY <1>1, ResultsType
<1>3. CASE ReserveShare(s)
  <2>1. s \notin Held /\ claimOf[s] = caller
    BY <1>1, <1>2, <1>3 DEF ReserveShare, Bookkeeping, HeldBy, SharesOf
  <2>2. CoreInv' /\ Held' = Held \cup {s}
    BY <1>1, <1>3, <2>1, ReserveCore, ReserveHolders DEF ReserveShare
  <2>3. Held = {} => taintsChanged'
    BY <1>1, <1>3 DEF ReserveShare, CoreInv, LocksMatchHolders
  <2>4. QED
    BY <1>1, <1>3, <2>1, <2>2, <2>3, HolderKeepsTaints
       DEF HeldByOthers, ReserveShare, ReleaseShare
<1>4. CASE UndoShare(s) \/ ReleaseShare(s)
  <2>1. s \in Held /\ claimOf[s] = caller /\ ReleasePartition(s)
    BY <1>1, <1>4 DEF UndoShare, ReleaseShare, Bookkeeping, HeldBy
  <2>2. CoreInv' /\ Held' = Held \ {s}
    BY <1>1, <2>1, ReleaseCore, ReleaseHolders
  <2>3. Held' = {} => totalAllocCount' = 0
    BY <2>2, FS_EmptySet DEF CoreInv, CountsExact
  <2>4. QED
    BY <1>1, <1>4, <2>1, <2>2, <2>3, HolderKeepsTaints
       DEF HeldByOthers, UndoShare, ReserveShare, ReleaseShare
<1>5. QED
  BY <1>3, <1>4

\* When a loop ends its claim holds all of its results or nothing.
LEMMA LoopEndHolds ==
    ASSUME BookInv, UndoDone \/ ReleaseDone
    PROVE  HeldByOthers(rpcClaim) = Held
BY LoopHasCaller
   DEF UndoDone, ReleaseDone, LoopEnds, BookInv, ControlInv, Control, Bookkeeping, HeldBy,
       HeldByOthers

\* Between calls there is no claim whose shares do not count.
LEMMA IdleHoldsAll ==
    ASSUME ControlInv
    PROVE  HeldByOthers(NoClaim) = Held
BY ModesAssumption, SharesAssumption DEF HeldByOthers, Held

LEMMA TaintInit == DeviceInit => TaintInv
BY DEF DeviceInit, Init, TaintInv, Held, HeldByOthers

\* A step after the call has published, or before it changes anything, and one
\* that publishes.
LEMMA QuietStep ==
    ASSUME ControlInv, TaintInv, UNCHANGED <<tableVars, startup, snapshot>>,
           stage' # "idle" => startup = "done",
           \/ stage \notin Unpublished /\ UNCHANGED published
           \/ published' = TaintedModes
           \/ /\ UNCHANGED <<published, rpcClaim>>
              /\ stage' \in Unpublished
              /\ op' = "reserve" => UNCHANGED <<op, taintsChanged>>
           \/ HeldByOthers(rpcClaim) = Held /\ UNCHANGED published
    PROVE  TaintInv'
<1>1. /\ HeldByOthers(NoClaim) = Held
      /\ \A c : HeldByOthers(c) \subseteq Held
  BY IdleHoldsAll DEF HeldByOthers
<1>2. /\ Held' = Held /\ TaintedModes' = TaintedModes
      /\ HeldByOthers(rpcClaim)' = HeldByOthers(rpcClaim')
  BY TaintsUnchanged DEF HeldByOthers
<1>3. (stage' # "idle" => startup' = "done") /\ (startup' = "built" => snapshot' = TaintedModes')
  BY <1>2 DEF TaintInv
<1>4. startup' = "done" =>
          /\ HeldByOthers(rpcClaim)' # {} => published' = TaintedModes'
          /\ op' = "reserve" /\ ~taintsChanged' /\ Held' # {} => published' = TaintedModes'
          /\ stage' \notin Unpublished /\ Held' # {} => published' = TaintedModes'
  BY <1>1, <1>2 DEF TaintInv
<1>5. QED
  BY <1>3, <1>4 DEF TaintInv

\* A step of a loop.
LEMMA LoopTaints ==
    ASSUME BookInv, TaintInv, NEW s \in Share, stage # "idle",
           ReserveShare(s) \/ UndoShare(s) \/ ReleaseShare(s),
           UNCHANGED <<published, startup, snapshot, stage, rpcClaim>>
    PROVE  TaintInv'
<1>1. stage \in Unpublished /\ CoreInv
  BY DEF BookInv, Bookkeeping, ControlInv, Control, ReserveShare, UndoShare, ReleaseShare, Unpublished
<1>2. /\ HeldByOthers(rpcClaim)' = HeldByOthers(rpcClaim)
      /\ HeldByOthers(rpcClaim) \subseteq Held /\ HeldByOthers(rpcClaim) \subseteq Held'
  BY ShareStep DEF HeldByOthers
<1>3. /\ HeldByOthers(rpcClaim) # {} => TaintedModes' = TaintedModes
      /\ ReserveShare(s) /\ ~taintsChanged' => /\ Held # {} /\ ~taintsChanged
                                               /\ Held' # {} => TaintedModes' = TaintedModes
  BY <1>2, ShareStep
<1>4. op' = "reserve" => ReserveShare(s) /\ op = "reserve"
  BY DEF ReserveShare, UndoShare, ReleaseShare
<1>5. QED
  BY <1>1, <1>2, <1>3, <1>4 DEF TaintInv

LEMMA TaintStep ==
    ASSUME BookInv, TaintInv, "early" \notin Faults, DeviceNext
    PROVE  TaintInv'
<1>1. /\ ControlInv /\ startup \in StartupSteps
      /\ stage = "idle" <=> rpcClaim = NoClaim
      /\ stage # "idle" => startup = "done"
      /\ stage = "reserve" <=> op \in {"reserve", "undo"}
      /\ stage \in ReleaseStages <=> op = "release"
  BY DEF BookInv, ControlInv, DeviceTypeOK, Control, TaintInv
<1> USE <1>1 DEF Accepting, May, CanPublish, RepublishIf, Unpublished, ReleaseStages, GoTo, Return,
       BeginReserve, BeginRelease, BeginRollback, mainVars, memVars, rpcVars, psVars, loopVars
<1>2. ASSUME NEW c \in Claim, Kubelet(c) PROVE TaintInv'
  BY <1>2, QuietStep DEF Kubelet, PrepareCached, PrepareStart, UnprepareUnknown, UnprepareStart
<1>3. ASSUME NEW c \in Claim, PodArrives(c) \/ PodDeleted(c) \/ ClaimReused(c) PROVE TaintInv'
  BY <1>3, QuietStep DEF PodArrives, PodDeleted, ClaimReused
<1>4. CASE ReloadCompletes \/ DeadlinePasses \/ Shutdown
  BY <1>4, QuietStep DEF ReloadCompletes, DeadlinePasses, Shutdown
<1>5. CASE Crash
  BY <1>5 DEF Crash, LoopReset, TaintInv
<1>6. CASE ReserveStep
  <2>1. ASSUME NEW s \in Share, ReserveShare(s) \/ UndoShare(s), UNCHANGED rpcVars PROVE TaintInv'
    BY <1>6, <2>1, LoopTaints DEF ReserveStep
  <2>2. ASSUME NEW s \in Share, ReserveConflict(s), UNCHANGED rpcVars PROVE TaintInv'
    BY <1>6, <2>2, QuietStep DEF ReserveStep, ReserveConflict
  <2>3. CASE ReserveDone /\ taintsChanged /\ GoTo("publish")
    BY <1>6, <2>3, QuietStep DEF ReserveStep, ReserveDone, LoopEnds
  <2>4. CASE ReserveDone /\ ~taintsChanged /\ GoTo("apply")
    <3>1. Held = {} \/ published = TaintedModes
      BY <1>6, <2>4 DEF ReserveStep, ReserveDone, TaintInv
    <3>2. Held = {} => HeldByOthers(rpcClaim) = Held
      BY DEF HeldByOthers
    <3>3. /\ UNCHANGED <<tableVars, startup, snapshot, published>>
          /\ stage' # "idle" => startup = "done"
      BY <1>6, <2>4 DEF ReserveStep, ReserveDone, LoopEnds
    <3>4. QED
      BY <3>1, <3>2, <3>3, QuietStep
  <2>5. CASE UndoDone /\ Return
    BY <1>6, <2>5, LoopEndHolds, QuietStep DEF ReserveStep, UndoDone, LoopEnds
  <2>6. QED
    BY <1>6, <2>1, <2>2, <2>3, <2>4, <2>5 DEF ReserveStep
<1>7. CASE PublishTaints
  BY <1>7, QuietStep DEF PublishTaints
<1>8. CASE RollbackStep
  <2>1. ASSUME NEW s \in Share, ReleaseShare(s), UNCHANGED <<rpcVars, published>> PROVE TaintInv'
    BY <1>8, <2>1, LoopTaints DEF RollbackStep
  <2>2. CASE ReleaseDone /\ RepublishIf(taintsChanged) /\ Return
    BY <1>8, <2>2, LoopEndHolds, QuietStep DEF RollbackStep, ReleaseDone, LoopEnds
  <2>3. QED
    BY <1>8, <2>1, <2>2 DEF RollbackStep
<1>9. CASE UnreserveStep
  <2>1. ASSUME NEW s \in Share, ReleaseShare(s), UNCHANGED <<rpcVars, published>> PROVE TaintInv'
    BY <1>9, <2>1, LoopTaints DEF UnreserveStep
  <2>2. CASE ReleaseDone /\ RepublishIf(taintsChanged) /\ GoTo("uncommit")
    BY <1>9, <2>2, LoopEndHolds, QuietStep DEF UnreserveStep, ReleaseDone, LoopEnds
  <2>3. QED
    BY <1>9, <2>1, <2>2 DEF UnreserveStep
<1>10. CASE UnprepareRelease
  <2>1. ASSUME NEW s \in Share, ReleaseShare(s), UNCHANGED rpcVars PROVE TaintInv'
    BY <1>10, <2>1, LoopTaints DEF UnprepareRelease
  <2>2. CASE ReleaseDone /\ stage' = "unspec"
    BY <1>10, <2>2, LoopEndHolds, QuietStep DEF UnprepareRelease, ReleaseDone, LoopEnds
  <2>3. QED
    BY <1>10, <2>1, <2>2 DEF UnprepareRelease
<1>11. CASE PollReload \/ StageMemory \/ UnloadDriver \/ ProvisionDriver \/ ReloadPending
  BY <1>11, QuietStep DEF PollReload, StageMemory, UnloadDriver, ProvisionDriver, ReloadPending
<1>12. CASE SetCompute \/ PrepareDevices \/ CreateClaimSpecFile \/ CommitPrepare \/ ReplyPrepared
  BY <1>12, QuietStep
     DEF SetCompute, PrepareDevices, CreateClaimSpecFile, CommitPrepare, ReplyPrepared
<1>13. CASE UnreserveCommit \/ DeleteClaimSpecFile \/ CommitUnprepare \/ UnprepareRepublish
  BY <1>13, QuietStep
     DEF UnreserveCommit, DeleteClaimSpecFile, CommitUnprepare, UnprepareRepublish
<1>14. CASE StartupWire \/ StartupBuild \/ StartupPublish
  <2>1. stage = "idle" /\ UNCHANGED <<tableVars, op, taintsChanged, rpcVars>>
    BY <1>14 DEF StartupWire, StartupBuild, StartupPublish
  <2>2. Held' = Held /\ TaintedModes' = TaintedModes
    BY <2>1, TaintsUnchanged
  <2>3. QED
    BY <1>14, <2>1, <2>2 DEF StartupWire, StartupBuild, StartupPublish, TaintInv
<1>15. QED
  BY <1>2, <1>3, <1>4, <1>5, <1>6, <1>7, <1>8, <1>9, <1>10, <1>11, <1>12, <1>13, <1>14
     DEF DeviceNext, Running

LEMMA TaintPreserved ==
    ASSUME "early" \notin Faults
    PROVE  BookInv /\ TaintInv /\ [DeviceNext]_dsVars => TaintInv'
<1> SUFFICES ASSUME BookInv, TaintInv, UNCHANGED dsVars PROVE TaintInv'
  BY TaintStep
<1>1. /\ UNCHANGED <<tableVars, op, taintsChanged, stage, rpcClaim, startup, snapshot, published>>
  BY DEF dsVars, memVars, psVars, loopVars, rpcVars, mainVars
<1>2. /\ Held' = Held /\ TaintedModes' = TaintedModes
      /\ HeldByOthers(rpcClaim)' = HeldByOthers(rpcClaim)
  BY <1>1, TaintsUnchanged DEF HeldByOthers
<1>3. QED
  BY <1>1, <1>2 DEF TaintInv

LEMMA TaintHolds ==
    ASSUME Settled
    PROVE  DeviceSpec => [](BookInv /\ TaintInv)
<1>1. Recoverable /\ "early" \notin Faults
  BY DEF Settled
<1>2. QED
  BY <1>1, BookInit, BookPreserved, TaintInit, TaintPreserved, PTL DEF DeviceSpec

\* Whenever the driver is about to be unloaded or brought back for a claim, the
\* taints that keep other memory modes away are the published ones: Prepare
\* publishes between its two phases, and a call that skips the publication
\* found it done (Prepare, republishResources).
THEOREM TaintsPrecedeReload ==
    ASSUME Settled
    PROVE  DeviceSpec => []TaintsBeforeReload
<1>1. BookInv /\ TaintInv => TaintsBeforeReload
  <2> SUFFICES ASSUME BookInv, TaintInv, stage \in {"trigger", "provision"}
               PROVE  published = TaintedModes
    BY DEF TaintsBeforeReload
  <2>1. startup = "done" /\ stage \notin Unpublished
    BY DEF TaintInv, Unpublished, ReleaseStages
  <2>2. Held = {} \/ published = TaintedModes
    BY <2>1 DEF TaintInv
  <2>3. /\ op = "none" /\ rpcClaim \in Claim /\ rpcClaim \in reservedClaims
        /\ Results(rpcClaim) # {}
    BY ModesAssumption
       DEF BookInv, ControlInv, Control, CallerKnows, DeviceTypeOK, TypeOK, Ops, ReleaseStages,
           SettingStages, GpusOf
  <2>4. HeldBy(rpcClaim) # {}
    BY <2>3 DEF BookInv, Bookkeeping, Whole
  <2>5. QED
    BY <2>2, <2>4 DEF HeldBy
<1>2. QED
  BY <1>1, TaintHolds, PTL

-----------------------------------------------------------------------------
(* Between two calls. *)

\* The stages in which a change of the taints may be unpublished.
Unsettled == Unpublished \cup {"unspec", "unwrite", "republish"}

\* A release that changes the taints, and a reservation that has none to build
\* on, say so until they have published.
CleanInv ==
    startup = "done" =>
        /\ stage \notin Unsettled => published = TaintedModes
        /\ stage \in ReleaseStages => taintsChanged \/ published = TaintedModes
        /\ stage \in {"unspec", "unwrite", "republish"} => republish \/ published = TaintedModes
        /\ stage = "reserve" /\ HeldByOthers(rpcClaim) = {} =>
               published = {} /\ (op = "reserve" => taintsChanged \/ Held = {})

LEMMA CleanInit == DeviceInit => CleanInv
BY DEF DeviceInit, Init, CleanInv, TaintedModes

\* A step that changes none of the variables the taints depend on.
LEMMA CleanUnchanged ==
    ASSUME CleanInv,
           UNCHANGED <<tableVars, op, taintsChanged, stage, rpcClaim, republish, startup, published>>
    PROVE  CleanInv'
<1>1. /\ Held' = Held /\ TaintedModes' = TaintedModes
      /\ HeldByOthers(rpcClaim)' = HeldByOthers(rpcClaim)
  BY TaintsUnchanged DEF HeldByOthers
<1>2. QED
  BY <1>1 DEF CleanInv

\* A step that leaves, or finds, the taints published.
LEMMA CleanPublished ==
    ASSUME UNCHANGED tableVars, published' = TaintedModes, stage' # "reserve"
    PROVE  CleanInv'
<1>1. TaintedModes' = TaintedModes
  BY TaintsUnchanged
<1>2. QED
  BY <1>1 DEF CleanInv

LEMMA LoopClean ==
    ASSUME BookInv, TaintInv, CleanInv, NEW s \in Share, stage # "idle",
           ReserveShare(s) \/ UndoShare(s) \/ ReleaseShare(s),
           UNCHANGED <<published, startup, stage, rpcClaim>>
    PROVE  CleanInv'
<1>1. /\ CoreInv /\ startup = "done"
      /\ ReserveShare(s) \/ UndoShare(s) => stage = "reserve" /\ stage \notin ReleaseStages
      /\ ReleaseShare(s) => stage \in ReleaseStages
      /\ op' = op
  BY DEF BookInv, Bookkeeping, ControlInv, Control, ReserveShare, UndoShare, ReleaseShare, TaintInv,
         ReleaseStages
<1>2. /\ HeldByOthers(rpcClaim)' = HeldByOthers(rpcClaim)
      /\ HeldByOthers(rpcClaim) \subseteq Held /\ HeldByOthers(rpcClaim) \subseteq Held'
  BY ShareStep DEF HeldByOthers
<1>3. CASE ReserveShare(s) \/ UndoShare(s)
  <2>1. op' = "reserve" => ReserveShare(s)
    BY <1>1, <1>3 DEF ReserveShare, UndoShare
  <2>2. HeldByOthers(rpcClaim) = {} => published = {} /\ (op' = "reserve" => taintsChanged')
    BY <1>1, <1>3, <2>1, ShareStep DEF CleanInv, ReserveShare
  <2>3. QED
    BY <1>1, <1>2, <1>3, <2>2 DEF CleanInv, Unsettled, Unpublished
<1>4. CASE ReleaseShare(s)
  <2>1. Held # {}
    BY <1>4, LoopHasCaller
       DEF ReleaseShare, BookInv, Bookkeeping, HeldBy
  <2>2. taintsChanged' \/ (published = TaintedModes /\ TaintedModes' = TaintedModes)
    BY <1>1, <1>4, <2>1, ShareStep DEF CleanInv
  <2>3. QED
    BY <1>1, <1>4, <2>2 DEF CleanInv, Unsettled, Unpublished, ReleaseStages
<1>5. QED
  BY <1>3, <1>4

LEMMA CleanStep ==
    ASSUME BookInv, TaintInv, CleanInv, Publishing, DeviceNext
    PROVE  CleanInv'
<1>1. /\ ControlInv /\ startup \in StartupSteps
      /\ stage = "idle" <=> rpcClaim = NoClaim
      /\ stage # "idle" => startup = "done"
      /\ stage = "reserve" <=> op \in {"reserve", "undo"}
      /\ stage \in ReleaseStages <=> op = "release"
      /\ stage \in UnprepareStages => "cdi" \notin Faults /\ "checkpoint" \notin Faults
      /\ startup = "done" /\ stage \notin Unsettled => published = TaintedModes
  BY DEF BookInv, ControlInv, DeviceTypeOK, Control, CallerKnows, TaintInv, CleanInv, Publishing,
         UnprepareStages
<1> USE <1>1 DEF Accepting, May, CanPublish, RepublishIf, Unsettled, Unpublished, ReleaseStages,
       UnprepareStages, GoTo, Return, BeginReserve, BeginRelease, BeginRollback, Publishing,
       mainVars, memVars, rpcVars, psVars, loopVars
<1>2. ASSUME NEW c \in Claim, PrepareStart(c) PROVE CleanInv'
  <2>1. CASE HasReservation(c) /\ stage' = "apply"
    BY <1>2, <2>1, CleanPublished DEF PrepareStart
  <2>2. CASE BeginReserve(c, Results(c)) /\ stage' = "reserve"
    <3>1. HeldByOthers(c) = Held
      <4>1. HeldBy(c) = {}
        BY <2>2 DEF HasReservation, BookInv, Bookkeeping, Whole
      <4>2. QED
        BY <4>1 DEF HeldBy, HeldByOthers
    <3>2. /\ Held' = Held /\ TaintedModes' = TaintedModes
          /\ HeldByOthers(rpcClaim)' = HeldByOthers(c)
      BY <1>2, <2>2, TaintsUnchanged DEF PrepareStart, HeldByOthers
    <3>3. Held = {} => published = {}
      BY <1>2, NothingHeldNoTaints DEF PrepareStart, BookInv, Bookkeeping
    <3>4. QED
      BY <1>2, <2>2, <3>1, <3>2, <3>3 DEF PrepareStart, CleanInv
  <2>3. QED
    BY <1>2, <2>1, <2>2 DEF PrepareStart
<1>3. ASSUME NEW c \in Claim, PrepareCached(c) \/ UnprepareUnknown(c) \/ UnprepareStart(c)
      PROVE  CleanInv'
  BY <1>3, CleanPublished DEF PrepareCached, UnprepareUnknown, UnprepareStart
<1>4. ASSUME NEW c \in Claim, PodArrives(c) \/ PodDeleted(c) \/ ClaimReused(c) PROVE CleanInv'
  BY <1>4, CleanUnchanged DEF PodArrives, PodDeleted, ClaimReused
<1>5. CASE ReloadCompletes \/ DeadlinePasses \/ Shutdown
  BY <1>5, CleanUnchanged DEF ReloadCompletes, DeadlinePasses, Shutdown
<1>6. CASE Crash
  BY <1>6 DEF Crash, CleanInv
<1>7. CASE ReserveStep
  <2>1. ASSUME NEW s \in Share, ReserveShare(s) \/ UndoShare(s), UNCHANGED rpcVars PROVE CleanInv'
    BY <1>7, <2>1, LoopClean DEF ReserveStep
  <2>2. ASSUME NEW s \in Share, ReserveConflict(s), UNCHANGED rpcVars PROVE CleanInv'
    <3>1. /\ UNCHANGED <<tableVars, published, startup, stage, rpcClaim>> /\ op' = "undo"
      BY <1>7, <2>2 DEF ReserveStep, ReserveConflict
    <3>2. HeldByOthers(rpcClaim)' = HeldByOthers(rpcClaim)
      BY <3>1, TaintsUnchanged DEF HeldByOthers
    <3>3. QED
      BY <1>7, <3>1, <3>2 DEF CleanInv, ReserveStep
  <2>3. CASE ReserveDone /\ taintsChanged /\ GoTo("publish")
    BY <1>7, <2>3 DEF CleanInv
  <2>4. CASE (ReserveDone /\ ~taintsChanged /\ GoTo("apply")) \/ (UndoDone /\ Return)
    <3>1. UndoDone => HeldByOthers(rpcClaim) = Held
      BY LoopEndHolds
    <3>2. HeldByOthers(rpcClaim) = {} => Held = {} /\ published = {}
      BY <1>7, <2>4, <3>1 DEF CleanInv, ReserveStep, ReserveDone, UndoDone
    <3>3. published = TaintedModes
      BY <1>7, <3>2, NothingHeldNoTaints DEF TaintInv, ReserveStep, BookInv, Bookkeeping
    <3>4. QED
      BY <1>7, <2>4, <3>3, CleanPublished DEF ReserveStep, ReserveDone, UndoDone, LoopEnds
  <2>5. QED
    BY <1>7, <2>1, <2>2, <2>3, <2>4 DEF ReserveStep
<1>8. CASE PublishTaints
  BY <1>8, CleanPublished DEF PublishTaints
<1>9. CASE RollbackStep
  <2>1. ASSUME NEW s \in Share, ReleaseShare(s), UNCHANGED <<rpcVars, published>> PROVE CleanInv'
    BY <1>9, <2>1, LoopClean DEF RollbackStep
  <2>2. CASE ReleaseDone /\ RepublishIf(taintsChanged) /\ Return
    BY <1>9, <2>2, CleanPublished DEF RollbackStep, ReleaseDone, LoopEnds, CleanInv
  <2>3. QED
    BY <1>9, <2>1, <2>2 DEF RollbackStep
<1>10. CASE UnreserveStep
  <2>1. ASSUME NEW s \in Share, ReleaseShare(s), UNCHANGED <<rpcVars, published>> PROVE CleanInv'
    BY <1>10, <2>1, LoopClean DEF UnreserveStep
  <2>2. CASE ReleaseDone /\ RepublishIf(taintsChanged) /\ GoTo("uncommit")
    BY <1>10, <2>2, CleanPublished DEF UnreserveStep, ReleaseDone, LoopEnds, CleanInv
  <2>3. QED
    BY <1>10, <2>1, <2>2 DEF UnreserveStep
<1>11. CASE UnprepareRelease
  <2>1. ASSUME NEW s \in Share, ReleaseShare(s), UNCHANGED rpcVars PROVE CleanInv'
    BY <1>11, <2>1, LoopClean DEF UnprepareRelease
  <2>2. CASE ReleaseDone /\ stage' = "unspec" /\ republish' = taintsChanged
    <3>1. UNCHANGED <<tableVars, published>>
      BY <1>11, <2>2 DEF UnprepareRelease, ReleaseDone, LoopEnds
    <3>2. TaintedModes' = TaintedModes
      BY <3>1, TaintsUnchanged
    <3>3. QED
      BY <1>11, <2>2, <3>1, <3>2 DEF UnprepareRelease, CleanInv
  <2>3. QED
    BY <1>11, <2>1, <2>2 DEF UnprepareRelease
<1>12. CASE PollReload \/ StageMemory \/ UnloadDriver \/ ProvisionDriver \/ ReloadPending
  BY <1>12, CleanPublished DEF PollReload, StageMemory, UnloadDriver, ProvisionDriver, ReloadPending
<1>13. CASE SetCompute \/ PrepareDevices \/ CreateClaimSpecFile \/ CommitPrepare \/ ReplyPrepared
  BY <1>13, CleanPublished
     DEF SetCompute, PrepareDevices, CreateClaimSpecFile, CommitPrepare, ReplyPrepared
<1>14. CASE UnreserveCommit \/ UnprepareRepublish
  BY <1>14, CleanPublished DEF UnreserveCommit, UnprepareRepublish, CleanInv
<1>15. CASE DeleteClaimSpecFile \/ CommitUnprepare
  <2>1. UNCHANGED <<tableVars, startup, published>>
    BY <1>15 DEF DeleteClaimSpecFile, CommitUnprepare
  <2>2. TaintedModes' = TaintedModes
    BY <2>1, TaintsUnchanged
  <2>3. QED
    BY <1>15, <2>1, <2>2 DEF DeleteClaimSpecFile, CommitUnprepare, CleanInv
<1>16. CASE StartupWire \/ StartupBuild \/ StartupPublish
  <2>1. stage = "idle" /\ UNCHANGED <<tableVars, rpcVars>>
    BY <1>16 DEF StartupWire, StartupBuild, StartupPublish
  <2>2. TaintedModes' = TaintedModes
    BY <2>1, TaintsUnchanged
  <2>3. QED
    BY <1>16, <2>1, <2>2 DEF StartupWire, StartupBuild, StartupPublish, TaintInv, CleanInv
<1>17. QED
  BY <1>2, <1>3, <1>4, <1>5, <1>6, <1>7, <1>8, <1>9, <1>10, <1>11, <1>12, <1>13, <1>14,
     <1>15, <1>16 DEF DeviceNext, Running, Kubelet

LEMMA CleanPreserved ==
    ASSUME Publishing
    PROVE  BookInv /\ TaintInv /\ CleanInv /\ [DeviceNext]_dsVars => CleanInv'
<1>1. ASSUME CleanInv, UNCHANGED dsVars PROVE CleanInv'
  BY <1>1, CleanUnchanged DEF dsVars, memVars, psVars, loopVars, rpcVars, mainVars
<1>2. QED
  BY <1>1, CleanStep

\* Between two calls, once start-up is over, the published taints are those of
\* the active memory mode: every call publishes the change it made, the ones
\* that fail and roll back included (rollbackPartitions, Unprepare).
THEOREM TaintsAreCurrent ==
    ASSUME Publishing
    PROVE  DeviceSpec => []TaintsPublished
<1>1. Settled
  BY DEF Publishing, Settled, Recoverable
<1>2. DeviceSpec => [](BookInv /\ TaintInv)
  BY <1>1, TaintHolds
<1>3. DeviceSpec => []CleanInv
  BY <1>2, CleanInit, CleanPreserved, PTL DEF DeviceSpec
<1>4. CleanInv => TaintsPublished
  BY DEF CleanInv, TaintsPublished, Unsettled, Unpublished, ReleaseStages
<1>5. QED
  BY <1>3, <1>4, PTL

=============================================================================

-------------------------- MODULE DeviceLeaksProofs --------------------------
(***************************************************************************)
(* Proofs that DeviceState gives back what it takes: no claim keeps a      *)
(* reservation after its pod is gone, and an empty node is a free one, in  *)
(* memory and in the checkpoint.                                           *)
(*                                                                         *)
(* A rollback writes nothing to the checkpoint, so the argument is that a  *)
(* claim which is in the checkpoint is never rolled back: its retries find *)
(* either the reload it waits for or a node in its memory mode, and device *)
(* nodes for all of its slots.                                             *)
(***************************************************************************)
EXTENDS DeviceRunningProofs

\* The failures that only ever roll back a claim that is not in the checkpoint.
Tidy ==
    Faults \subseteq {"crash", "delete", "reuse", "early", "publish", "stage",
                      "unload", "provision"}

\* The claims with slots in the checkpoint.
OnDisk == {c \in Claim : SavedBy(c) # {}}

\* Whatever is reserved, in memory or on disk, is for a claim with a pod.
Accounted == reservedClaims \subseteq Present /\ OnDisk \subseteq Present

\* The slots are partitions their GPUs have, in memory and on disk.
SlotsInRange ==
    /\ SlotWithinPartitions
    /\ \A s \in Assigned(saved.slots) : saved.slots[s] < partitions[computeOf[s]]

\* Between two calls a claim is reserved in memory iff it is on disk.
Matched ==
    /\ \A c \in Claim \ {rpcClaim} :
           Results(c) # {} => (c \in reservedClaims <=> c \in OnDisk)
    /\ stage \in PrepareStages /\ rpcClaim \in OnDisk =>
           rpcClaim \in reservedClaims /\ op = "none"
    /\ stage \in {"publish", "republish"} => rpcClaim \notin OnDisk
    /\ stage = "reply" => rpcClaim \in OnDisk

NeverLate == ~memoryReload.late /\ ~savedReload.late /\ smi

\* The node is in memory mode m, or waits for the reload that brings it there.
Heading(reload, m) == reload.mode = m \/ (reload = NoReload /\ Ready(m))

\* What is on disk has the node in its memory mode, or a reload to wait for.
Reloading ==
    /\ Assigned(saved.slots) # {} => /\ Heading(memoryReload, saved.mode)
                                     /\ Heading(savedReload, saved.mode)
    /\ stage \in {"trigger", "provision"} => Assigned(saved.slots) = {}
    /\ stage = "pending" => memoryReload.mode = activeMemoryMode

\* How far the call has brought the hardware: a GPU is set once the memory mode
\* is reached, and no reload comes in between.
Setting ==
    /\ stage \in {"reserve", "publish", "trigger", "provision", "pending"} =>
           applyTodo = GpusOf(rpcClaim)
    /\ \/ stage \in {"compute"} \cup ServingStages
       \/ stage = "apply" /\ applyTodo # GpusOf(rpcClaim)
       => memoryReload = NoReload /\ Ready(activeMemoryMode)
    /\ stage \in SettingStages \cup {"devices"} =>
           \A s \in Results(rpcClaim) :
               gpuOf[s] \notin applyTodo => hwCompute[gpuOf[s]] = computeOf[s]
    /\ stage = "devices" => applyTodo = {}

LeakInv == Accounted /\ SlotsInRange /\ Matched /\ NeverLate /\ Reloading /\ Setting

-----------------------------------------------------------------------------
(* What the invariants say of a claim that is on disk. *)

LEMMA TidyFacts ==
    ASSUME Tidy
    PROVE  /\ Recoverable
           /\ {"checkpoint", "cdi", "compute", "nodes", "deadline", "shutdown"} \cap Faults = {}
BY DEF Tidy, Recoverable

LEMMA SavedFrame ==
    ASSUME UNCHANGED saved
    PROVE  Assigned(saved.slots)' = Assigned(saved.slots) /\ OnDisk' = OnDisk
BY DEF OnDisk, SavedBy, Assigned

\* A snapshot puts the reserved claims on disk, those without results aside.
LEMMA WriteOnDisk ==
    ASSUME Bookkeeping, op = "none", WriteCheckpoint
    PROVE  OnDisk' = {c \in Claim : c \in reservedClaims /\ Results(c) # {}}
BY WriteRecords DEF OnDisk

LEMMA OnDiskResults ==
    ASSUME Recorded, NEW c \in OnDisk
    PROVE  c \in Claim /\ SavedBy(c) = Results(c) /\ Results(c) # {}
BY DEF Recorded, OnDisk

\* A reserved claim on disk fixes the memory mode there to the locked one.
LEMMA SavedMode ==
    ASSUME BookInv, op = "none", NEW c \in reservedClaims, c \in OnDisk
    PROVE  /\ saved.mode = activeMemoryMode
           /\ Assigned(saved.slots) # {}
<1>1. c \in Claim
  BY DEF BookInv, ControlInv, DeviceTypeOK, TypeOK
<1>2. PICK s \in Assigned(saved.slots) : s \in SavedBy(c)
  BY DEF SavedBy, OnDisk
<1>3. s \in Results(c) /\ saved.mode = memoryOf[s]
  BY <1>1, <1>2 DEF BookInv, Recorded, Coherent
<1>4. QED
  BY <1>2, <1>3, WantedLocked

\* While a call sets the hardware for its claim, whatever is on disk has the
\* memory mode the call wants.
LEMMA SavedWanted ==
    ASSUME BookInv, Matched, stage \in SettingStages \cup ServingStages,
           Assigned(saved.slots) # {}
    PROVE  saved.mode = activeMemoryMode
<1>1. PICK s \in Assigned(saved.slots) : TRUE
  OBVIOUS
<1>2. s \in Share /\ claimOf[s] \in Claim
  BY <1>1, SharesAssumption DEF Assigned
<1>3. claimOf[s] \in OnDisk
  BY <1>2 DEF SavedBy, OnDisk
<1>4. claimOf[s] \in reservedClaims /\ op = "none"
  BY <1>2, <1>3, CallWants, OnDiskResults DEF Matched, BookInv, PrepareStages
<1>5. QED
  BY <1>3, <1>4, SavedMode

\* Nothing is ever late, and AMD SMI stays.
LEMMA NeverLateStep ==
    ASSUME Tidy, ControlInv, NeverLate, DeviceNext
    PROVE  NeverLate'
<1> USE TidyFacts DEF NeverLate, NoReload, WriteCheckpoint, May, mainVars, memVars, diskVars
<1>1. ASSUME NEW c \in Claim, Kubelet(c) \/ PodArrives(c) \/ PodDeleted(c) \/ ClaimReused(c)
      PROVE  NeverLate'
  BY <1>1 DEF Kubelet, PrepareCached, PrepareStart, UnprepareUnknown, UnprepareStart,
              PodArrives, PodDeleted, ClaimReused
<1>2. CASE ReloadCompletes \/ DeadlinePasses \/ Shutdown
  BY <1>2 DEF ReloadCompletes, DeadlinePasses, Shutdown
<1>3. CASE Crash
  BY <1>3 DEF Crash, RecoverFromCheckpoint
<1>4. CASE ReserveStep \/ PublishTaints \/ RollbackStep \/ StageMemory
  BY <1>4 DEF ReserveStep, PublishTaints, RollbackStep, StageMemory
<1>12. CASE PollReload
  <2>1. memoryReload' \in {memoryReload, NoReload} /\ UNCHANGED <<smi, savedReload>>
    BY <1>12 DEF PollReload
  <2>2. QED
    BY <2>1
<1>5. CASE UnloadDriver \/ ProvisionDriver
  <2>1. [mode |-> MemoryWanted(rpcClaim), late |-> FALSE].late = FALSE
    OBVIOUS
  <2>2. memoryReload' \in {memoryReload, [mode |-> MemoryWanted(rpcClaim), late |-> FALSE]}
    BY <1>5 DEF UnloadDriver, ProvisionDriver
  <2>3. UNCHANGED <<smi, savedReload>>
    BY <1>5 DEF UnloadDriver, ProvisionDriver
  <2>4. QED
    BY <2>1, <2>2, <2>3
<1>6. CASE SetCompute \/ PrepareDevices \/ CreateClaimSpecFile
  BY <1>6 DEF SetCompute, PrepareDevices, CreateClaimSpecFile
<1>7. CASE ReloadPending \/ CommitPrepare \/ ReplyPrepared
  BY <1>7 DEF ReloadPending, CommitPrepare, ReplyPrepared
<1>8. CASE UnreserveStep \/ UnreserveCommit \/ UnprepareRelease \/ DeleteClaimSpecFile
  BY <1>8 DEF UnreserveStep, UnreserveCommit, UnprepareRelease, DeleteClaimSpecFile
<1>9. CASE CommitUnprepare \/ UnprepareRepublish
  BY <1>9 DEF CommitUnprepare, UnprepareRepublish
<1>10. CASE StartupWire \/ StartupBuild \/ StartupPublish
  BY <1>10 DEF StartupWire, StartupBuild, StartupPublish
<1>11. QED
  BY <1>1, <1>2, <1>3, <1>4, <1>5, <1>6, <1>7, <1>8, <1>9, <1>10, <1>12
     DEF DeviceNext, Running

-----------------------------------------------------------------------------
(* A claim on disk is never rolled back. *)

\* The device nodes of a claim on disk are there once its GPUs are set.
LEMMA SavedNodesFound ==
    ASSUME BookInv, SlotsInRange, Setting, stage = "devices"
    PROVE  NodesFound
<1>1. /\ rpcClaim \in reservedClaims /\ op = "none"
      /\ applyTodo = {} /\ driver = "loaded"
  BY CallWants DEF ServingStages, Setting, Ready
<1>2. ASSUME NEW s \in Results(rpcClaim)
      PROVE  /\ hwCompute[gpuOf[s]] = computeOf[s]
             /\ assignedSlots[s] \in 0 .. (partitions[computeOf[s]] - 1)
  <2>1. s \in Held /\ s \in Share
    BY <1>1, WantedLocked DEF Held
  <2>2. partitions[computeOf[s]] \in Nat /\ assignedSlots[s] \in Nat
    BY <2>1, SharesAssumption, PartitionsAssumption
       DEF Held, Slot, BookInv, ControlInv, DeviceTypeOK, TypeOK
  <2>3. assignedSlots[s] < partitions[computeOf[s]]
    BY <2>1 DEF SlotsInRange, SlotWithinPartitions
  <2>4. hwCompute[gpuOf[s]] = computeOf[s]
    BY <1>1 DEF Setting
  <2>5. QED
    BY <2>2, <2>3, <2>4
<1>3. QED
  BY <1>1, <1>2 DEF NodesFound

LEMMA RollbackUnsaved ==
    ASSUME Tidy, BookInv, LeakInv, DeviceNext, stage' = "rollback"
    PROVE  rpcClaim \notin OnDisk /\ stage \in PrepareStages
<1> USE TidyFacts DEF LeakInv, GoTo, Return, PrepareStages, SettingStages, ServingStages, rpcVars
<1>1. ASSUME NEW c \in Claim, Kubelet(c) \/ PodArrives(c) \/ PodDeleted(c) \/ ClaimReused(c),
             stage # "rollback"
      PROVE  FALSE
  BY <1>1 DEF Kubelet, PrepareCached, PrepareStart, UnprepareUnknown, UnprepareStart,
              PodArrives, PodDeleted, ClaimReused
<1>2. ASSUME ReloadCompletes \/ DeadlinePasses \/ Shutdown \/ Crash, stage # "rollback"
      PROVE  FALSE
  BY <1>2 DEF ReloadCompletes, DeadlinePasses, Shutdown, Crash
<1>3. CASE stage = "rollback"
  BY <1>3 DEF Matched, BookInv, ControlInv, Control, ReleaseStages
<1>4. CASE ReserveStep
  BY <1>4 DEF ReserveStep
<1>5. CASE PublishTaints
  BY <1>5 DEF PublishTaints, Matched
<1>6. ASSUME PollReload \/ StageMemory, rpcClaim \in OnDisk PROVE FALSE
  <2>1. /\ stage = "apply" /\ applyTodo # {}
        /\ MemoryWanted(rpcClaim) = activeMemoryMode
    BY <1>6, CallWants DEF PollReload, StageMemory
  <2>2. Assigned(saved.slots) # {} /\ saved.mode = MemoryWanted(rpcClaim)
    BY <1>6, <2>1, SavedWanted DEF OnDisk, SavedBy
  <2>3. Heading(memoryReload, MemoryWanted(rpcClaim))
    BY <2>2 DEF Reloading
  <2>4. ~PollReload
    BY <2>1, <2>3 DEF PollReload, Heading, NeverLate
  <2>5. ~StageMemory
    <3>1. memoryReload = NoReload => MemoryWanted(rpcClaim) # NoMode
      BY <2>1, CallWants, WantedTypes, ModesAssumption
         DEF BookInv, ControlInv, DeviceTypeOK, TypeOK
    <3>2. memoryReload = NoReload => Ready(MemoryWanted(rpcClaim))
      BY <2>3, <3>1 DEF Heading, NoReload
    <3>3. QED
      BY <2>1, <3>2 DEF StageMemory, Ready, ReadMemory
  <2>6. QED
    BY <1>6, <2>4, <2>5
<1>7. CASE UnloadDriver \/ ProvisionDriver
  BY <1>7 DEF UnloadDriver, ProvisionDriver, Reloading, OnDisk, SavedBy
<1>8. CASE SetCompute \/ PrepareDevices \/ CreateClaimSpecFile \/ CommitPrepare
  BY <1>8, SavedNodesFound
     DEF SetCompute, PrepareDevices, CreateClaimSpecFile, CommitPrepare, May, NeverLate
<1>9. CASE ReloadPending \/ RollbackStep \/ ReplyPrepared
  BY <1>3, <1>9 DEF ReloadPending, RollbackStep, ReplyPrepared
<1>10. CASE UnreserveStep \/ UnreserveCommit \/ UnprepareRelease \/ DeleteClaimSpecFile
  BY <1>10 DEF UnreserveStep, UnreserveCommit, UnprepareRelease, DeleteClaimSpecFile
<1>11. CASE CommitUnprepare \/ UnprepareRepublish
  BY <1>11 DEF CommitUnprepare, UnprepareRepublish
<1>12. CASE StartupWire \/ StartupBuild \/ StartupPublish
  BY <1>3, <1>12 DEF StartupWire, StartupBuild, StartupPublish
<1>13. QED
  BY <1>1, <1>2, <1>3, <1>4, <1>5, <1>6, <1>7, <1>8, <1>9, <1>10, <1>11, <1>12
     DEF DeviceNext, Running, PollReload, StageMemory

-----------------------------------------------------------------------------
(* What is reserved is on disk and belongs to a pod. *)

LEMMA MatchedStep ==
    ASSUME Tidy, BookInv, LeakInv, DeviceNext
    PROVE  Matched'
<1>1. /\ stage \in Stages /\ op \in Ops
      /\ rpcClaim \in Claim \cup {NoClaim} /\ NoClaim \notin Claim
      /\ reservedClaims \subseteq Claim
      /\ stage = "idle" => rpcClaim = NoClaim /\ op = "none"
      /\ op # "none" => caller = rpcClaim
      /\ stage = "reserve" <=> op \in {"reserve", "undo"}
      /\ stage \in ReleaseStages <=> op = "release"
      /\ stage \in {"reply", "commit", "pending"} => rpcClaim \in reservedClaims
      /\ stage \in {"uncommit", "unwrite", "republish"} => rpcClaim \notin reservedClaims
  BY ModesAssumption
     DEF BookInv, ControlInv, Control, CallerKnows, DeviceTypeOK, TypeOK, Ops, ReleaseStages,
         ServingStages, SettingStages
<1>2. op \in {"reserve", "undo"} => rpcClaim \notin reservedClaims
  BY <1>1 DEF BookInv, Bookkeeping
<1>3. \A c \in OnDisk : Results(c) # {} /\ c \in Claim
  BY OnDiskResults DEF BookInv
<1>4. UNCHANGED saved => OnDisk' = OnDisk
  BY SavedFrame
<1>5. stage \in {"pending", "commit", "uncommit", "unwrite"} /\ WriteCheckpoint =>
          OnDisk' = {c \in Claim : c \in reservedClaims /\ Results(c) # {}}
  BY <1>1, WriteOnDisk DEF BookInv, Ops, ReleaseStages
<1>6. Matched
  BY DEF LeakInv
<1>7. stage' = "rollback" => rpcClaim \notin OnDisk
  BY RollbackUnsaved
<1>8. stage \in ServingStages => GpusOf(rpcClaim) # {} /\ Results(rpcClaim) # {}
  BY DEF BookInv, ControlInv, Control, GpusOf
<1> USE <1>1, <1>2, <1>3, <1>4, <1>5, <1>6, <1>7, <1>8, TidyFacts
    DEF Matched, HasReservation, May, GoTo, Return, BeginRollback, BeginReserve,
       BeginRelease, LoopEnds, Stages, Ops, PrepareStages, SettingStages, ServingStages,
       ReleaseStages, mainVars, memVars, rpcVars, diskVars, psVars, loopVars
<1>9. ASSUME NEW c \in Claim, PrepareCached(c) \/ PrepareStart(c) PROVE Matched'
  BY <1>9 DEF PrepareCached, PrepareStart
<1>10. ASSUME NEW c \in Claim, UnprepareUnknown(c) \/ UnprepareStart(c) PROVE Matched'
  BY <1>10 DEF UnprepareUnknown, UnprepareStart
<1>11. ASSUME NEW c \in Claim, PodArrives(c) \/ PodDeleted(c) \/ ClaimReused(c)
      PROVE  Matched'
  BY <1>11 DEF PodArrives, PodDeleted, ClaimReused
<1>12. CASE ReloadCompletes \/ DeadlinePasses \/ Shutdown
  BY <1>12 DEF ReloadCompletes, DeadlinePasses, Shutdown
<1>13. CASE Crash
  <2>1. reservedClaims' = OnDisk /\ OnDisk' = OnDisk /\ rpcClaim' = NoClaim /\ stage' = "idle"
    BY <1>13, RestartBooks DEF BookInv, Crash, OnDisk
  <2>2. QED
    BY <2>1
<1>14. CASE ReserveStep
  BY <1>14 DEF ReserveStep, ReserveShare, ReserveConflict, UndoShare, ReserveDone, UndoDone
<1>15. CASE PublishTaints
  BY <1>15 DEF PublishTaints
<1>16. CASE RollbackStep
  BY <1>16 DEF RollbackStep, ReleaseShare, ReleaseDone
<1>17. CASE PollReload
  BY <1>17 DEF PollReload
<1>18. CASE StageMemory
  BY <1>18 DEF StageMemory
<1>19. CASE UnloadDriver
  BY <1>19 DEF UnloadDriver
<1>20. CASE ProvisionDriver
  BY <1>20 DEF ProvisionDriver
<1>21. CASE ReloadPending
  BY <1>21 DEF ReloadPending
<1>22. CASE SetCompute
  BY <1>22 DEF SetCompute
<1>23. CASE PrepareDevices \/ CreateClaimSpecFile
  BY <1>23 DEF PrepareDevices, CreateClaimSpecFile
<1>24. CASE CommitPrepare
  <2>1. /\ stage = "commit" /\ WriteCheckpoint /\ stage' = "reply" /\ rpcClaim' = rpcClaim
        /\ UNCHANGED <<reservedClaims, op>>
    BY <1>24 DEF CommitPrepare, tableVars
  <2>2. OnDisk' = {c \in Claim : c \in reservedClaims /\ Results(c) # {}}
    BY <1>5, <2>1
  <2>3. rpcClaim \in Claim /\ rpcClaim \in OnDisk'
    BY <2>1, <2>2
  <2>4. QED
    BY <2>1, <2>2, <2>3
<1>25. CASE ReplyPrepared
  BY <1>25 DEF ReplyPrepared
<1>26. CASE UnreserveStep \/ UnprepareRelease
  BY <1>26 DEF UnreserveStep, UnprepareRelease, ReleaseShare, ReleaseDone
<1>27. CASE UnreserveCommit
  BY <1>27 DEF UnreserveCommit
<1>28. CASE DeleteClaimSpecFile
  BY <1>28 DEF DeleteClaimSpecFile
<1>29. CASE CommitUnprepare
  BY <1>29 DEF CommitUnprepare
<1>30. CASE UnprepareRepublish
  BY <1>30 DEF UnprepareRepublish
<1>31. CASE StartupWire \/ StartupBuild \/ StartupPublish
  BY <1>31 DEF StartupWire, StartupBuild, StartupPublish
<1>32. QED
  BY <1>9, <1>10, <1>11, <1>12, <1>13, <1>14, <1>15, <1>16, <1>17, <1>18, <1>19, <1>20,
     <1>21, <1>22, <1>23, <1>24, <1>25, <1>26, <1>27, <1>28, <1>29, <1>30, <1>31
     DEF DeviceNext, Running, Kubelet

\* A pod leaves only when its claim is neither reserved nor on disk.
LEMMA AccountedStep ==
    ASSUME Tidy, BookInv, LeakInv, DeviceNext
    PROVE  Accounted'
<1>1. /\ rpcClaim \in Claim \cup {NoClaim} /\ NoClaim \notin Claim
      /\ pod \in [Claim -> PodStates] /\ reservedClaims \subseteq Claim
      /\ stage = "idle" <=> rpcClaim = NoClaim
      /\ op # "none" => caller = rpcClaim
      /\ stage = "reserve" => pod[rpcClaim] # "none"
      /\ stage \in {"uncommit", "unwrite", "republish"} => rpcClaim \notin reservedClaims
  BY ModesAssumption
     DEF BookInv, ControlInv, Control, CallerKnows, DeviceTypeOK, TypeOK, PrepareStages
<1>2. \A c \in Claim \ {rpcClaim} : c \in OnDisk => c \in reservedClaims
  BY OnDiskResults DEF LeakInv, Matched, BookInv
<1>3. stage = "republish" => rpcClaim \notin OnDisk
  BY DEF LeakInv, Matched
<1>4. UNCHANGED saved => OnDisk' = OnDisk
  BY SavedFrame
<1>5. stage \in {"pending", "commit", "uncommit", "unwrite"} /\ WriteCheckpoint =>
          OnDisk' \subseteq reservedClaims
  BY WriteOnDisk DEF BookInv, ControlInv, Control, DeviceTypeOK, TypeOK, Ops, ReleaseStages
<1>6. Accounted
  BY DEF LeakInv
<1> USE <1>1, <1>2, <1>3, <1>4, <1>5, <1>6
    DEF Accounted, Present, PodStates, HasReservation, GoTo, Return, BeginRollback, BeginReserve,
       BeginRelease, LoopEnds, mainVars, memVars, diskVars, psVars
<1>7. ASSUME NEW c \in Claim, Kubelet(c) PROVE Accounted'
  BY <1>7 DEF Kubelet, PrepareCached, PrepareStart, UnprepareUnknown, UnprepareStart
<1>8. ASSUME NEW c \in Claim, PodArrives(c) \/ PodDeleted(c) \/ ClaimReused(c)
      PROVE  Accounted'
  BY <1>8 DEF PodArrives, PodDeleted, ClaimReused
<1>9. CASE ReloadCompletes \/ DeadlinePasses \/ Shutdown
  BY <1>9 DEF ReloadCompletes, DeadlinePasses, Shutdown
<1>10. CASE Crash
  <2>1. reservedClaims' = OnDisk /\ OnDisk' = OnDisk /\ UNCHANGED pod
    BY <1>10, RestartBooks DEF BookInv, Crash, OnDisk
  <2>2. QED
    BY <2>1
<1>11. CASE ReserveStep
  BY <1>11 DEF ReserveStep, ReserveShare, ReserveConflict, UndoShare, ReserveDone, UndoDone
<1>12. CASE RollbackStep \/ UnreserveStep \/ UnprepareRelease
  BY <1>12 DEF RollbackStep, UnreserveStep, UnprepareRelease, ReleaseShare, ReleaseDone
<1>13. CASE PublishTaints \/ PollReload \/ StageMemory
  BY <1>13 DEF PublishTaints, PollReload, StageMemory
<1>14. CASE UnloadDriver \/ ProvisionDriver \/ SetCompute \/ PrepareDevices \/ CreateClaimSpecFile
  BY <1>14 DEF UnloadDriver, ProvisionDriver, SetCompute, PrepareDevices, CreateClaimSpecFile
<1>15. CASE ReloadPending \/ CommitPrepare \/ ReplyPrepared
  BY <1>15 DEF ReloadPending, CommitPrepare, ReplyPrepared
<1>16. CASE UnreserveCommit
  BY <1>16 DEF UnreserveCommit
<1>17. CASE DeleteClaimSpecFile \/ CommitUnprepare
  BY <1>17 DEF DeleteClaimSpecFile, CommitUnprepare
<1>18. CASE UnprepareRepublish
  BY <1>18 DEF UnprepareRepublish
<1>19. CASE StartupWire \/ StartupBuild \/ StartupPublish
  BY <1>19 DEF StartupWire, StartupBuild, StartupPublish
<1>20. QED
  BY <1>7, <1>8, <1>9, <1>10, <1>11, <1>12, <1>13, <1>14, <1>15, <1>16, <1>17, <1>18, <1>19
     DEF DeviceNext, Running

-----------------------------------------------------------------------------
(* The slots stay within what the GPUs have. *)

\* While a claim is being reserved, everything held is placed on the node.
LEMMA HeldPlaced ==
    ASSUME BookInv, Accounted, op = "reserve"
    PROVE  Held \cup todo \subseteq Placed
<1>1. /\ op \in Ops /\ caller \in Claim /\ caller \in Present
      /\ Held \subseteq Share /\ \A s \in Share : claimOf[s] \in Claim
  <2>1. stage = "reserve" /\ caller = rpcClaim /\ pod[rpcClaim] # "none" /\ caller \in Claim
    BY LoopHasCaller DEF BookInv, ControlInv, Control, CallerKnows, PrepareStages
  <2>2. QED
    BY <2>1, SharesAssumption DEF Present, Held, Ops
<1>2. Results(caller) \subseteq Placed
  BY <1>1 DEF Placed
<1>3. todo \subseteq Results(caller) /\ HeldBy(caller) \subseteq Results(caller)
  BY DEF BookInv, Bookkeeping
<1>4. ASSUME NEW c \in Claim, c # caller PROVE HeldBy(c) \subseteq Placed
  BY <1>4 DEF BookInv, Bookkeeping, Whole, Accounted, Placed
<1>5. \A s \in Held : s \in HeldBy(claimOf[s])
  BY DEF HeldBy
<1>6. QED
  BY <1>1, <1>2, <1>3, <1>4, <1>5

LEMMA ReserveHasRoom ==
    ASSUME BookInv, Accounted, PlacedFits, NEW s \in Share, ReserveShare(s)
    PROVE  s \notin Held /\ Cardinality(HeldOn(gpuOf[s])) < partitions[computeOf[s]]
<1> DEFINE g == gpuOf[s]
<1>1. /\ s \in Placed /\ HeldOn(g) \subseteq PlacedOn(g) /\ s \in PlacedOn(g)
      /\ g \in Gpu /\ computeOf[s] \in ComputeMode
  BY HeldPlaced, SharesAssumption DEF ReserveShare, HeldOn, PlacedOn
<1>2. s \notin Held
  BY LoopHasCaller, ResultsType DEF ReserveShare, BookInv, Bookkeeping, HeldBy, SharesOf
<1>3. HeldOn(g) \in SUBSET Share /\ PlacedOn(g) \in SUBSET Share
  BY <1>1, PlacedTypes DEF HeldOn, Held
<1>4. Cardinality(HeldOn(g) \cup {s}) <= Cardinality(PlacedOn(g))
  BY <1>1, <1>3, SharesFinite, FS_Subset
<1>5. Cardinality(HeldOn(g) \cup {s}) = Cardinality(HeldOn(g)) + 1
  BY <1>2, <1>3, CountOneMore DEF HeldOn
<1>6. Cardinality(PlacedOn(g)) <= partitions[computeOf[s]]
  BY <1>1 DEF PlacedFits
<1>7. QED
  BY <1>1, <1>2, <1>3, <1>4, <1>5, <1>6, SharesFinite, PartitionsAssumption

LEMMA SlotsStep ==
    ASSUME BookInv, Accounted, SlotsInRange, PlacedFits, DeviceNext
    PROVE  SlotsInRange'
<1>1. TypeOK /\ TableInv
  BY DEF BookInv, ControlInv, DeviceTypeOK, Bookkeeping, TableInv, SlotsInRange
<1>2. CASE Crash
  <2>1. assignedSlots' = saved.slots /\ UNCHANGED saved
    BY <1>2, RestartReadsSlots DEF BookInv, RecoverFromSlots, Crash, diskVars
  <2>2. QED
    BY <2>1 DEF SlotsInRange, SlotWithinPartitions, Held, Assigned
<1>3. CASE ~Crash
  <2>1. BookStep /\ saved' \in {saved, CurrentSnapshot}
    BY <1>3, StepsBook, StepTypes DEF BookInv
  <2>2. \A s \in Assigned(saved.slots)' : saved'.slots[s] < partitions[computeOf[s]]
    BY <2>1 DEF SlotsInRange, SlotWithinPartitions, Held, Assigned, CurrentSnapshot
  <2>3. ASSUME UNCHANGED assignedSlots PROVE SlotWithinPartitions'
    BY <2>3 DEF SlotsInRange, SlotWithinPartitions, Held
  <2>4. CASE UNCHANGED psVars \/ LoopStarts
    <3>1. UNCHANGED assignedSlots
      BY <2>4 DEF psVars, tableVars, LoopStarts, BeginReserve, BeginRelease
    <3>2. QED
      BY <2>2, <2>3, <3>1 DEF SlotsInRange
  <2>5. ASSUME NEW s \in Share, ReserveConflict(s) PROVE SlotWithinPartitions'
    BY <2>3, <2>5 DEF ReserveConflict, tableVars
  <2>6. CASE ReserveDone \/ UndoDone \/ ReleaseDone
    <3>1. UNCHANGED assignedSlots
      BY <2>6 DEF ReserveDone, UndoDone, ReleaseDone, LoopEnds, tableVars
    <3>2. QED
      BY <2>2, <2>3, <3>1 DEF SlotsInRange
  <2>7. ASSUME NEW s \in Share, ReserveShare(s) PROVE SlotWithinPartitions'
    BY <1>1, <2>7, ReserveHasRoom, ReserveTables DEF ReserveShare, TableInv
  <2>8. ASSUME NEW s \in Share, UndoShare(s) \/ ReleaseShare(s) PROVE SlotWithinPartitions'
    <3>1. s \in Held /\ ReleasePartition(s)
      BY <2>8 DEF UndoShare, ReleaseShare, BookInv, Bookkeeping, HeldBy
    <3>2. QED
      BY <1>1, <3>1, ReleaseTables DEF TableInv
  <2>9. QED
    BY <2>1, <2>2, <2>4, <2>5, <2>6, <2>7, <2>8 DEF BookStep, LoopStep, SlotsInRange
<1>4. QED
  BY <1>2, <1>3

-----------------------------------------------------------------------------
(* The hardware is on its way to what is on disk. *)

\* Locks and disk agree on the memory mode when an Unprepare writes.
LEMMA OthersMode ==
    ASSUME BookInv, Matched, stage \in {"uncommit", "unwrite"}, Held # {}
    PROVE  Assigned(saved.slots) # {} /\ saved.mode = activeMemoryMode
<1>1. op = "none" /\ rpcClaim \notin reservedClaims
  BY DEF BookInv, ControlInv, Control, CallerKnows, DeviceTypeOK, TypeOK, Ops, ReleaseStages
<1>2. PICK s \in Held : TRUE
  OBVIOUS
<1>3. claimOf[s] \in Claim /\ s \in HeldBy(claimOf[s])
  BY <1>2, SharesAssumption DEF Held, HeldBy
<1>4. claimOf[s] \in reservedClaims /\ Results(claimOf[s]) # {}
  BY <1>1, <1>3 DEF BookInv, Bookkeeping, Whole
<1>5. claimOf[s] \in OnDisk
  BY <1>1, <1>3, <1>4 DEF Matched
<1>6. QED
  BY <1>1, <1>4, <1>5, SavedMode

\* A memory mode that is behind without a reload in flight is behind for
\* everything on disk, so nothing is.
LEMMA BehindMeansNoneSaved ==
    ASSUME BookInv, LeakInv, stage = "apply", applyTodo # {}, memoryReload = NoReload,
           NEW g \in Gpu, ReadMemory(g) # MemoryWanted(rpcClaim)
    PROVE  Assigned(saved.slots) = {} /\ applyTodo = GpusOf(rpcClaim)
<1>1. /\ MemoryWanted(rpcClaim) = activeMemoryMode
      /\ MemoryWanted(rpcClaim) \in MemoryMode
  BY CallWants, WantedTypes DEF SettingStages, BookInv, ControlInv, DeviceTypeOK, TypeOK
<1>2. ~Ready(activeMemoryMode)
  BY <1>1 DEF Ready, ReadMemory
<1>3. Assigned(saved.slots) # {} => saved.mode = activeMemoryMode
  BY SavedWanted DEF LeakInv, SettingStages
<1>4. QED
  BY <1>1, <1>2, <1>3, ModesAssumption
     DEF LeakInv, Reloading, Heading, NoReload, Setting, ServingStages

LEMMA WrittenMode ==
    ASSUME WriteCheckpoint
    PROVE  /\ saved'.mode = activeMemoryMode /\ savedReload' = memoryReload
           /\ Assigned(saved.slots)' = Held
BY DEF WriteCheckpoint, CurrentSnapshot, Assigned, Held

LEMMA ReloadingStep ==
    ASSUME Tidy, BookInv, LeakInv, DeviceNext
    PROVE  Reloading'
<1>1. UNCHANGED saved => Assigned(saved.slots)' = Assigned(saved.slots)
  BY SavedFrame
<1>2. WriteCheckpoint => /\ saved'.mode = activeMemoryMode /\ savedReload' = memoryReload
                         /\ Assigned(saved.slots)' = Held
  BY WrittenMode
<1>3. stage \in SettingStages \cup ServingStages /\ Assigned(saved.slots) # {} =>
          saved.mode = activeMemoryMode
  BY SavedWanted DEF LeakInv
<1>4. stage \in SettingStages /\ applyTodo # {} => MemoryWanted(rpcClaim) = activeMemoryMode
  BY CallWants
<1>5. stage \in {"provision"} => applyTodo # {}
  BY DEF BookInv, ControlInv, Control, SettingStages
<1>6. Reloading
  BY DEF LeakInv
<1>7. stage = "commit" => memoryReload = NoReload /\ Ready(activeMemoryMode)
  BY DEF LeakInv, Setting, ServingStages
<1> USE <1>1, <1>2, <1>3, <1>4, <1>5, <1>6, TidyFacts
    DEF Reloading, Heading, Ready, May, GoTo, Return, BeginRollback, SettingStages,
       ServingStages, mainVars, memVars, rpcVars, diskVars, hwVars, psVars, tableVars, modeVars
<1>8. ASSUME NEW c \in Claim, Kubelet(c) PROVE Reloading'
  BY <1>8 DEF Kubelet, PrepareCached, PrepareStart, UnprepareUnknown, UnprepareStart
<1>9. ASSUME NEW c \in Claim, PodArrives(c) \/ PodDeleted(c) \/ ClaimReused(c)
      PROVE  Reloading'
  BY <1>9 DEF PodArrives, PodDeleted, ClaimReused
<1>10. CASE ReloadCompletes
  BY <1>10 DEF ReloadCompletes
<1>11. CASE DeadlinePasses \/ Shutdown
  BY <1>11 DEF DeadlinePasses, Shutdown
<1>12. CASE Crash
  BY <1>12 DEF Crash, RecoverFromCheckpoint
<1>13. CASE ReserveStep \/ RollbackStep \/ UnreserveStep \/ UnprepareRelease
  BY <1>13 DEF ReserveStep, RollbackStep, UnreserveStep, UnprepareRelease
<1>14. CASE PublishTaints
  BY <1>14 DEF PublishTaints
<1>15. CASE PollReload
  <2>1. CASE stage' = "compute"
    <3>1. /\ stage = "apply" /\ applyTodo # {}
          /\ \A g \in Gpu : ReadMemory(g) = MemoryWanted(rpcClaim)
      BY <1>15, <2>1 DEF PollReload, MemoryConverged
    <3>2. Ready(activeMemoryMode)
      BY <3>1, ConvergedMeansReady
    <3>3. QED
      BY <1>15, <2>1, <3>1, <3>2 DEF PollReload
  <2>2. CASE stage' = "pending"
    BY <1>15, <2>2 DEF PollReload
  <2>3. CASE stage' = "rollback"
    <3>1. memoryReload' = memoryReload
      BY <1>15, <2>3 DEF PollReload, LeakInv, NeverLate
    <3>2. QED
      BY <1>15, <2>3, <3>1 DEF PollReload
  <2>4. QED
    BY <1>15, <2>1, <2>2, <2>3 DEF PollReload
<1>16. CASE StageMemory
  <2>1. CASE stage' = "trigger"
    <3>1. /\ stage = "apply" /\ applyTodo # {} /\ memoryReload = NoReload
          /\ \E g \in Gpu : ReadMemory(g) # MemoryWanted(rpcClaim)
      BY <1>16, <2>1 DEF StageMemory
    <3>2. Assigned(saved.slots) = {}
      BY <3>1, BehindMeansNoneSaved
    <3>3. QED
      BY <1>16, <2>1, <3>2 DEF StageMemory
  <2>2. CASE stage' # "trigger"
    BY <1>16, <2>2 DEF StageMemory
  <2>3. QED
    BY <2>1, <2>2
<1>17. CASE UnloadDriver
  BY <1>17 DEF UnloadDriver
<1>18. CASE ProvisionDriver
  <2>1. [mode |-> MemoryWanted(rpcClaim), late |-> FALSE].mode = MemoryWanted(rpcClaim)
    OBVIOUS
  <2>2. QED
    BY <1>18, <2>1 DEF ProvisionDriver
<1>19. CASE ReloadPending
  BY <1>19 DEF ReloadPending
<1>20. CASE SetCompute
  BY <1>20 DEF SetCompute
<1>21. CASE PrepareDevices \/ CreateClaimSpecFile
  BY <1>21 DEF PrepareDevices, CreateClaimSpecFile
<1>22. CASE CommitPrepare
  BY <1>7, <1>22 DEF CommitPrepare
<1>23. CASE ReplyPrepared \/ DeleteClaimSpecFile \/ UnprepareRepublish
  BY <1>23 DEF ReplyPrepared, DeleteClaimSpecFile, UnprepareRepublish
<1>24. CASE UnreserveCommit \/ CommitUnprepare
  <2>1. stage \in {"uncommit", "unwrite"} /\ WriteCheckpoint
        /\ UNCHANGED <<memoryReload, driver, hwMemory, activeMemoryMode>>
        /\ stage' \notin {"trigger", "provision", "pending"}
    BY <1>24 DEF UnreserveCommit, CommitUnprepare
  <2>2. Held # {} => Assigned(saved.slots) # {} /\ saved.mode = activeMemoryMode
    BY <2>1, OthersMode DEF LeakInv
  <2>3. QED
    BY <2>1, <2>2
<1>25. CASE StartupWire \/ StartupBuild \/ StartupPublish
  BY <1>25 DEF StartupWire, StartupBuild, StartupPublish
<1>26. QED
  BY <1>8, <1>9, <1>10, <1>11, <1>12, <1>13, <1>14, <1>15, <1>16, <1>17, <1>18, <1>19,
     <1>20, <1>21, <1>22, <1>23, <1>24, <1>25 DEF DeviceNext, Running

LEMMA SettingStep ==
    ASSUME Tidy, BookInv, LeakInv, DeviceNext
    PROVE  Setting'
<1>1. /\ rpcClaim \in Claim \cup {NoClaim} /\ NoClaim \notin Claim
      /\ stage = "idle" <=> rpcClaim = NoClaim
      /\ hwCompute \in [Gpu -> ComputeMode] /\ applyTodo \subseteq Gpu
      /\ stage \in SettingStages => applyTodo \subseteq GpusOf(rpcClaim)
      /\ stage \in SettingStages \ {"apply"} => applyTodo # {}
  BY ModesAssumption DEF BookInv, ControlInv, Control, DeviceTypeOK
<1>2. \A c \in Claim : \A s \in Results(c) : gpuOf[s] \in GpusOf(c) /\ gpuOf[s] \in Gpu
  BY ResultsType DEF GpusOf
<1>3. stage = "pending" => memoryReload # NoReload
  <2>1. ASSUME stage = "pending" PROVE memoryReload.mode \in MemoryMode
    BY <1>1, <2>1, CallWants, WantedTypes
       DEF LeakInv, Reloading, SettingStages, BookInv, ControlInv, DeviceTypeOK, TypeOK
  <2>2. QED
    BY <2>1, ModesAssumption DEF NoReload
<1>4. Setting
  BY DEF LeakInv
<1> USE <1>1, <1>2, <1>3, <1>4, TidyFacts
    DEF Setting, Ready, May, GoTo, Return, BeginRollback, BeginReserve, BeginRelease,
       SettingStages, ServingStages, mainVars, memVars, rpcVars, diskVars, hwVars, psVars,
       tableVars, modeVars
<1>5. ASSUME NEW c \in Claim, Kubelet(c) PROVE Setting'
  BY <1>5 DEF Kubelet, PrepareCached, PrepareStart, UnprepareUnknown, UnprepareStart
<1>6. ASSUME NEW c \in Claim, PodArrives(c) \/ PodDeleted(c) \/ ClaimReused(c) PROVE Setting'
  BY <1>6 DEF PodArrives, PodDeleted, ClaimReused
<1>7. CASE ReloadCompletes
  BY <1>7 DEF ReloadCompletes
<1>8. CASE DeadlinePasses \/ Shutdown
  BY <1>8 DEF DeadlinePasses, Shutdown
<1>9. CASE Crash
  BY <1>9 DEF Crash
<1>10. CASE ReserveStep
  BY <1>10 DEF ReserveStep
<1>11. CASE RollbackStep \/ UnreserveStep \/ UnprepareRelease
  BY <1>11 DEF RollbackStep, UnreserveStep, UnprepareRelease
<1>12. CASE PublishTaints
  BY <1>12 DEF PublishTaints
<1>13. CASE PollReload
  <2>1. /\ stage = "apply" /\ applyTodo # {} /\ memoryReload # NoReload
        /\ MemoryConverged(MemoryWanted(rpcClaim)) => Ready(activeMemoryMode)
    BY <1>13, ConvergedMeansReady DEF PollReload, MemoryConverged
  <2>2. applyTodo = GpusOf(rpcClaim)
    BY <2>1
  <2>3. QED
    BY <1>13, <2>1, <2>2 DEF PollReload
<1>14. CASE StageMemory
  <2>1. stage = "apply" /\ applyTodo # {} /\ memoryReload = NoReload
    BY <1>14 DEF StageMemory
  <2>2. CASE stage' = "compute"
    <3>1. \A g \in Gpu : ReadMemory(g) = MemoryWanted(rpcClaim)
      BY <1>14, <2>2 DEF StageMemory
    <3>2. Ready(activeMemoryMode)
      BY <2>1, <3>1, ConvergedMeansReady
    <3>3. QED
      BY <1>14, <2>1, <2>2, <3>2 DEF StageMemory
  <2>3. CASE stage' = "trigger"
    <3>1. \E g \in Gpu : ReadMemory(g) # MemoryWanted(rpcClaim)
      BY <1>14, <2>3 DEF StageMemory
    <3>2. applyTodo = GpusOf(rpcClaim)
      BY <2>1, <3>1, BehindMeansNoneSaved
    <3>3. QED
      BY <1>14, <2>1, <2>3, <3>2 DEF StageMemory
  <2>4. CASE stage' = "rollback"
    BY <1>14, <2>4 DEF StageMemory
  <2>5. QED
    BY <1>14, <2>2, <2>3, <2>4 DEF StageMemory
<1>15. CASE UnloadDriver
  BY <1>15 DEF UnloadDriver
<1>16. CASE ProvisionDriver
  BY <1>16 DEF ProvisionDriver
<1>17. CASE ReloadPending
  BY <1>17 DEF ReloadPending
<1>18. CASE SetCompute
  <2>1. /\ stage = "compute" /\ rpcClaim \in reservedClaims /\ op = "none"
        /\ UNCHANGED <<rpcClaim, memoryReload, driver, hwMemory>>
    BY <1>18, CallWants DEF SetCompute
  <2>2. CASE stage' = "rollback"
    BY <2>2
  <2>3. CASE stage' # "rollback"
    <3>1. PICK g \in applyTodo :
              /\ hwCompute' = [hwCompute EXCEPT ![g] = ComputeWanted(rpcClaim, g)]
              /\ applyTodo' = applyTodo \ {g}
              /\ stage' = IF applyTodo' = {} THEN "devices" ELSE "apply"
              /\ UNCHANGED activeMemoryMode
      BY <1>18, <2>3 DEF SetCompute
    <3>2. \A s \in Results(rpcClaim) :
              gpuOf[s] = g => ComputeWanted(rpcClaim, g) = computeOf[s]
      BY <2>1, <3>1, WantedLocked
    <3>3. \A s \in Results(rpcClaim) :
              gpuOf[s] \notin applyTodo' => hwCompute'[gpuOf[s]] = computeOf[s]
      BY <2>1, <3>1, <3>2
    <3>4. QED
      BY <2>1, <3>1, <3>3
  <2>4. QED
    BY <2>2, <2>3
<1>19. CASE PrepareDevices \/ CreateClaimSpecFile \/ CommitPrepare
  BY <1>19 DEF PrepareDevices, CreateClaimSpecFile, CommitPrepare
<1>20. CASE ReplyPrepared \/ UnreserveCommit \/ DeleteClaimSpecFile
  BY <1>20 DEF ReplyPrepared, UnreserveCommit, DeleteClaimSpecFile
<1>21. CASE CommitUnprepare \/ UnprepareRepublish
  BY <1>21 DEF CommitUnprepare, UnprepareRepublish
<1>22. CASE StartupWire \/ StartupBuild \/ StartupPublish
  BY <1>22 DEF StartupWire, StartupBuild, StartupPublish
<1>23. QED
  BY <1>5, <1>6, <1>7, <1>8, <1>9, <1>10, <1>11, <1>12, <1>13, <1>14, <1>15, <1>16, <1>17,
     <1>18, <1>19, <1>20, <1>21, <1>22 DEF DeviceNext, Running

-----------------------------------------------------------------------------
(* The invariant, and what is left on a node without pods. *)

LEMMA LeakInit == DeviceInit => LeakInv
<1> SUFFICES ASSUME DeviceInit PROVE LeakInv
  OBVIOUS
<1>1. /\ Assigned(saved.slots) = {} /\ Held = {} /\ OnDisk = {}
      /\ reservedClaims = {} /\ stage = "idle"
  BY DEF DeviceInit, Init, Assigned, EmptySnapshot, Held, OnDisk, SavedBy
<1>2. Accounted /\ SlotsInRange /\ NeverLate
  BY <1>1 DEF DeviceInit, Accounted, SlotsInRange, SlotWithinPartitions, NeverLate, NoReload
<1>3. Matched /\ Reloading /\ Setting
  BY <1>1 DEF Matched, Reloading, Setting, SettingStages, ServingStages, PrepareStages
<1>4. QED
  BY <1>2, <1>3 DEF LeakInv

LEMMA LeakUnchanged == LeakInv /\ UNCHANGED dsVars => LeakInv'
<1> SUFFICES ASSUME LeakInv, UNCHANGED dsVars PROVE LeakInv'
  OBVIOUS
<1> USE DEF LeakInv, dsVars, memVars, psVars, tableVars, modeVars, loopVars, rpcVars, mainVars,
       diskVars, hwVars
<1>1. /\ Assigned(saved.slots)' = Assigned(saved.slots) /\ OnDisk' = OnDisk
      /\ Held' = Held /\ Present' = Present
  BY SavedFrame DEF Held, Present
<1>2. Accounted' /\ SlotsInRange' /\ NeverLate'
  BY <1>1 DEF Accounted, SlotsInRange, SlotWithinPartitions, NeverLate
<1>3. Matched' /\ Reloading' /\ Setting'
  BY <1>1 DEF Matched, Reloading, Heading, Ready, Setting
<1>4. QED
  BY <1>2, <1>3

LEMMA LeakPreserved ==
    ASSUME Tidy
    PROVE  BookInv /\ PlacedFits /\ LeakInv /\ [DeviceNext]_dsVars => LeakInv'
<1> SUFFICES ASSUME BookInv, PlacedFits, LeakInv, DeviceNext PROVE LeakInv'
  BY LeakUnchanged
<1>1. Accounted' /\ Matched' /\ Reloading' /\ Setting'
  BY AccountedStep, MatchedStep, ReloadingStep, SettingStep
<1>2. NeverLate' /\ SlotsInRange'
  BY NeverLateStep, SlotsStep DEF LeakInv, BookInv
<1>3. QED
  BY <1>1, <1>2 DEF LeakInv

LEMMA LeakHolds ==
    ASSUME Tidy
    PROVE  DeviceSpec => [](BookInv /\ LeakInv)
<1>1. BookInv /\ [DeviceNext]_dsVars => BookInv'
  BY TidyFacts, BookPreserved
<1>2. BookInv /\ PlacedFits /\ [DeviceNext]_dsVars => PlacedFits'
  BY PlacedPreserved DEF BookInv
<1>3. QED
  BY <1>1, <1>2, BookInit, PlacedInit, LeakInit, LeakPreserved, PTL DEF DeviceSpec

\* While the process lives, the claims that hold a reservation have a pod: only
\* a restart can bring one back that is gone.
ReservedPresent == reservedClaims \subseteq Present

LEMMA ReservedPresentStep ==
    ASSUME ControlInv, ReservedPresent, DeviceNext, ~Crash
    PROVE  ReservedPresent'
<1>1. /\ pod \in [Claim -> PodStates] /\ reservedClaims \subseteq Claim
      /\ rpcClaim \in Claim \cup {NoClaim} /\ NoClaim \notin Claim
      /\ stage = "idle" <=> rpcClaim = NoClaim
      /\ op # "none" => caller = rpcClaim
      /\ stage = "reserve" => pod[rpcClaim] # "none"
      /\ stage \in {"uncommit", "republish"} => rpcClaim \notin reservedClaims
  BY ModesAssumption
     DEF ControlInv, Control, CallerKnows, DeviceTypeOK, TypeOK, PrepareStages
<1> USE <1>1
    DEF ReservedPresent, Present, PodStates, HasReservation, BeginRollback, BeginReserve,
       BeginRelease, LoopEnds, memVars, psVars
<1>2. ASSUME NEW c \in Claim, Kubelet(c) PROVE ReservedPresent'
  BY <1>2 DEF Kubelet, PrepareCached, PrepareStart, UnprepareUnknown, UnprepareStart
<1>3. ASSUME NEW c \in Claim, PodArrives(c) \/ PodDeleted(c) \/ ClaimReused(c)
      PROVE  ReservedPresent'
  BY <1>3 DEF PodArrives, PodDeleted, ClaimReused
<1>4. CASE ReloadCompletes \/ DeadlinePasses \/ Shutdown
  BY <1>4 DEF ReloadCompletes, DeadlinePasses, Shutdown
<1>5. CASE ReserveStep
  BY <1>5 DEF ReserveStep, ReserveShare, ReserveConflict, UndoShare, ReserveDone, UndoDone
<1>6. CASE RollbackStep \/ UnreserveStep \/ UnprepareRelease
  BY <1>6 DEF RollbackStep, UnreserveStep, UnprepareRelease, ReleaseShare, ReleaseDone
<1>7. CASE PublishTaints \/ PollReload \/ StageMemory \/ UnloadDriver \/ ProvisionDriver
  BY <1>7 DEF PublishTaints, PollReload, StageMemory, UnloadDriver, ProvisionDriver
<1>8. CASE SetCompute \/ PrepareDevices \/ CreateClaimSpecFile \/ CommitPrepare
  BY <1>8 DEF SetCompute, PrepareDevices, CreateClaimSpecFile, CommitPrepare
<1>9. CASE ReloadPending \/ ReplyPrepared \/ UnreserveCommit \/ DeleteClaimSpecFile
  BY <1>9 DEF ReloadPending, ReplyPrepared, UnreserveCommit, DeleteClaimSpecFile
<1>10. CASE CommitUnprepare \/ UnprepareRepublish
  BY <1>10 DEF CommitUnprepare, UnprepareRepublish
<1>11. CASE StartupWire \/ StartupBuild \/ StartupPublish
  BY <1>11 DEF StartupWire, StartupBuild, StartupPublish
<1>12. QED
  BY <1>2, <1>3, <1>4, <1>5, <1>6, <1>7, <1>8, <1>9, <1>10, <1>11 DEF DeviceNext, Running

LEMMA ReservedPresentHolds ==
    ASSUME "crash" \notin Faults
    PROVE  DeviceSpec => []ReservedPresent
<1>1. DeviceInit => ReservedPresent
  BY DEF DeviceInit, Init, ReservedPresent
<1>2. ControlInv /\ ReservedPresent /\ [DeviceNext]_dsVars => ReservedPresent'
  <2> SUFFICES ASSUME ControlInv, ReservedPresent, [DeviceNext]_dsVars PROVE ReservedPresent'
    OBVIOUS
  <2>1. ~Crash
    BY DEF Crash, May
  <2>2. CASE UNCHANGED dsVars
    BY <2>2 DEF dsVars, memVars, psVars, ReservedPresent, Present
  <2>3. QED
    BY <2>1, <2>2, ReservedPresentStep
<1>3. QED
  BY <1>1, <1>2, ControlHolds, PTL DEF DeviceSpec

\* No claim keeps a reservation after its pod is gone: without restarts under
\* every failure, with them under those after which the checkpoint is current.
THEOREM NoGhosts ==
    ASSUME Tidy \/ "crash" \notin Faults
    PROVE  DeviceSpec => []NoGhostReservation
<1>1. ReservedPresent => NoGhostReservation
  BY DEF ReservedPresent, Present, NoGhostReservation
<1>2. CASE Tidy
  <2>1. LeakInv => ReservedPresent
    BY DEF LeakInv, Accounted, ReservedPresent
  <2>2. QED
    BY <1>1, <1>2, <2>1, LeakHolds, PTL
<1>3. CASE "crash" \notin Faults
  BY <1>1, <1>3, ReservedPresentHolds, PTL
<1>4. QED
  BY <1>2, <1>3

\* The slots a claim's device nodes are looked up by exist on its GPUs, though
\* the slots may come from a checkpoint an earlier process wrote.
THEOREM SlotsExist ==
    ASSUME Tidy
    PROVE  DeviceSpec => []SlotWithinPartitions
<1>1. LeakInv => SlotWithinPartitions
  BY DEF LeakInv, SlotsInRange
<1>2. QED
  BY <1>1, LeakHolds, PTL

\* A coherent snapshot without slots is the empty one.
LEMMA NoSlotsEmpty ==
    ASSUME NEW snap \in Snapshot, Coherent(snap), Assigned(snap.slots) = {}
    PROVE  snap = EmptySnapshot
<1>1. snap.mode = NoMode
  BY DEF Coherent
<1>2. snap.compute = [g \in Gpu |-> NoMode]
  <2>1. snap.compute \in [Gpu -> ComputeMode \cup {NoMode}]
    BY DEF Snapshot
  <2>2. \A g \in Gpu : snap.compute[g] = NoMode
    BY DEF Coherent
  <2>3. QED
    BY <2>1, <2>2
<1>3. snap.slots = [s \in Share |-> NoSlot]
  BY DEF Assigned, Snapshot
<1>4. QED
  BY <1>1, <1>2, <1>3 DEF Snapshot, EmptySnapshot

\* Once every pod is gone the node is as free as a new one: nothing is held,
\* tainted or prepared, and the checkpoint is an empty one.
THEOREM EmptyNodeIsFree ==
    ASSUME Tidy
    PROVE  DeviceSpec => []NothingLeaks
<1>1. BookInv /\ LeakInv => NothingLeaks
  <2> SUFFICES ASSUME BookInv, LeakInv, stage = "idle", \A c \in Claim : pod[c] = "none"
               PROVE  /\ Held = {} /\ reservedClaims = {} /\ TaintedModes = {}
                      /\ preparedClaims = {}
                      /\ saved = EmptySnapshot
    BY DEF NothingLeaks
  <2>1. reservedClaims = {} /\ OnDisk = {}
    BY DEF LeakInv, Accounted, Present
  <2>2. op = "none"
    BY DEF BookInv, ControlInv, Control, DeviceTypeOK, TypeOK, Ops, ReleaseStages
  <2>3. Held = {}
    <3>1. \A c \in Claim : HeldBy(c) = {}
      BY <2>1, <2>2 DEF BookInv, Bookkeeping, Whole
    <3>2. QED
      BY <3>1, SharesAssumption DEF HeldBy, Held
  <2>4. TaintedModes = {}
    BY <2>3 DEF BookInv, Bookkeeping, CoreInv, LocksMatchHolders, TaintedModes
  <2>5. preparedClaims = {}
    BY DEF BookInv, ControlInv, CallerKnows, DeviceTypeOK
  <2>6. Assigned(saved.slots) = {}
    BY <2>1, SharesAssumption DEF OnDisk, SavedBy, Assigned
  <2>7. saved = EmptySnapshot
    BY <2>6, NoSlotsEmpty DEF BookInv, Recorded, ControlInv, DeviceTypeOK, TypeOK
  <2>8. QED
    BY <2>1, <2>3, <2>4, <2>5, <2>7
<1>2. QED
  BY <1>1, LeakHolds, PTL

=============================================================================

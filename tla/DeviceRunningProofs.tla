------------------------- MODULE DeviceRunningProofs -------------------------
(***************************************************************************)
(* Proofs about what DeviceState promises a running pod: its reservation,  *)
(* its slots and the hardware under it stay as Prepare left them.          *)
(*                                                                         *)
(* A claim lives from the moment Prepare records it until its pod is       *)
(* deleted.  The invariant is stated for living claims, of which the       *)
(* running ones are some, and says in addition how far the running call    *)
(* has brought the hardware, so that nothing is reloaded or repartitioned  *)
(* under a living claim.                                                   *)
(***************************************************************************)
EXTENDS DeviceStateProofs

\* The failures under which the promise is kept: a claim whose Unprepare gave
\* up half way is not taken over by another pod.
Steady == Recoverable /\ "reuse" \notin Faults

NoneLives == \A c \in Claim : ~Lives(c)

\* The driver is loaded and every GPU is in memory mode m.
Ready(m) == driver = "loaded" /\ \A g \in Gpu : hwMemory[g] = m

\* The claim's GPUs are in its compute modes.
Split(c) == \A s \in Results(c) : hwCompute[gpuOf[s]] = computeOf[s]

\* A share of a split GPU holds a partition the GPU has.
InRange(c) == \A s \in Results(c) : computeOf[s] # WholeGpu =>
                  assignedSlots[s] \in 0 .. (partitions[computeOf[s]] - 1)

\* What a living claim has in memory, on disk and in the CDI directory.
Leased(c) ==
    /\ c \in reservedClaims /\ c \in cdiSpecs
    /\ \A s \in Results(c) : /\ assignedSlots[s] = preparedSlots[s]
                             /\ saved.slots[s] = preparedSlots[s]

Served(c) == Split(c) /\ \A s \in Results(c) : Ready(memoryOf[s])

RunningPrepared == \A c \in Claim : pod[c] = "running" => c \in preparedClaims

\* How far the call has brought the hardware.
Progress ==
    /\ stage \in {"compute", "devices", "cdi", "commit"} => Ready(activeMemoryMode)
    /\ stage \in {"trigger", "provision"} => NoneLives
    /\ stage \in {"cdi", "commit"} => Split(rpcClaim) /\ InRange(rpcClaim)
    /\ stage = "commit" => rpcClaim \in cdiSpecs

LiveInv ==
    /\ RunningPrepared
    /\ \A c \in Claim : Lives(c) => Leased(c) /\ Served(c)
    /\ Progress

-----------------------------------------------------------------------------
(* What the modes of a reserved claim are. *)

\* The modes a call asks for on behalf of a reserved claim are the locked ones.
LEMMA WantedLocked ==
    ASSUME BookInv, op = "none", NEW c \in reservedClaims
    PROVE  /\ \A s \in Results(c) : /\ s \in Held
                                    /\ memoryOf[s] = activeMemoryMode
                                    /\ computeOf[s] = gpuComputeModes[gpuOf[s]]
           /\ GpusOf(c) # {} => MemoryWanted(c) = activeMemoryMode
           /\ \A g \in GpusOf(c) : ComputeWanted(c, g) = gpuComputeModes[g]
<1>1. c \in Claim
  BY DEF BookInv, ControlInv, DeviceTypeOK, TypeOK
<1>2. HeldBy(c) = Results(c)
  BY <1>1 DEF BookInv, Bookkeeping, Whole
<1>3. \A s \in Results(c) : /\ s \in Held /\ s \in Share
                            /\ memoryOf[s] = activeMemoryMode
                            /\ computeOf[s] = gpuComputeModes[gpuOf[s]]
  BY <1>2 DEF HeldBy, Held, BookInv, Bookkeeping, CoreInv, LocksMatchHolders
<1>4. ASSUME NEW s \in Results(c) PROVE MemoryWanted(c) = activeMemoryMode
  <2>1. memoryOf[s] \in MemoryMode
    BY <1>3, SharesAssumption
  <2>2. \E m \in MemoryMode : \E t \in Results(c) : m = memoryOf[t]
    BY <2>1
  <2>3. \E t \in Results(c) : MemoryWanted(c) = memoryOf[t]
    BY <2>2 DEF MemoryWanted
  <2>4. QED
    BY <1>3, <2>3
<1>5. ASSUME NEW s \in Results(c)
      PROVE  ComputeWanted(c, gpuOf[s]) = gpuComputeModes[gpuOf[s]]
  <2>1. computeOf[s] \in ComputeMode
    BY <1>3, SharesAssumption
  <2>2. \E m \in ComputeMode : \E t \in Results(c) : gpuOf[t] = gpuOf[s] /\ m = computeOf[t]
    BY <2>1
  <2>3. \E t \in Results(c) : /\ gpuOf[t] = gpuOf[s]
                              /\ ComputeWanted(c, gpuOf[s]) = computeOf[t]
    BY <2>2 DEF ComputeWanted
  <2>4. QED
    BY <1>3, <2>3
<1>6. QED
  BY <1>3, <1>4, <1>5 DEF GpusOf

\* A living claim has results; it is the running call's own only at its end.
LEMMA LivesFacts ==
    ASSUME ControlInv, NEW c \in Claim, Lives(c)
    PROVE  /\ Results(c) # {}
           /\ c = rpcClaim => stage = "reply" /\ op = "none"
BY ModesAssumption
   DEF Lives, ControlInv, CallerKnows, Control, GpusOf, RecordedStages, UnprepareStages,
       ReleaseStages, DeviceTypeOK, TypeOK, Ops

-----------------------------------------------------------------------------
(* The lease of a living claim. *)

\* Only the end of Prepare brings a claim to life; nothing else touches what is
\* on disk for a living one.
LEMMA LivesFrame ==
    ASSUME ControlInv, DeviceNext, "reuse" \notin Faults, NEW c \in Claim, Lives(c)',
           ~(CommitPrepare /\ c = rpcClaim)
    PROVE  /\ Lives(c)
           /\ c \in cdiSpecs => c \in cdiSpecs'
           /\ \A s \in Results(c) : preparedSlots'[s] = preparedSlots[s]
           /\ \/ UNCHANGED saved
              \/ saved' = CurrentSnapshot /\ UNCHANGED psVars
<1> DEFINE Goal == /\ Lives(c)
                   /\ c \in cdiSpecs => c \in cdiSpecs'
                   /\ \A s \in Results(c) : preparedSlots'[s] = preparedSlots[s]
                   /\ \/ UNCHANGED saved
                      \/ saved' = CurrentSnapshot /\ UNCHANGED psVars
<1>1. /\ \A s \in Results(c) : s \in Share /\ claimOf[s] = c
      /\ preparedSlots \in [Share -> Slot \cup {NoSlot}]
      /\ rpcClaim \in Claim => \A s \in Results(rpcClaim) : claimOf[s] = rpcClaim
  BY ResultsType DEF ControlInv, DeviceTypeOK, SharesOf
<1>2. /\ pod \in [Claim -> PodStates]
      /\ stage # "idle" => rpcClaim \in Claim
      /\ rpcClaim \in preparedClaims <=> stage \in RecordedStages
      /\ stage \in UnprepareStages => pod[rpcClaim] = "terminating"
      /\ stage = "reply" => pod[rpcClaim] \in {"pending", "running"}
      /\ \A d \in preparedClaims : pod[d] # "none"
  BY ModesAssumption
     DEF ControlInv, Control, CallerKnows, DeviceTypeOK, PrepareStages, ServingStages
<1> USE <1>1, <1>2 DEF Lives, GoTo, Return, May, WriteCheckpoint, BeginRollback, RecordedStages,
       UnprepareStages, mainVars, memVars, diskVars, hwVars
<1>3. ASSUME NEW d \in Claim, Kubelet(d) PROVE Goal
  BY <1>3 DEF Kubelet, PrepareCached, PrepareStart, UnprepareUnknown, UnprepareStart
<1>4. ASSUME NEW d \in Claim, PodArrives(d) \/ PodDeleted(d) \/ ClaimReused(d) PROVE Goal
  BY <1>4 DEF PodArrives, PodDeleted, ClaimReused
<1>5. CASE ReloadCompletes \/ DeadlinePasses \/ Shutdown \/ Crash
  BY <1>5 DEF ReloadCompletes, DeadlinePasses, Shutdown, Crash
<1>6. CASE ReserveStep \/ PublishTaints \/ RollbackStep \/ PollReload \/ StageMemory
  BY <1>6 DEF ReserveStep, PublishTaints, RollbackStep, PollReload, StageMemory
<1>7. CASE UnloadDriver \/ ProvisionDriver \/ SetCompute \/ PrepareDevices
  BY <1>7 DEF UnloadDriver, ProvisionDriver, SetCompute, PrepareDevices
<1>8. CASE CreateClaimSpecFile
  BY <1>8 DEF CreateClaimSpecFile
<1>9. CASE CommitPrepare
  BY <1>9 DEF CommitPrepare
<1>10. CASE ReloadPending \/ ReplyPrepared \/ UnreserveStep \/ UnreserveCommit
  BY <1>10 DEF ReloadPending, ReplyPrepared, UnreserveStep, UnreserveCommit
<1>11. CASE UnprepareRelease \/ DeleteClaimSpecFile \/ UnprepareRepublish
  BY <1>11 DEF UnprepareRelease, DeleteClaimSpecFile, UnprepareRepublish
<1>12. CASE CommitUnprepare
  BY <1>12 DEF CommitUnprepare
<1>13. CASE StartupWire \/ StartupBuild \/ StartupPublish
  BY <1>13 DEF StartupWire, StartupBuild, StartupPublish
<1>14. QED
  BY <1>3, <1>4, <1>5, <1>6, <1>7, <1>8, <1>9, <1>10, <1>11, <1>12, <1>13
     DEF DeviceNext, Running

LEMMA LeasedStep ==
    ASSUME BookInv, LiveInv, "reuse" \notin Faults, DeviceNext, NEW c \in Claim, Lives(c)'
    PROVE  Leased(c)'
<1>1. \A s \in Results(c) : s \in Share /\ s \in SharesOf(c) /\ claimOf[s] = c
  BY ResultsType DEF SharesOf
<1>2. CASE CommitPrepare /\ c = rpcClaim
  <2>1. /\ stage = "commit" /\ UNCHANGED <<assignedSlots, reservedClaims, cdiSpecs>>
        /\ WriteCheckpoint
        /\ \A s \in Results(c) : preparedSlots'[s] = assignedSlots[s]
    <3>1. rpcClaim \notin preparedClaims
      BY <1>2 DEF CommitPrepare, BookInv, ControlInv, CallerKnows, RecordedStages
    <3>2. ~UNCHANGED diskVars
      BY <1>2, <3>1 DEF Lives, diskVars
    <3>3. QED
      BY <1>1, <1>2, <3>2 DEF CommitPrepare, psVars, tableVars
  <2>2. c \in reservedClaims
    BY <1>2, <2>1 DEF BookInv, ControlInv, CallerKnows, ServingStages
  <2>3. c \in cdiSpecs
    BY <1>2, <2>1 DEF LiveInv, Progress
  <2>4. QED
    BY <2>1, <2>2, <2>3 DEF Leased, WriteCheckpoint, CurrentSnapshot
<1>3. CASE ~(CommitPrepare /\ c = rpcClaim)
  <2>1. /\ Lives(c)
        /\ c \in cdiSpecs => c \in cdiSpecs'
        /\ \A s \in Results(c) : preparedSlots'[s] = preparedSlots[s]
        /\ \/ UNCHANGED saved
           \/ saved' = CurrentSnapshot /\ UNCHANGED psVars
    BY <1>3, LivesFrame DEF BookInv
  <2>2. Leased(c) /\ (op = "none" \/ c # rpcClaim) /\ Results(c) # {}
    BY <2>1, LivesFacts DEF LiveInv, BookInv
  <2>3. CASE Crash
    <3>1. /\ reservedClaims' = {d \in Claim : SavedBy(d) # {}}
          /\ assignedSlots' = saved.slots /\ UNCHANGED saved
      BY <2>3, RestartBooks, RestartReadsSlots DEF BookInv, RecoverFromSlots, Crash, diskVars
    <3>2. SavedBy(c) = Results(c)
      BY <2>1, <2>3 DEF Lives, BookInv, Recorded, Crash, May
    <3>3. QED
      BY <2>1, <2>2, <3>1, <3>2 DEF Leased
  <2>4. CASE ~Crash
    <3>1. /\ c \in reservedClaims'
          /\ \A s \in SharesOf(c) : assignedSlots'[s] = assignedSlots[s]
      BY <2>2, <2>4, TablesFrame, StepsBook DEF BookInv, Leased
    <3>2. \A s \in Results(c) : saved'.slots[s] \in {saved.slots[s], assignedSlots[s]}
      BY <2>1 DEF CurrentSnapshot
    <3>3. QED
      BY <1>1, <2>1, <2>2, <3>1, <3>2 DEF Leased
  <2>5. QED
    BY <2>3, <2>4
<1>4. QED
  BY <1>2, <1>3

-----------------------------------------------------------------------------
(* The hardware under a living claim. *)

\* The call stands at a reserved claim with GPUs to set, and asks for the modes
\* that are locked.
LEMMA CallWants ==
    ASSUME BookInv, stage \in SettingStages \cup ServingStages
    PROVE  /\ rpcClaim \in reservedClaims /\ op = "none"
           /\ stage \in SettingStages =>
                  /\ applyTodo \subseteq GpusOf(rpcClaim)
                  /\ applyTodo # {} => MemoryWanted(rpcClaim) = activeMemoryMode
<1>1. /\ rpcClaim \in reservedClaims /\ op = "none"
      /\ stage \in SettingStages => applyTodo \subseteq GpusOf(rpcClaim)
  BY DEF BookInv, ControlInv, CallerKnows, Control, DeviceTypeOK, TypeOK, Ops,
         SettingStages, ServingStages, RecordedStages, ReleaseStages
<1>2. QED
  BY <1>1, WantedLocked

\* Without a driver nothing lives.
LEMMA LivesLoaded ==
    ASSUME ControlInv, LiveInv, NEW c \in Claim, Lives(c)
    PROVE  driver = "loaded"
BY LivesFacts DEF LiveInv, Served, Ready

\* All that is done to the hardware under a claim that lives.
LEMMA HardwareFrame ==
    ASSUME BookInv, LiveInv, DeviceNext
    PROVE  \/ UNCHANGED <<driver, hwMemory, hwCompute>>
           \/ stage \in {"trigger", "provision"} /\ ~CommitPrepare
           \/ driver # "loaded" /\ ~CommitPrepare /\ UNCHANGED <<stage, rpcClaim>>
           \/ SetCompute
<1> USE DEF hwVars
<1>1. ASSUME NEW c \in Claim, Kubelet(c) \/ PodArrives(c) \/ PodDeleted(c) \/ ClaimReused(c)
      PROVE  UNCHANGED <<driver, hwMemory, hwCompute>>
  BY <1>1 DEF Kubelet, PrepareCached, PrepareStart, UnprepareUnknown, UnprepareStart,
              PodArrives, PodDeleted, ClaimReused
<1>2. CASE DeadlinePasses \/ Shutdown \/ Crash
  BY <1>2 DEF DeadlinePasses, Shutdown, Crash
<1>3. CASE ReloadCompletes
  <2>1. driver # "loaded" /\ UNCHANGED <<stage, rpcClaim, preparedClaims>>
    BY <1>3 DEF ReloadCompletes, rpcVars, diskVars
  <2>2. ~CommitPrepare
    BY <2>1 DEF CommitPrepare, GoTo, BeginRollback
  <2>3. QED
    BY <2>1, <2>2
<1>4. CASE ReserveStep \/ PublishTaints \/ RollbackStep \/ PollReload \/ StageMemory
  BY <1>4 DEF ReserveStep, PublishTaints, RollbackStep, PollReload, StageMemory
<1>5. CASE UnloadDriver \/ ProvisionDriver
  BY <1>5 DEF UnloadDriver, ProvisionDriver, CommitPrepare
<1>6. CASE ReloadPending \/ PrepareDevices \/ CreateClaimSpecFile \/ CommitPrepare
  BY <1>6 DEF ReloadPending, PrepareDevices, CreateClaimSpecFile, CommitPrepare
<1>7. CASE ReplyPrepared \/ UnreserveStep \/ UnreserveCommit
  BY <1>7 DEF ReplyPrepared, UnreserveStep, UnreserveCommit
<1>8. CASE UnprepareRelease \/ DeleteClaimSpecFile \/ CommitUnprepare \/ UnprepareRepublish
  BY <1>8 DEF UnprepareRelease, DeleteClaimSpecFile, CommitUnprepare, UnprepareRepublish
<1>9. CASE StartupWire \/ StartupBuild \/ StartupPublish
  BY <1>9 DEF StartupWire, StartupBuild, StartupPublish
<1>10. QED
  BY <1>1, <1>2, <1>3, <1>4, <1>5, <1>6, <1>7, <1>8, <1>9 DEF DeviceNext, Running

LEMMA ServedStep ==
    ASSUME BookInv, LiveInv, "reuse" \notin Faults, DeviceNext, NEW c \in Claim, Lives(c)'
    PROVE  Served(c)'
<1> USE DEF Served, Split, Ready
<1>1. CASE CommitPrepare /\ c = rpcClaim
  <2>1. stage = "commit" /\ UNCHANGED <<driver, hwMemory, hwCompute>>
    BY <1>1 DEF CommitPrepare, hwVars
  <2>2. \A s \in Results(c) : memoryOf[s] = activeMemoryMode
    BY <1>1, <2>1, CallWants, WantedLocked DEF ServingStages
  <2>3. QED
    BY <1>1, <2>1, <2>2 DEF LiveInv, Progress
<1>2. CASE ~(CommitPrepare /\ c = rpcClaim)
  <2>1. Lives(c)
    BY <1>2, LivesFrame DEF BookInv
  <2>2. Served(c) /\ Leased(c) /\ driver = "loaded"
    BY <2>1, LivesLoaded DEF LiveInv, BookInv
  <2>3. CASE UNCHANGED <<driver, hwMemory, hwCompute>>
    BY <2>2, <2>3
  <2>4. CASE SetCompute
    <3>1. stage = "compute"
      BY <2>4 DEF SetCompute
    <3>2. /\ rpcClaim \in reservedClaims /\ op = "none"
          /\ applyTodo \subseteq GpusOf(rpcClaim)
      BY <3>1, CallWants DEF SettingStages
    <3>3. \A s \in Results(c) : gpuOf[s] \in applyTodo =>
              ComputeWanted(rpcClaim, gpuOf[s]) = computeOf[s]
      BY <2>2, <3>2, WantedLocked DEF Leased
    <3>4. hwCompute \in [Gpu -> ComputeMode]
      BY DEF BookInv, ControlInv, DeviceTypeOK
    <3>5. \A s \in Results(c) : hwCompute'[gpuOf[s]] = computeOf[s]
      <4>1. PICK g \in applyTodo :
                \/ hwCompute' = [hwCompute EXCEPT ![g] = ComputeWanted(rpcClaim, g)]
                \/ UNCHANGED hwCompute
        BY <2>4 DEF SetCompute
      <4>2. \A s \in Results(c) : gpuOf[s] \in Gpu
        BY ResultsType DEF GpusOf
      <4>3. QED
        BY <2>2, <3>3, <3>4, <4>1, <4>2
    <3>6. QED
      BY <2>2, <2>4, <3>5 DEF SetCompute
  <2>5. QED
    BY <2>1, <2>2, <2>3, <2>4, HardwareFrame DEF LiveInv, Progress, NoneLives
<1>3. QED
  BY <1>1, <1>2

\* A memory mode that is behind is behind for every living claim, so none lives
\* when a reload is staged.
LEMMA BehindMeansNoneLives ==
    ASSUME BookInv, LiveInv, stage = "apply", applyTodo # {},
           NEW g \in Gpu, ReadMemory(g) # MemoryWanted(rpcClaim)
    PROVE  NoneLives
<1> SUFFICES ASSUME NEW c \in Claim, Lives(c) PROVE FALSE
  BY DEF NoneLives
<1>1. MemoryWanted(rpcClaim) = activeMemoryMode /\ op = "none"
  BY CallWants DEF SettingStages
<1>2. PICK s \in Results(c) : Ready(memoryOf[s])
  BY LivesFacts DEF LiveInv, Served, BookInv
<1>3. memoryOf[s] = activeMemoryMode
  BY <1>1, WantedLocked DEF LiveInv, Leased
<1>4. QED
  BY <1>1, <1>2, <1>3 DEF Ready, ReadMemory

LEMMA ConvergedMeansReady ==
    ASSUME BookInv, stage = "apply", applyTodo # {},
           \A g \in Gpu : ReadMemory(g) = MemoryWanted(rpcClaim)
    PROVE  Ready(activeMemoryMode)
<1>1. MemoryWanted(rpcClaim) = activeMemoryMode
  BY CallWants DEF SettingStages
<1>2. MemoryWanted(rpcClaim) \in MemoryMode
  BY CallWants, WantedTypes DEF SettingStages, BookInv, ControlInv, DeviceTypeOK, TypeOK
<1>3. PICK g \in Gpu : g \in applyTodo
  BY DEF BookInv, ControlInv, DeviceTypeOK
<1>4. driver = "loaded"
  BY <1>2, <1>3, ModesAssumption DEF ReadMemory
<1>5. QED
  BY <1>1, <1>4 DEF Ready, ReadMemory

LEMMA ProgressStep ==
    ASSUME BookInv, LiveInv, "reuse" \notin Faults, DeviceNext
    PROVE  Progress'
<1>1. ~CommitPrepare /\ NoneLives => NoneLives'
  BY LivesFrame DEF BookInv, NoneLives
<1>2. Progress /\ (stage # "commit" => ~CommitPrepare)
  BY DEF LiveInv, CommitPrepare
<1>3. /\ applyTodo \subseteq Gpu
      /\ stage \in {"compute", "devices", "cdi", "commit"} => op = "none" 
  BY CallWants DEF SettingStages, ServingStages, BookInv, ControlInv, DeviceTypeOK
<1> USE <1>1, <1>2, <1>3 DEF Progress, Split, Ready, InRange, GoTo, Return, BeginRollback, mainVars, memVars,
       rpcVars, hwVars, psVars, tableVars, modeVars
<1>4. ASSUME NEW c \in Claim, Kubelet(c) PROVE Progress'
  BY <1>4 DEF Kubelet, PrepareCached, PrepareStart, UnprepareUnknown, UnprepareStart
<1>5. ASSUME NEW c \in Claim, PodArrives(c) \/ PodDeleted(c) \/ ClaimReused(c) PROVE Progress'
  BY <1>5 DEF PodArrives, PodDeleted, ClaimReused
<1>6. CASE DeadlinePasses \/ Shutdown \/ Crash
  BY <1>6 DEF DeadlinePasses, Shutdown, Crash
<1>7. CASE ReloadCompletes
  BY <1>7 DEF ReloadCompletes
<1>8. CASE ReserveStep
  BY <1>8 DEF ReserveStep
<1>9. CASE PublishTaints \/ RollbackStep
  BY <1>9 DEF PublishTaints, RollbackStep
<1>10. CASE PollReload
  <2>1. CASE stage' = "compute"
    <3>1. /\ stage = "apply" /\ applyTodo # {}
          /\ \A g \in Gpu : ReadMemory(g) = MemoryWanted(rpcClaim)
      BY <1>10, <2>1 DEF PollReload, MemoryConverged
    <3>2. Ready(activeMemoryMode)
      BY <3>1, ConvergedMeansReady
    <3>3. QED
      BY <1>10, <2>1, <3>2 DEF PollReload
  <2>2. CASE stage' # "compute"
    BY <1>10, <2>2 DEF PollReload
  <2>3. QED
    BY <2>1, <2>2
<1>11. CASE StageMemory
  <2>1. CASE stage' = "compute"
    <3>1. /\ stage = "apply" /\ applyTodo # {}
          /\ \A g \in Gpu : ReadMemory(g) = MemoryWanted(rpcClaim)
      BY <1>11, <2>1 DEF StageMemory
    <3>2. Ready(activeMemoryMode)
      BY <3>1, ConvergedMeansReady
    <3>3. QED
      BY <1>11, <2>1, <3>2 DEF StageMemory
  <2>2. CASE stage' = "trigger"
    <3>1. /\ stage = "apply" /\ applyTodo # {}
          /\ \E g \in Gpu : ReadMemory(g) # MemoryWanted(rpcClaim)
      BY <1>11, <2>2 DEF StageMemory
    <3>2. NoneLives
      BY <3>1, BehindMeansNoneLives
    <3>3. QED
      BY <1>11, <2>2, <3>2, <3>1
  <2>3. CASE stage' = "rollback"
    BY <2>3
  <2>4. QED
    BY <1>11, <2>1, <2>2, <2>3 DEF StageMemory
<1>12. CASE UnloadDriver \/ ProvisionDriver
  BY <1>12 DEF UnloadDriver, ProvisionDriver
<1>13. CASE ReloadPending
  BY <1>13 DEF ReloadPending
<1>14. CASE SetCompute
  BY <1>14 DEF SetCompute
<1>15. CASE PrepareDevices
  BY <1>15 DEF PrepareDevices, NodesFound
<1>16. CASE CreateClaimSpecFile
  BY <1>16 DEF CreateClaimSpecFile
<1>17. CASE CommitPrepare
  BY <1>17 DEF CommitPrepare
<1>18. CASE ReplyPrepared \/ UnreserveStep \/ UnreserveCommit
  BY <1>18 DEF ReplyPrepared, UnreserveStep, UnreserveCommit
<1>19. CASE UnprepareRelease \/ DeleteClaimSpecFile \/ CommitUnprepare \/ UnprepareRepublish
  BY <1>19 DEF UnprepareRelease, DeleteClaimSpecFile, CommitUnprepare, UnprepareRepublish
<1>20. CASE StartupWire \/ StartupBuild \/ StartupPublish
  BY <1>20 DEF StartupWire, StartupBuild, StartupPublish
<1>21. QED
  BY <1>4, <1>5, <1>6, <1>7, <1>8, <1>9, <1>10, <1>11, <1>12, <1>13, <1>14, <1>15, <1>16,
     <1>17, <1>18, <1>19, <1>20 DEF DeviceNext, Running

-----------------------------------------------------------------------------
(* The invariant and what it says of running pods. *)

LEMMA RunningPreparedStep ==
    ASSUME ControlInv, RunningPrepared, DeviceNext
    PROVE  RunningPrepared'
<1>1. /\ pod \in [Claim -> PodStates]
      /\ stage \in {"reply", "unwrite"} => rpcClaim \in preparedClaims
      /\ stage = "unwrite" => pod[rpcClaim] = "terminating"
  BY DEF ControlInv, CallerKnows, DeviceTypeOK, RecordedStages, UnprepareStages
<1> USE <1>1 DEF RunningPrepared, diskVars
<1>2. ASSUME NEW c \in Claim, Kubelet(c) PROVE RunningPrepared'
  BY <1>2 DEF Kubelet, PrepareCached, PrepareStart, UnprepareUnknown, UnprepareStart
<1>3. ASSUME NEW c \in Claim, PodArrives(c) \/ PodDeleted(c) \/ ClaimReused(c)
      PROVE  RunningPrepared'
  BY <1>3 DEF PodArrives, PodDeleted, ClaimReused
<1>4. CASE ReloadCompletes \/ DeadlinePasses \/ Shutdown \/ Crash
  BY <1>4 DEF ReloadCompletes, DeadlinePasses, Shutdown, Crash
<1>5. CASE ReserveStep \/ PublishTaints \/ RollbackStep \/ PollReload \/ StageMemory
  BY <1>5 DEF ReserveStep, PublishTaints, RollbackStep, PollReload, StageMemory
<1>6. CASE UnloadDriver \/ ProvisionDriver \/ ReloadPending \/ SetCompute \/ PrepareDevices
  BY <1>6 DEF UnloadDriver, ProvisionDriver, ReloadPending, SetCompute, PrepareDevices
<1>7. CASE CreateClaimSpecFile \/ CommitPrepare \/ ReplyPrepared
  BY <1>7 DEF CreateClaimSpecFile, CommitPrepare, ReplyPrepared
<1>8. CASE UnreserveStep \/ UnreserveCommit \/ UnprepareRelease \/ DeleteClaimSpecFile
  BY <1>8 DEF UnreserveStep, UnreserveCommit, UnprepareRelease, DeleteClaimSpecFile
<1>9. CASE CommitUnprepare \/ UnprepareRepublish
  BY <1>9 DEF CommitUnprepare, UnprepareRepublish
<1>10. CASE StartupWire \/ StartupBuild \/ StartupPublish
  BY <1>10 DEF StartupWire, StartupBuild, StartupPublish
<1>11. QED
  BY <1>2, <1>3, <1>4, <1>5, <1>6, <1>7, <1>8, <1>9, <1>10 DEF DeviceNext, Running

LEMMA LiveInit == DeviceInit => LiveInv
BY DEF DeviceInit, LiveInv, RunningPrepared, Lives, Progress

LEMMA LivePreserved ==
    ASSUME Steady
    PROVE  BookInv /\ LiveInv /\ [DeviceNext]_dsVars => LiveInv'
<1> SUFFICES ASSUME BookInv, LiveInv, [DeviceNext]_dsVars PROVE LiveInv'
  OBVIOUS
<1>1. CASE UNCHANGED dsVars
  BY <1>1 DEF LiveInv, RunningPrepared, Lives, NoneLives, Leased, Served, Split, Ready,
              InRange, Progress,
              dsVars, memVars, psVars, tableVars, modeVars, rpcVars, diskVars, hwVars
<1>2. CASE DeviceNext
  <2>1. RunningPrepared' /\ Progress'
    BY <1>2, RunningPreparedStep, ProgressStep DEF Steady, BookInv, LiveInv
  <2>2. \A c \in Claim : Lives(c)' => Leased(c)' /\ Served(c)'
    BY <1>2, LeasedStep, ServedStep DEF Steady
  <2>3. QED
    BY <2>1, <2>2 DEF LiveInv
<1>3. QED
  BY <1>1, <1>2

LEMMA LiveHolds ==
    ASSUME Steady
    PROVE  DeviceSpec => [](BookInv /\ LiveInv)
<1>1. Recoverable
  BY DEF Steady
<1>2. QED
  BY <1>1, BookInit, BookPreserved, LiveInit, LivePreserved, PTL DEF DeviceSpec

LEMMA RunningLives ==
    ASSUME LiveInv, NEW c \in RunningClaims
    PROVE  c \in Claim /\ Lives(c)
BY DEF LiveInv, RunningPrepared, RunningClaims, Lives

\* A running pod's claim is prepared, reserved and has its spec file, and its
\* slots are the same in memory, in the checkpoint's slots and in its own
\* record: a restart at any step rebuilds what the containers were given.
THEOREM LeaseOfRunning ==
    ASSUME Steady
    PROVE  DeviceSpec => []RunningHasLease
<1>1. LiveInv => RunningHasLease
  BY RunningLives DEF LiveInv, RunningHasLease, Leased, HasReservation, Lives
<1>2. QED
  BY <1>1, LiveHolds, PTL

\* Nothing is reloaded or repartitioned under a running pod, by any claim's
\* Prepare at any step of it, by a restart or by an operator that comes late.
THEOREM HardwareOfRunning ==
    ASSUME Steady
    PROVE  DeviceSpec => []HardwareMatchesRunning
<1>1. BookInv /\ LiveInv => HardwareMatchesRunning
  <2> SUFFICES ASSUME BookInv, LiveInv, NEW c \in RunningClaims
               PROVE  /\ driver = "loaded"
                      /\ \A s \in Results(c) : /\ hwCompute[gpuOf[s]] = computeOf[s]
                                               /\ \A g \in Gpu : hwMemory[g] = memoryOf[s]
    BY DEF HardwareMatchesRunning
  <2>1. c \in Claim /\ Lives(c)
    BY RunningLives
  <2>2. driver = "loaded" /\ Served(c)
    BY <2>1, LivesLoaded DEF BookInv, LiveInv
  <2>3. QED
    BY <2>2 DEF Served, Split, Ready
<1>2. QED
  BY <1>1, LiveHolds, PTL

\* A living claim holds all of its results, whatever loop is running.
LEMMA LivesHeld ==
    ASSUME BookInv, LiveInv, NEW c \in Claim, Lives(c)
    PROVE  HeldBy(c) = Results(c)
<1>1. c \in reservedClaims
  BY DEF LiveInv, Leased
<1>2. op = "none" \/ c # caller
  BY LivesFacts DEF BookInv, ControlInv, Control
<1>3. QED
  BY <1>1, <1>2 DEF BookInv, Bookkeeping, Whole

\* Two running pods are never given the same partition: on a split GPU their
\* slots differ, and the scheduler never places two shares on a whole one.
THEOREM IsolationOfRunning ==
    ASSUME Steady
    PROVE  DeviceSpec => []RunningExclusive
<1>1. BookInv /\ LiveInv /\ PlacedFits => RunningExclusive
  <2> SUFFICES ASSUME BookInv, LiveInv, PlacedFits,
                      NEW c \in RunningClaims, NEW d \in RunningClaims,
                      NEW s \in Results(c), NEW t \in Results(d), c # d, gpuOf[s] = gpuOf[t]
               PROVE  computeOf[s] # WholeGpu /\ preparedSlots[s] # preparedSlots[t]
    BY DEF RunningExclusive
  <2>1. /\ c \in Claim /\ Lives(c) /\ d \in Claim /\ Lives(d)
        /\ claimOf[s] = c /\ claimOf[t] = d
    BY RunningLives, ResultsType DEF SharesOf
  <2>2. /\ s \in Held /\ t \in Held
        /\ preparedSlots[s] = assignedSlots[s] /\ preparedSlots[t] = assignedSlots[t]
    BY <2>1, LivesHeld DEF HeldBy, LiveInv, Leased
  <2>3. preparedSlots[s] # preparedSlots[t]
    BY <2>1, <2>2 DEF BookInv, Bookkeeping, CoreInv, SlotsExclusive
  <2>4. s \in Placed /\ t \in Placed
    BY <2>1 DEF RunningClaims, Placed, Present
  <2>5. QED
    BY <2>1, <2>3, <2>4, WholeGpuAlone
<1>2. QED
  BY <1>1, LiveHolds, PlacedHolds, PTL

-----------------------------------------------------------------------------
(* Prepare and Unprepare implement DeviceGrants. *)

\* The shares granted are the results of the living claims.
LEMMA GrantedShares ==
    ASSUME BookInv, LiveInv, NEW s \in Share
    PROVE  /\ GrantedSlots[s] # NoSlot <=> s \in Results(claimOf[s]) /\ Lives(claimOf[s])
           /\ GrantedSlots[s] # NoSlot => /\ GrantedSlots[s] = preparedSlots[s]
                                          /\ preparedSlots[s] = assignedSlots[s]
                                          /\ s \in Held /\ s \in Placed
<1>1. claimOf[s] \in Claim
  BY SharesAssumption
<1>2. ASSUME s \in Results(claimOf[s]), Lives(claimOf[s])
      PROVE  s \in Held /\ preparedSlots[s] = assignedSlots[s] /\ s \in Placed
  <2>1. s \in Held /\ preparedSlots[s] = assignedSlots[s]
    BY <1>1, <1>2, LivesHeld DEF HeldBy, LiveInv, Leased
  <2>2. pod[claimOf[s]] # "none"
    BY <1>2 DEF Lives, BookInv, ControlInv, CallerKnows
  <2>3. QED
    BY <1>1, <1>2, <2>1, <2>2 DEF Placed, Present
<1>3. QED
  BY <1>2 DEF GrantedSlots, Held

\* Two shares of living claims are two devices.
GrantedApart ==
    \A s, t \in Share :
        s # t /\ GrantedSlots[s] # NoSlot /\ GrantedSlots[t] # NoSlot /\ gpuOf[s] = gpuOf[t]
            => computeOf[s] # WholeGpu /\ GrantedSlots[s] # GrantedSlots[t]

LEMMA LivingApart == BookInv /\ LiveInv /\ PlacedFits => GrantedApart
<1> SUFFICES ASSUME BookInv, LiveInv, PlacedFits, NEW s \in Share, NEW t \in Share, s # t,
                    GrantedSlots[s] # NoSlot, GrantedSlots[t] # NoSlot, gpuOf[s] = gpuOf[t]
             PROVE  computeOf[s] # WholeGpu /\ GrantedSlots[s] # GrantedSlots[t]
  BY DEF GrantedApart
<1>1. /\ s \in Held /\ t \in Held /\ s \in Placed /\ t \in Placed
      /\ GrantedSlots[s] = assignedSlots[s] /\ GrantedSlots[t] = assignedSlots[t]
  BY GrantedShares
<1>2. assignedSlots[s] # assignedSlots[t]
  BY <1>1 DEF BookInv, Bookkeeping, CoreInv, SlotsExclusive
<1>3. QED
  BY <1>1, <1>2, WholeGpuAlone

\* A living claim loses its devices with its pod.
LEMMA LivesEnds ==
    ASSUME ControlInv, DeviceNext, NEW c \in Claim, Lives(c), ~Lives(c)'
    PROVE  PodDeleted(c)
<1>1. /\ pod \in [Claim -> PodStates]
      /\ stage \in UnprepareStages => pod[rpcClaim] = "terminating"
      /\ stage # "idle" => rpcClaim \in Claim
  BY ModesAssumption DEF ControlInv, Control, CallerKnows, DeviceTypeOK
<1> USE <1>1 DEF Lives, UnprepareStages, diskVars
<1>2. ASSUME NEW d \in Claim, Kubelet(d) PROVE FALSE
  BY <1>2 DEF Kubelet, PrepareCached, PrepareStart, UnprepareUnknown, UnprepareStart
<1>3. ASSUME NEW d \in Claim, PodArrives(d) \/ ClaimReused(d) PROVE FALSE
  BY <1>3 DEF PodArrives, ClaimReused
<1>4. ASSUME NEW d \in Claim, PodDeleted(d) PROVE c = d
  BY <1>4 DEF PodDeleted
<1>5. CASE ReloadCompletes \/ DeadlinePasses \/ Shutdown \/ Crash
  BY <1>5 DEF ReloadCompletes, DeadlinePasses, Shutdown, Crash
<1>6. CASE ReserveStep \/ PublishTaints \/ RollbackStep \/ PollReload \/ StageMemory
  BY <1>6 DEF ReserveStep, PublishTaints, RollbackStep, PollReload, StageMemory
<1>7. CASE UnloadDriver \/ ProvisionDriver \/ ReloadPending \/ SetCompute \/ PrepareDevices
  BY <1>7 DEF UnloadDriver, ProvisionDriver, ReloadPending, SetCompute, PrepareDevices
<1>8. CASE CreateClaimSpecFile \/ CommitPrepare \/ ReplyPrepared
  BY <1>8 DEF CreateClaimSpecFile, CommitPrepare, ReplyPrepared
<1>9. CASE UnreserveStep \/ UnreserveCommit \/ UnprepareRelease \/ DeleteClaimSpecFile
  BY <1>9 DEF UnreserveStep, UnreserveCommit, UnprepareRelease, DeleteClaimSpecFile
<1>10. CASE CommitUnprepare \/ UnprepareRepublish
  BY <1>10 DEF CommitUnprepare, UnprepareRepublish
<1>11. CASE StartupWire \/ StartupBuild \/ StartupPublish
  BY <1>11 DEF StartupWire, StartupBuild, StartupPublish
<1>12. QED
  BY <1>2, <1>3, <1>4, <1>5, <1>6, <1>7, <1>8, <1>9, <1>10, <1>11 DEF DeviceNext, Running

\* The successful end of Prepare.
LEMMA GrantStep ==
    ASSUME BookInv, LiveInv, GrantedApart', CommitPrepare,
           preparedClaims' = preparedClaims \cup {rpcClaim},
           preparedSlots' = [s \in Share |-> IF s \in Results(rpcClaim)
                                             THEN assignedSlots[s] ELSE preparedSlots[s]]
    PROVE  Grants!Grant(rpcClaim)
<1>1. /\ stage = "commit" /\ UNCHANGED <<driver, hwMemory, hwCompute, pod, rpcClaim>>
      /\ rpcClaim \in Claim /\ rpcClaim \notin preparedClaims
      /\ pod[rpcClaim] # "terminating"
  BY ModesAssumption
     DEF CommitPrepare, GoTo, BeginRollback, hwVars, BookInv, ControlInv, Control,
         CallerKnows, DeviceTypeOK, RecordedStages, PrepareStages, ServingStages
<1>2. /\ \A s \in Results(rpcClaim) : s \in Share /\ claimOf[s] = rpcClaim
      /\ \A s \in Share \ Results(rpcClaim) : s \in Results(claimOf[s]) => claimOf[s] # rpcClaim
  BY <1>1, ResultsType DEF SharesOf
<1>3. GrantedSlots' \in [Share -> Int]
  <2>1. preparedSlots' \in [Share -> Int]
    BY SharesFinite DEF BookInv, ControlInv, DeviceTypeOK, TypeOK, Slot, NoSlot
  <2>2. QED
    BY <2>1 DEF GrantedSlots, NoSlot
<1>4. ASSUME NEW s \in Results(rpcClaim)
      PROVE  /\ GrantedSlots[s] = NoSlot
             /\ ReadCompute(gpuOf[s]) = computeOf[s]
             /\ \A g \in Gpu : ReadMemory(g) = memoryOf[s]
             /\ GrantedSlots'[s] # NoSlot /\ GrantedSlots'[s] = assignedSlots[s]
             /\ computeOf[s] # WholeGpu =>
                   assignedSlots[s] \in 0 .. (partitions[computeOf[s]] - 1)
  <2>1. GrantedSlots[s] = NoSlot /\ Lives(rpcClaim)'
    BY <1>1, <1>2 DEF GrantedSlots, Lives
  <2>2. memoryOf[s] = activeMemoryMode
    BY <1>1, CallWants, WantedLocked DEF ServingStages
  <2>3. /\ ReadCompute(gpuOf[s]) = computeOf[s]
        /\ \A g \in Gpu : ReadMemory(g) = memoryOf[s]
        /\ computeOf[s] # WholeGpu => assignedSlots[s] \in 0 .. (partitions[computeOf[s]] - 1)
    BY <1>1, <2>2 DEF LiveInv, Progress, Split, Ready, InRange, ReadCompute, ReadMemory
  <2>4. s \in Held
    BY <1>1, CallWants, WantedLocked DEF ServingStages
  <2>5. GrantedSlots'[s] = assignedSlots[s]
    BY <1>1, <1>2, <2>1 DEF GrantedSlots, Lives
  <2>6. QED
    BY <2>1, <2>3, <2>4, <2>5 DEF Held
<1>5. \A s \in Share \ Results(rpcClaim) : GrantedSlots'[s] = GrantedSlots[s]
  BY <1>1, <1>2 DEF GrantedSlots, Lives
<1>6. \A g \in Gpu : ReadMemory(g)' = ReadMemory(g) /\ ReadCompute(g)' = ReadCompute(g)
  BY <1>1 DEF ReadMemory, ReadCompute
<1>7. \A s \in Share : gpuOf[s] \in Gpu
  BY SharesAssumption
<1>9. QED
  BY <1>1, <1>2, <1>3, <1>4, <1>5, <1>6, <1>7
     DEF Grants!Grant, Grants!Granted, Grants!NoGrant, Grants!Serves, Grants!Exists,
         Grants!Apart, NoSlot, GrantedApart

\* The deletion of the pod of a claim.
LEMMA RevokeStep ==
    ASSUME ControlInv, NEW c \in Claim, PodDeleted(c)
    PROVE  Grants!Revoke(c)
<1>1. /\ UNCHANGED <<driver, hwMemory, hwCompute, preparedClaims, preparedSlots>>
      /\ pod' = [pod EXCEPT ![c] = "terminating"] /\ pod \in [Claim -> PodStates]
  BY DEF PodDeleted, hwVars, diskVars, ControlInv, DeviceTypeOK
<1>2. \A s \in Share : /\ claimOf[s] \in Claim
                       /\ s \in Results(c) <=> s \in Results(claimOf[s]) /\ claimOf[s] = c
  BY SharesAssumption DEF Results, SharesOf
<1>3. GrantedSlots' = [s \in Share |-> IF s \in Results(c) THEN NoSlot ELSE GrantedSlots[s]]
  BY <1>1, <1>2 DEF GrantedSlots, Lives
<1>4. \A g \in Gpu : ReadMemory(g)' = ReadMemory(g) /\ ReadCompute(g)' = ReadCompute(g)
  BY <1>1 DEF ReadMemory, ReadCompute
<1>5. QED
  BY <1>3, <1>4 DEF Grants!Revoke, Grants!NoGrant, NoSlot

\* Every other step leaves the grants and the hardware under them alone.
LEMMA UngrantedStep ==
    ASSUME BookInv, LiveInv, LiveInv', UNCHANGED GrantedSlots,
           \A c \in Claim : Lives(c) => Lives(c)'
    PROVE  Grants!Reconfigure
<1>1. ASSUME NEW s \in Share, GrantedSlots[s] # NoSlot
      PROVE  /\ \A g \in Gpu : ReadMemory(g)' = ReadMemory(g)
             /\ ReadCompute(gpuOf[s])' = ReadCompute(gpuOf[s])
  <2>1. /\ claimOf[s] \in Claim /\ s \in Results(claimOf[s])
        /\ Lives(claimOf[s]) /\ Lives(claimOf[s])'
    BY <1>1, GrantedShares, SharesAssumption
  <2>2. Served(claimOf[s]) /\ Served(claimOf[s])'
    BY <2>1 DEF LiveInv
  <2>3. QED
    BY <2>1, <2>2 DEF Served, Split, Ready, ReadMemory, ReadCompute
<1>2. QED
  BY <1>1, SharesAssumption DEF Grants!Reconfigure, Grants!Granted, Grants!NoGrant, NoSlot

LEMMA GrantsStep ==
    ASSUME BookInv, LiveInv, LiveInv', GrantedApart', "reuse" \notin Faults, DeviceNext
    PROVE  Grants!Next
<1>1. CASE \E c \in Claim : Lives(c) /\ ~Lives(c)'
  <2>1. PICK c \in Claim : PodDeleted(c)
    BY <1>1, LivesEnds DEF BookInv
  <2>2. QED
    BY <2>1, RevokeStep DEF BookInv, Grants!Next
<1>2. CASE \E c \in Claim : Lives(c)' /\ CommitPrepare /\ c = rpcClaim
  <2>1. rpcClaim \in Claim /\ rpcClaim \notin preparedClaims
    BY <1>2 DEF CommitPrepare, BookInv, ControlInv, CallerKnows, RecordedStages
  <2>2. CommitPrepare /\ ~UNCHANGED diskVars
    BY <1>2, <2>1 DEF Lives, diskVars
  <2>3. QED
    BY <2>1, <2>2, GrantStep DEF CommitPrepare, Grants!Next
<1>3. CASE /\ \A c \in Claim : Lives(c) => Lives(c)'
           /\ \A c \in Claim : Lives(c)' => ~(CommitPrepare /\ c = rpcClaim)
  <2>1. \A c \in Claim : Lives(c)' => /\ Lives(c)
                                     /\ \A s \in Results(c) : preparedSlots'[s] = preparedSlots[s]
    BY <1>3, LivesFrame DEF BookInv
  <2>2. UNCHANGED GrantedSlots
    BY <1>3, <2>1, SharesAssumption DEF GrantedSlots
  <2>3. QED
    BY <1>3, <2>2, UngrantedStep DEF Grants!Next
<1>4. QED
  BY <1>1, <1>2, <1>3

\* Prepare, Unprepare, the restarts and the reloads implement the grants of
\* devices to pods: all of a claim at once, on hardware that is ready, to nobody
\* else, and untouched until the pod is deleted.
THEOREM GrantsRefinement ==
    ASSUME Steady
    PROVE  DeviceSpec => ImplementsGrants
<1>1. DeviceInit => Grants!Init
  BY DEF DeviceInit, GrantedSlots, Lives, Grants!Init, Grants!NoGrant, NoSlot
<1>2. BookInv /\ LiveInv /\ LiveInv' /\ GrantedApart' /\ [DeviceNext]_dsVars
          => [Grants!Next]_<<GrantedSlots, [g \in Gpu |-> ReadMemory(g)],
                            [g \in Gpu |-> ReadCompute(g)]>>
  <2>1. UNCHANGED dsVars
            => UNCHANGED <<GrantedSlots, [g \in Gpu |-> ReadMemory(g)],
                           [g \in Gpu |-> ReadCompute(g)]>>
    BY DEF dsVars, diskVars, hwVars, GrantedSlots, Lives, ReadMemory, ReadCompute
  <2>2. QED
    BY <2>1, GrantsStep DEF Steady
<1>3. QED
  BY <1>1, <1>2, LiveHolds, PlacedHolds, LivingApart, PTL
     DEF DeviceSpec, ImplementsGrants, Grants!Spec

=============================================================================

----------------------------- MODULE DeviceState ----------------------------
(***************************************************************************)
(* Prepare and Unprepare of the kubelet plugin with AutoPartition enabled  *)
(* (cmd/gpu-kubeletplugin/state.go), the slow half of PartitionState they  *)
(* drive (ApplyPartition and the memory-mode driver reload), the           *)
(* checkpoint file, and recovery after a restart.                          *)
(*                                                                         *)
(* DeviceState's mutex admits one call at a time: "stage" is where the     *)
(* running call stands and "rpcClaim" the claim it is for.  Between two    *)
(* stages the process may be killed, the driver may finish reloading and   *)
(* the reload deadline may pass.  Everything a call can fail at is a       *)
(* member of Faults; a configuration enables the ones it is about.         *)
(***************************************************************************)
EXTENDS PartitionState

CONSTANTS
    Kmm,            \* the amdgpu driver is managed by the KMM operator
    WholeGpu,       \* spx, the mode of a GPU whose driver was just loaded
    DefaultMemory,  \* memory mode the node starts in
    positionalOf,   \* the key RecoverFromCheckpoint gives a share when the
                    \*   checkpoint has no slots; such a key maps to itself
    keyOrder,       \* the order it goes through those keys
    Faults          \* which of the failures below may happen

AllFaults == {"publish", "checkpoint", "cdi", "stage", "unload", "provision",
              "compute", "nodes", "deadline", "crash", "reuse", "delete",
              "early", "shutdown"}

ASSUME DeviceAssumption ==
    /\ Kmm \in BOOLEAN
    /\ WholeGpu \in ComputeMode /\ partitions[WholeGpu] = 1
    /\ DefaultMemory \in MemoryMode
    /\ positionalOf \in [Share -> Share]
    /\ keyOrder \in [Share -> Nat]
    /\ Faults \subseteq AllFaults

VARIABLES
    memoryReload,   \* marker of a driver reload in flight
    stage, rpcClaim, applyTodo, republish,      \* the running call
    startup, snapshot,  \* how far NewDriver has come, and the taints in the
                        \*   resources it built for the first publication
    smi,                \* the AMD SMI library is initialised
    preparedClaims, preparedSlots, savedReload, \* on disk, next to "saved"
    driver, hwMemory, hwCompute, stagedMemory,  \* the hardware
    published,      \* tainted memory modes in the published ResourceSlices
    cdiSpecs,       \* claims with a CDI spec file
    pod             \* what the kubelet is doing with each claim

rpcVars == <<stage, rpcClaim, applyTodo, republish>>
mainVars == <<startup, snapshot, smi>>
diskVars == <<saved, preparedClaims, preparedSlots, savedReload>>
hwVars == <<driver, hwMemory, hwCompute, stagedMemory>>
memVars == <<psVars, memoryReload>>
dsVars == <<memVars, rpcVars, mainVars, diskVars, hwVars, published, cdiSpecs, pod>>

NoReload == [mode |-> NoMode, late |-> FALSE]
Marker == [mode : MemoryMode, late : BOOLEAN] \cup {NoReload}

Stages == {"idle", "reserve", "publish", "apply", "trigger", "provision",
           "pending", "compute", "devices", "cdi", "commit", "rollback",
           "unreserve", "uncommit", "unprepare", "unspec", "unwrite",
           "republish", "reply"}

StartupSteps == {"served", "wired", "built", "done"}

PodStates == {"none", "pending", "running", "terminating"}

\* One share per allocation result of the claim.
Results(c) == {s \in SharesOf(c) : positionalOf[s] # s}
GpusOf(c) == {gpuOf[s] : s \in Results(c)}
MemoryWanted(c) == CHOOSE m \in MemoryMode : \E s \in Results(c) : m = memoryOf[s]
ComputeWanted(c, g) ==
    CHOOSE m \in ComputeMode : \E s \in Results(c) : gpuOf[s] = g /\ m = computeOf[s]

DeviceTypeOK ==
    /\ TypeOK
    /\ memoryReload \in Marker /\ savedReload \in Marker
    /\ stage \in Stages /\ rpcClaim \in Claim \cup {NoClaim}
    /\ applyTodo \subseteq Gpu /\ republish \in BOOLEAN
    /\ startup \in StartupSteps /\ snapshot \subseteq MemoryMode /\ smi \in BOOLEAN
    /\ preparedClaims \subseteq Claim
    /\ preparedSlots \in [Share -> Slot \cup {NoSlot}]
    /\ driver \in {"loaded", "unloaded", "reloading"}
    /\ hwMemory \in [Gpu -> MemoryMode] /\ stagedMemory \in [Gpu -> MemoryMode]
    /\ hwCompute \in [Gpu -> ComputeMode]
    /\ published \subseteq MemoryMode
    /\ cdiSpecs \subseteq Claim
    /\ pod \in [Claim -> PodStates]

DeviceInit ==
    /\ Init
    /\ memoryReload = NoReload /\ savedReload = NoReload
    /\ stage = "idle" /\ rpcClaim = NoClaim
    /\ applyTodo = {} /\ republish = FALSE
    /\ startup = "done" /\ snapshot = {} /\ smi = TRUE
    /\ preparedClaims = {}
    /\ preparedSlots = [s \in Share |-> NoSlot]
    /\ driver = "loaded"
    /\ hwMemory = [g \in Gpu |-> DefaultMemory]
    /\ stagedMemory = hwMemory
    /\ hwCompute = [g \in Gpu |-> WholeGpu]
    /\ published = {}
    /\ cdiSpecs = {}
    /\ pod = [c \in Claim |-> "none"]

-----------------------------------------------------------------------------
(* Pieces the handlers share. *)

May(fault) == fault \in Faults

GoTo(next) == stage' = next /\ UNCHANGED <<rpcClaim, applyTodo, republish>>

Return == stage' = "idle" /\ rpcClaim' = NoClaim /\ applyTodo' = {} /\ republish' = FALSE

\* The gRPC server runs before NewDriver has stored the helper and the driver:
\* a call that comes this early finds nobody to publish with.
Accepting == startup = "done" \/ May("early")
CanPublish == startup # "served"

\* republishResources, by callers that only log its failure.
RepublishIf(changed) ==
    \/ published' = IF changed /\ CanPublish THEN TaintedModes ELSE published
    \/ changed /\ May("publish") /\ UNCHANGED published

\* Mutant: only the reload marker is written.
WriteCheckpoint_MarkerOnly ==
    /\ savedReload' = memoryReload
    /\ UNCHANGED saved

\* savePartitionCheckpoint and CreateCheckpoint, which replaces the file.
WriteCheckpoint ==
    /\ saved' = CurrentSnapshot
    /\ savedReload' = memoryReload

\* rollbackPartitions: ReleaseClaim with the claim's shares; a no-op for a
\* claim that is not reserved.
BeginRollback ==
    /\ BeginRelease(rpcClaim, Results(rpcClaim))
    /\ GoTo("rollback")

ReadMemory(g) == IF driver = "loaded" THEN hwMemory[g] ELSE NoMode
MemoryConverged(m) == \A g \in Gpu : ReadMemory(g) = m

-----------------------------------------------------------------------------
(* Prepare. *)

PrepareCached(c) ==
    /\ stage = "idle" /\ Accepting
    /\ pod[c] \in {"pending", "running"}
    /\ c \in preparedClaims
    /\ pod' = [pod EXCEPT ![c] = "running"]
    /\ UNCHANGED <<mainVars, memVars, rpcVars, diskVars, hwVars, published, cdiSpecs>>

PrepareStart(c) ==
    /\ stage = "idle" /\ Accepting
    /\ pod[c] \in {"pending", "running"}
    /\ c \notin preparedClaims
    /\ rpcClaim' = c
    /\ applyTodo' = GpusOf(c)
    /\ republish' = FALSE
    /\ \/ /\ HasReservation(c)
          /\ stage' = "apply"
          /\ UNCHANGED psVars
       \/ /\ BeginReserve(c, Results(c))
          /\ stage' = "reserve"
    /\ UNCHANGED <<mainVars, memoryReload, diskVars, hwVars, published, cdiSpecs, pod>>

\* Mutant: the hardware is changed before the taints are published.
ReserveStep_NoPublish ==
    /\ stage = "reserve"
    /\ \/ /\ \E s \in Share : ReserveShare(s) \/ ReserveConflict(s) \/ UndoShare(s)
          /\ UNCHANGED rpcVars
       \/ ReserveDone /\ GoTo("apply")
       \/ UndoDone /\ Return
    /\ UNCHANGED <<mainVars, memoryReload, diskVars, hwVars, published, cdiSpecs, pod>>

ReserveStep ==
    /\ stage = "reserve"
    /\ \/ /\ \E s \in Share : ReserveShare(s) \/ ReserveConflict(s) \/ UndoShare(s)
          /\ UNCHANGED rpcVars
       \/ /\ ReserveDone
          /\ GoTo(IF taintsChanged THEN "publish" ELSE "apply")
       \/ UndoDone /\ Return
    /\ UNCHANGED <<mainVars, memoryReload, diskVars, hwVars, published, cdiSpecs, pod>>

\* Mutant: a failed publication is only logged.
PublishTaints_BestEffort ==
    /\ stage = "publish"
    /\ RepublishIf(TRUE)
    /\ GoTo("apply")
    /\ UNCHANGED <<mainVars, memVars, diskVars, hwVars, cdiSpecs, pod>>

PublishTaints ==
    /\ stage = "publish"
    /\ \/ /\ published' = IF CanPublish THEN TaintedModes ELSE published
          /\ GoTo("apply")
          /\ UNCHANGED psVars
       \/ /\ May("publish")
          /\ BeginRollback
          /\ UNCHANGED published
    /\ UNCHANGED <<mainVars, memoryReload, diskVars, hwVars, cdiSpecs, pod>>

\* Mutant: the rollback leaves the published taints alone.
RollbackStep_NoPublish ==
    /\ stage = "rollback"
    /\ \/ /\ \E s \in Share : ReleaseShare(s)
          /\ UNCHANGED rpcVars
       \/ ReleaseDone /\ Return
    /\ UNCHANGED <<mainVars, memoryReload, diskVars, hwVars, published, cdiSpecs, pod>>

\* rollbackPartitions ends; nothing is written to the checkpoint.
RollbackStep ==
    /\ stage = "rollback"
    /\ \/ /\ \E s \in Share : ReleaseShare(s)
          /\ UNCHANGED <<rpcVars, published>>
       \/ /\ ReleaseDone
          /\ RepublishIf(taintsChanged)
          /\ Return
    /\ UNCHANGED <<mainVars, memoryReload, diskVars, hwVars, cdiSpecs, pod>>

-----------------------------------------------------------------------------
(* ApplyPartition, phase A: the memory mode of the node. *)

\* A reload is in flight: pollMemoryReload.
PollReload ==
    /\ stage = "apply"
    /\ applyTodo # {}
    /\ memoryReload # NoReload
    /\ LET want == MemoryWanted(rpcClaim) IN
       \/ /\ memoryReload.mode # want
          /\ BeginRollback
          /\ UNCHANGED memoryReload
       \/ /\ memoryReload.mode = want
          /\ MemoryConverged(want)
          /\ memoryReload' = NoReload
          /\ GoTo("compute")
          /\ UNCHANGED psVars
       \/ /\ memoryReload.mode = want
          /\ ~MemoryConverged(want)
          /\ memoryReload.late
          /\ memoryReload' = NoReload
          /\ BeginRollback
       \/ /\ memoryReload.mode = want
          /\ ~MemoryConverged(want)
          /\ ~memoryReload.late
          /\ GoTo("pending")
          /\ UNCHANGED <<psVars, memoryReload>>
    /\ UNCHANGED <<mainVars, diskVars, hwVars, published, cdiSpecs, pod>>

\* Mutant: the memory mode is checked and staged on the claim's own GPUs only.
StageMemory_OwnGpus ==
    /\ stage = "apply"
    /\ applyTodo # {}
    /\ memoryReload = NoReload
    /\ LET want == MemoryWanted(rpcClaim)
           behind == {g \in GpusOf(rpcClaim) : ReadMemory(g) # want}
           Staged(gpus) == [g \in Gpu |-> IF g \in gpus THEN want ELSE stagedMemory[g]]
       IN
       \/ /\ behind = {}
          /\ GoTo("compute")
          /\ UNCHANGED <<psVars, stagedMemory>>
       \/ /\ behind # {} /\ driver = "loaded"
          /\ stagedMemory' = Staged(behind)
          /\ GoTo("trigger")
          /\ UNCHANGED psVars
       \/ /\ behind # {} /\ driver # "loaded"
          /\ BeginRollback
          /\ UNCHANGED stagedMemory
    /\ UNCHANGED <<mainVars, memoryReload, diskVars, driver, hwMemory, hwCompute,
                   published, cdiSpecs, pod>>

\* No reload in flight: skip, or stage the mode on every GPU not yet in it.
\* AMD SMI stages it, or sysfs in its place when AMD SMI fails or has been shut
\* down; without the driver there is neither, and staging may stop half way.
StageMemory ==
    /\ stage = "apply"
    /\ applyTodo # {}
    /\ memoryReload = NoReload
    /\ LET want == MemoryWanted(rpcClaim)
           behind == {g \in Gpu : ReadMemory(g) # want}
           Staged(gpus) == [g \in Gpu |-> IF g \in gpus THEN want ELSE stagedMemory[g]]
       IN
       \/ /\ behind = {}
          /\ GoTo("compute")
          /\ UNCHANGED <<psVars, stagedMemory>>
       \/ /\ behind # {} /\ driver = "loaded"
          /\ stagedMemory' = Staged(behind)
          /\ GoTo("trigger")
          /\ UNCHANGED psVars
       \/ /\ behind # {} /\ driver # "loaded"
          /\ BeginRollback
          /\ UNCHANGED stagedMemory
       \/ /\ behind # {} /\ driver = "loaded" /\ (May("stage") \/ ~smi)
          /\ \E gpus \in SUBSET behind : gpus # behind /\ stagedMemory' = Staged(gpus)
          /\ BeginRollback
    /\ UNCHANGED <<mainVars, memoryReload, diskVars, driver, hwMemory, hwCompute,
                   published, cdiSpecs, pod>>

\* modprobe -r, the first half of TriggerReload and of ReloadInboxDriver.
UnloadDriver ==
    /\ stage = "trigger"
    /\ \/ /\ driver' = "unloaded"
          /\ GoTo("provision")
          /\ UNCHANGED psVars
       \/ /\ May("unload")
          /\ BeginRollback
          /\ UNCHANGED driver
    /\ UNCHANGED <<mainVars, memoryReload, diskVars, hwMemory, hwCompute, stagedMemory,
                   published, cdiSpecs, pod>>

\* A driver that loads takes the staged memory modes and whole GPUs.
LoadDriver ==
    /\ driver' = "loaded"
    /\ hwMemory' = stagedMemory
    /\ hwCompute' = [g \in Gpu |-> WholeGpu]

\* The second half: the operator is told to bring the driver back, or modprobe
\* does it in place.  Only then is the marker set.  A request to the operator
\* that fails here may still have reached it.
ProvisionDriver ==
    /\ stage = "provision"
    /\ \/ /\ IF Kmm THEN driver' = "reloading" /\ UNCHANGED <<hwMemory, hwCompute>>
                    ELSE LoadDriver
          /\ memoryReload' = [mode |-> MemoryWanted(rpcClaim), late |-> FALSE]
          /\ GoTo("pending")
          /\ UNCHANGED psVars
       \/ /\ May("provision")
          /\ \/ UNCHANGED driver
             \/ Kmm /\ driver' = "reloading"
          /\ BeginRollback
          /\ UNCHANGED <<memoryReload, hwMemory, hwCompute>>
    /\ UNCHANGED <<mainVars, diskVars, stagedMemory, published, cdiSpecs, pod>>

\* errReloadInProgress: keep the reservation, write it down, ask for a retry.
ReloadPending ==
    /\ stage = "pending"
    /\ \/ WriteCheckpoint
       \/ May("checkpoint") /\ UNCHANGED <<saved, savedReload>>
    /\ Return
    /\ UNCHANGED <<mainVars, memVars, preparedClaims, preparedSlots, hwVars, published,
                   cdiSpecs, pod>>

(* ApplyPartition, phase B: the compute mode of one GPU. *)

SetCompute ==
    /\ stage = "compute"
    /\ \E g \in applyTodo :
       \/ /\ hwCompute' = [hwCompute EXCEPT ![g] = ComputeWanted(rpcClaim, g)]
          /\ applyTodo' = applyTodo \ {g}
          /\ stage' = IF applyTodo' = {} THEN "devices" ELSE "apply"
          /\ UNCHANGED <<rpcClaim, republish, psVars>>
       \/ /\ hwCompute[g] # ComputeWanted(rpcClaim, g)
          /\ May("compute") \/ ~smi
          /\ BeginRollback
          /\ UNCHANGED hwCompute
    /\ UNCHANGED <<mainVars, memoryReload, diskVars, driver, hwMemory, stagedMemory,
                   published, cdiSpecs, pod>>

-----------------------------------------------------------------------------
(* The rest of Prepare. *)

\* The partition device nodes exist for every share of the claim.
NodesFound ==
    \A s \in Results(rpcClaim) :
        /\ driver = "loaded"
        /\ hwCompute[gpuOf[s]] = computeOf[s]
        /\ \/ computeOf[s] = WholeGpu
           \/ assignedSlots[s] \in 0 .. (partitions[computeOf[s]] - 1)

PrepareDevices ==
    /\ stage = "devices"
    /\ \/ NodesFound /\ GoTo("cdi") /\ UNCHANGED psVars
       \/ ~NodesFound /\ BeginRollback
       \/ May("nodes") /\ BeginRollback
    /\ UNCHANGED <<mainVars, memoryReload, diskVars, hwVars, published, cdiSpecs, pod>>

CreateClaimSpecFile ==
    /\ stage = "cdi"
    /\ \/ /\ cdiSpecs' = cdiSpecs \cup {rpcClaim}
          /\ GoTo("commit")
          /\ UNCHANGED psVars
       \/ /\ May("cdi")
          /\ BeginRollback
          /\ UNCHANGED cdiSpecs
    /\ UNCHANGED <<mainVars, memoryReload, diskVars, hwVars, published, pod>>

\* Mutant: a failed checkpoint write is only logged.
CommitPrepare_BestEffort ==
    /\ stage = "commit"
    /\ \/ /\ WriteCheckpoint
          /\ preparedClaims' = preparedClaims \cup {rpcClaim}
          /\ preparedSlots' = [s \in Share |-> IF s \in Results(rpcClaim)
                                               THEN assignedSlots[s]
                                               ELSE preparedSlots[s]]
       \/ May("checkpoint") /\ UNCHANGED diskVars
    /\ GoTo("reply")
    /\ UNCHANGED <<mainVars, memVars, hwVars, published, cdiSpecs, pod>>

CommitPrepare ==
    /\ stage = "commit"
    /\ \/ /\ WriteCheckpoint
          /\ preparedClaims' = preparedClaims \cup {rpcClaim}
          /\ preparedSlots' = [s \in Share |-> IF s \in Results(rpcClaim)
                                               THEN assignedSlots[s]
                                               ELSE preparedSlots[s]]
          /\ GoTo("reply")
          /\ UNCHANGED <<psVars, cdiSpecs>>
       \/ /\ May("checkpoint")
          /\ \/ cdiSpecs' = cdiSpecs \ {rpcClaim}
             \/ May("cdi") /\ UNCHANGED cdiSpecs
          /\ BeginRollback
          /\ UNCHANGED diskVars
    /\ UNCHANGED <<mainVars, memoryReload, hwVars, published, pod>>

\* The kubelet learns the devices and starts the containers.
ReplyPrepared ==
    /\ stage = "reply"
    /\ pod' = [pod EXCEPT ![rpcClaim] = "running"]
    /\ Return
    /\ UNCHANGED <<mainVars, memVars, diskVars, hwVars, published, cdiSpecs>>

-----------------------------------------------------------------------------
(* Unprepare of a claim that was never recorded as prepared. *)

\* Mutant: a claim that was never prepared has nothing to undo.
UnprepareUnknown_Returns(c) ==
    /\ stage = "idle" /\ Accepting
    /\ pod[c] = "terminating"
    /\ c \notin preparedClaims
    /\ pod' = [pod EXCEPT ![c] = "none"]
    /\ UNCHANGED <<mainVars, memVars, rpcVars, diskVars, hwVars, published, cdiSpecs>>

UnprepareUnknown(c) ==
    /\ stage = "idle" /\ Accepting
    /\ pod[c] = "terminating"
    /\ c \notin preparedClaims
    /\ \/ /\ ~HasReservation(c)
          /\ pod' = [pod EXCEPT ![c] = "none"]
          /\ UNCHANGED <<psVars, rpcVars>>
       \/ /\ BeginRelease(c, HeldBy(c))
          /\ rpcClaim' = c
          /\ stage' = "unreserve"
          /\ UNCHANGED <<applyTodo, republish, pod>>
    /\ UNCHANGED <<mainVars, memoryReload, diskVars, hwVars, published, cdiSpecs>>

UnreserveStep ==
    /\ stage = "unreserve"
    /\ \/ /\ \E s \in Share : ReleaseShare(s)
          /\ UNCHANGED <<rpcVars, published>>
       \/ /\ ReleaseDone
          /\ RepublishIf(taintsChanged)
          /\ GoTo("uncommit")
    /\ UNCHANGED <<mainVars, memoryReload, diskVars, hwVars, cdiSpecs, pod>>

\* Mutant: the release is not written down.
UnreserveCommit_NoWrite ==
    /\ stage = "uncommit"
    /\ pod' = [pod EXCEPT ![rpcClaim] = "none"]
    /\ Return
    /\ UNCHANGED <<mainVars, memVars, diskVars, hwVars, published, cdiSpecs>>

UnreserveCommit ==
    /\ stage = "uncommit"
    /\ \/ /\ WriteCheckpoint
          /\ pod' = [pod EXCEPT ![rpcClaim] = "none"]
       \/ /\ May("checkpoint")
          /\ UNCHANGED <<saved, savedReload, pod>>
    /\ Return
    /\ UNCHANGED <<mainVars, memVars, preparedClaims, preparedSlots, hwVars, published, cdiSpecs>>

(* Unprepare of a prepared claim.  The reservation goes first. *)

UnprepareStart(c) ==
    /\ stage = "idle" /\ Accepting
    /\ pod[c] = "terminating"
    /\ c \in preparedClaims
    /\ rpcClaim' = c
    /\ \/ /\ BeginRelease(c, Results(c))
          /\ stage' = "unprepare"
       \/ /\ ~HasReservation(c)
          /\ stage' = "unspec"
          /\ UNCHANGED psVars
    /\ UNCHANGED <<mainVars, applyTodo, republish, memoryReload, diskVars, hwVars,
                   published, cdiSpecs, pod>>

UnprepareRelease ==
    /\ stage = "unprepare"
    /\ \/ /\ \E s \in Share : ReleaseShare(s)
          /\ UNCHANGED rpcVars
       \/ /\ ReleaseDone
          /\ republish' = taintsChanged
          /\ stage' = "unspec"
          /\ UNCHANGED <<rpcClaim, applyTodo>>
    /\ UNCHANGED <<mainVars, memoryReload, diskVars, hwVars, published, cdiSpecs, pod>>

\* Mutant: a spec file that is already gone is an error.
DeleteClaimSpecFile_Strict ==
    /\ stage = "unspec"
    /\ \/ rpcClaim \in cdiSpecs /\ cdiSpecs' = cdiSpecs \ {rpcClaim} /\ GoTo("unwrite")
       \/ rpcClaim \notin cdiSpecs /\ Return /\ UNCHANGED cdiSpecs
    /\ UNCHANGED <<mainVars, memVars, diskVars, hwVars, published, pod>>

DeleteClaimSpecFile ==
    /\ stage = "unspec"
    /\ \/ cdiSpecs' = cdiSpecs \ {rpcClaim} /\ GoTo("unwrite")
       \/ May("cdi") /\ Return /\ UNCHANGED cdiSpecs
    /\ UNCHANGED <<mainVars, memVars, diskVars, hwVars, published, pod>>

CommitUnprepare ==
    /\ stage = "unwrite"
    /\ \/ /\ WriteCheckpoint
          /\ preparedClaims' = preparedClaims \ {rpcClaim}
          /\ preparedSlots' = [s \in Share |-> IF s \in Results(rpcClaim)
                                               THEN NoSlot ELSE preparedSlots[s]]
          /\ GoTo("republish")
       \/ /\ May("checkpoint")
          /\ Return
          /\ UNCHANGED diskVars
    /\ UNCHANGED <<mainVars, memVars, hwVars, published, cdiSpecs, pod>>

UnprepareRepublish ==
    /\ stage = "republish"
    /\ RepublishIf(republish)
    /\ pod' = [pod EXCEPT ![rpcClaim] = "none"]
    /\ Return
    /\ UNCHANGED <<mainVars, memVars, diskVars, hwVars, cdiSpecs>>

-----------------------------------------------------------------------------
(* The process is killed or shut down and starts again:                    *)
(* RecoverFromCheckpoint, then the rest of NewDriver.                      *)

\* A checkpoint with no slots: the prepared claims get the lowest slots, in
\* order, under positional keys.
RecoverFromPrepared ==
    LET keys == {positionalOf[s] : s \in UNION {Results(c) : c \in preparedClaims}}
        on(g) == {k \in keys : gpuOf[k] = g}
    IN
    /\ activeMemoryMode' = saved.mode
    /\ gpuComputeModes' = saved.compute
    /\ assignedSlots' =
           [k \in Share |->
               IF k \in keys
               THEN Cardinality({j \in on(gpuOf[k]) : keyOrder[j] < keyOrder[k]})
               ELSE NoSlot]
    /\ gpuAllocCounts' = [g \in Gpu |-> Cardinality(on(g))]
    /\ totalAllocCount' = Cardinality(keys)
    /\ reservedClaims' = {claimOf[k] : k \in keys}

\* Mutant: reservations are rebuilt from the prepared claims alone.
RecoverFromCheckpoint_Prepared ==
    /\ memoryReload' = savedReload
    /\ RecoverFromPrepared

RecoverFromCheckpoint ==
    /\ memoryReload' = savedReload
    /\ IF Assigned(saved.slots) # {} THEN RecoverFromSlots(saved)
                                     ELSE RecoverFromPrepared

Crash ==
    /\ May("crash")
    /\ RecoverFromCheckpoint
    /\ LoopReset
    /\ Return
    /\ startup' = "served" /\ snapshot' = {} /\ smi' = TRUE
    /\ UNCHANGED <<diskVars, hwVars, published, cdiSpecs, pod>>

\* NewDriver, while calls may already be running: it stores the helper and the
\* driver, builds the resources, and publishes what it built.  If that fails
\* the process ends, which is a Crash.
StartupWire ==
    /\ startup = "served"
    /\ startup' = "wired"
    /\ UNCHANGED <<snapshot, smi, memVars, rpcVars, diskVars, hwVars, published,
                   cdiSpecs, pod>>

StartupBuild ==
    /\ startup = "wired"
    /\ startup' = "built"
    /\ snapshot' = TaintedModes
    /\ UNCHANGED <<smi, memVars, rpcVars, diskVars, hwVars, published, cdiSpecs, pod>>

StartupPublish ==
    /\ startup = "built"
    /\ startup' = "done"
    /\ published' = snapshot
    /\ snapshot' = {}
    /\ UNCHANGED <<smi, memVars, rpcVars, diskVars, hwVars, cdiSpecs, pod>>

\* The main context is cancelled: AMD SMI goes away under a running call, which
\* goes on, with sysfs only, until the process ends.
Shutdown ==
    /\ May("shutdown")
    /\ startup = "done" /\ smi
    /\ smi' = FALSE
    /\ UNCHANGED <<startup, snapshot, memVars, rpcVars, diskVars, hwVars, published,
                   cdiSpecs, pod>>

-----------------------------------------------------------------------------
(* The environment. *)

\* The operator brings the driver back.
ReloadCompletes ==
    /\ driver = "reloading"
    /\ LoadDriver
    /\ UNCHANGED <<mainVars, memVars, rpcVars, diskVars, stagedMemory, published, cdiSpecs, pod>>

Late(marker) == IF marker = NoReload THEN NoReload ELSE [marker EXCEPT !.late = TRUE]

\* kmmReloadDeadline passes.
DeadlinePasses ==
    /\ May("deadline")
    /\ memoryReload # NoReload \/ savedReload # NoReload
    /\ memoryReload' = Late(memoryReload)
    /\ savedReload' = Late(savedReload)
    /\ UNCHANGED <<mainVars, psVars, rpcVars, saved, preparedClaims, preparedSlots, hwVars,
                   published, cdiSpecs, pod>>

\* The shared counters of the published ResourceSlices: one synthetic device
\* per GPU, as many shares of it as it has partitions, counting every claim
\* whose devices have not been taken back.
Schedulable(c) ==
    LET placed == UNION {Results(d) : d \in {e \in Claim : pod[e] # "none"} \cup {c}}
    IN \A s \in Results(c) :
           /\ Cardinality({t \in placed : gpuOf[t] = gpuOf[s]}) <= partitions[computeOf[s]]
           /\ \A t \in placed : gpuOf[t] = gpuOf[s] => /\ computeOf[t] = computeOf[s]
                                                      /\ memoryOf[t] = memoryOf[s]

PodArrives(c) ==
    /\ pod[c] = "none"
    /\ Schedulable(c)
    /\ pod' = [pod EXCEPT ![c] = "pending"]
    /\ UNCHANGED <<mainVars, memVars, rpcVars, diskVars, hwVars, published, cdiSpecs>>

\* A pod is deleted, its containers are gone; the kubelet will unprepare.
PodDeleted(c) ==
    /\ May("delete")
    /\ pod[c] \in {"pending", "running"}
    /\ rpcClaim # c
    /\ pod' = [pod EXCEPT ![c] = "terminating"]
    /\ UNCHANGED <<mainVars, memVars, rpcVars, diskVars, hwVars, published, cdiSpecs>>

\* Another pod arrives with a claim whose Unprepare has not succeeded yet.
ClaimReused(c) ==
    /\ May("reuse")
    /\ pod[c] = "terminating"
    /\ rpcClaim # c
    /\ pod' = [pod EXCEPT ![c] = "pending"]
    /\ UNCHANGED <<mainVars, memVars, rpcVars, diskVars, hwVars, published, cdiSpecs>>

-----------------------------------------------------------------------------

Kubelet(c) == PrepareCached(c) \/ PrepareStart(c) \/ UnprepareUnknown(c) \/ UnprepareStart(c)

Running ==
    \/ ReserveStep \/ PublishTaints \/ RollbackStep
    \/ PollReload \/ StageMemory \/ UnloadDriver \/ ProvisionDriver \/ ReloadPending
    \/ SetCompute \/ PrepareDevices \/ CreateClaimSpecFile \/ CommitPrepare \/ ReplyPrepared
    \/ UnreserveStep \/ UnreserveCommit
    \/ UnprepareRelease \/ DeleteClaimSpecFile \/ CommitUnprepare \/ UnprepareRepublish
    \/ StartupWire \/ StartupBuild \/ StartupPublish

DeviceNext ==
    \/ \E c \in Claim : Kubelet(c) \/ PodArrives(c) \/ PodDeleted(c) \/ ClaimReused(c)
    \/ Running
    \/ ReloadCompletes
    \/ DeadlinePasses
    \/ Crash \/ Shutdown

DeviceSpec == DeviceInit /\ [][DeviceNext]_dsVars

\* The kubelet retries every claim it still has work for, a running call
\* proceeds, and the operator eventually brings a driver back.  A driver
\* re-provisioned again and again is provisioned once.
DeviceFairness ==
    /\ WF_dsVars(Running)
    /\ WF_dsVars(ReloadCompletes)
    /\ SF_dsVars(ProvisionDriver /\ memoryReload' # NoReload)
    /\ \A c \in Claim : SF_dsVars(Kubelet(c))

FairDeviceSpec == DeviceSpec /\ DeviceFairness

-----------------------------------------------------------------------------
(* Properties. *)

RunningClaims == {c \in Claim : pod[c] = "running"}

\* Two pods that run at the same time never share a partition, wherever the
\* process was killed, and though calls may come before start-up has finished.
RunningExclusive ==
    \A c, d \in RunningClaims : \A s \in Results(c), t \in Results(d) :
        c # d /\ gpuOf[s] = gpuOf[t] => /\ computeOf[s] # WholeGpu
                                        /\ preparedSlots[s] # preparedSlots[t]

\* A running pod keeps its reservation, in memory and on disk, with the slots
\* its devices were resolved from, and keeps its CDI spec file: no restart
\* gives its partition away and a cached Prepare still tells the truth.
RunningHasLease ==
    \A c \in RunningClaims :
        /\ c \in preparedClaims
        /\ HasReservation(c)
        /\ c \in cdiSpecs
        /\ \A s \in Results(c) : /\ assignedSlots[s] = preparedSlots[s]
                                 /\ saved.slots[s] = preparedSlots[s]

\* While a pod runs, the driver stays loaded, every GPU stays in its memory
\* mode and its GPUs stay in its compute mode: no other claim's reload or
\* repartition, and no late one, reaches them.
HardwareMatchesRunning ==
    \A c \in RunningClaims :
        /\ driver = "loaded"
        /\ \A s \in Results(c) : /\ hwCompute[gpuOf[s]] = computeOf[s]
                                 /\ \A g \in Gpu : hwMemory[g] = memoryOf[s]

\* The driver is only ever unloaded after the taints that keep conflicting
\* memory modes away have been published (two-phase Prepare).
TaintsBeforeReload ==
    stage \in {"trigger", "provision"} => published = TaintedModes

\* Between two calls the published taints are those of the active memory mode.
TaintsPublished == stage = "idle" /\ startup = "done" => published = TaintedModes

\* Once every pod is gone nothing stays reserved or recorded as prepared, in
\* memory or in the checkpoint, so the node is as free as a new one.
NothingLeaks ==
    stage = "idle" /\ (\A c \in Claim : pod[c] = "none") =>
        /\ Held = {} /\ reservedClaims = {} /\ TaintedModes = {}
        /\ preparedClaims = {}
        /\ saved = EmptySnapshot

\* No claim holds a reservation after its pod is gone.
NoGhostReservation ==
    stage = "idle" => \A c \in reservedClaims : pod[c] # "none"

\* Unprepare of a prepared claim frees every slot the claim holds.
UnprepareFreesSlots == stage = "unspec" => HeldBy(rpcClaim) = {}

\* A reload that was cut short is picked up again by the retries of Prepare.
DriverComesBack == driver # "loaded" ~> driver = "loaded"

\* Another pod on the node holds a claim of other modes, so that Prepare of
\* this one has to fail until that pod is gone.
Conflicting(c) ==
    \E d \in Claim : \E s \in Results(c), t \in Results(d) :
        /\ pod[d] # "none"
        /\ \/ memoryOf[s] # memoryOf[t]
           \/ gpuOf[s] = gpuOf[t] /\ computeOf[s] # computeOf[t]

\* Crashes end and the driver is loaded again and again (DriverComesBack is
\* a finding of its own).
Settles == <>[][~Crash]_dsVars /\ []<>(driver = "loaded")

\* A pending claim is eventually prepared, or deleted, or kept out by another
\* claim's reservation of other modes: the retries of Prepare get through a
\* reload, its deadline and every failure that does not repeat for ever.
PendingResolves ==
    Settles =>
        \A c \in Claim : pod[c] = "pending" ~> pod[c] # "pending" \/ Conflicting(c)

\* A pod that goes away is eventually unprepared, unless another pod claims what
\* it held in time.
TerminationResolves ==
    Settles => \A c \in Claim : pod[c] = "terminating" ~> pod[c] # "terminating"

-----------------------------------------------------------------------------
(* What Prepare and Unprepare implement. *)

\* A claim has its devices from the record of its Prepare on disk to the deletion
\* of its pod.
Lives(c) == c \in preparedClaims /\ pod[c] # "terminating"

GrantedSlots == [s \in Share |-> IF Lives(claimOf[s]) /\ s \in Results(claimOf[s])
                                 THEN preparedSlots[s] ELSE NoSlot]

ReadCompute(g) == IF driver = "loaded" THEN hwCompute[g] ELSE NoMode

Grants == INSTANCE DeviceGrants
          WITH sharesOf <- [c \in Claim |-> Results(c)],
               grant <- GrantedSlots,
               memory <- [g \in Gpu |-> ReadMemory(g)],
               compute <- [g \in Gpu |-> ReadCompute(g)]

\* Prepare grants a claim its devices at the moment it writes its record: they
\* exist, are in its modes and nobody else's.  From then on no step of a call, a
\* restart or a late operator changes the grant or moves the hardware under it,
\* until the pod is deleted.
ImplementsGrants == Grants!Spec

=============================================================================

--------------------------- MODULE VfioConversions ---------------------------
(***************************************************************************)
(* GPUs converted to VFIO devices on a claim's behalf                      *)
(* (cmd/gpu-kubeletplugin/vfio_conversions.go, vfio_manager.go and the     *)
(* VFIO half of Prepare and Unprepare in state.go): the allocatable entry  *)
(* of a device, the kernel driver it is bound to, the conversion records   *)
(* in memory and in the checkpoint, and their recovery after a restart.    *)
(*                                                                         *)
(* DeviceState's mutex admits one call at a time: "stage" is where the     *)
(* running call stands.  One driver rebind is one action, so the process   *)
(* may be killed between any two of them; a rebind that fails may leave    *)
(* the device with no driver at all.                                       *)
(***************************************************************************)
EXTENDS Integers, FiniteSets

CONSTANTS
    Gpu,        \* GPUs on amdgpu at node boot
    Prebound,   \* PFs somebody else bound to vfio-pci
    Vf,         \* SR-IOV virtual functions, bound to nothing at node boot
    Claim,      \* claim UIDs
    NoClaim,    \* no call is running
    devicesOf,  \* the devices allocated to a claim
    vfioOf,     \* those whose request has a VfioDeviceConfig
    Faults      \* which of the failures below may happen

Device == Gpu \cup Prebound \cup Vf

AllFaults == {"checkpoint", "cdi", "configure", "config", "unconfigure",
              "manager", "crash", "delete", "force"}

ASSUME VfioAssumption ==
    /\ Gpu \cap Prebound = {} /\ Gpu \cap Vf = {} /\ Prebound \cap Vf = {}
    /\ NoClaim \notin Claim
    /\ devicesOf \in [Claim -> SUBSET Device]
    /\ vfioOf \in [Claim -> SUBSET Device]
    /\ \A c \in Claim : devicesOf[c] # {} /\ vfioOf[c] \subseteq devicesOf[c]
    /\ Faults \subseteq AllFaults

VARIABLES
    vfioManager,        \* the manager exists (IOMMU on, feature enabled)
    allocatable,        \* type of the device's entry, "none" if it has none
    preConfigureDriver, \* driver to return to, of an entry of type "vfio"
    vfioConversions,    \* <<claim, device>> records in memory
    boundDriver,        \* the kernel driver in sysfs
    savedConversions, preparedDevices,      \* the checkpoint
    stage, rpcClaim, work, failed,          \* the running call and its loop
    pod                 \* what the kubelet is doing with each claim

memoryVars == <<vfioManager, allocatable, preConfigureDriver, vfioConversions>>
diskVars == <<savedConversions, preparedDevices>>
rpcVars == <<stage, rpcClaim, work, failed>>
vfioVars == <<memoryVars, boundDriver, diskVars, rpcVars, pod>>

Drivers == {"amdgpu", "vfio-pci", "unbound"}
Record == Claim \X Device
Stages == {"idle", "stranded", "convert", "intent", "configure", "cdi", "commit",
           "reply", "rollback", "persist",
           "unstrand", "unstrandwrite", "return", "partialwrite", "unspec", "unwrite"}
PodStates == {"none", "pending", "running", "terminating", "forced"}

BootDriver(d) == CASE d \in Gpu -> "amdgpu" [] d \in Prebound -> "vfio-pci" [] d \in Vf -> "unbound"

VfioTypeOK ==
    /\ vfioManager \in BOOLEAN
    /\ allocatable \in [Device -> {"gpu", "vfio", "none"}]
    /\ preConfigureDriver \in [Device -> Drivers]
    /\ vfioConversions \subseteq Record /\ savedConversions \subseteq Record
    /\ boundDriver \in [Device -> Drivers]
    /\ preparedDevices \in [Claim -> SUBSET Device]
    /\ stage \in Stages /\ rpcClaim \in Claim \cup {NoClaim}
    /\ work \subseteq Device /\ failed \subseteq Device
    /\ pod \in [Claim -> PodStates]

VfioInit ==
    /\ vfioManager = TRUE
    /\ boundDriver = [d \in Device |-> BootDriver(d)]
    /\ allocatable = [d \in Device |-> IF d \in Gpu THEN "gpu" ELSE "vfio"]
    /\ preConfigureDriver = boundDriver
    /\ vfioConversions = {} /\ savedConversions = {}
    /\ preparedDevices = [c \in Claim |-> {}]
    /\ stage = "idle" /\ rpcClaim = NoClaim /\ work = {} /\ failed = {}
    /\ pod = [c \in Claim |-> "none"]

-----------------------------------------------------------------------------
(* Pieces the handlers share. *)

May(fault) == fault \in Faults

ConvertedFor(c) == {d \in Device : <<c, d>> \in vfioConversions}
VfioAmong(devices) == {d \in devices : allocatable[d] = "vfio"}

Begin(c, next, devices) ==
    stage' = next /\ rpcClaim' = c /\ work' = devices /\ failed' = {}
GoTo(next, devices) == Begin(rpcClaim, next, devices)
Return == Begin(NoClaim, "idle", {})

\* saveVfioConversions and CreateCheckpoint, by callers that only log a failure.
SaveConversions ==
    \/ savedConversions' = vfioConversions
    \/ May("checkpoint") /\ UNCHANGED savedConversions

\* restoreFromVfio, for the devices recorded for claim c among "devices".
RestoreFromVfio(c, devices) ==
    LET back == ConvertedFor(c) \cap devices IN
    /\ allocatable' = [d \in Device |-> IF d \in back THEN "gpu" ELSE allocatable[d]]
    /\ vfioConversions' = vfioConversions \ ({c} \X back)

\* Mutant: a device that is already back counts as a failure.
ReturnToOriginalDriver_Strict(d, ok) ==
    LET home == preConfigureDriver[d] IN
    \/ /\ ~ok
       /\ boundDriver[d] = home
       /\ UNCHANGED boundDriver
    \/ /\ ok
       /\ vfioManager /\ home # "vfio-pci" /\ boundDriver[d] # home
       /\ boundDriver' = [boundDriver EXCEPT ![d] = home]
    \/ /\ ~ok
       /\ boundDriver[d] # home
       /\ ~vfioManager \/ May("unconfigure")
       /\ UNCHANGED boundDriver

\* returnToOriginalDriver and Unconfigure.  Without a manager nothing can be
\* rebound; with one the rebind may fail before or after the unbind.
ReturnToOriginalDriver(d, ok) ==
    LET home == preConfigureDriver[d] IN
    \/ /\ ok
       /\ boundDriver[d] = home \/ (vfioManager /\ home = "vfio-pci")
       /\ UNCHANGED boundDriver
    \/ /\ ok
       /\ vfioManager /\ home # "vfio-pci" /\ boundDriver[d] # home
       /\ boundDriver' = [boundDriver EXCEPT ![d] = home]
    \/ /\ ~ok
       /\ vfioManager /\ home # "vfio-pci" /\ boundDriver[d] # home
       /\ May("unconfigure")
       /\ \/ UNCHANGED boundDriver
          \/ home = "amdgpu" /\ boundDriver' = [boundDriver EXCEPT ![d] = "unbound"]
    \/ /\ ~ok
       /\ ~vfioManager /\ boundDriver[d] # home
       /\ UNCHANGED boundDriver

-----------------------------------------------------------------------------
(* releaseClaimVfio: the loop of releaseStrandedVfio and of every rollback. *)

ReleaseStages == {"stranded", "unstrand", "rollback"}

ReleaseVfio(d) ==
    /\ stage \in ReleaseStages
    /\ d \in work
    /\ work' = work \ {d}
    /\ \E ok \in BOOLEAN : /\ ReturnToOriginalDriver(d, ok)
                           /\ failed' = IF ok THEN failed ELSE failed \cup {d}
    /\ UNCHANGED <<memoryVars, diskVars, stage, rpcClaim, pod>>

ReleaseVfioDone ==
    /\ stage \in ReleaseStages
    /\ work = {}
    /\ RestoreFromVfio(rpcClaim, Device \ failed)
    /\ stage' = CASE stage = "unstrand" -> "unstrandwrite"
                  [] stage = "stranded" /\ failed = {} -> "convert"
                  [] OTHER -> "persist"
    /\ UNCHANGED <<vfioManager, preConfigureDriver, boundDriver, diskVars,
                   rpcClaim, work, failed, pod>>

-----------------------------------------------------------------------------
(* Prepare. *)

PrepareCached(c) ==
    /\ stage = "idle"
    /\ pod[c] \in {"pending", "running"}
    /\ preparedDevices[c] # {}
    /\ pod' = [pod EXCEPT ![c] = "running"]
    /\ UNCHANGED <<memoryVars, boundDriver, diskVars, rpcVars>>

\* Mutant: every converted device is taken for this claim's own.
PrepareStart_AllClaims(c) ==
    /\ stage = "idle"
    /\ pod[c] \in {"pending", "running"}
    /\ preparedDevices[c] = {}
    /\ Begin(c, "stranded", VfioAmong({r[2] : r \in vfioConversions}))
    /\ UNCHANGED <<memoryVars, boundDriver, diskVars, pod>>

\* releaseStrandedVfio first.
PrepareStart(c) ==
    /\ stage = "idle"
    /\ pod[c] \in {"pending", "running"}
    /\ preparedDevices[c] = {}
    /\ Begin(c, "stranded", VfioAmong(ConvertedFor(c)))
    /\ UNCHANGED <<memoryVars, boundDriver, diskVars, pod>>

\* The devices a claim is prepared with: GpuConfig passes VFIO devices over.
DevicesPrepared(c) ==
    {d \in devicesOf[c] : d \in vfioOf[c] \/ allocatable[d] = "gpu"}

\* Mutant: the record is made under no claim.
Convert_NoOwner ==
    /\ stage = "convert"
    /\ LET new == {d \in vfioOf[rpcClaim] : allocatable[d] = "gpu"} IN
          /\ vfioConversions' = vfioConversions \cup ({NoClaim} \X new)
          /\ allocatable' = [d \in Device |-> IF d \in new THEN "vfio" ELSE allocatable[d]]
          /\ preConfigureDriver' =
                 [d \in Device |-> IF d \in new THEN "amdgpu" ELSE preConfigureDriver[d]]
          /\ GoTo("intent", vfioOf[rpcClaim])
    /\ UNCHANGED <<vfioManager, boundDriver, diskVars, pod>>

\* Configurations are matched with results; a GPU whose configuration is a
\* VfioDeviceConfig is converted and recorded, in memory.  A device that is not
\* allocatable ends the call, and what was converted before it is undone.
Convert ==
    /\ stage = "convert"
    /\ LET new == {d \in vfioOf[rpcClaim] : allocatable[d] = "gpu"} IN
       \/ /\ \A d \in devicesOf[rpcClaim] : allocatable[d] # "none"
          /\ vfioConversions' = vfioConversions \cup ({rpcClaim} \X new)
          /\ allocatable' = [d \in Device |-> IF d \in new THEN "vfio" ELSE allocatable[d]]
          /\ preConfigureDriver' =
                 [d \in Device |-> IF d \in new THEN "amdgpu" ELSE preConfigureDriver[d]]
          /\ GoTo(IF new = {} THEN "configure" ELSE "intent", vfioOf[rpcClaim])
       \/ /\ \E d \in devicesOf[rpcClaim] : allocatable[d] = "none"
          /\ GoTo("persist", {})
          /\ UNCHANGED <<allocatable, preConfigureDriver, vfioConversions>>
    /\ UNCHANGED <<vfioManager, boundDriver, diskVars, pod>>

\* Mutant: the intent is not written down.
SaveIntent_NoWrite ==
    /\ stage = "intent"
    /\ GoTo("configure", work)
    /\ UNCHANGED <<memoryVars, boundDriver, diskVars, pod>>

\* The conversions are written down before the first device is bound.
SaveIntent ==
    /\ stage = "intent"
    /\ \/ /\ savedConversions' = vfioConversions
          /\ GoTo("configure", work)
       \/ /\ May("checkpoint")
          /\ GoTo("rollback", {})
          /\ UNCHANGED savedConversions
    /\ UNCHANGED <<memoryVars, boundDriver, preparedDevices, pod>>

\* Configure, and the edits built after it.  The device is noted before, so a
\* rollback visits the one that failed.
Configure(d) ==
    /\ stage = "configure"
    /\ d \in work
    /\ \/ /\ vfioManager
          /\ boundDriver' = [boundDriver EXCEPT ![d] = "vfio-pci"]
          /\ work' = work \ {d}
          /\ UNCHANGED <<stage, rpcClaim, failed>>
       \/ /\ ~vfioManager \/ May("configure")
          /\ \/ UNCHANGED boundDriver
             \/ /\ vfioManager
                /\ boundDriver[d] # "vfio-pci"
                /\ \E left \in {"unbound", "vfio-pci"} :
                       boundDriver' = [boundDriver EXCEPT ![d] = left]
          /\ GoTo("rollback", VfioAmong((vfioOf[rpcClaim] \ work) \cup {d}))
    /\ UNCHANGED <<memoryVars, diskVars, pod>>

\* All configurations applied, or one that has nothing to do with VFIO failed.
ConfigureDone ==
    /\ stage = "configure"
    /\ \/ work = {} /\ GoTo("cdi", {})
       \/ May("config") /\ GoTo("rollback", VfioAmong(vfioOf[rpcClaim] \ work))
    /\ UNCHANGED <<memoryVars, boundDriver, diskVars, pod>>

CreateClaimSpecFile ==
    /\ stage = "cdi"
    /\ \/ GoTo("commit", {})
       \/ May("cdi") /\ GoTo("rollback", VfioAmong(DevicesPrepared(rpcClaim)))
    /\ UNCHANGED <<memoryVars, boundDriver, diskVars, pod>>

CommitPrepare ==
    /\ stage = "commit"
    /\ \/ /\ preparedDevices' =
                 [preparedDevices EXCEPT ![rpcClaim] = DevicesPrepared(rpcClaim)]
          /\ savedConversions' = vfioConversions
          /\ GoTo("reply", {})
       \/ /\ May("checkpoint")
          /\ GoTo("rollback", VfioAmong(DevicesPrepared(rpcClaim)))
          /\ UNCHANGED diskVars
    /\ UNCHANGED <<memoryVars, boundDriver, pod>>

ReplyPrepared ==
    /\ stage = "reply"
    /\ pod' = [pod EXCEPT ![rpcClaim] = "running"]
    /\ Return
    /\ UNCHANGED <<memoryVars, boundDriver, diskVars>>

\* persistVfioConversionsAfterFailure; the call then fails.
PersistAfterFailure ==
    /\ stage = "persist"
    /\ IF \E d \in Device : <<rpcClaim, d>> \in vfioConversions \cup savedConversions
       THEN SaveConversions
       ELSE UNCHANGED savedConversions
    /\ Return
    /\ UNCHANGED <<memoryVars, boundDriver, preparedDevices, pod>>

-----------------------------------------------------------------------------
(* Unprepare. *)

Gone(c) == pod' = [pod EXCEPT ![c] = "none"]

\* Mutant: a claim that was never prepared has nothing to return.
UnprepareUnknown_Returns(c) ==
    /\ stage = "idle"
    /\ pod[c] \in {"terminating", "forced"}
    /\ preparedDevices[c] = {}
    /\ Gone(c)
    /\ UNCHANGED <<memoryVars, boundDriver, diskVars, rpcVars>>

\* A claim not recorded as prepared may still own stranded devices.
UnprepareUnknown(c) ==
    /\ stage = "idle"
    /\ pod[c] \in {"terminating", "forced"}
    /\ preparedDevices[c] = {}
    /\ \/ /\ ConvertedFor(c) = {}
          /\ Gone(c)
          /\ UNCHANGED rpcVars
       \/ /\ ConvertedFor(c) # {}
          /\ Begin(c, "unstrand", VfioAmong(ConvertedFor(c)))
          /\ UNCHANGED pod
    /\ UNCHANGED <<memoryVars, boundDriver, diskVars>>

UnstrandWrite ==
    /\ stage = "unstrandwrite"
    /\ \/ /\ savedConversions' = vfioConversions
          /\ IF failed = {} THEN Gone(rpcClaim) ELSE UNCHANGED pod
       \/ May("checkpoint") /\ UNCHANGED <<savedConversions, pod>>
    /\ Return
    /\ UNCHANGED <<memoryVars, boundDriver, preparedDevices>>

UnprepareStart(c) ==
    /\ stage = "idle"
    /\ pod[c] \in {"terminating", "forced"}
    /\ preparedDevices[c] # {}
    /\ Begin(c, "return", VfioAmong(preparedDevices[c]))
    /\ UNCHANGED <<memoryVars, boundDriver, diskVars, pod>>

\* unprepareDevices restores a device as soon as it is back.
UnprepareDevice(d) ==
    /\ stage = "return"
    /\ d \in work
    /\ work' = work \ {d}
    /\ \/ /\ ReturnToOriginalDriver(d, TRUE)
          /\ RestoreFromVfio(rpcClaim, {d})
          /\ UNCHANGED failed
       \/ /\ ReturnToOriginalDriver(d, FALSE)
          /\ failed' = failed \cup {d}
          /\ UNCHANGED <<allocatable, vfioConversions>>
    /\ UNCHANGED <<vfioManager, preConfigureDriver, diskVars, stage, rpcClaim, pod>>

\* Mutant: a device that could not be returned is only logged.
UnprepareDevicesDone_BestEffort ==
    /\ stage = "return"
    /\ work = {}
    /\ GoTo("unspec", {})
    /\ UNCHANGED <<memoryVars, boundDriver, diskVars, pod>>

UnprepareDevicesDone ==
    /\ stage = "return"
    /\ work = {}
    /\ GoTo(IF failed = {} THEN "unspec" ELSE "partialwrite", {})
    /\ UNCHANGED <<memoryVars, boundDriver, diskVars, pod>>

PartialWrite ==
    /\ stage = "partialwrite"
    /\ SaveConversions
    /\ Return
    /\ UNCHANGED <<memoryVars, boundDriver, preparedDevices, pod>>

DeleteClaimSpecFile ==
    /\ stage = "unspec"
    /\ GoTo("unwrite", {}) \/ (May("cdi") /\ Return)
    /\ UNCHANGED <<memoryVars, boundDriver, diskVars, pod>>

CommitUnprepare ==
    /\ stage = "unwrite"
    /\ \/ /\ preparedDevices' = [preparedDevices EXCEPT ![rpcClaim] = {}]
          /\ savedConversions' = vfioConversions
          /\ Gone(rpcClaim)
       \/ May("checkpoint") /\ UNCHANGED <<diskVars, pod>>
    /\ Return
    /\ UNCHANGED <<memoryVars, boundDriver>>

-----------------------------------------------------------------------------
(* The process is killed and starts again. *)

\* What enumerateAllPossibleDevices finds under the name a device has in the
\* claims: a GPU only while it is on amdgpu (a GPU on vfio-pci is found under
\* another name), the VFIO devices only with a manager.
Discovered(d, manager) ==
    CASE d \in Gpu -> IF boundDriver[d] = "amdgpu" THEN "gpu" ELSE "none"
      [] OTHER -> IF manager THEN "vfio" ELSE "none"

\* recoverVfioConversions: an intent whose device never left amdgpu is dropped,
\* every other record gets its entry back.
Restart(manager) ==
    LET live == {r \in savedConversions : boundDriver[r[2]] # "amdgpu"}
        converted == {r[2] : r \in live}
    IN
    /\ vfioManager' = manager
    /\ allocatable' = [d \in Device |-> IF d \in converted THEN "vfio"
                                        ELSE Discovered(d, manager)]
    /\ preConfigureDriver' =
           [d \in Device |-> IF d \in converted \cup Gpu THEN "amdgpu" ELSE boundDriver[d]]
    /\ vfioConversions' = live
    /\ \/ savedConversions' = live
       \/ May("checkpoint") /\ UNCHANGED savedConversions

Crash ==
    /\ May("crash")
    /\ \E manager \in BOOLEAN : /\ ~manager => May("manager")
                                /\ Restart(manager)
    /\ Return
    /\ UNCHANGED <<boundDriver, preparedDevices, pod>>

-----------------------------------------------------------------------------
(* The kubelet and the scheduler. *)

\* The scheduler allocates a device to one claim at a time, until the pod's
\* object is gone.
Allocated(d) == \E c \in Claim : pod[c] \notin {"none", "forced"} /\ d \in devicesOf[c]

PodArrives(c) ==
    /\ pod[c] = "none"
    /\ \A d \in devicesOf[c] : ~Allocated(d)
    /\ pod' = [pod EXCEPT ![c] = "pending"]
    /\ UNCHANGED <<memoryVars, boundDriver, diskVars, rpcVars>>

\* A pod is deleted and its containers are gone; the kubelet will unprepare.
PodDeleted(c) ==
    /\ May("delete")
    /\ pod[c] \in {"pending", "running"}
    /\ rpcClaim # c
    /\ pod' = [pod EXCEPT ![c] = "terminating"]
    /\ UNCHANGED <<memoryVars, boundDriver, diskVars, rpcVars>>

\* Its object is removed by force before the kubelet is done.
PodForced(c) ==
    /\ May("force")
    /\ pod[c] = "terminating"
    /\ pod' = [pod EXCEPT ![c] = "forced"]
    /\ UNCHANGED <<memoryVars, boundDriver, diskVars, rpcVars>>

-----------------------------------------------------------------------------

Kubelet(c) == PrepareCached(c) \/ PrepareStart(c) \/ UnprepareUnknown(c) \/ UnprepareStart(c)

Running ==
    \/ \E d \in Device : ReleaseVfio(d) \/ Configure(d) \/ UnprepareDevice(d)
    \/ ReleaseVfioDone \/ Convert \/ SaveIntent \/ ConfigureDone
    \/ CreateClaimSpecFile \/ CommitPrepare \/ ReplyPrepared \/ PersistAfterFailure
    \/ UnstrandWrite \/ UnprepareDevicesDone \/ PartialWrite
    \/ DeleteClaimSpecFile \/ CommitUnprepare

VfioNext ==
    \/ \E c \in Claim : Kubelet(c) \/ PodArrives(c) \/ PodDeleted(c) \/ PodForced(c)
    \/ Running
    \/ Crash

VfioSpec == VfioInit /\ [][VfioNext]_vfioVars

\* The kubelet retries, a running call proceeds, and a rebind, a deletion or a
\* write that is tried again and again works once.
VfioFairness ==
    /\ WF_vfioVars(Running)
    /\ \A c \in Claim : SF_vfioVars(Kubelet(c))
    /\ \A d \in Device : /\ SF_vfioVars(ReleaseVfio(d) /\ failed' = failed)
                         /\ SF_vfioVars(UnprepareDevice(d) /\ failed' = failed)
    /\ SF_vfioVars(UnstrandWrite /\ savedConversions' = vfioConversions)
    /\ SF_vfioVars(DeleteClaimSpecFile /\ stage' = "unwrite")
    /\ SF_vfioVars(CommitUnprepare /\ preparedDevices' # preparedDevices)

FairVfioSpec == VfioSpec /\ VfioFairness

-----------------------------------------------------------------------------
(* Properties. *)

\* A running pod's passthrough devices are on vfio-pci and its GPUs on amdgpu,
\* whatever failed or restarted, and however other claims came and went: no
\* rollback, retry or late Unprepare of another claim rebinds them.
RunningBound ==
    \A c \in Claim : pod[c] = "running" =>
        /\ \A d \in vfioOf[c] : boundDriver[d] = "vfio-pci"
        /\ \A d \in devicesOf[c] \ vfioOf[c] : d \in Gpu => boundDriver[d] = "amdgpu"

\* A GPU that has left amdgpu is on record, in memory and in the checkpoint, so
\* that a kill at any moment still lets the next process return it.
ConversionsOnRecord ==
    \A d \in Gpu : boundDriver[d] # "amdgpu" =>
        /\ \E c \in Claim : <<c, d>> \in vfioConversions
        /\ \E c \in Claim : <<c, d>> \in savedConversions

\* Between two calls a record belongs to a claim whose pod is still there, and
\* exactly the recorded GPUs are allocatable as VFIO devices.
RecordsMatchEntries ==
    stage = "idle" =>
        /\ \A r \in vfioConversions : pod[r[1]] # "none"
        /\ \A d \in Gpu : allocatable[d] = IF \E c \in Claim : <<c, d>> \in vfioConversions
                                           THEN "vfio" ELSE "gpu"

\* Once every pod is gone every GPU is back on amdgpu and allocatable as a GPU.
GpusReturned ==
    (\A c \in Claim : pod[c] = "none") =>
        \A d \in Gpu : boundDriver[d] = "amdgpu" /\ allocatable[d] = "gpu"

\* Crashes end, and the last restart found the IOMMU on.
Settles == <>[][~Crash]_vfioVars /\ <>[]vfioManager

\* A pod that goes away is eventually unprepared: a rebind, a write or a
\* deletion that failed is picked up again by the retries.
TerminationResolves ==
    Settles => \A c \in Claim : pod[c] \in {"terminating", "forced"} ~> pod[c] = "none"

=============================================================================

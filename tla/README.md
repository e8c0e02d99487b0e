# Verification of the AMD GPU DRA driver

TLA+ models of the kubelet plugin of `ROCm/k8s-gpu-dra-driver` (Go), the TLC
configurations that check them and the proofs of what matters most. Paths are
relative to the repository (`src/` stands for its root).

## 1. The system

The driver is a node plugin (`cmd/gpu-kubeletplugin`) that publishes the GPUs
of its node as ResourceSlices, prepares the devices the scheduler allocated to a
ResourceClaim when the kubelet asks for it, and takes them back. Three features
make it more than a table of devices:

- **AutoPartition**: a claim asks for a share of a *synthetic* device "GPU *i* in
  compute mode *m* and memory mode *n*". The plugin assigns partition slots,
  sets the compute mode of the GPU, and sets the memory mode of the *whole node*,
  which takes a reload of the amdgpu kernel driver. Conflicting memory modes
  are kept away by NoExecute taints.
- **VFIO passthrough**: a claim with a VfioDeviceConfig has its GPU unbound
  from amdgpu and bound to vfio-pci, and rebound when the claim is gone.
- **Restart**: everything is in memory, and is rebuilt from one checkpoint file.

| component | state | operations | talks to | what makes it correct |
|---|---|---|---|---|
| PartitionState (`partition.go`) | locks `activeMemoryMode`, `gpuComputeModes`; counters; `assignedSlots`; `reservedClaims`; `memoryReload` | ReserveClaim, ReleaseClaim, ApplyPartition, RecoverFromCheckpoint | DeviceState (caller), AMD SMI, KMM | slots exclusive and in range; counters and locks follow the holders; a reservation is whole or absent; a GPU in use is never repartitioned |
| DeviceState (`state.go`) | checkpoint, `allocatable`, `vfioConversions` | Prepare, Unprepare, rollback, NewDeviceState | all of the others, under one mutex | running pods keep what they were given; nothing leaks; retries converge |
| reload (`pkg/kmm`, `pkg/amdsmi`) | kernel driver, NodeModulesConfig | TriggerReload, ReloadInboxDriver | KMM operator | no reload under a running pod; the driver comes back |
| VFIO (`vfio_conversions.go`, `vfio_manager.go`) | conversion records, driver bindings | Configure, Unconfigure, recovery | sysfs | a GPU off amdgpu is always on record; all GPUs come back |
| driver (`driver.go`, `deviceinfo.go`) | published slices | NewDriver, Shutdown, republishResources, gRPC entry points | kubelet helper, API server | taints published before a reload; published = actual; slices complete, one mode per GPU |
| configurations (`state.go`, `api`) | none (per call) | GetOpaqueDeviceConfigs, choice, validation | DeviceState | the configuration of highest precedence that fits takes effect; the IOMMU backend is the one asked for |
| CDI (`cdi.go`) | spec files | create, delete | container runtime | a prepared claim has its file |
| discovery (`discovery.go`, `pkg/amdgpu`, `pkg/amdsmi`) | none (once per start) | GetAMDGPUs, GetPFMapping, GetVFMapping, enumerateAllPossibleDevices, AMD SMI Init | sysfs, KFD | a function is listed once; a name held over a restart still finds its device |
| webhook (`cmd/webhook`) | none | admission | API server | admits what the plugin accepts |

**Hard behaviour.** Prepare and Unprepare are serialized by one mutex, but each
is a long sequence of writes to hardware, disk and API server, any of which
may fail; the process may die between any two; the kubelet repeats failed
calls, deletes pods in between and calls Unprepare for claims never prepared;
a KMM reload goes on while no call runs, and its deadline may pass just before
it completes; calls arrive while the plugin is still starting, and AMD SMI is closed
under those that run; a GPU that comes back from vfio-pci has another DRM minor. `PROJECT.json` lists every such hazard at its line.

## 2. The modules

| module | models | extends |
|---|---|---|
| `PartitionState` | bookkeeping of `partition.go`, a step per loop iteration | - |
| `PartitionLease` | what the bookkeeping promises (abstract) | - |
| `PartitionStateProofs` | theorems about `PartitionState` | `PartitionState` |
| `DeviceState` | Prepare, Unprepare, reload, checkpoint, restart on partition devices | `PartitionState` |
| `DeviceGrants` | what Prepare and Unprepare promise the pods (abstract) | - |
| `DeviceStateProofs` | theorems about `DeviceState`: types, bookkeeping under the real callers, taints | `DeviceState` |
| `DeviceRunningProofs` | theorems about running pods: reservation, hardware, isolation, and that `DeviceState` implements `DeviceGrants` | `DeviceStateProofs` |
| `DeviceLeaksProofs` | theorems about what is left behind | `DeviceRunningProofs` |
| `VfioConversions` | conversion, binding, records, recovery of VFIO devices | - |
| `VfioConversionsProofs` | theorems about `VfioConversions`: types, conversions on record | `VfioConversions` |
| `VfioRecordsProofs` | theorems about records, returned GPUs and running pods | `VfioConversionsProofs` |
| `Discovery` | what a start reads from sysfs, KFD and AMD SMI, and the names it hands out | - |
| `DeviceNames` | names over restarts, conversions and returns | `Discovery` |
| `DeviceNamesProofs` | theorems about `DeviceNames` | `DeviceNames` |
| `ResourceSlices` | contents and chunking of the published slices, the scheduler's reading of them | - |
| `ClaimConfigs` | configurations from admission to the prepared device, IOMMU backend | `ResourceSlices` |
| `ClaimConfigsProofs` | theorems about `ClaimConfigs` | `ClaimConfigs` |
| `MC*` | constants of the runs | the above |

### PartitionState

The variables are the fields of `PartitionState`, plus the locals of the one
running loop (`op`, `caller`, `todo`, `done`, `taintsChanged`) and `saved`, the
last snapshot for a checkpoint. A *share* is a share key (claim, request, device,
share ID); `claimOf`, `gpuOf`, `computeOf`, `memoryOf` are what the code parses
out of its parts. `ReserveClaim` is `BeginReserve`, then `ReserveShare` per
share, then `ReserveDone`, or `ReserveConflict`, `UndoShare` and `UndoDone`;
`ReleaseClaim` is `BeginRelease`, `ReleaseShare`, `ReleaseDone`. `Save` and
`Restart` are the checkpoint and `RecoverFromCheckpoint`. `Fits` is the scheduler's
consumable capacity: no more shares on a GPU than its mode has partitions.

### DeviceState

`stage` is the program counter of the running call, `rpcClaim` its claim.

    Prepare     PrepareCached | PrepareStart, ReserveStep, PublishTaints,
                [PollReload | StageMemory, UnloadDriver, ProvisionDriver, ReloadPending],
                SetCompute, PrepareDevices, CreateClaimSpecFile, CommitPrepare, ReplyPrepared
    rollback    RollbackStep (from every failure after the reservation)
    Unprepare   UnprepareUnknown, UnreserveStep, UnreserveCommit         (never prepared)
                UnprepareStart, UnprepareRelease, DeleteClaimSpecFile,
                CommitUnprepare, UnprepareRepublish                      (prepared)
    start       Crash, StartupWire, StartupBuild, StartupPublish; Shutdown
    outside     ReloadCompletes, DeadlinePasses, PodArrives, PodDeleted, ClaimReused

Everything that can fail is a member of `Faults`; a configuration says which. The
hardware is the driver's state, the memory mode in force and the staged one per
GPU, and the compute mode per GPU. Loading the driver makes the staged modes real
and leaves whole GPUs (`LoadDriver`, external). A GPU with no driver reads
as having no mode (`ReadMemory`). The kubelet is `pod`: pending and running pods are
prepared (again), terminating ones unprepared until that succeeds. `ReplyPrepared` is
apart from the commit, so a kill may come between them.

`startup` is where `NewDriver` stands: the gRPC server is up (`served`) before the helper
is known to the state (`StartupWire`), and the first slices are built (`StartupBuild`) before
they are published (`StartupPublish`). Calls are accepted throughout (`Accepting`), and
until the state knows the driver they publish nothing (`CanPublish`). `Shutdown` closes AMD SMI
while calls run; setting a mode then falls back to sysfs, which may work or fail.

`positionalOf` gives the share key `RecoverFromCheckpoint` invents when the
checkpoint holds prepared claims but no slots.

### VfioConversions

Per device: the type of its allocatable entry, the driver to return to, the
driver it is bound to. Records `<<claim, device>>` are in memory
(`vfioConversions`) and in the checkpoint (`savedConversions`). The three users of
`releaseClaimVfio` (stranded devices of an earlier Prepare, rollback, Unprepare of
a claim never prepared) share the loop `ReleaseVfio` / `ReleaseVfioDone`;
Unprepare of a prepared claim restores device by device
(`UnprepareDevice`). A failing rebind may leave the device on its driver or on none.
A failing Configure may also leave it on vfio-pci, since the CDI edits and the
IOMMU backend are decided after the bind. A call that ends before any device is
bound (a device no longer allocatable) has undone its own conversions by the
time it returns, so the model leaves the entries alone. A claim prepared with no
device is stored as an empty list, which the code reads back as "not
prepared"; `preparedDevices[c] = {}` is both.

### Discovery and DeviceNames

A PCI function is a number. sysfs is three functions: the driver of a PCI function, the DRM
minor of a probed GPU, and whether it is split. `EnumerateAllPossibleDevices` maps names to
entries as the code does, both with and without AutoPartition, including the
variables that outlive a loop iteration (`ReadUpTo`, `ScanGpu`) and the entry that wins when two have
one name. In `DeviceNames` a call is one step, and the process may be killed
inside those that rebind a device, on either side of the rebind. The kernel gives a GPU that
comes back the lowest free minor (`Rebind`, `Probe`).

### ResourceSlices and ClaimConfigs

`PublishedSlices` is the pool of one start; `Schedulable` is all the scheduler knows of it:
capacity and counters. `ClaimConfigs` follows a claim: `Submit` (the webhook, if
installed), `Allocate` (devices within the pool and the configurations of the class),
`Prepare` or `PrepareFails`, `Unprepare`. `OrderedConfigs` and `ChosenIndex` are the order and
the search of the code; configurations of other drivers, which the code drops before it searches,
stay in the list and are passed over (`Takes`). The property `EffectiveConfig` is stated independently of them, from
the API's rule and a precedence of positions. The host (`/dev/iommu`, `/dev/vfio/vfio`, the nodes
of bound devices) changes at any time, and the plugin remembers what it saw at start.
Claims' configurations come from lists that mix every kind and policy.

## 3. What is checked

Bounds: two GPUs are enough for "another GPU of the node" (the memory mode is
node-wide, the compute mode per GPU); the claims are chosen so that two share a GPU,
one spans both, one conflicts in memory mode and, in `device_restarts`, one
contradicts itself. Two partitions per split GPU make the capacity bite. Two GPUs are
also the least with which minors, indexes and names can be exchanged; `MCDeviceNames` adds a
PF that somebody else bound to vfio-pci and a VF, whose names shift when a converted GPU is found
with them. `MCClaimConfigs` has a GPU with two modes, one with one and one with none, and
limits of two devices and one counter set, so that a pool has several slices of either kind.

| run | faults | shows |
|---|---|---|
| `partition_state` | restart anywhere | exclusive slots in range, exact counters and locks, whole reservations, slots that stay, and that the bookkeeping implements `PartitionLease` |
| `device_restarts` | kill anywhere, pods deleted any time, calls during start-up | running pods never share and keep their reservation in memory and on disk; nothing is left once pods are gone; no reservation without a pod; Unprepare frees all slots |
| `device_writes` | publication, checkpoint, CDI, modprobe, sysfs writes fail (inbox driver), AMD SMI shut down | the hardware stays as running pods need it, their records stay, taints precede every reload |
| `device_reload` | staging, unload, provisioning fail or lose their answer, deadline, kill (KMM) | the same through an asynchronous reload, that the taints published are the actual ones, and that all of it implements `DeviceGrants` |
| `device_retries` | kill, deadline, deletion, reuse | liveness of Prepare and Unprepare under kubelet retries |
| `vfio_forced` | all of them, with forced deletion and restarts without IOMMU | a GPU off amdgpu is on record in memory and on disk; entries match records; all GPUs are back once the pods are gone |
| `vfio_retries` | all but forced deletion | running pods keep their bindings; every Unprepare ends |
| `names_any` | kill between and inside calls, a start while amdgpu probes | a function is allocatable under one name; every record finds its GPU under the name its claim holds; no running pod's function is rebound, if it is the one its claim's name stands for (a start while amdgpu probes, or exchanged minors, make a name spell another GPU: `given_twice`) |
| `claims` | failing decode, policy, manager and backend; a host that changes | the effective configuration, conversions that belong to a claim, the IOMMU backend asked for, admission against Prepare, complete slices, one mode per GPU |

The runs `unloaded`, `given_twice` and `subrequest` expect a violation (below).

Fairness is stated once per module (`DeviceFairness`, `VfioFairness`). Weak fairness
of a running call: the mutex holder proceeds. Strong fairness of the kubelet's calls:
it retries every claim it has work for, though other calls may be running each
time. Weak fairness of the operator's reload. Strong fairness of a provisioning,
a rebind or a write: repeated for ever, it works once. The liveness properties also
assume (`Settles`) that crashes end and that the driver is loaded again and
again, respectively that the last restart found the IOMMU on; the code can do nothing
without. Arrival, deletion and crashes are not fair.

Invariants that hold only between two calls are guarded by `stage = "idle"`.

### Where code and documentation disagree

Three runs find a counterexample and are listed with their lines as findings:

- `unloaded`: a reload cut short after `modprobe -r` is never resumed, because each retry
  first stages the memory mode through the driver that is gone.
- `given_twice`: two GPUs converted for claims and returned in the other order swap their DRM
  minors. A GPU claim resolves its name to a DRM node (`state.go:859`), a VFIO claim to the PCI
  address of the entry, and nothing compares the two: two pods get one GPU.
- `subrequest`: a configuration that names a request is not applied to a result that names one of
  its subrequests (`state.go:622`), as the API has it; the default takes its place.

Other deviations met while modelling, which no run repeats:

- AutoPartition. The reload marker outlives its claim: `ReleasePartition` never clears it, and
  the next claim of another memory mode polls it and fails (`partition.go:523`; compare 521-522 and
  `docs/driver-attributes.md:300-302`). A reservation written while a reload is pending
  (`state.go:289-293`) and rolled back in memory (433-446) is still in the checkpoint, and
  `Unprepare` of the unknown claim returns early (478). `Unprepare` frees the slot before the steps
  that may fail (526); a claim that is used again then shares the partition. A retried
  `Unprepare` does not know that taints changed (501, 530, 559: `TaintsPublished` fails with the faults
  `cdi` and `delete`). A checkpoint with prepared claims and no slots is recovered under
  share keys (`partition.go:706`) that `Unprepare` does not release (`UnprepareFreesSlots`
  fails with `cdi`, `checkpoint`, `crash`, `reuse`, `delete`); this is why `device_writes` has no
  `crash`. A kill between the CDI spec file and the checkpoint leaves the file (313, 478).
- Start and stop. A call in the first moments of a start applies a reservation without
  publishing its taints, and the slices built at start may be published over newer ones
  (`driver.go:119-158`). `PublishResources` returns before the API server has anything
  (`draplugin.go`). An unreadable checkpoint is logged and the plugin starts empty
  (`state.go:177`). With no GPU on amdgpu AMD SMI finds no socket and AutoPartition does not start
  (`amdsmi.go:201`). The liveness probe waits behind a long Prepare (`health.go:157`).
- Names. A start while amdgpu is still probing gives a GPU the numbers of the one before it
  (`amdgpu.go:83`). `gpuIndex` counts the GPUs on amdgpu, so synthetic names shift when one is
  missing. `gpu-vfio-N` is a position: after a restart with a converted GPU a pre-bound name
  means another card, and when a converted GPU's old minor has gone to another GPU, its
  recovered entry replaces that GPU's. A VF in use at a restart is never unbound (`discovery.go:397`).
- Configurations. A converted GPU of a pod deleted by force is given to the next claim,
  which is prepared with no device (`state.go:652`); so is a VFIO device without a
  VfioDeviceConfig. With the VFIO gate off a VfioDeviceConfig silently yields the compute GPU. The webhook
  refuses every VfioDeviceConfig (`webhook/main.go:291`), which `docs/installation.md:156` tells
  users to write; it is off by default. A claim whose devices differ in policy, or one of which
  falls back, mixes backends in one spec, which the comment at `vfio_manager.go:259-260` excludes.

The faults of the passing runs leave these behaviours out, or their properties are stated so
that they do not count against them.

## 4. What is proved

Every property of the passing runs but the liveness properties is a theorem, for any values of
the constants that satisfy the `ASSUME`s of their modules: sets are finite where the code counts
or sorts them, and a whole GPU has one partition (`consts.go:81`). Where a theorem holds only
under some failures, it says so in a hypothesis on `Faults`; the table below tells what each excludes.

**PartitionState** (`PartitionStateProofs`): type correctness, exclusive slots, slots within the
partitions, exact counters, locks that match the holders, whole reservations, slots that never
move, and the refinement of `PartitionLease`. The invariant is `IInv == TypeOK /\ TableInv /\
LoopInv /\ SavedInv`. The properties alone are not inductive: `TableInv` ties counters, locks and
slots to the set of holders (`CoreInv`, and apart from it `SlotWithinPartitions`, which a
restart may have to take from the file); `LoopInv` says what a half-finished loop has done, which
the step that finishes or undoes it needs; `SavedInv` says of the last snapshot what a restart will
build on. That the scheduler respects capacity is in `Fits`, part of the specification.

**DeviceState**. Its reservation loops are the actions of `PartitionState`, so the lemmas about those
are used again, under weaker invariants: the checkpoint may be old here.

| invariant | says | gives |
|---|---|---|
| `ControlInv` | types; which loop, caller and claim belong to each stage | `DeviceTypeOK` |
| `BookInv` | the bookkeeping above at every stage; a prepared claim is reserved but at the end of its own Unprepare; what the checkpoint holds, a restart can rebuild | `SlotsExclusive`, `CountsExact`, `LocksMatchHolders`, `UnprepareFreesSlots` |
| `TaintInv` | published taints are current while any other claim holds something or the running one is past its publication | `TaintsBeforeReload` |
| `CleanInv` | whoever changed the taints still knows that it did (`taintsChanged`, `republish`) | `TaintsPublished` |
| `LiveInv` | a claim from its commit to the deletion of its pod has one reservation in memory, on disk and in its record, and the hardware it was given; how far the running call has brought the hardware (`Progress`) | `RunningHasLease`, `HardwareMatchesRunning` |
| `PlacedFits` | the shares of all pods together fit the GPUs | with `BookInv` and `LiveInv`, `RunningExclusive` and `ImplementsGrants` |
| `LeakInv` | whatever is reserved, in memory or on disk, is for a claim that has a pod; the slots on disk exist on their GPUs | `NothingLeaks`, `SlotWithinPartitions` |

`LiveInv` is stated for living claims and not for running pods, because Prepare's promise begins
with the commit, before the kubelet has the answer.

The refinement (`GrantsRefinement`) says this promise as a specification: `DeviceGrants` has a
grant per share and the modes of the GPUs, and no calls, files, locks or restarts. A share is
granted the recorded slot of its claim while the claim lives. The commit of Prepare is `Grant`: it needs
`Progress` for the hardware and for partitions that exist, and slots apart from those of every other
living claim. The deletion of a prepared claim's pod is `Revoke`. Every other step, a restart and a late reload
among them, is `Reconfigure` or a stutter: `LiveInv` before and after it says that the
hardware under a grant has the claim's modes, so it has not moved.

`LeakInv` rests on one fact that
none of the properties shows: a rollback does not write, so a claim that is in the
checkpoint must never be rolled back. Under the hypothesis its retries only wait: the node has its
memory mode or waits for the reload that brings it (`Reloading`), and its GPUs are set
(`Setting`), so nothing after the reservation can fail.

| hypothesis | faults excluded | because the code then breaks the property (section 3) | runs that satisfy it |
|---|---|---|---|
| `Recoverable` | `crash` and `delete` together with `cdi` or `checkpoint` | a checkpoint with prepared claims and no slots is recovered under share keys nobody releases | all of `DeviceState`'s |
| `Steady` | and `reuse` | an Unprepare that gave up has freed its slots, and the claim is used again | `device_restarts`, `device_writes`, `device_reload` |
| `Settled` | `Recoverable` and no `early` | a call before `NewDriver` is done publishes no taints | `device_writes`, `device_reload`, `device_retries` |
| `Publishing` | `early`, `publish`; `delete` with `cdi` or `checkpoint` | a publication fails, or a retried Unprepare does not know that it owes one | `device_reload`, `device_retries` |
| `Tidy` | all but `crash`, `delete`, `reuse`, `early`, `publish`, `stage`, `unload`, `provision` | a reservation written to disk is rolled back in memory only | `device_restarts` |

`NoGhostReservation` holds under `Tidy`, and under any faults if the plugin is never restarted.

**VfioConversions**, for any set of faults. `ConversionsOnRecord`: whatever fails and whenever the
plugin is killed, a GPU that is off amdgpu is on record in memory and on disk. Alone it is not
inductive, because the steps that drop a record are sound only for what earlier steps
of the same loop did. `IInv` adds, by name: `RecordsWritten` (a record is missing on
disk only in a Prepare that has not bound anything for it, or has undone it),
`OwnRecords` (those records are for the claim's own passthrough devices),
`RecordsAtHome` (a recorded GPU the running loop has not bound yet, or has returned
without failure, is on amdgpu), `EntriesAgree` and `HomeIsAmdgpu`. `MatchInv` (`VfioRecordsProofs`) adds that
a device has one owner in memory and one on disk (`OneOwner`) and that every record is for a claim whose pod is
still there and will be unprepared (`PodsPresent`, `StillToReturn`): `RecordsMatchEntries` and `GpusReturned`
follow. `BoundInv` adds that living pods have no device in common (`Apart`) and that the running
Prepare keeps what it has bound so far; it gives `RunningBound` if no pod is deleted by force, after
which the scheduler gives a device to a second claim while the first has yet to return it
(`vfio_retries` has every other fault).

**DeviceNames**, for any functions, splits, numbering and kills: types, `OneEntryPerFunction`,
`RecordsResolve` and `RunningUndisturbed`. `NamesInv` rests on names: the scheduler gives a name to
one claim, so records are unique per name, and `EntriesMatch` makes them unique per GPU. A GPU off amdgpu is
on record (`OffAmdgpu`), therefore what discovery lists for it as a pre-bound PF is replaced at
recovery. That a GPU which comes back finds a free minor is a counting argument
over the functions (`NamesTypeOK` needs it).

**ClaimConfigs**, for any devices, limits of the API, claims, configurations and hosts.
`SlicesComplete` is a fact of the chunking: `Cut` and `FlatOrdered` say that the pieces, laid end to end, are
the sequence, for any length and limit. `OneModePerGpu`, `ConvertedForItsClaim` and `BackendAsAsked`
follow from `IInv`: the devices in the slices are the entries of their names (`Faithful`) and all
allocations together stay `WithinPool`, which an Unprepare keeps because the
assignment only shrinks (`SchedulableShrinks`). From capacity one follows that a whole GPU is held
by one request (`HeldOnce`), and from that that returning one claim's GPUs cannot touch
another's. `SubmitInv` says what reaches Prepare: devices that are listed, entries that are those of the start
or converted GPUs, own configurations the webhook has seen. It gives `AdmittedIsAccepted` and types, and with
`IInv` that a claim which has nothing prepared finds its devices as they were at the start
(`EntriesOfUnprepared`). Then the last configuration of the code's list that takes a result is
the one of highest precedence that fits (`OrderedByPrecedence`, `TakesIsFits`), which is `EffectiveConfig`. This
last theorem assumes `NoAlternatives`: with subrequests the run `subrequest` refutes it.

Only model-checked, because it is out of the prover's reach: liveness under fairness
(`device_retries`, `vfio_retries`). The three runs that expect a violation are counterexamples.

## 5. Not modelled

- The health service and the HTTP and AdmissionReview wrapper of the webhook: stateless I/O.
- CDI contents other than the device nodes of VFIO devices, the common spec file, device
  attributes: data without control.
- The three attempts of an AMD SMI set call: they succeed or fail as one.
- Unreadable sysfs files, an unreadable checkpoint, the delay of a publication.
- A feature gate changed over a restart, and claims that mix partition and VFIO devices.
- Results of other drivers and other pools; device health, which the driver does not report.
- Logging, flags, Helm chart and build tools.

## 6. Plan

Done: partition bookkeeping with its abstract specification; Prepare and Unprepare with reload,
restart, start-up and shutdown, and theirs; VFIO conversions; discovery and naming; slices, configurations,
admission and IOMMU backend; the proofs of all of their safety properties. Next, in order:

1. Abstract specification of `VfioConversions` (a device is at home or lent to one claim), and
   the refinement.
2. A start with the VFIO feature gate off, and claims that mix partition and VFIO devices.
3. `NoGhostReservation` and `NothingLeaks` with restarts and failing writes, stated for the claims whose
   reservation was not rolled back.

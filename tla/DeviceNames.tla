----------------------------- MODULE DeviceNames ------------------------------
(***************************************************************************)
(* The names of the devices over the life of a node.  A name is all that a *)
(* claim holds of its device: the scheduler allocates a name, Prepare      *)
(* resolves it (a GPU by the DRM node its name spells, a VFIO device and a *)
(* synthetic one by the PCI address of the entry), Unprepare looks it up   *)
(* again, and every restart of the plugin hands the names out anew.        *)
(* Meanwhile GPUs are bound to vfio-pci and back, and a GPU that comes     *)
(* back takes the lowest free DRM minor.                                   *)
(*                                                                         *)
(* A call is one step here; what can go wrong inside one is the subject of *)
(* VfioConversions and DeviceState.  The process may be killed between two *)
(* calls and, where a conversion record is written before or after the     *)
(* rebind it is about, between the two.                                    *)
(***************************************************************************)
EXTENDS Discovery

CONSTANTS
    Claim,          \* claims of one device each
    NoName,
    EarlyStart,     \* the plugin may start while amdgpu still probes GPUs
    wants           \* "gpu": a GPU; "convert": a GPU, with a VfioDeviceConfig;
                    \*   "vfio": a VFIO device, with one; "bare": one without

ASSUME NamesAssumption ==
    /\ NoName \notin Name
    /\ EarlyStart \in BOOLEAN
    /\ wants \in [Claim -> {"gpu", "convert", "vfio", "bare"}]

VARIABLES
    autoPartition,          \* the feature gate
    up,                     \* the plugin runs
    driver, minor, split,   \* sysfs
    allocatable,            \* name -> entry, in memory
    conversions,            \* records <<claim, name, function>>; in memory they
                            \*   are those of the checkpoint between two calls
    prepared,               \* the checkpoint's prepared claims
    allocated,              \* the name a claim was allocated
    given,                  \* the function whose nodes the pod received
    pod

sysfsVars == <<driver, minor, split>>
claimVars == <<prepared, allocated, given, pod>>
namesVars == <<autoPartition, up, sysfsVars, allocatable, conversions, claimVars>>

Records == Claim \X Name \X Function

NamesTypeOK ==
    /\ autoPartition \in BOOLEAN /\ up \in BOOLEAN
    /\ driver \in [Function -> {"amdgpu", "vfio-pci", "unbound"}]
    /\ minor \in [Gpu -> Minor \cup {NoMinor}]
    /\ split \in [Gpu -> BOOLEAN]
    /\ allocatable \in [Name -> Entry \cup {NoEntry}]
    /\ conversions \subseteq Records
    /\ prepared \subseteq Claim
    /\ allocated \in [Claim -> Name \cup {NoName}]
    /\ given \in [Claim -> Function \cup {NoFunction}]
    /\ pod \in [Claim -> {"none", "pending", "running", "terminating"}]

\* The node has booted: amdgpu has its GPUs but has not probed them yet.
NamesInit ==
    /\ autoPartition \in BOOLEAN
    /\ up = FALSE
    /\ driver = [f \in Function |-> CASE f \in Gpu -> "amdgpu"
                                      [] f \in Prebound -> "vfio-pci"
                                      [] f \in Vf -> "unbound"]
    /\ minor = [g \in Gpu |-> NoMinor]
    /\ split \in {[g \in Gpu |-> g \in s] : s \in SUBSET partitionable}
    /\ allocatable = [n \in Name |-> NoEntry]
    /\ conversions = {}
    /\ prepared = {}
    /\ allocated = [c \in Claim |-> NoName]
    /\ given = [c \in Claim |-> NoFunction]
    /\ pod = [c \in Claim |-> "none"]

-----------------------------------------------------------------------------
(* The kernel. *)

LowestFree(taken) == CHOOSE m \in Minor : m \notin taken /\ \A k \in Minor \ taken : m <= k
MinorsInUse == {minor[g] : g \in Gpu} \ {NoMinor}

\* amdgpu finishes probing one of its GPUs.
Probe(g) ==
    /\ driver[g] = "amdgpu" /\ minor[g] = NoMinor
    /\ minor' = [minor EXCEPT ![g] = LowestFree(MinorsInUse)]
    /\ UNCHANGED <<autoPartition, up, driver, split, allocatable, conversions, claimVars>>

\* A write to a driver's bind or unbind file returns when it has taken effect.
Rebind(f, to) ==
    /\ driver' = [driver EXCEPT ![f] = to]
    /\ minor' = IF f \notin Gpu \/ to = driver[f] THEN minor
                ELSE [minor EXCEPT ![f] = IF to = "amdgpu" THEN LowestFree(MinorsInUse)
                                                           ELSE NoMinor]

-----------------------------------------------------------------------------
(* Start-up. *)

\* Mutant: the PF that discovery lists for a converted GPU stays listed.
RecoverVfioConversions_KeepDiscovered(found, records) ==
    [n \in Name |->
        IF \E r \in records : r[2] = n
        THEN [kind |-> "vfio", pci |-> (CHOOSE r \in records : r[2] = n)[3], home |-> "amdgpu"]
        ELSE found[n]]

\* Mutant: a converted GPU goes back to the driver it was found with.
RecoverVfioConversions_FoundHome(found, records) ==
    [n \in Name |->
        IF \E r \in records : r[2] = n
        THEN [kind |-> "vfio", pci |-> (CHOOSE r \in records : r[2] = n)[3], home |-> "vfio-pci"]
        ELSE IF found[n].kind = "vfio" /\ \E r \in records : r[3] = found[n].pci
        THEN NoEntry
        ELSE found[n]]

\* recoverVfioConversions: a converted GPU gets back the name its claim holds,
\* whatever discovery put there, and the entry discovery made of it goes.
RecoverVfioConversions(found, records) ==
    [n \in Name |->
        IF \E r \in records : r[2] = n
        THEN [kind |-> "vfio", pci |-> (CHOOSE r \in records : r[2] = n)[3], home |-> "amdgpu"]
        ELSE IF found[n].kind = "vfio" /\ \E r \in records : r[3] = found[n].pci
        THEN NoEntry
        ELSE found[n]]

\* NewDeviceState; records of a GPU that is on amdgpu are stale.  NewDriver gives
\* up, and the kubelet restarts the container, when AMD SMI is wanted and fails.
Start ==
    /\ ~up
    /\ EarlyStart \/ \A g \in Gpu : driver[g] = "amdgpu" => minor[g] # NoMinor
    /\ autoPartition => SmiInit(driver, minor, split)
    /\ up' = TRUE
    /\ conversions' = {r \in conversions : driver[r[3]] # "amdgpu"}
    /\ allocatable' = RecoverVfioConversions(
           EnumerateAllPossibleDevices(autoPartition, driver, minor, split), conversions')
    /\ UNCHANGED <<autoPartition, sysfsVars, claimVars>>

\* Killed between two calls.
Crash ==
    /\ up
    /\ up' = FALSE
    /\ UNCHANGED <<autoPartition, sysfsVars, allocatable, conversions, claimVars>>

-----------------------------------------------------------------------------
(* The scheduler: a name of the published kind that no other claim holds.  *)
(* A converted GPU is published as the GPU it was.                         *)

PublishedAs(entry) ==
    CASE entry.kind = "vfio" -> IF entry.home = "amdgpu" THEN "gpu" ELSE "vfio"
      [] entry.kind = "synthetic" -> "gpu"
      [] OTHER -> entry.kind

Allocate(c, n) ==
    /\ up
    /\ pod[c] = "none"
    /\ PublishedAs(allocatable[n]) = IF wants[c] \in {"vfio", "bare"} THEN "vfio" ELSE "gpu"
    /\ \A d \in Claim : allocated[d] # n
    /\ allocated' = [allocated EXCEPT ![c] = n]
    /\ pod' = [pod EXCEPT ![c] = "pending"]
    /\ UNCHANGED <<autoPartition, up, sysfsVars, allocatable, conversions, prepared, given>>

PodDeleted(c) ==
    /\ pod[c] \in {"pending", "running"}
    /\ pod' = [pod EXCEPT ![c] = "terminating"]
    /\ UNCHANGED <<autoPartition, up, sysfsVars, allocatable, conversions, prepared,
                   allocated, given>>

-----------------------------------------------------------------------------
(* Prepare. *)

HasVfioConfig(c) == wants[c] \in {"convert", "vfio"}

RunningWith(c, f) ==
    /\ prepared' = prepared \cup {c}
    /\ given' = [given EXCEPT ![c] = f]
    /\ pod' = [pod EXCEPT ![c] = "running"]

Calls(c, state) == up /\ pod[c] = state

\* The GPU whose node the name spells, whatever the entry says of it.
PrepareGpu(c) ==
    /\ Calls(c, "pending") /\ c \notin prepared
    /\ ~HasVfioConfig(c)
    /\ allocatable[allocated[c]].kind \in {"gpu", "partition"}
    /\ \E g \in Gpu : minor[g] = allocated[c][2] /\ RunningWith(c, g)
    /\ UNCHANGED <<autoPartition, up, sysfsVars, allocatable, conversions, allocated>>

\* A synthetic device: the GPU of the index is put into the mode the name asks
\* for, then its nodes are looked up by PCI address.  A VfioDeviceConfig does
\* not apply to it.
PrepareSynthetic(c) ==
    /\ Calls(c, "pending") /\ c \notin prepared
    /\ allocatable[allocated[c]].kind = "synthetic"
    /\ LET g == allocatable[allocated[c]].pci IN
          /\ driver[g] = "amdgpu" /\ minor[g] # NoMinor
          /\ \E s \in BOOLEAN : split' = [split EXCEPT ![g] = s]
          /\ RunningWith(c, g)
    /\ UNCHANGED <<autoPartition, up, driver, minor, allocatable, conversions, allocated>>

\* A GpuConfig passes a VFIO device over: the claim is prepared with nothing.
PrepareNothing(c) ==
    /\ Calls(c, "pending") /\ c \notin prepared
    /\ ~HasVfioConfig(c)
    /\ allocatable[allocated[c]].kind = "vfio"
    /\ RunningWith(c, NoFunction)
    /\ UNCHANGED <<autoPartition, up, sysfsVars, allocatable, conversions, allocated>>

\* Mutant: whatever is no VFIO device yet is taken for a GPU.
Converts_NotVfio(c) == allocatable[allocated[c]].kind # "vfio"

Converts(c) == allocatable[allocated[c]].kind = "gpu"

\* The entry and the record of a device the call converts, or found converted.
RecordConversion(c) ==
    LET n == allocated[c]
        g == allocatable[n].pci
    IN IF Converts(c)
       THEN /\ allocatable' = [allocatable EXCEPT ![n].kind = "vfio", ![n].home = "amdgpu"]
            /\ conversions' = conversions \cup {<<c, n, g>>}
       ELSE UNCHANGED <<allocatable, conversions>>

PrepareVfio(c) ==
    /\ Calls(c, "pending") /\ c \notin prepared
    /\ HasVfioConfig(c)
    /\ allocatable[allocated[c]].kind \in {"gpu", "vfio"}
    /\ RecordConversion(c)
    /\ Rebind(allocatable[allocated[c]].pci, "vfio-pci")
    /\ RunningWith(c, allocatable[allocated[c]].pci)
    /\ UNCHANGED <<autoPartition, up, split, allocated>>

\* Killed after the record of intent is on disk, before or after the bind.
PrepareInterrupted(c) ==
    /\ Calls(c, "pending") /\ c \notin prepared
    /\ HasVfioConfig(c) /\ Converts(c)
    /\ RecordConversion(c)
    /\ \/ Rebind(allocatable[allocated[c]].pci, "vfio-pci")
       \/ UNCHANGED <<driver, minor>>
    /\ up' = FALSE
    /\ UNCHANGED <<autoPartition, split, claimVars>>

-----------------------------------------------------------------------------
(* Unprepare: the devices of a prepared claim by name, those of a claim    *)
(* that was never recorded as prepared by its conversion records.          *)

NamesToReturn(c) ==
    IF c \in prepared THEN {allocated[c]} ELSE {r[2] : r \in {s \in conversions : s[1] = c}}

\* Mutant: returnToOriginalDriver leaves a GPU that was converted on vfio-pci.
ReturnDevice_Prebound(n) ==
    /\ Rebind(allocatable[n].pci,
              IF allocatable[n].home = "unbound" THEN "unbound" ELSE driver[allocatable[n].pci])

\* Unconfigure: a device found on vfio-pci stays there.
ReturnDevice(n) ==
    Rebind(allocatable[n].pci,
           IF allocatable[n].home = "vfio-pci" THEN driver[allocatable[n].pci]
                                               ELSE allocatable[n].home)

\* restoreFromVfio, under the claim's own record only.
RestoreFromVfio(c, n) ==
    /\ conversions' = {r \in conversions : ~(r[1] = c /\ r[2] = n)}
    /\ allocatable' = IF conversions' = conversions THEN allocatable
                      ELSE [allocatable EXCEPT ![n].kind = "gpu"]

Forget(c) ==
    /\ prepared' = prepared \ {c}
    /\ allocated' = [allocated EXCEPT ![c] = NoName]
    /\ given' = [given EXCEPT ![c] = NoFunction]
    /\ pod' = [pod EXCEPT ![c] = "none"]

\* Mutant: every converted device of the node goes back.
UnprepareVfio_AllClaims(c) ==
    /\ Calls(c, "terminating")
    /\ \E n \in Name :
          /\ allocatable[n].kind = "vfio"
          /\ n \in NamesToReturn(c) \cup {r[2] : r \in conversions}
          /\ ReturnDevice(n)
          /\ RestoreFromVfio(c, n)
    /\ Forget(c)
    /\ UNCHANGED <<autoPartition, up, split>>

UnprepareVfio(c) ==
    /\ Calls(c, "terminating")
    /\ \E n \in NamesToReturn(c) :
          /\ allocatable[n].kind = "vfio"
          /\ ReturnDevice(n)
          /\ RestoreFromVfio(c, n)
    /\ Forget(c)
    /\ UNCHANGED <<autoPartition, up, split>>

\* Killed after the rebind, before the record is gone from disk.
UnprepareInterrupted(c) ==
    /\ Calls(c, "terminating")
    /\ \E n \in NamesToReturn(c) : allocatable[n].kind = "vfio" /\ ReturnDevice(n)
    /\ up' = FALSE
    /\ UNCHANGED <<autoPartition, split, allocatable, conversions, claimVars>>

\* Nothing to return; a name that is not allocatable any more is passed over.
UnprepareOther(c) ==
    /\ Calls(c, "terminating")
    /\ \A n \in NamesToReturn(c) : allocatable[n].kind # "vfio"
    /\ Forget(c)
    /\ UNCHANGED <<autoPartition, up, sysfsVars, allocatable, conversions>>

-----------------------------------------------------------------------------

NamesNext ==
    \/ \E g \in Gpu : Probe(g)
    \/ Start \/ Crash
    \/ \E c \in Claim :
          \/ \E n \in Name : Allocate(c, n)
          \/ PodDeleted(c)
          \/ PrepareGpu(c) \/ PrepareSynthetic(c) \/ PrepareNothing(c) \/ PrepareVfio(c)
          \/ PrepareInterrupted(c)
          \/ UnprepareVfio(c) \/ UnprepareInterrupted(c) \/ UnprepareOther(c)

NamesSpec == NamesInit /\ [][NamesNext]_namesVars

-----------------------------------------------------------------------------
(* Properties. *)

Running == {c \in Claim : pod[c] = "running"}

\* No physical function is allocatable under two names at once, unless the two
\* are partitions: neither discovery, with GPUs half probed, already split or
\* converted, nor recovery ever lists one twice.
OneEntryPerFunction ==
    up => \A n, k \in Name :
              /\ n # k /\ allocatable[n] # NoEntry
              /\ allocatable[n].pci = allocatable[k].pci
              => allocatable[n].kind = "partition" /\ allocatable[k].kind = "partition"

\* While the plugin runs, every conversion record finds its GPU under the name
\* the claim was allocated, off amdgpu and due back there; and a GPU that is
\* off amdgpu has a record, of a claim that still exists.
RecordsResolve ==
    up =>
      /\ \A r \in conversions :
             allocatable[r[2]] = [kind |-> "vfio", pci |-> r[3], home |-> "amdgpu"]
      /\ \A g \in Gpu : driver[g] # "amdgpu" =>
             \E r \in conversions : r[3] = g /\ pod[r[1]] # "none"

\* No two running pods were given the same physical function, whatever was
\* restarted, converted and returned since their names were allocated.
GivenOnce ==
    \A c, d \in Running : c # d /\ given[c] # NoFunction => given[c] # given[d]

\* No call for another claim, and no restart, rebinds the function a pod runs on,
\* if it is the one that the claim's name stands for.
RunningUndisturbed ==
    [][\A c \in Running :
           /\ c \in Running' /\ given[c] # NoFunction
           /\ given[c] = allocatable[allocated[c]].pci
           => driver'[given[c]] = driver[given[c]]]_namesVars

=============================================================================

------------------------------ MODULE Discovery ------------------------------
(***************************************************************************)
(* What the plugin makes of sysfs when it starts: GetAMDGPUs               *)
(* (pkg/amdgpu/amdgpu.go), GetPFMapping and GetVFMapping                   *)
(* (pkg/amdgpu/vfio.go), and enumerateAllPossibleDevices                   *)
(* (cmd/gpu-kubeletplugin/discovery.go), which gives every device its name.*)
(*                                                                         *)
(* sysfs is three functions: the kernel driver of a PCI function, the DRM  *)
(* minor of a GPU that has finished probing (the card and render numbers   *)
(* move together), and whether a GPU is split into partitions.             *)
(***************************************************************************)
EXTENDS Integers, FiniteSets, SequencesExt

CONSTANTS
    Gpu, Prebound, Vf,  \* GPUs, PFs somebody else bound to vfio-pci, and VFs;
                        \*   a PCI address is a number
    NoFunction, NoMinor,
    partitionable,      \* the GPUs that have a compute partition mode
    xcpOf,              \* key, and minor, of the platform device of a split GPU
    iommuOrder          \* order of the IOMMU groups, then addresses, as strings

Function == Gpu \cup Prebound \cup Vf

ASSUME DiscoveryAssumption ==
    /\ Function \subseteq Nat /\ IsFiniteSet(Function)
    /\ Gpu \cap Prebound = {} /\ Gpu \cap Vf = {} /\ Prebound \cap Vf = {}
    /\ NoFunction \notin Function /\ NoMinor \notin Nat
    /\ partitionable \subseteq Gpu
    /\ xcpOf \in [Gpu -> Nat] /\ IsInjective(xcpOf)
    /\ \A g, f \in Gpu : xcpOf[g] > Cardinality(Gpu) /\ xcpOf[g] > f
    /\ IsInjective(iommuOrder) /\ DOMAIN iommuOrder = Function

Minor == 0 .. Cardinality(Gpu) - 1
Position == 0 .. Cardinality(Function) - 1
Name == ({"gpu"} \X (Minor \cup {xcpOf[g] : g \in Gpu})) \cup ({"vfio", "part"} \X Position)

Entry == [kind : {"gpu", "partition", "synthetic", "vfio"}, pci : Function,
          home : {"amdgpu", "vfio-pci", "unbound"}]
NoEntry == [kind |-> "none", pci |-> NoFunction, home |-> "unbound"]

Position0(x, set) == Cardinality({y \in set : y < x})

-----------------------------------------------------------------------------
(* GetAMDGPUs. *)

\* GetTopologyInfo: the KFD has a node, by render minor, for every GPU that has
\* probed and for the further partitions of a split one, all with the identifier
\* of the GPU, which is made of its address.
GetTopologyInfo(minor, split) ==
    LET probed == {g \in Gpu : minor[g] # NoMinor} IN
    [n \in {minor[g] : g \in probed} \cup {xcpOf[g] : g \in {p \in probed : split[p]}} |->
        CHOOSE g \in probed : n \in {minor[g], xcpOf[g]}]

\* The GPUs with DRM nodes that the loop over the addresses has read up to g.
ReadUpTo(g, driver, minor) ==
    {h \in Gpu : h <= g /\ driver[h] = "amdgpu" /\ minor[h] # NoMinor}

\* One GPU bound to amdgpu.  The card, the render node and the identifier are
\* declared outside the loop: a GPU that has no DRM nodes yet inherits those of
\* the last one before it that had, or the initial ones.
ScanGpu(g, driver, minor, split) ==
    LET read == ReadUpTo(g, driver, minor)
        last == CHOOSE h \in read : \A k \in read : k <= h
    IN [key |-> g, pci |-> g, split |-> split[g],
        node |-> IF read = {} THEN 0 ELSE minor[last],
        id |-> IF read = {} THEN NoFunction ELSE GetTopologyInfo(minor, split)[minor[last]]]

PhysicalGpus(driver, minor, split) ==
    {ScanGpu(g, driver, minor, split) : g \in {h \in Gpu : driver[h] = "amdgpu"}}

\* The platform devices, each attributed to the GPU with its identifier that has
\* partition modes to read; those that the KFD does not know are left out.
SubPartitions(physical, topology) ==
    {[key |-> xcpOf[d.pci], pci |-> d.pci, node |-> xcpOf[d.pci], id |-> d.id, split |-> TRUE] :
        d \in {e \in physical : xcpOf[e.pci] \in DOMAIN topology
                             /\ e.id = topology[xcpOf[e.pci]]}}

GetAMDGPUs(driver, minor, split) ==
    LET physical == PhysicalGpus(driver, minor, split)
    IN physical \cup SubPartitions(physical, GetTopologyInfo(minor, split))

\* AMD SMI has a processor for every GPU that amdgpu has probed; those of
\* sub-partitions carry addresses that discovery never asks for.
EnumerateGPUHandles(driver, minor) == {g \in Gpu : driver[g] = "amdgpu" /\ minor[g] # NoMinor}

\* Init binds every physical GPU discovery counted to the handle at its address,
\* or fails; so does a node without any GPU on amdgpu.
SmiInit(driver, minor, split) ==
    LET handles == EnumerateGPUHandles(driver, minor)
    IN handles # {} /\ {d.pci : d \in PhysicalGpus(driver, minor, split)} \subseteq handles

-----------------------------------------------------------------------------
(* enumerateAllPossibleDevices: what is listed, under which name. *)

Listed(key, name, kind, pci, home) ==
    [key |-> key, name |-> name, entry |-> [kind |-> kind, pci |-> pci, home |-> home]]

\* Standard mode: every entry is a GPU or a partition, named after its node.
StandardDevices(gpus) ==
    {Listed(d.key, <<"gpu", d.node>>, IF d.split THEN "partition" ELSE "gpu", d.pci, "amdgpu") :
        d \in gpus}

\* Mutant: the sub-partitions of a GPU that is already split count as GPUs.
SyntheticDevices_NoSkip(gpus) ==
    {Listed(d.key,
            IF d.pci \in partitionable
            THEN <<"part", Position0(d.key, {e.key : e \in gpus})>> ELSE <<"gpu", d.node>>,
            IF d.pci \in partitionable THEN "synthetic" ELSE "gpu", d.pci, "amdgpu") :
        d \in gpus}

\* AutoPartition: the physical GPUs are counted, in address order; the index
\* names the synthetic devices of a GPU that can be partitioned.
SyntheticDevices(gpus) ==
    LET own == {d \in gpus : d.key = d.pci} IN
    {Listed(d.key,
            IF d.pci \in partitionable
            THEN <<"part", Position0(d.key, {e.key : e \in own})>> ELSE <<"gpu", d.node>>,
            IF d.pci \in partitionable THEN "synthetic" ELSE "gpu", d.pci, "amdgpu") :
        d \in own}

\* GetPFMapping: whatever is on vfio-pci and is no VF.
GetPFMapping(driver) == {f \in Gpu \cup Prebound : driver[f] = "vfio-pci"}

\* GetVFMapping: the VFs bound to nothing or to vfio-pci.
GetVFMapping(driver) == {f \in Vf : driver[f] \in {"unbound", "vfio-pci"}}

\* PFs first, then VFs; the name is the position.  A PF stays on vfio-pci, a VF
\* goes back to the driver it is found with.
VfioDevices(driver) ==
    LET pfs == {iommuOrder[f] : f \in GetPFMapping(driver)}
        vfs == {iommuOrder[f] : f \in GetVFMapping(driver)}
    IN {Listed(f, <<"vfio", Position0(iommuOrder[f], pfs)>>, "vfio", f, "vfio-pci") :
            f \in GetPFMapping(driver)}
       \cup
       {Listed(f, <<"vfio", Cardinality(pfs) + Position0(iommuOrder[f], vfs)>>, "vfio", f, driver[f]) :
            f \in GetVFMapping(driver)}

\* The map of devices by name: of two with one name the later key stays.
EnumerateAllPossibleDevices(autoPartition, driver, minor, split) ==
    LET gpus == GetAMDGPUs(driver, minor, split)
        all == (IF autoPartition THEN SyntheticDevices(gpus) ELSE StandardDevices(gpus))
               \cup VfioDevices(driver)
        named(n) == {d \in all : d.name = n}
    IN [n \in Name |->
            IF named(n) = {} THEN NoEntry
            ELSE (CHOOSE d \in named(n) : \A e \in named(n) : e.key <= d.key).entry]

=============================================================================

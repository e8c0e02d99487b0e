-------------------------- MODULE DeviceNamesProofs --------------------------
(***************************************************************************)
(* Proofs about names, for any functions, claims and numbering of the      *)
(* sysfs: whatever is converted, returned, killed and started anew, a      *)
(* function is allocatable under one name, and the record of a conversion  *)
(* finds its GPU under the name the claim holds.                           *)
(***************************************************************************)
EXTENDS DeviceNames, FiniteSetTheorems, TLAPS

\* A name is held by one claim, which has a pod.
NamesHeld ==
    /\ \A c \in Claim : pod[c] = "none" <=> allocated[c] = NoName
    /\ \A c, d \in Claim : c # d /\ allocated[c] # NoName => allocated[c] # allocated[d]
    /\ \A c \in prepared : pod[c] # "none"

\* A record is of the name its claim holds; no claim and no GPU has two.
RecordsHeld ==
    /\ \A r \in conversions : allocated[r[1]] = r[2] /\ r[3] \in Gpu
    /\ \A r, s \in conversions : r[1] = s[1] \/ r[3] = s[3] => r = s

\* A GPU off amdgpu is on record, and has no DRM nodes.
OffAmdgpu ==
    /\ \A g \in Gpu : driver[g] # "amdgpu" => \E r \in conversions : r[3] = g
    /\ \A g \in Gpu : minor[g] # NoMinor => driver[g] = "amdgpu"

\* The entry of a record, and what entries there are without one.
EntriesMatch ==
    up => /\ \A r \in conversions :
                 allocatable[r[2]] = [kind |-> "vfio", pci |-> r[3], home |-> "amdgpu"]
          /\ \A n \in Name :
                /\ allocatable[n].kind \in {"gpu", "partition", "synthetic"} =>
                       allocatable[n].pci \in Gpu /\ allocatable[n].home = "amdgpu"
                /\ allocatable[n].kind = "vfio" /\ allocatable[n].pci \in Gpu =>
                       \E r \in conversions : r[2] = n

NamesInv == NamesTypeOK /\ NamesHeld /\ RecordsHeld /\ OffAmdgpu /\ EntriesMatch
            /\ OneEntryPerFunction

-----------------------------------------------------------------------------
(* Numbers. *)

\* A finite set of numbers has a greatest member: otherwise a smallest set
\* without one would have one less.
LEMMA GreatestMember ==
  ASSUME NEW S \in SUBSET Nat, IsFiniteSet(S), S # {}
  PROVE  \E x \in S : \A y \in S : y <= x
<1> DEFINE HasGreatest(T) == \E x \in T : \A y \in T : y <= x
           Bad == {T \in SUBSET S : T # {} /\ ~HasGreatest(T)}
<1> SUFFICES ASSUME Bad # {} PROVE FALSE
  OBVIOUS
<1>1. IsWellFoundedOn(StrictSubsetOrdering(S), SUBSET S)
  BY FS_StrictSubsetOrderingWellFounded, FS_FiniteSubsetsOfFinite
<1>2. PICK T \in Bad : \A U \in Bad : <<U, T>> \notin StrictSubsetOrdering(S)
  <2> HIDE DEF Bad
  <2>1. Bad \subseteq SUBSET S
    BY DEF Bad
  <2> QED
    BY <1>1, <2>1, WFMin
<1>3. PICK x \in T : TRUE
  OBVIOUS
<1> DEFINE U == T \ {x}
<1>4. U \in SUBSET S /\ U \subseteq T /\ U # T
  BY <1>3
<1>5. U = {} \/ HasGreatest(U)
  <2>1. U \notin Bad
    BY <1>2, <1>4 DEF StrictSubsetOrdering
  <2> QED
    BY <1>4, <2>1
<1>6. CASE U = {}
  BY <1>2, <1>3, <1>6
<1>7. CASE HasGreatest(U)
  <2> PICK m \in U : \A y \in U : y <= m
    BY <1>7
  <2>1. m \in Nat /\ x \in Nat /\ m \in T
    BY <1>3, <1>4
  <2>2. CASE x <= m
    BY <1>2, <2>1, <2>2
  <2>3. CASE ~(x <= m)
    <3>1. \A y \in T : y \in Nat /\ y <= x
      BY <1>4, <2>1, <2>3
    <3> QED
      BY <1>2, <1>3, <3>1
  <2> QED
    BY <2>2, <2>3
<1> QED
  BY <1>5, <1>6, <1>7

\* And a smallest one, if it has any.
LEMMA LeastMember ==
  ASSUME NEW S \in SUBSET Nat, S # {}
  PROVE  \E x \in S : \A y \in S : x <= y
<1>1. PICK x \in S : \A y \in S : <<y, x>> \notin OpToRel(<, Nat)
  BY NatLessThanWellFounded, WFMin
<1>2. \A y \in S : ~(y < x)
  BY <1>1 DEF OpToRel
<1> QED
  BY <1>2

\* The image of a finite set is no larger than the set.
LEMMA ImageFinite ==
  ASSUME NEW S, IsFiniteSet(S), NEW f, DOMAIN f = S
  PROVE  /\ IsFiniteSet({f[x] : x \in S})
         /\ Cardinality({f[x] : x \in S}) <= Cardinality(S)
<1> DEFINE T == {f[x] : x \in S}
           h == [x \in S |-> f[x]]
<1>1. h \in Surjection(S, T)
  BY DEF Surjection
<1> HIDE DEF h, T
<1>2. IsFiniteSet(T) /\ Cardinality(T) <= Cardinality(S)
  BY <1>1, FS_Surjection
<1> QED
  BY <1>2 DEF T

-----------------------------------------------------------------------------
(* The kernel always finds a free minor for a GPU that has none. *)

LEMMA FreeMinor ==
  ASSUME NEW m \in [Gpu -> Minor \cup {NoMinor}], NEW g \in Gpu, m[g] = NoMinor
  PROVE  LowestFree({m[h] : h \in Gpu} \ {NoMinor}) \in Minor
<1> DEFINE Taken == {m[h] : h \in Gpu} \ {NoMinor}
           Rest == Gpu \ {g}
           k == [h \in Rest |-> m[h]]
<1>1. IsFiniteSet(Gpu) /\ Gpu \subseteq Nat
  BY DiscoveryAssumption, FS_Subset DEF Function
<1>2. IsFiniteSet(Rest) /\ Cardinality(Rest) = Cardinality(Gpu) - 1
  BY <1>1, FS_RemoveElement
<1>3. Cardinality(Gpu) \in Nat /\ Cardinality(Gpu) # 0
  BY <1>1, FS_CardinalityType, FS_EmptySet
<1>4. IsFiniteSet({k[h] : h \in Rest}) /\ Cardinality({k[h] : h \in Rest}) <= Cardinality(Rest)
  <2> DOMAIN k = Rest
    OBVIOUS
  <2> HIDE DEF k, Rest
  <2> QED
    BY <1>2, ImageFinite
<1>5. Taken \subseteq {k[h] : h \in Rest}
  OBVIOUS
<1>6. IsFiniteSet(Taken) /\ Cardinality(Taken) <= Cardinality(Rest)
  <2>1. IsFiniteSet(Taken) /\ Cardinality(Taken) <= Cardinality({k[h] : h \in Rest})
    BY <1>4, <1>5, FS_Subset
  <2>2. /\ Cardinality(Taken) \in Nat /\ Cardinality({k[h] : h \in Rest}) \in Nat
        /\ Cardinality(Rest) \in Nat
    BY <1>2, <1>4, <2>1, FS_CardinalityType
  <2> QED
    BY <1>4, <2>1, <2>2
<1>7. IsFiniteSet(Minor) /\ Cardinality(Minor) = Cardinality(Gpu)
  BY <1>3, FS_Interval DEF Minor
<1>8. Minor \ Taken # {}
  <2>1. SUFFICES ASSUME Minor \subseteq Taken PROVE FALSE
    OBVIOUS
  <2>2. Cardinality(Minor) <= Cardinality(Taken)
    BY <1>6, <2>1, FS_Subset
  <2>3. Cardinality(Taken) \in Nat
    BY <1>6, FS_CardinalityType
  <2> QED
    BY <1>2, <1>3, <1>6, <1>7, <2>2, <2>3
<1>9. \E l \in Minor \ Taken : \A j \in Minor \ Taken : l <= j
  <2>1. Minor \ Taken \in SUBSET Nat
    BY <1>3 DEF Minor
  <2> HIDE DEF Taken
  <2> QED
    BY <1>8, <2>1, LeastMember
<1> HIDE DEF Taken
<1>10. LowestFree(Taken) \in Minor
  BY <1>9 DEF LowestFree
<1> QED
  BY <1>10 DEF Taken

-----------------------------------------------------------------------------
(* Discovery. *)

Sysfs(dr, mi, sp) ==
    /\ dr \in [Function -> {"amdgpu", "vfio-pci", "unbound"}]
    /\ mi \in [Gpu -> Minor \cup {NoMinor}]
    /\ sp \in [Gpu -> BOOLEAN]

Subs(dr, mi, sp) == SubPartitions(PhysicalGpus(dr, mi, sp), GetTopologyInfo(mi, sp))

SubOf(g, id) == [key |-> xcpOf[g], pci |-> g, node |-> xcpOf[g], id |-> id, split |-> TRUE]

\* What discovery lists before names are made a map.
Devices(auto, dr, mi, sp) ==
    (IF auto THEN SyntheticDevices(GetAMDGPUs(dr, mi, sp)) ELSE StandardDevices(GetAMDGPUs(dr, mi, sp)))
    \cup VfioDevices(dr)

Key == Function \cup {xcpOf[g] : g \in Gpu}

LEMMA KeyFinite == IsFiniteSet(Key) /\ Key \in SUBSET Nat
<1>1. IsFiniteSet(Gpu)
  BY DiscoveryAssumption, FS_Subset DEF Function
<1>2. DOMAIN xcpOf = Gpu /\ {xcpOf[g] : g \in Gpu} \subseteq Nat /\ Function \subseteq Nat
  BY DiscoveryAssumption
<1>3. IsFiniteSet({xcpOf[g] : g \in Gpu})
  BY <1>1, <1>2, ImageFinite
<1> QED
  BY <1>2, <1>3, DiscoveryAssumption, FS_Union DEF Key

\* A physical GPU is keyed by its address.
LEMMA PhysicalFacts ==
  ASSUME NEW dr, NEW mi, NEW sp, NEW d \in PhysicalGpus(dr, mi, sp)
  PROVE  /\ d.pci \in Gpu /\ d.key = d.pci /\ d.split = sp[d.pci] /\ dr[d.pci] = "amdgpu"
         /\ d = ScanGpu(d.pci, dr, mi, sp)
<1>1. PICK g \in Gpu : dr[g] = "amdgpu" /\ d = ScanGpu(g, dr, mi, sp)
  BY DEF PhysicalGpus
<1>2. d.pci = g /\ d.key = g /\ d.split = sp[g]
  BY <1>1 DEF ScanGpu
<1> QED
  BY <1>1, <1>2

\* A sub-partition is of a physical GPU that is split, the only one of it.
LEMMA SubFacts ==
  ASSUME NEW dr, NEW mi, NEW sp, Sysfs(dr, mi, sp),
         NEW d \in Subs(dr, mi, sp)
  PROVE  /\ d.pci \in Gpu /\ dr[d.pci] = "amdgpu" /\ d.key = xcpOf[d.pci]
         /\ d.split = TRUE /\ sp[d.pci] = TRUE
<1> DEFINE topology == GetTopologyInfo(mi, sp)
<1>1. PICK e \in PhysicalGpus(dr, mi, sp) :
         d = SubOf(e.pci, e.id) /\ xcpOf[e.pci] \in DOMAIN topology
  BY DEF Subs, SubPartitions, SubOf
<1>2. e.pci \in Gpu /\ dr[e.pci] = "amdgpu" /\ e = ScanGpu(e.pci, dr, mi, sp)
  BY PhysicalFacts
<1>3. d.pci = e.pci /\ d.key = xcpOf[e.pci] /\ d.split = TRUE
  BY <1>1 DEF SubOf
<1>4. xcpOf[d.pci] \in Nat /\ xcpOf[d.pci] # d.pci /\ xcpOf[d.pci] \notin Minor
  <2>1. IsFiniteSet(Gpu) /\ Gpu \subseteq Nat
    BY DiscoveryAssumption, FS_Subset DEF Function
  <2>2. Cardinality(Gpu) \in Nat
    BY <2>1, FS_CardinalityType
  <2>3. xcpOf[d.pci] \in Nat /\ d.pci \in Nat
    BY <1>2, <1>3, <2>1, DiscoveryAssumption
  <2>4. xcpOf[d.pci] > Cardinality(Gpu) /\ xcpOf[d.pci] > d.pci
    BY <1>2, <1>3, DiscoveryAssumption
  <2> QED
    BY <2>2, <2>3, <2>4 DEF Minor
<1>5. sp[d.pci] = TRUE
  <2>1. PICK g \in Gpu : mi[g] # NoMinor /\ (xcpOf[d.pci] = mi[g] \/ (sp[g] /\ xcpOf[d.pci] = xcpOf[g]))
    BY <1>1, <1>3 DEF GetTopologyInfo
  <2>2. mi[g] \in Minor
    BY <2>1 DEF Sysfs
  <2>3. sp[g] /\ xcpOf[d.pci] = xcpOf[g]
    BY <1>4, <2>1, <2>2
  <2>4. d.pci = g
    BY <1>2, <1>3, <2>3, DiscoveryAssumption DEF IsInjective
  <2> QED
    BY <2>3, <2>4 DEF Sysfs
<1> QED
  BY <1>1, <1>2, <1>3, <1>4, <1>5

LEMMA SubUnique ==
  ASSUME NEW dr, NEW mi, NEW sp, NEW d \in Subs(dr, mi, sp)
  PROVE  d = SubOf(d.pci, ScanGpu(d.pci, dr, mi, sp).id)
<1>1. PICK e \in PhysicalGpus(dr, mi, sp) : d = SubOf(e.pci, e.id)
  BY DEF Subs, SubPartitions, SubOf
<1>2. e = ScanGpu(e.pci, dr, mi, sp)
  BY PhysicalFacts
<1>3. d.pci = e.pci
  BY <1>1 DEF SubOf
<1> QED
  BY <1>1, <1>2, <1>3

GpuKinds == {"gpu", "partition", "synthetic"}

\* What is listed: GPUs on amdgpu, and functions off it.
LEMMA DeviceFacts ==
  ASSUME NEW auto \in BOOLEAN, NEW dr, NEW mi, NEW sp, Sysfs(dr, mi, sp),
         NEW d \in Devices(auto, dr, mi, sp)
  PROVE  /\ d.key \in Key /\ d.entry \in Entry
         /\ d.entry.kind \in GpuKinds =>
                /\ d.entry.pci \in Gpu /\ d.entry.home = "amdgpu"
                /\ dr[d.entry.pci] = "amdgpu"
         /\ d.entry.kind = "vfio" => dr[d.entry.pci] # "amdgpu"
<1> DEFINE gpus == GetAMDGPUs(dr, mi, sp)
<1>1. \A e \in gpus : e.pci \in Gpu /\ dr[e.pci] = "amdgpu" /\ e.key \in Key
  <2>1. \A e \in PhysicalGpus(dr, mi, sp) : e.pci \in Gpu /\ dr[e.pci] = "amdgpu" /\ e.key \in Key
    BY PhysicalFacts DEF Key, Function
  <2>2. \A e \in Subs(dr, mi, sp) :
           e.pci \in Gpu /\ dr[e.pci] = "amdgpu" /\ e.key \in Key
    <3> TAKE e \in Subs(dr, mi, sp)
    <3>1. e.pci \in Gpu /\ e.key = xcpOf[e.pci]
      BY SubFacts
    <3>2. dr[e.pci] = "amdgpu"
      BY SubFacts
    <3> QED
      BY <3>1, <3>2 DEF Key
  <2> QED
    BY <2>1, <2>2 DEF GetAMDGPUs, Subs
<1>2. CASE d \in StandardDevices(gpus)
  <2>1. PICK e \in gpus :
           d = Listed(e.key, <<"gpu", e.node>>, IF e.split THEN "partition" ELSE "gpu", e.pci, "amdgpu")
    BY <1>2 DEF StandardDevices
  <2> QED
    BY <1>1, <2>1 DEF Listed, Entry, Function, GpuKinds
<1>3. CASE d \in SyntheticDevices(gpus)
  <2>1. PICK e \in gpus : \E n :
           d = Listed(e.key, n, IF e.pci \in partitionable THEN "synthetic" ELSE "gpu", e.pci, "amdgpu")
    BY <1>3 DEF SyntheticDevices
  <2> QED
    BY <1>1, <2>1 DEF Listed, Entry, Function, GpuKinds
<1>4. CASE d \in VfioDevices(dr)
  <2>1. PICK f \in Function : \E n, home :
           /\ d = Listed(f, n, "vfio", f, home)
           /\ dr[f] \in {"unbound", "vfio-pci"} /\ home \in {"unbound", "vfio-pci"}
    BY <1>4 DEF VfioDevices, GetPFMapping, GetVFMapping, Function
  <2> QED
    BY <2>1 DEF Listed, Entry, Key, GpuKinds
<1> QED
  BY <1>2, <1>3, <1>4 DEF Devices

\* Nothing is listed under two names but the partitions of one GPU.
LEMMA ListedOnce ==
  ASSUME NEW auto \in BOOLEAN, NEW dr, NEW mi, NEW sp, Sysfs(dr, mi, sp),
         NEW d \in Devices(auto, dr, mi, sp), NEW e \in Devices(auto, dr, mi, sp),
         d.entry.pci = e.entry.pci, d.name # e.name
  PROVE  d.entry.kind = "partition" /\ e.entry.kind = "partition"
<1> DEFINE gpus == GetAMDGPUs(dr, mi, sp)
           own == {p \in gpus : p.key = p.pci}
<1>1. CASE d \in VfioDevices(dr) \/ e \in VfioDevices(dr)
  <2>1. ASSUME NEW x \in VfioDevices(dr) PROVE x.entry.kind = "vfio"
    <3>1. PICK f : \E n, home : x = Listed(f, n, "vfio", f, home)
      BY DEF VfioDevices
    <3> QED
      BY <3>1 DEF Listed
  <2>2. ASSUME NEW x \in Devices(auto, dr, mi, sp), x \notin VfioDevices(dr)
        PROVE  x.entry.kind \in GpuKinds
    <3>1. CASE x \in SyntheticDevices(gpus)
      <4>1. PICK e1 : \E n : x = Listed(e1.key, n,
                  IF e1.pci \in partitionable THEN "synthetic" ELSE "gpu", e1.pci, "amdgpu")
        BY <3>1 DEF SyntheticDevices
      <4> QED
        BY <4>1 DEF Listed, GpuKinds
    <3>2. CASE x \in StandardDevices(gpus)
      BY <3>2 DEF StandardDevices, Listed, GpuKinds
    <3> QED
      BY <2>2, <3>1, <3>2 DEF Devices
  <2>3. d \in VfioDevices(dr) /\ e \in VfioDevices(dr)
    <3>1. \A x \in Devices(auto, dr, mi, sp) :
             /\ x.entry.kind = "vfio" => dr[x.entry.pci] # "amdgpu"
             /\ x.entry.kind \in GpuKinds => dr[x.entry.pci] = "amdgpu"
      BY DeviceFacts
    <3> QED
      BY <1>1, <2>1, <2>2, <3>1
  <2>4. \A x, y \in VfioDevices(dr) : x.entry.pci = y.entry.pci => x.name = y.name
    <3> DEFINE pfs == {iommuOrder[f] : f \in GetPFMapping(dr)}
               vfs == {iommuOrder[f] : f \in GetVFMapping(dr)}
               pf(f) == Listed(f, <<"vfio", Position0(iommuOrder[f], pfs)>>, "vfio", f, "vfio-pci")
               vf(f) == Listed(f, <<"vfio", Cardinality(pfs) + Position0(iommuOrder[f], vfs)>>,
                               "vfio", f, dr[f])
    <3>1. GetPFMapping(dr) \cap GetVFMapping(dr) = {}
      BY DiscoveryAssumption DEF GetPFMapping, GetVFMapping
    <3>2. VfioDevices(dr) = {pf(f) : f \in GetPFMapping(dr)} \cup {vf(f) : f \in GetVFMapping(dr)}
      BY DEF VfioDevices
    <3>3. \A f : pf(f).entry.pci = f /\ vf(f).entry.pci = f
      BY DEF Listed
    <3> HIDE DEF pf, vf
    <3> QED
      BY <3>1, <3>2, <3>3
  <2> QED
    BY <2>3, <2>4
<1>2. CASE auto /\ d \in SyntheticDevices(gpus) /\ e \in SyntheticDevices(gpus)
  <2> DEFINE syn(p) == Listed(p.key,
            IF p.pci \in partitionable
            THEN <<"part", Position0(p.key, {x.key : x \in own})>> ELSE <<"gpu", p.node>>,
            IF p.pci \in partitionable THEN "synthetic" ELSE "gpu", p.pci, "amdgpu")
  <2>1. SyntheticDevices(gpus) = {syn(p) : p \in own}
    BY DEF SyntheticDevices
  <2>2. PICK p \in own, q \in own : d = syn(p) /\ e = syn(q)
    BY <1>2, <2>1
  <2>3. p.pci = q.pci
    BY <2>2 DEF Listed
  <2>4. p = ScanGpu(p.pci, dr, mi, sp) /\ q = ScanGpu(q.pci, dr, mi, sp)
    <3>1. ASSUME NEW x \in Subs(dr, mi, sp) PROVE ~(x.key = x.pci)
      <4>1. x.pci \in Gpu /\ x.key = xcpOf[x.pci]
        BY SubFacts
      <4>2. xcpOf[x.pci] > x.pci /\ xcpOf[x.pci] \in Nat /\ x.pci \in Nat
        BY <4>1, DiscoveryAssumption DEF Function
      <4> QED
        BY <4>1, <4>2
    <3>2. p \in PhysicalGpus(dr, mi, sp) /\ q \in PhysicalGpus(dr, mi, sp)
      BY <3>1 DEF GetAMDGPUs, Subs
    <3> QED
      BY <3>2, PhysicalFacts
  <2> QED
    BY <2>2, <2>3, <2>4
<1>3. CASE ~auto /\ d \in StandardDevices(gpus) /\ e \in StandardDevices(gpus)
  <2> DEFINE std(p) == Listed(p.key, <<"gpu", p.node>>, IF p.split THEN "partition" ELSE "gpu",
                              p.pci, "amdgpu")
             physical == PhysicalGpus(dr, mi, sp)
             subs == Subs(dr, mi, sp)
  <2>1. StandardDevices(gpus) = {std(p) : p \in gpus} /\ gpus = physical \cup subs
    BY DEF StandardDevices, GetAMDGPUs, Subs
  <2>2. PICK p \in gpus, q \in gpus : d = std(p) /\ e = std(q)
    BY <1>3, <2>1
  <2>3. p.pci = q.pci /\ p # q
    BY <2>2 DEF Listed
  <2>4. ~(p \in physical /\ q \in physical)
    BY <2>3, PhysicalFacts
  <2>5. \A x \in subs : x.split = TRUE /\ sp[x.pci] = TRUE
    BY SubFacts
  <2>6. ~(p \in subs /\ q \in subs)
    BY <2>3, SubUnique
  <2>7. \A x \in physical : x.split = sp[x.pci]
    BY PhysicalFacts
  <2>8. p.split = TRUE /\ q.split = TRUE
    <3> HIDE DEF physical, subs
    <3> QED
      BY <2>1, <2>3, <2>4, <2>5, <2>6, <2>7
  <2> QED
    BY <2>2, <2>8 DEF Listed
<1> QED
  BY <1>1, <1>2, <1>3 DEF Devices

\* The map of devices holds what was listed under the name, if anything was.
LEMMA EnumerateFacts ==
  ASSUME NEW auto \in BOOLEAN, NEW dr, NEW mi, NEW sp, Sysfs(dr, mi, sp), NEW n \in Name
  PROVE  LET found == EnumerateAllPossibleDevices(auto, dr, mi, sp)[n]
         IN \/ found = NoEntry
            \/ \E d \in Devices(auto, dr, mi, sp) : d.name = n /\ found = d.entry
<1> DEFINE all == Devices(auto, dr, mi, sp)
           named == {d \in all : d.name = n}
           keys == {d.key : d \in named}
<1>1. EnumerateAllPossibleDevices(auto, dr, mi, sp)[n] =
          IF named = {} THEN NoEntry
          ELSE (CHOOSE d \in named : \A e \in named : e.key <= d.key).entry
  BY DEF EnumerateAllPossibleDevices, Devices
<1>2. keys \subseteq Key
  BY DeviceFacts
<1>3. ASSUME named # {} PROVE \E d \in named : \A e \in named : e.key <= d.key
  <2> HIDE DEF named
  <2>1. IsFiniteSet(keys) /\ keys \in SUBSET Nat /\ keys # {}
    <3>1. keys # {}
      BY <1>3
    <3> HIDE DEF keys
    <3> QED
      BY <1>2, <3>1, KeyFinite, FS_Subset
  <2>2. \E k \in keys : \A j \in keys : j <= k
    <3> HIDE DEF keys
    <3> QED
      BY <2>1, GreatestMember
  <2> QED
    BY <2>2
<1> HIDE DEF all
<1> QED
  BY <1>1, <1>3 DEF all

-----------------------------------------------------------------------------
(* The start of the plugin. *)

ConvertedEntry(f) == [kind |-> "vfio", pci |-> f, home |-> "amdgpu"]

LEMMA ConvertedFields ==
  ASSUME NEW f
  PROVE  /\ ConvertedEntry(f).kind = "vfio" /\ ConvertedEntry(f).pci = f
         /\ ConvertedEntry(f).home = "amdgpu"
         /\ f \in Function => ConvertedEntry(f) \in Entry
BY DEF ConvertedEntry, Entry

\* What an entry is after recovery.
Recovered(n) ==
    \/ \E r \in conversions' : r[2] = n /\ allocatable'[n] = ConvertedEntry(r[3])
    \/ /\ \A r \in conversions' : r[2] # n
       /\ \/ allocatable'[n] = NoEntry
          \/ \E d \in Devices(autoPartition, driver, minor, split) :
                /\ d.name = n /\ allocatable'[n] = d.entry
                /\ d.entry.kind = "vfio" => \A r \in conversions' : r[3] # d.entry.pci

LEMMA SysfsTyped == NamesTypeOK => Sysfs(driver, minor, split) /\ autoPartition \in BOOLEAN
BY DEF NamesTypeOK, Sysfs

LEMMA StartRecovers ==
  ASSUME NamesInv, Start, NEW n \in Name
  PROVE  Recovered(n)
<1> DEFINE found == EnumerateAllPossibleDevices(autoPartition, driver, minor, split)
<1>1. allocatable'[n] =
          IF \E r \in conversions' : r[2] = n
          THEN ConvertedEntry((CHOOSE r \in conversions' : r[2] = n)[3])
          ELSE IF found[n].kind = "vfio" /\ \E r \in conversions' : r[3] = found[n].pci
          THEN NoEntry ELSE found[n]
  BY DEF Start, RecoverVfioConversions, ConvertedEntry
<1>2. \/ found[n] = NoEntry
      \/ \E d \in Devices(autoPartition, driver, minor, split) : d.name = n /\ found[n] = d.entry
  BY EnumerateFacts, SysfsTyped DEF NamesInv
<1> HIDE DEF found
<1>3. CASE \E r \in conversions' : r[2] = n
  BY <1>1, <1>3 DEF Recovered
<1>4. CASE ~\E r \in conversions' : r[2] = n
  BY <1>1, <1>2, <1>4 DEF Recovered
<1> QED
  BY <1>3, <1>4

LEMMA StartStep == NamesInv /\ Start => NamesInv'
<1> SUFFICES ASSUME NamesInv, Start PROVE NamesInv'
  OBVIOUS
<1> USE DEF NamesInv
<1> DEFINE listed == Devices(autoPartition, driver, minor, split)
<1>1. /\ up' = TRUE /\ conversions' = {r \in conversions : driver[r[3]] # "amdgpu"}
      /\ UNCHANGED <<autoPartition, driver, minor, split, prepared, allocated, given, pod>>
  BY DEF Start, sysfsVars, claimVars
<1>2. \A n \in Name : Recovered(n)
  BY StartRecovers
<1>3. \A d \in listed :
         /\ d.entry \in Entry
         /\ d.entry.kind \in GpuKinds =>
               d.entry.pci \in Gpu /\ d.entry.home = "amdgpu" /\ driver[d.entry.pci] = "amdgpu"
         /\ d.entry.kind = "vfio" => driver[d.entry.pci] # "amdgpu"
  BY DeviceFacts, SysfsTyped
<1>4. \A r \in conversions' : r \in conversions /\ driver[r[3]] # "amdgpu" /\ r[3] \in Gpu
                              /\ r[3] \in Function
  BY <1>1 DEF RecordsHeld, Function
<1> HIDE DEF listed
<1>5. NamesTypeOK'
  <2>1. allocatable' \in [Name -> Entry \cup {NoEntry}]
    <3>1. ASSUME NEW n \in Name PROVE allocatable'[n] \in Entry \cup {NoEntry}
      <4>1. CASE \E r \in conversions' : r[2] = n /\ allocatable'[n] = ConvertedEntry(r[3])
        BY <1>4, <4>1, ConvertedFields
      <4>2. CASE \E d \in listed : allocatable'[n] = d.entry
        BY <1>3, <4>2
      <4> QED
        BY <1>2, <4>1, <4>2 DEF Recovered, listed
    <3>2. allocatable' = [n \in Name |-> allocatable'[n]]
      BY DEF Start, RecoverVfioConversions
    <3> QED
      BY <3>1, <3>2
  <2> QED
    BY <1>1, <2>1 DEF NamesTypeOK
<1>6. NamesHeld'
  BY <1>1 DEF NamesHeld
<1>7. RecordsHeld'
  BY <1>1 DEF RecordsHeld
<1>8. OffAmdgpu'
  BY <1>1 DEF OffAmdgpu
<1>9. EntriesMatch'
  <2>1. ASSUME NEW r \in conversions'
        PROVE  allocatable'[r[2]] = [kind |-> "vfio", pci |-> r[3], home |-> "amdgpu"]
    <3>1. r[2] \in Name
      BY <1>4 DEF NamesTypeOK, Records
    <3>2. \A s \in conversions' : s[2] = r[2] => s = r
      <4>1. \A s \in conversions' : allocated[s[1]] = s[2] /\ s[1] \in Claim
        BY <1>4 DEF RecordsHeld, NamesTypeOK, Records
      <4>2. \A s \in conversions' : s[2] = r[2] => s[1] = r[1]
        BY <3>1, <4>1, NamesAssumption DEF NamesHeld
      <4> QED
        BY <1>4, <4>2 DEF RecordsHeld
    <3>3. allocatable'[r[2]] = ConvertedEntry(r[3])
      <4> DEFINE n == r[2]
      <4>1. Recovered(n)
        BY <1>2, <3>1
      <4> QED
        BY <3>2, <4>1 DEF Recovered
    <3> QED
      BY <3>3 DEF ConvertedEntry
  <2>2. ASSUME NEW n \in Name, allocatable'[n].kind \in {"gpu", "partition", "synthetic"}
        PROVE  allocatable'[n].pci \in Gpu /\ allocatable'[n].home = "amdgpu"
    <3>1. CASE \E r \in conversions' : allocatable'[n] = ConvertedEntry(r[3])
      BY <2>2, <3>1, ConvertedFields
    <3>2. CASE allocatable'[n] = NoEntry
      BY <2>2, <3>2 DEF NoEntry
    <3>3. CASE \E d \in listed : allocatable'[n] = d.entry
      BY <1>3, <2>2, <3>3 DEF GpuKinds
    <3>4. Recovered(n)
      BY <1>2
    <3> QED
      BY <3>1, <3>2, <3>3, <3>4 DEF Recovered, listed
  <2>3. ASSUME NEW n \in Name, allocatable'[n].kind = "vfio", allocatable'[n].pci \in Gpu
        PROVE  \E r \in conversions' : r[2] = n
    <3>1. SUFFICES ASSUME \A r \in conversions' : r[2] # n PROVE FALSE
      OBVIOUS
    <3>2. PICK d \in listed : /\ allocatable'[n] = d.entry /\ d.entry.kind = "vfio"
                              /\ \A r \in conversions' : r[3] # d.entry.pci
      <4>1. Recovered(n) /\ allocatable'[n] # NoEntry
        BY <1>2, <2>3 DEF NoEntry
      <4> QED
        BY <2>3, <3>1, <4>1 DEF Recovered, listed
    <3>3. PICK r \in conversions : r[3] = d.entry.pci
      BY <1>3, <2>3, <3>2 DEF OffAmdgpu
    <3> QED
      BY <1>1, <1>3, <3>2, <3>3
  <2> QED
    BY <2>1, <2>2, <2>3 DEF EntriesMatch
<1>10. OneEntryPerFunction'
  <2> SUFFICES ASSUME NEW n \in Name, NEW k \in Name, n # k, allocatable'[n] # NoEntry,
                      allocatable'[n].pci = allocatable'[k].pci
               PROVE  allocatable'[n].kind = "partition" /\ allocatable'[k].kind = "partition"
    BY DEF OneEntryPerFunction
  <2>1. \A m \in Name : allocatable'[m] \in Entry \cup {NoEntry}
    BY <1>5 DEF NamesTypeOK
  <2>2. allocatable'[n].pci \in Function
    BY <2>1 DEF Entry
  <2>3. allocatable'[k] # NoEntry
    BY <2>2, DiscoveryAssumption DEF NoEntry
  <2>4. ASSUME NEW m \in Name, NEW l \in Name, m # l, allocatable'[l] # NoEntry,
               allocatable'[m].pci = allocatable'[l].pci,
               NEW r \in conversions', r[2] = m, allocatable'[m].pci = r[3]
        PROVE  FALSE
    <3>1. CASE \E s \in conversions' : s[2] = l /\ allocatable'[l].pci = s[3]
      BY <1>4, <2>4, <3>1 DEF RecordsHeld
    <3>2. ASSUME NEW d \in listed, allocatable'[l] = d.entry,
                 d.entry.kind = "vfio" => \A s \in conversions' : s[3] # d.entry.pci
          PROVE  FALSE
      <4>1. d.entry.kind # "vfio" /\ d.entry.pci = r[3]
        BY <2>4, <3>2
      <4>2. d.entry.kind \in GpuKinds
        BY <1>3, <4>1 DEF Entry, GpuKinds
      <4> QED
        BY <1>3, <1>4, <4>1, <4>2
    <3>3. Recovered(l)
      BY <1>2
    <3> QED
      <4>1. CASE \E s \in conversions' : s[2] = l /\ allocatable'[l] = ConvertedEntry(s[3])
        BY <3>1, <4>1, ConvertedFields
      <4>2. CASE \A s \in conversions' : s[2] # l
        <5>1. PICK d \in listed : /\ allocatable'[l] = d.entry
                                  /\ d.entry.kind = "vfio" =>
                                        \A s \in conversions' : s[3] # d.entry.pci
          BY <2>4, <3>3, <4>2 DEF Recovered, listed
        <5> QED
          BY <3>2, <5>1
      <4> QED
        BY <3>3, <4>1, <4>2 DEF Recovered
  <2>5. \A r \in conversions' : r[2] = n => allocatable'[n].pci # r[3]
    BY <2>3, <2>4
  <2>6. \A r \in conversions' : r[2] = k => allocatable'[k].pci # r[3]
    BY <2>4
  <2>7. PICK d \in listed : d.name = n /\ allocatable'[n] = d.entry
    <3>1. Recovered(n)
      BY <1>2
    <3> QED
      BY <2>5, <3>1, ConvertedFields DEF Recovered, listed
  <2>8. PICK e \in listed : e.name = k /\ allocatable'[k] = e.entry
    <3>1. Recovered(k)
      BY <1>2
    <3> QED
      BY <2>3, <2>6, <3>1, ConvertedFields DEF Recovered, listed
  <2> QED
    BY <2>7, <2>8, ListedOnce, SysfsTyped DEF listed
<1> QED
  BY <1>5, <1>6, <1>7, <1>8, <1>9, <1>10

-----------------------------------------------------------------------------
(* The kernel's steps. *)

\* A rebind: what it leaves alone, and the DRM nodes of a GPU.
LEMMA RebindFacts ==
  ASSUME NamesTypeOK, OffAmdgpu, NEW f \in Function, NEW to \in {"amdgpu", "vfio-pci", "unbound"},
         Rebind(f, to)
  PROVE  /\ driver' \in [Function -> {"amdgpu", "vfio-pci", "unbound"}]
         /\ minor' \in [Gpu -> Minor \cup {NoMinor}]
         /\ driver'[f] = to /\ \A h \in Function \ {f} : driver'[h] = driver[h]
         /\ \A g \in Gpu : minor'[g] # NoMinor => driver'[g] = "amdgpu"
<1> USE DEF NamesTypeOK
<1>0. Gpu \subseteq Function
  BY DEF Function
<1>1. /\ driver' = [driver EXCEPT ![f] = to]
      /\ minor' = IF f \notin Gpu \/ to = driver[f] THEN minor
                  ELSE [minor EXCEPT ![f] = IF to = "amdgpu" THEN LowestFree(MinorsInUse) ELSE NoMinor]
  BY DEF Rebind
<1>2. CASE f \notin Gpu \/ to = driver[f]
  BY <1>0, <1>1, <1>2 DEF OffAmdgpu
<1>3. CASE f \in Gpu /\ to # driver[f] /\ to = "amdgpu"
  <2>1. LowestFree(MinorsInUse) \in Minor
    BY <1>3, FreeMinor DEF OffAmdgpu, MinorsInUse
  <2> QED
    BY <1>0, <1>1, <1>3, <2>1 DEF OffAmdgpu
<1>4. CASE f \in Gpu /\ to # driver[f] /\ to # "amdgpu"
  BY <1>0, <1>1, <1>4 DEF OffAmdgpu
<1> QED
  BY <1>2, <1>3, <1>4

LEMMA ProbeStep == NamesInv /\ (\E g \in Gpu : Probe(g)) => NamesInv'
<1> SUFFICES ASSUME NamesInv, NEW g \in Gpu, Probe(g) PROVE NamesInv'
  OBVIOUS
<1> USE DEF NamesInv
<1>1. LowestFree(MinorsInUse) \in Minor
  BY FreeMinor DEF Probe, MinorsInUse, NamesTypeOK
<1>2. NamesTypeOK' /\ OffAmdgpu'
  BY <1>1 DEF NamesTypeOK, OffAmdgpu, Probe, claimVars
<1>3. NamesHeld' /\ RecordsHeld' /\ EntriesMatch' /\ OneEntryPerFunction'
  BY DEF NamesHeld, RecordsHeld, EntriesMatch, OneEntryPerFunction, Probe, claimVars
<1> QED
  BY <1>2, <1>3

LEMMA CrashStep == NamesInv /\ Crash => NamesInv'
<1> SUFFICES ASSUME NamesInv, Crash PROVE NamesInv'
  OBVIOUS
<1> USE DEF NamesInv
<1>1. up' = FALSE /\ UNCHANGED <<autoPartition, driver, minor, split, allocatable, conversions,
                               prepared, allocated, given, pod>>
  BY DEF Crash, sysfsVars, claimVars
<1>2. NamesTypeOK' /\ NamesHeld'
  BY <1>1 DEF NamesTypeOK, NamesHeld
<1>3. RecordsHeld' /\ OffAmdgpu' /\ EntriesMatch' /\ OneEntryPerFunction'
  BY <1>1 DEF RecordsHeld, OffAmdgpu, EntriesMatch, OneEntryPerFunction
<1> QED
  BY <1>2, <1>3

-----------------------------------------------------------------------------
(* The scheduler's. *)

LEMMA AllocateStep ==
  ASSUME NamesInv, NEW c \in Claim, NEW n \in Name, Allocate(c, n)
  PROVE  NamesInv'
<1> USE DEF NamesInv
<1>1. allocated[c] = NoName /\ n # NoName
  BY NamesAssumption DEF Allocate, NamesHeld
<1>2. NamesTypeOK'
  BY DEF NamesTypeOK, Allocate, sysfsVars
<1>3. NamesHeld'
  BY <1>1 DEF NamesHeld, NamesTypeOK, Allocate
<1>4. RecordsHeld'
  <2>1. \A r \in conversions : r[1] # c /\ r[1] \in Claim
    BY <1>1, NamesAssumption DEF RecordsHeld, NamesTypeOK, Records
  <2> QED
    BY <2>1 DEF RecordsHeld, NamesTypeOK, Allocate
<1>5. OffAmdgpu' /\ EntriesMatch' /\ OneEntryPerFunction'
  BY DEF OffAmdgpu, EntriesMatch, OneEntryPerFunction, Allocate, sysfsVars
<1> QED
  BY <1>2, <1>3, <1>4, <1>5

LEMMA PodDeletedStep ==
  ASSUME NamesInv, NEW c \in Claim, PodDeleted(c)
  PROVE  NamesInv'
<1> USE DEF NamesInv
<1>1. NamesTypeOK' /\ NamesHeld'
  BY DEF NamesTypeOK, NamesHeld, PodDeleted, sysfsVars
<1>2. RecordsHeld' /\ OffAmdgpu' /\ EntriesMatch' /\ OneEntryPerFunction'
  BY DEF RecordsHeld, OffAmdgpu, EntriesMatch, OneEntryPerFunction, PodDeleted, sysfsVars
<1> QED
  BY <1>1, <1>2

-----------------------------------------------------------------------------
(* Prepare. *)

\* A pod that starts leaves names as they are.
LEMMA RunningFacts ==
  ASSUME NamesInv, NEW c \in Claim, pod[c] = "pending", NEW f \in Function \cup {NoFunction},
         RunningWith(c, f), UNCHANGED allocated
  PROVE  /\ prepared' \subseteq Claim /\ given' \in [Claim -> Function \cup {NoFunction}]
         /\ pod' \in [Claim -> {"none", "pending", "running", "terminating"}]
         /\ NamesHeld'
<1> USE DEF NamesInv
<1>1. /\ prepared' \subseteq Claim /\ given' \in [Claim -> Function \cup {NoFunction}]
      /\ pod' \in [Claim -> {"none", "pending", "running", "terminating"}]
  BY DEF RunningWith, NamesTypeOK
<1>2. NamesHeld'
  BY DEF RunningWith, NamesTypeOK, NamesHeld
<1> QED
  BY <1>1, <1>2

\* The name of a claim with a pod, and its entry.
LEMMA EntryTyped ==
  ASSUME NamesInv, NEW c \in Claim, pod[c] # "none"
  PROVE  allocated[c] \in Name /\ allocatable[allocated[c]] \in Entry \cup {NoEntry}
BY DEF NamesInv, NamesTypeOK, NamesHeld

LEMMA KindInEntry ==
  ASSUME NEW e \in Entry \cup {NoEntry}, e.kind # "none"
  PROVE  e \in Entry /\ e.pci \in Function /\ e.home \in {"amdgpu", "vfio-pci", "unbound"}
BY DEF Entry, NoEntry

LEMMA PrepareOtherStep ==
  ASSUME NamesInv, NEW c \in Claim, PrepareGpu(c) \/ PrepareSynthetic(c) \/ PrepareNothing(c)
  PROVE  NamesInv'
<1> USE DEF NamesInv
<1>1. pod[c] = "pending" /\ UNCHANGED <<autoPartition, up, driver, minor, allocatable, conversions, allocated>>
  BY DEF PrepareGpu, PrepareSynthetic, PrepareNothing, Calls, sysfsVars
<1>2. PICK f \in Function \cup {NoFunction} : RunningWith(c, f)
  <2>1. CASE PrepareGpu(c)
    BY <2>1 DEF PrepareGpu, Function
  <2>2. CASE PrepareSynthetic(c)
    <3>1. allocatable[allocated[c]].kind = "synthetic" /\ RunningWith(c, allocatable[allocated[c]].pci)
      BY <2>2 DEF PrepareSynthetic
    <3>2. allocatable[allocated[c]].pci \in Function
      BY <1>1, <3>1, EntryTyped, KindInEntry
    <3> QED
      BY <3>1, <3>2
  <2>3. CASE PrepareNothing(c)
    BY <2>3 DEF PrepareNothing
  <2> QED
    BY <2>1, <2>2, <2>3
<1>3. split' \in [Gpu -> BOOLEAN]
  <2>1. CASE split' = split
    BY <2>1 DEF NamesTypeOK
  <2>2. CASE PrepareSynthetic(c)
    BY <2>2 DEF PrepareSynthetic, NamesTypeOK
  <2> QED
    BY <2>1, <2>2 DEF PrepareGpu, PrepareNothing, sysfsVars
<1>4. NamesTypeOK' /\ NamesHeld'
  BY <1>1, <1>2, <1>3, RunningFacts DEF NamesTypeOK
<1>5. RecordsHeld' /\ OffAmdgpu' /\ EntriesMatch' /\ OneEntryPerFunction'
  BY <1>1 DEF RecordsHeld, OffAmdgpu, EntriesMatch, OneEntryPerFunction
<1> QED
  BY <1>4, <1>5

LEMMA RecordedEntry ==
  ASSUME NamesInv, up, NEW r \in conversions
  PROVE  /\ allocatable[r[2]].kind = "vfio" /\ allocatable[r[2]].pci = r[3]
         /\ allocatable[r[2]].home = "amdgpu"
<1>1. allocatable[r[2]] = [kind |-> "vfio", pci |-> r[3], home |-> "amdgpu"]
  BY DEF NamesInv, EntriesMatch
<1> QED
  BY <1>1

\* What a conversion makes of the entry and the records: the function of the
\* claim's name, if it is a GPU's, is on record.
LEMMA ConversionRecorded ==
  ASSUME NamesInv, NEW c \in Claim, Calls(c, "pending"), UNCHANGED allocated,
         allocatable[allocated[c]].kind \in {"gpu", "vfio"}, RecordConversion(c)
  PROVE  /\ allocatable' \in [Name -> Entry \cup {NoEntry}] /\ conversions' \subseteq Records
         /\ RecordsHeld' /\ (up' => EntriesMatch') /\ (up' => OneEntryPerFunction')
         /\ conversions \subseteq conversions'
         /\ allocatable[allocated[c]].pci \in Function
         /\ allocatable[allocated[c]].pci \in Gpu =>
                \E r \in conversions' : r[3] = allocatable[allocated[c]].pci
<1> USE DEF NamesInv
<1> DEFINE n == allocated[c]
           f == allocatable[n].pci
<1>1. up /\ n \in Name /\ n # NoName /\ allocatable[n] \in Entry /\ f \in Function
  BY EntryTyped, KindInEntry, NamesAssumption DEF Calls
<1>2. CASE allocatable[n].kind = "vfio"
  <2>1. UNCHANGED <<allocatable, conversions>>
    BY <1>2 DEF RecordConversion, Converts
  <2>2. f \in Gpu => \E r \in conversions : r[3] = f
    <3> SUFFICES ASSUME f \in Gpu PROVE \E r \in conversions : r[3] = f
      OBVIOUS
    <3>1. PICK r \in conversions : r[2] = n
      BY <1>1, <1>2 DEF EntriesMatch
    <3>2. allocatable[n] = [kind |-> "vfio", pci |-> r[3], home |-> "amdgpu"]
      BY <1>1, <3>1 DEF EntriesMatch
    <3> QED
      BY <3>2
  <2>3. RecordsHeld' /\ (up' => EntriesMatch') /\ (up' => OneEntryPerFunction')
    BY <1>1, <2>1 DEF RecordsHeld, EntriesMatch, OneEntryPerFunction
  <2> QED
    BY <1>1, <2>1, <2>2, <2>3 DEF NamesTypeOK
<1>3. CASE allocatable[n].kind = "gpu"
  <2> DEFINE new == <<c, n, f>>
             entry == [kind |-> "vfio", pci |-> f, home |-> "amdgpu"]
  <2>1. f \in Gpu /\ allocatable[n].home = "amdgpu"
    BY <1>1, <1>3 DEF EntriesMatch
  <2>2. conversions' = conversions \cup {new}
    BY <1>3 DEF RecordConversion, Converts
  <2>3. allocatable' = [allocatable EXCEPT ![n] = entry]
    <3>1. allocatable' = [allocatable EXCEPT ![n].kind = "vfio", ![n].home = "amdgpu"]
      BY <1>3 DEF RecordConversion, Converts
    <3>2. PICK k \in {"gpu", "partition", "synthetic", "vfio"}, p \in Function,
               h \in {"amdgpu", "vfio-pci", "unbound"} :
             allocatable[n] = [kind |-> k, pci |-> p, home |-> h]
      BY <1>1 DEF Entry
    <3>3. [[allocatable[n] EXCEPT !.kind = "vfio"] EXCEPT !.home = "amdgpu"] = entry
      <4>1. [[kind |-> k, pci |-> p, home |-> h] EXCEPT !.kind = "vfio"]
                = [kind |-> "vfio", pci |-> p, home |-> h]
        OBVIOUS
      <4>2. [[kind |-> "vfio", pci |-> p, home |-> h] EXCEPT !.home = "amdgpu"]
                = [kind |-> "vfio", pci |-> p, home |-> "amdgpu"]
        OBVIOUS
      <4>3. p = f
        BY <3>2
      <4> QED
        BY <3>2, <4>1, <4>2, <4>3
    <3> HIDE DEF entry
    <3> QED
      BY <1>1, <3>1, <3>3 DEF NamesTypeOK
  <2>4. entry \in Entry /\ entry.kind = "vfio" /\ entry.pci = f /\ entry # NoEntry
    BY <1>1 DEF Entry, NoEntry
  <2>5. new \in Records /\ new[1] = c /\ new[2] = n /\ new[3] = f
    BY <1>1 DEF Records
  <2> HIDE DEF new, entry
  <2>6. allocatable' \in [Name -> Entry \cup {NoEntry}] /\ conversions' \subseteq Records
    BY <2>2, <2>3, <2>4, <2>5 DEF NamesTypeOK
  <2>7. \A r \in conversions : r[2] # n /\ r[2] \in Name
    <3> TAKE r \in conversions
    <3>1. allocatable[r[2]].kind = "vfio"
      BY <1>1, RecordedEntry
    <3> QED
      BY <1>3, <3>1 DEF NamesTypeOK, Records
  <2>8. \A r \in conversions : r[1] # c
    BY <2>7 DEF RecordsHeld
  <2>9. \A m \in Name : m # n => allocatable[m].pci # f
    BY <1>1, <1>3, <2>4 DEF OneEntryPerFunction, NoEntry
  <2>10. \A r \in conversions : r[3] # f
    <3> TAKE r \in conversions
    <3>1. allocatable[r[2]].pci = r[3]
      BY <1>1, RecordedEntry
    <3> QED
      BY <2>7, <2>9, <3>1
  <2>11. RecordsHeld'
    <3>1. \A r \in conversions' : allocated'[r[1]] = r[2] /\ r[3] \in Gpu
      BY <2>1, <2>2, <2>5 DEF RecordsHeld
    <3>2. ASSUME NEW r \in conversions', NEW s \in conversions', r[1] = s[1] \/ r[3] = s[3]
          PROVE  r = s
      BY <2>2, <2>5, <2>8, <2>10, <3>2 DEF RecordsHeld
    <3> QED
      BY <3>1, <3>2 DEF RecordsHeld
  <2>12. EntriesMatch'
    <3>1. ASSUME NEW r \in conversions'
          PROVE  allocatable'[r[2]] = [kind |-> "vfio", pci |-> r[3], home |-> "amdgpu"]
      <4>1. CASE r = new
        BY <1>1, <2>3, <2>5, <4>1 DEF entry, NamesTypeOK
      <4>2. CASE r \in conversions
        <5>1. allocatable'[r[2]] = allocatable[r[2]]
          BY <2>3, <2>7, <4>2 DEF NamesTypeOK
        <5> QED
          BY <1>1, <4>2, <5>1 DEF EntriesMatch
      <4> QED
        BY <2>2, <4>1, <4>2
    <3>2. ASSUME NEW m \in Name
          PROVE  /\ allocatable'[m].kind \in {"gpu", "partition", "synthetic"} =>
                        allocatable'[m].pci \in Gpu /\ allocatable'[m].home = "amdgpu"
                 /\ allocatable'[m].kind = "vfio" /\ allocatable'[m].pci \in Gpu =>
                        \E r \in conversions' : r[2] = m
      <4>1. CASE m = n
        BY <1>1, <2>2, <2>3, <2>4, <2>5, <4>1 DEF NamesTypeOK
      <4>2. CASE m # n
        <5>1. allocatable'[m] = allocatable[m]
          BY <2>3, <4>2 DEF NamesTypeOK
        <5> QED
          BY <1>1, <2>2, <5>1 DEF EntriesMatch
      <4> QED
        BY <4>1, <4>2
    <3> QED
      BY <3>1, <3>2 DEF EntriesMatch
  <2>13. OneEntryPerFunction'
    <3>1. /\ allocatable'[n].pci = f
          /\ \A m \in Name : m # n => allocatable'[m] = allocatable[m]
      BY <1>1, <2>3, <2>4 DEF NamesTypeOK
    <3> SUFFICES ASSUME NEW m \in Name, NEW k \in Name, m # k, allocatable'[m] # NoEntry,
                        allocatable'[m].pci = allocatable'[k].pci
                 PROVE  allocatable'[m].kind = "partition" /\ allocatable'[k].kind = "partition"
      BY DEF OneEntryPerFunction
    <3>2. m # n /\ k # n
      BY <2>9, <3>1
    <3> QED
      BY <1>1, <3>1, <3>2 DEF OneEntryPerFunction
  <2>14. \E r \in conversions' : r[3] = f
    BY <2>2, <2>5
  <2> QED
    BY <1>1, <2>2, <2>6, <2>11, <2>12, <2>13, <2>14
<1> QED
  BY <1>2, <1>3

LEMMA PrepareVfioStep ==
  ASSUME NamesInv, NEW c \in Claim, PrepareVfio(c)
  PROVE  NamesInv'
<1> USE DEF NamesInv
<1> DEFINE f == allocatable[allocated[c]].pci
<1>1. /\ Calls(c, "pending") /\ allocatable[allocated[c]].kind \in {"gpu", "vfio"}
      /\ RecordConversion(c) /\ Rebind(f, "vfio-pci") /\ RunningWith(c, f)
      /\ UNCHANGED <<autoPartition, up, split, allocated>>
  BY DEF PrepareVfio
<1>2. up /\ up' /\ pod[c] = "pending"
  BY <1>1 DEF Calls
<1>3. /\ allocatable' \in [Name -> Entry \cup {NoEntry}] /\ conversions' \subseteq Records
      /\ RecordsHeld' /\ EntriesMatch' /\ OneEntryPerFunction'
      /\ conversions \subseteq conversions' /\ f \in Function
      /\ f \in Gpu => \E r \in conversions' : r[3] = f
  BY <1>1, <1>2, ConversionRecorded
<1> HIDE DEF f
<1>4. NamesTypeOK' /\ NamesHeld'
  BY <1>1, <1>2, <1>3, RebindFacts, RunningFacts DEF NamesTypeOK
<1>5. OffAmdgpu'
  <2>1. /\ \A h \in Function \ {f} : driver'[h] = driver[h]
        /\ \A g \in Gpu : minor'[g] # NoMinor => driver'[g] = "amdgpu"
    BY <1>1, <1>3, RebindFacts
  <2> QED
    BY <1>3, <2>1 DEF OffAmdgpu, Function
<1> QED
  BY <1>3, <1>4, <1>5

LEMMA PrepareInterruptedStep ==
  ASSUME NamesInv, NEW c \in Claim, PrepareInterrupted(c)
  PROVE  NamesInv'
<1> USE DEF NamesInv
<1> DEFINE f == allocatable[allocated[c]].pci
<1>1. /\ Calls(c, "pending") /\ allocatable[allocated[c]].kind = "gpu" /\ RecordConversion(c)
      /\ Rebind(f, "vfio-pci") \/ UNCHANGED <<driver, minor>>
      /\ up' = FALSE /\ UNCHANGED <<autoPartition, split, prepared, allocated, given, pod>>
  BY DEF PrepareInterrupted, Converts, claimVars
<1>2. /\ allocatable' \in [Name -> Entry \cup {NoEntry}] /\ conversions' \subseteq Records
      /\ RecordsHeld' /\ conversions \subseteq conversions' /\ f \in Function
      /\ f \in Gpu => \E r \in conversions' : r[3] = f
  BY <1>1, ConversionRecorded
<1> HIDE DEF f
<1>3. /\ driver' \in [Function -> {"amdgpu", "vfio-pci", "unbound"}]
      /\ minor' \in [Gpu -> Minor \cup {NoMinor}] /\ OffAmdgpu'
  <2>1. CASE UNCHANGED <<driver, minor>>
    BY <1>2, <2>1 DEF OffAmdgpu, NamesTypeOK
  <2>2. CASE Rebind(f, "vfio-pci")
    <3>1. /\ driver' \in [Function -> {"amdgpu", "vfio-pci", "unbound"}]
          /\ minor' \in [Gpu -> Minor \cup {NoMinor}]
          /\ \A h \in Function \ {f} : driver'[h] = driver[h]
          /\ \A g \in Gpu : minor'[g] # NoMinor => driver'[g] = "amdgpu"
      BY <1>2, <2>2, RebindFacts
    <3> QED
      BY <1>2, <3>1 DEF OffAmdgpu, Function
  <2> QED
    BY <1>1, <2>1, <2>2
<1>4. NamesTypeOK' /\ NamesHeld'
  BY <1>1, <1>2, <1>3 DEF NamesTypeOK, NamesHeld
<1>5. EntriesMatch' /\ OneEntryPerFunction'
  BY <1>1 DEF EntriesMatch, OneEntryPerFunction
<1> QED
  BY <1>2, <1>3, <1>4, <1>5

-----------------------------------------------------------------------------
(* Unprepare. *)

LEMMA NameToReturn ==
  ASSUME NamesInv, NEW c \in Claim, pod[c] = "terminating", NEW n \in NamesToReturn(c)
  PROVE  n = allocated[c] /\ n \in Name /\ n # NoName
<1>1. n = allocated[c]
  BY DEF NamesToReturn, NamesInv, RecordsHeld
<1> QED
  BY <1>1, EntryTyped, NamesAssumption

LEMMA ForgetFacts ==
  ASSUME NamesInv, NEW c \in Claim, Forget(c)
  PROVE  /\ prepared' \subseteq Claim /\ allocated' \in [Claim -> Name \cup {NoName}]
         /\ given' \in [Claim -> Function \cup {NoFunction}]
         /\ pod' \in [Claim -> {"none", "pending", "running", "terminating"}]
         /\ NamesHeld' /\ \A d \in Claim : d # c => allocated'[d] = allocated[d]
<1> USE DEF NamesInv
<1>1. /\ prepared' \subseteq Claim /\ allocated' \in [Claim -> Name \cup {NoName}]
      /\ given' \in [Claim -> Function \cup {NoFunction}]
      /\ pod' \in [Claim -> {"none", "pending", "running", "terminating"}]
      /\ \A d \in Claim : d # c => allocated'[d] = allocated[d] /\ pod'[d] = pod[d]
      /\ allocated'[c] = NoName /\ pod'[c] = "none" /\ prepared' = prepared \ {c}
  BY DEF Forget, NamesTypeOK
<1>2. NamesHeld'
  BY <1>1 DEF NamesHeld
<1> QED
  BY <1>1, <1>2

\* A GPU goes back to amdgpu, and no other device of the node is touched.
LEMMA ReturnFacts ==
  ASSUME NamesInv, up, NEW n \in Name, allocatable[n].kind = "vfio", ReturnDevice(n)
  PROVE  /\ driver' \in [Function -> {"amdgpu", "vfio-pci", "unbound"}]
         /\ minor' \in [Gpu -> Minor \cup {NoMinor}]
         /\ \A g \in Gpu : minor'[g] # NoMinor => driver'[g] = "amdgpu"
         /\ \A h \in Function : h # allocatable[n].pci => driver'[h] = driver[h]
         /\ \A g \in Gpu : driver'[g] # "amdgpu" => driver[g] # "amdgpu" /\ g # allocatable[n].pci
<1> USE DEF NamesInv
<1> DEFINE f == allocatable[n].pci
           to == IF allocatable[n].home = "vfio-pci" THEN driver[f] ELSE allocatable[n].home
<1>1. f \in Function /\ allocatable[n].home \in {"amdgpu", "vfio-pci", "unbound"}
  BY KindInEntry DEF NamesTypeOK
<1>2. to \in {"amdgpu", "vfio-pci", "unbound"} /\ Rebind(f, to)
  BY <1>1 DEF ReturnDevice, NamesTypeOK
<1>3. f \in Gpu => to = "amdgpu"
  <2> SUFFICES ASSUME f \in Gpu PROVE to = "amdgpu"
    OBVIOUS
  <2>1. PICK r \in conversions : r[2] = n
    BY DEF EntriesMatch
  <2> QED
    BY <2>1, RecordedEntry
<1> HIDE DEF f, to
<1>4. /\ driver' \in [Function -> {"amdgpu", "vfio-pci", "unbound"}]
      /\ minor' \in [Gpu -> Minor \cup {NoMinor}]
      /\ driver'[f] = to /\ \A h \in Function \ {f} : driver'[h] = driver[h]
      /\ \A g \in Gpu : minor'[g] # NoMinor => driver'[g] = "amdgpu"
  BY <1>1, <1>2, RebindFacts
<1>5. \A g \in Gpu : driver'[g] # "amdgpu" => driver[g] # "amdgpu" /\ g # f
  BY <1>3, <1>4 DEF Function
<1> QED
  BY <1>4, <1>5 DEF f

LEMMA UnprepareVfioStep ==
  ASSUME NamesInv, NEW c \in Claim, UnprepareVfio(c)
  PROVE  NamesInv'
<1> USE DEF NamesInv
<1>1. /\ up /\ pod[c] = "terminating" /\ Forget(c)
      /\ UNCHANGED <<autoPartition, up, split>>
  BY DEF UnprepareVfio, Calls
<1>2. PICK n \in NamesToReturn(c) :
         allocatable[n].kind = "vfio" /\ ReturnDevice(n) /\ RestoreFromVfio(c, n)
  BY DEF UnprepareVfio
<1>3. n = allocated[c] /\ n \in Name /\ n # NoName
  BY <1>1, NameToReturn
<1>4. /\ driver' \in [Function -> {"amdgpu", "vfio-pci", "unbound"}]
      /\ minor' \in [Gpu -> Minor \cup {NoMinor}]
      /\ \A g \in Gpu : minor'[g] # NoMinor => driver'[g] = "amdgpu"
      /\ \A g \in Gpu : driver'[g] # "amdgpu" => driver[g] # "amdgpu" /\ g # allocatable[n].pci
  BY <1>1, <1>2, <1>3, ReturnFacts
<1>5. conversions' = {r \in conversions : r[1] # c}
  BY <1>2, <1>3 DEF RestoreFromVfio, RecordsHeld
<1>6. \A r \in conversions : r[1] \in Claim /\ r[2] \in Name
  BY DEF NamesTypeOK, Records
<1>7. \A r \in conversions' : r \in conversions /\ r[2] # n
  BY <1>3, <1>5, <1>6 DEF RecordsHeld, NamesHeld
<1> DEFINE Goal == /\ allocatable' \in [Name -> Entry \cup {NoEntry}]
                   /\ EntriesMatch' /\ OneEntryPerFunction'
<1>8. ASSUME conversions' = conversions PROVE Goal
  <2>1. allocatable' = allocatable
    BY <1>2, <1>8 DEF RestoreFromVfio
  <2>2. EntriesMatch' /\ OneEntryPerFunction'
    BY <1>1, <1>8, <2>1 DEF EntriesMatch, OneEntryPerFunction
  <2>3. allocatable' \in [Name -> Entry \cup {NoEntry}]
    BY <2>1 DEF NamesTypeOK
  <2> QED
    BY <2>2, <2>3
<1>9. ASSUME conversions' # conversions PROVE Goal
  <2>1. PICK r \in conversions : r[1] = c
    BY <1>5, <1>9
  <2>2. r[2] = n /\ r[3] \in Gpu
    BY <1>3, <2>1 DEF RecordsHeld
  <2>3. allocatable[n].pci \in Gpu /\ allocatable[n].home = "amdgpu"
    BY <1>1, <2>2, RecordedEntry
  <2>4. allocatable' = [allocatable EXCEPT ![n].kind = "gpu"]
    BY <1>2, <1>9 DEF RestoreFromVfio
  <2>5. /\ allocatable'[n] \in Entry /\ allocatable'[n].kind = "gpu"
        /\ allocatable'[n].pci = allocatable[n].pci /\ allocatable'[n].home = "amdgpu"
    <3>1. allocatable'[n] = [allocatable[n] EXCEPT !.kind = "gpu"]
      BY <1>3, <2>4 DEF NamesTypeOK
    <3>2. allocatable[n] \in Entry
      BY <1>2, <1>3, KindInEntry DEF NamesTypeOK
    <3> QED
      BY <2>3, <3>1, <3>2 DEF Entry
  <2>6. \A m \in Name : m # n => allocatable'[m] = allocatable[m]
    BY <2>4 DEF NamesTypeOK
  <2>7. allocatable' \in [Name -> Entry \cup {NoEntry}]
    <3>1. \A m \in Name : allocatable'[m] \in Entry \cup {NoEntry}
      BY <2>5, <2>6 DEF NamesTypeOK
    <3>2. allocatable' = [m \in Name |-> allocatable'[m]]
      BY <2>4 DEF NamesTypeOK
    <3> QED
      BY <3>1, <3>2
  <2>8. EntriesMatch'
    <3>1. ASSUME NEW s \in conversions'
          PROVE  allocatable'[s[2]] = [kind |-> "vfio", pci |-> s[3], home |-> "amdgpu"]
      <4>1. s \in conversions /\ allocatable'[s[2]] = allocatable[s[2]]
        BY <1>6, <1>7, <2>6
      <4> QED
        BY <1>1, <4>1 DEF EntriesMatch
    <3>2. ASSUME NEW m \in Name
          PROVE  /\ allocatable'[m].kind \in {"gpu", "partition", "synthetic"} =>
                        allocatable'[m].pci \in Gpu /\ allocatable'[m].home = "amdgpu"
                 /\ allocatable'[m].kind = "vfio" /\ allocatable'[m].pci \in Gpu =>
                        \E s \in conversions' : s[2] = m
      <4>1. CASE m = n
        BY <2>3, <2>5, <4>1
      <4>2. CASE m # n
        <5>1. \A s \in conversions : s[2] = m => s \in conversions'
          BY <1>3, <1>5, <4>2 DEF RecordsHeld
        <5> QED
          BY <1>1, <2>6, <4>2, <5>1 DEF EntriesMatch
      <4> QED
        BY <4>1, <4>2
    <3> QED
      BY <3>1, <3>2 DEF EntriesMatch
  <2>9. OneEntryPerFunction'
    <3>1. \A m \in Name : m # n => allocatable[m].pci # allocatable[n].pci
      BY <1>1, <1>2, <1>3 DEF OneEntryPerFunction, NoEntry
    <3> SUFFICES ASSUME NEW m \in Name, NEW k \in Name, m # k, allocatable'[m] # NoEntry,
                        allocatable'[m].pci = allocatable'[k].pci
                 PROVE  allocatable'[m].kind = "partition" /\ allocatable'[k].kind = "partition"
      BY DEF OneEntryPerFunction
    <3>2. m # n /\ k # n
      BY <2>5, <2>6, <3>1
    <3> QED
      BY <1>1, <2>6, <3>2 DEF OneEntryPerFunction
  <2> QED
    BY <2>7, <2>8, <2>9
<1>10. NamesTypeOK' /\ NamesHeld'
  <2>1. allocatable' \in [Name -> Entry \cup {NoEntry}]
    BY <1>8, <1>9
  <2>2. conversions' \subseteq Records
    BY <1>5 DEF NamesTypeOK
  <2> QED
    BY <1>1, <1>4, <2>1, <2>2, ForgetFacts DEF NamesTypeOK
<1>11. RecordsHeld'
  <2>1. \A d \in Claim : d # c => allocated'[d] = allocated[d]
    BY <1>1, ForgetFacts
  <2> QED
    BY <1>5, <1>6, <2>1 DEF RecordsHeld
<1>12. OffAmdgpu'
  <2>1. ASSUME NEW g \in Gpu, driver'[g] # "amdgpu" PROVE \E r \in conversions' : r[3] = g
    <3>1. PICK r \in conversions : r[3] = g
      BY <1>4, <2>1 DEF OffAmdgpu
    <3>2. r[1] # c
      <4>1. allocatable[r[2]].pci = g /\ allocated[r[1]] = r[2]
        BY <1>1, <3>1, RecordedEntry DEF RecordsHeld
      <4> QED
        BY <1>3, <1>4, <2>1, <4>1
    <3> QED
      BY <1>5, <3>1, <3>2
  <2> QED
    BY <1>4, <2>1 DEF OffAmdgpu
<1> QED
  BY <1>8, <1>9, <1>10, <1>11, <1>12

LEMMA UnprepareInterruptedStep ==
  ASSUME NamesInv, NEW c \in Claim, UnprepareInterrupted(c)
  PROVE  NamesInv'
<1> USE DEF NamesInv
<1>1. /\ up /\ pod[c] = "terminating" /\ up' = FALSE
      /\ UNCHANGED <<autoPartition, split, allocatable, conversions, prepared, allocated, given, pod>>
  BY DEF UnprepareInterrupted, Calls, claimVars
<1>2. PICK n \in NamesToReturn(c) : allocatable[n].kind = "vfio" /\ ReturnDevice(n)
  BY DEF UnprepareInterrupted
<1>3. n \in Name
  BY <1>1, NameToReturn
<1>4. /\ driver' \in [Function -> {"amdgpu", "vfio-pci", "unbound"}]
      /\ minor' \in [Gpu -> Minor \cup {NoMinor}]
      /\ \A g \in Gpu : minor'[g] # NoMinor => driver'[g] = "amdgpu"
      /\ \A g \in Gpu : driver'[g] # "amdgpu" => driver[g] # "amdgpu"
  BY <1>1, <1>2, <1>3, ReturnFacts
<1>5. NamesTypeOK' /\ NamesHeld'
  BY <1>1, <1>4 DEF NamesTypeOK, NamesHeld
<1>6. RecordsHeld' /\ OffAmdgpu' /\ EntriesMatch' /\ OneEntryPerFunction'
  BY <1>1, <1>4 DEF RecordsHeld, OffAmdgpu, EntriesMatch, OneEntryPerFunction
<1> QED
  BY <1>5, <1>6

LEMMA UnprepareOtherStep ==
  ASSUME NamesInv, NEW c \in Claim, UnprepareOther(c)
  PROVE  NamesInv'
<1> USE DEF NamesInv
<1>1. /\ up /\ pod[c] = "terminating" /\ Forget(c)
      /\ \A n \in NamesToReturn(c) : allocatable[n].kind # "vfio"
      /\ UNCHANGED <<autoPartition, up, driver, minor, split, allocatable, conversions>>
  BY DEF UnprepareOther, Calls, sysfsVars
<1>2. \A r \in conversions : r[1] # c
  <2> SUFFICES ASSUME NEW r \in conversions, r[1] = c PROVE FALSE
    OBVIOUS
  <2>1. r[2] \in NamesToReturn(c)
    BY DEF RecordsHeld, NamesToReturn
  <2> QED
    BY <1>1, <2>1, RecordedEntry
<1>3. NamesTypeOK' /\ NamesHeld'
  BY <1>1, ForgetFacts DEF NamesTypeOK
<1>4. RecordsHeld'
  <2>1. \A d \in Claim : d # c => allocated'[d] = allocated[d]
    BY <1>1, ForgetFacts
  <2>2. \A r \in conversions : r[1] \in Claim
    BY DEF NamesTypeOK, Records
  <2> QED
    BY <1>1, <1>2, <2>1, <2>2 DEF RecordsHeld
<1>5. OffAmdgpu' /\ EntriesMatch' /\ OneEntryPerFunction'
  BY <1>1 DEF OffAmdgpu, EntriesMatch, OneEntryPerFunction
<1> QED
  BY <1>3, <1>4, <1>5

-----------------------------------------------------------------------------
(* The theorems. *)

LEMMA NamesInitially == NamesInit => NamesInv
<1> SUFFICES ASSUME NamesInit PROVE NamesInv
  OBVIOUS
<1> USE DEF NamesInit
<1>1. NamesTypeOK
  <2>1. split \in [Gpu -> BOOLEAN]
    <3>1. PICK s \in SUBSET partitionable : split = [g \in Gpu |-> g \in s]
      OBVIOUS
    <3> QED
      BY <3>1
  <2>2. driver \in [Function -> {"amdgpu", "vfio-pci", "unbound"}]
    BY DEF Function
  <2> QED
    BY <2>1, <2>2 DEF NamesTypeOK
<1>2. NamesHeld /\ RecordsHeld
  BY DEF NamesHeld, RecordsHeld
<1>3. OffAmdgpu
  <2>1. ASSUME NEW g \in Gpu PROVE driver[g] = "amdgpu"
    <3>1. g \in Function /\ g \notin Prebound /\ g \notin Vf
      BY DiscoveryAssumption DEF Function
    <3>2. driver[g] = CASE g \in Gpu -> "amdgpu" [] g \in Prebound -> "vfio-pci" [] g \in Vf -> "unbound"
      BY <3>1
    <3> QED
      BY <3>1, <3>2
  <2> QED
    BY <2>1 DEF OffAmdgpu
<1>4. EntriesMatch /\ OneEntryPerFunction
  BY DEF EntriesMatch, OneEntryPerFunction
<1> QED
  BY <1>1, <1>2, <1>3, <1>4 DEF NamesInv

LEMMA NamesStep == NamesInv /\ [NamesNext]_namesVars => NamesInv'
<1> SUFFICES ASSUME NamesInv, [NamesNext]_namesVars PROVE NamesInv'
  OBVIOUS
<1>1. CASE UNCHANGED namesVars
  <2> USE DEF NamesInv
  <2>1. UNCHANGED <<autoPartition, up, driver, minor, split, allocatable, conversions,
                    prepared, allocated, given, pod>>
    BY <1>1 DEF namesVars, sysfsVars, claimVars
  <2>2. NamesTypeOK' /\ NamesHeld'
    BY <2>1 DEF NamesTypeOK, NamesHeld
  <2>3. RecordsHeld' /\ OffAmdgpu' /\ EntriesMatch' /\ OneEntryPerFunction'
    BY <2>1 DEF RecordsHeld, OffAmdgpu, EntriesMatch, OneEntryPerFunction
  <2> QED
    BY <2>2, <2>3
<1>2. CASE (\E g \in Gpu : Probe(g)) \/ Start \/ Crash
  BY <1>2, ProbeStep, StartStep, CrashStep
<1>3. ASSUME NEW c \in Claim, (\E n \in Name : Allocate(c, n)) \/ PodDeleted(c)
      PROVE  NamesInv'
  BY <1>3, AllocateStep, PodDeletedStep
<1>4. ASSUME NEW c \in Claim, \/ PrepareGpu(c) \/ PrepareSynthetic(c) \/ PrepareNothing(c)
                              \/ PrepareVfio(c) \/ PrepareInterrupted(c)
      PROVE  NamesInv'
  BY <1>4, PrepareOtherStep, PrepareVfioStep, PrepareInterruptedStep
<1>5. ASSUME NEW c \in Claim, UnprepareVfio(c) \/ UnprepareInterrupted(c) \/ UnprepareOther(c)
      PROVE  NamesInv'
  BY <1>5, UnprepareVfioStep, UnprepareInterruptedStep, UnprepareOtherStep
<1> QED
  BY <1>1, <1>2, <1>3, <1>4, <1>5 DEF NamesNext

LEMMA NamesInvariant == NamesSpec => []NamesInv
BY NamesInitially, NamesStep, PTL DEF NamesSpec

\* Whatever is converted, returned, killed and started anew: the variables keep
\* their types (the lowest free minor exists, a recovered entry is an entry).
THEOREM NamesTypeCorrect == NamesSpec => []NamesTypeOK
<1>1. NamesInv => NamesTypeOK
  BY DEF NamesInv
<1> QED
  BY <1>1, NamesInvariant, PTL

\* For any functions, splits and probing order: no function is allocatable under
\* two names, unless they are its partitions (GetAMDGPUs and GetPFMapping, then
\* recoverVfioConversions).
THEOREM NamedOnce == NamesSpec => []OneEntryPerFunction
<1>1. NamesInv => OneEntryPerFunction
  BY DEF NamesInv
<1> QED
  BY <1>1, NamesInvariant, PTL

\* For any claims and kills: the record of a conversion finds its GPU under the
\* name its claim holds, and a GPU off amdgpu has the record of a living claim,
\* so that Unprepare will return it.
THEOREM RecordsFindTheirGpu == NamesSpec => []RecordsResolve
<1>1. NamesInv => RecordsResolve
  <2> SUFFICES ASSUME NamesInv, up PROVE RecordsResolve
    BY DEF RecordsResolve
  <2> USE DEF NamesInv
  <2>1. \A r \in conversions :
           allocatable[r[2]] = [kind |-> "vfio", pci |-> r[3], home |-> "amdgpu"]
    BY DEF EntriesMatch
  <2>2. ASSUME NEW g \in Gpu, driver[g] # "amdgpu"
        PROVE  \E r \in conversions : r[3] = g /\ pod[r[1]] # "none"
    <3>1. PICK r \in conversions : r[3] = g
      BY <2>2 DEF OffAmdgpu
    <3>2. allocated[r[1]] = r[2] /\ r[1] \in Claim /\ r[2] # NoName
      BY NamesAssumption DEF RecordsHeld, NamesTypeOK, Records
    <3> QED
      BY <3>1, <3>2 DEF NamesHeld
  <2> QED
    BY <2>1, <2>2 DEF RecordsResolve
<1> QED
  BY <1>1, NamesInvariant, PTL

\* For any claims and kills: no call for another claim and no restart rebinds the
\* function that a running pod holds by its claim's name.
THEOREM RunningKeepTheirDriver == NamesSpec => RunningUndisturbed
<1> DEFINE Undisturbed ==
      \A c \in Running :
           /\ c \in Running' /\ given[c] # NoFunction
           /\ given[c] = allocatable[allocated[c]].pci
           => driver'[given[c]] = driver[given[c]]
<1>1. NamesInv /\ [NamesNext]_namesVars => [Undisturbed]_namesVars
  <2> SUFFICES ASSUME NamesInv, NamesNext, NEW c \in Running, c \in Running',
                      given[c] # NoFunction, given[c] = allocatable[allocated[c]].pci
               PROVE  driver'[given[c]] = driver[given[c]]
    OBVIOUS
  <2> USE DEF NamesInv
  <2>1. /\ c \in Claim /\ pod[c] = "running" /\ pod'[c] = "running"
        /\ allocated[c] \in Name /\ given[c] \in Function /\ allocatable[allocated[c]] # NoEntry
    <3>1. c \in Claim /\ pod[c] = "running" /\ pod'[c] = "running"
      BY DEF Running
    <3> QED
      BY <3>1, EntryTyped DEF NamesTypeOK, NoEntry
  <2>2. ASSUME NEW d \in Claim, d # c, pod[d] # "none", up,
               allocatable[allocated[d]].kind \in {"gpu", "vfio"}
        PROVE  allocatable[allocated[d]].pci # given[c]
    <3>1. allocated[d] \in Name /\ allocated[d] # allocated[c]
      BY <2>1, <2>2, EntryTyped, NamesAssumption DEF NamesHeld
    <3> QED
      BY <2>1, <2>2, <3>1 DEF OneEntryPerFunction
  <2>3. CASE UNCHANGED driver
    BY <2>3
  <2>4. ASSUME NEW d \in Claim, PrepareVfio(d) \/ PrepareInterrupted(d)
        PROVE  driver'[given[c]] = driver[given[c]]
    <3> DEFINE f == allocatable[allocated[d]].pci
    <3>1. /\ up /\ pod[d] = "pending" /\ allocatable[allocated[d]].kind \in {"gpu", "vfio"}
          /\ Rebind(f, "vfio-pci") \/ UNCHANGED driver
      BY <2>4 DEF PrepareVfio, PrepareInterrupted, Calls, Converts
    <3>2. f # given[c]
      BY <2>1, <2>2, <3>1
    <3> HIDE DEF f
    <3> QED
      BY <2>1, <3>1, <3>2 DEF Rebind, NamesTypeOK
  <2>5. ASSUME NEW d \in Claim, UnprepareVfio(d) \/ UnprepareInterrupted(d)
        PROVE  driver'[given[c]] = driver[given[c]]
    <3>1. up /\ pod[d] = "terminating"
      BY <2>5 DEF UnprepareVfio, UnprepareInterrupted, Calls
    <3>2. PICK n \in NamesToReturn(d) : allocatable[n].kind = "vfio" /\ ReturnDevice(n)
      BY <2>5 DEF UnprepareVfio, UnprepareInterrupted
    <3>3. n = allocated[d] /\ n \in Name
      BY <3>1, NameToReturn
    <3>4. allocatable[n].pci # given[c]
      BY <2>1, <2>2, <3>1, <3>2, <3>3
    <3> QED
      BY <2>1, <3>1, <3>2, <3>3, <3>4, ReturnFacts
  <2> QED
    BY <2>3, <2>4, <2>5
    DEF NamesNext, Probe, Start, Crash, Allocate, PodDeleted, PrepareGpu, PrepareSynthetic,
        PrepareNothing, UnprepareOther, sysfsVars
<1> QED
  BY <1>1, NamesInvariant, PTL DEF NamesSpec, RunningUndisturbed

=============================================================================

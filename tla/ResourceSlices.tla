---------------------------- MODULE ResourceSlices ----------------------------
(***************************************************************************)
(* What the plugin publishes, as the scheduler reads it.  In AutoPartition *)
(* mode a GPU appears once per partition mode; each of its modes consumes  *)
(* the one unit of the GPU's mutex counter, and a mode with several        *)
(* partitions may be allocated once for each.  The API caps the devices    *)
(* and the counter sets of a slice and keeps them in separate slices.      *)
(* Taints are in DeviceState; attributes other than the name are left out. *)
(***************************************************************************)
EXTENDS Integers, Sequences, FiniteSets, SequencesExt, FiniteSetsExt

CONSTANTS
    Device,         \* names
    kind,           \* what the entry of a name is when the plugin starts
    gpuOf,          \* the GPU of a name
    partitions,     \* the partitions of a synthetic device's mode
    nameOrder,      \* the order of the names as strings
    DeviceLimit,    \* devices in a slice with counters, 64 in the API
    SetLimit        \* counter sets in a slice, 8 in the API

Kind == {"gpu", "partition", "synthetic", "vfio"}

ASSUME SlicesAssumption ==
    /\ IsFiniteSet(Device)
    /\ kind \in [Device -> Kind]
    /\ DOMAIN gpuOf = Device
    /\ partitions \in [Device -> Nat \ {0}]
    /\ nameOrder \in [Device -> Nat] /\ IsInjective(nameOrder)
    /\ DeviceLimit \in Nat \ {0} /\ SetLimit \in Nat \ {0}

\* Mutant: every mode is published with one share too many.
GetDevice_Overcommitted(d) ==
    [name |-> d,
     capacity |-> IF kind[d] = "synthetic" THEN partitions[d] + 1 ELSE 1,
     consumes |-> IF kind[d] = "synthetic" THEN {gpuOf[d]} ELSE {}]

\* GetDevice of an entry.
GetDevice(d) ==
    [name |-> d,
     capacity |-> IF kind[d] = "synthetic" THEN partitions[d] ELSE 1,
     consumes |-> IF kind[d] = "synthetic" THEN {gpuOf[d]} ELSE {}]

\* The listed devices, sorted by name.
ByName(listed) ==
    LET before(d) == Cardinality({e \in listed : nameOrder[e] < nameOrder[d]})
    IN [i \in 1 .. Cardinality(listed) |-> GetDevice(CHOOSE d \in listed : before(d) = i - 1)]

\* Mutant: the last, partial chunk is dropped.
Chunks_Whole(seq, size) ==
    [i \in 1 .. Len(seq) \div size |-> SubSeq(seq, (i - 1) * size + 1, i * size)]

Chunks(seq, size) ==
    [i \in 1 .. (Len(seq) + size - 1) \div size |->
        SubSeq(seq, (i - 1) * size + 1, IF i * size < Len(seq) THEN i * size ELSE Len(seq))]

PartitionableGpus(listed) == {gpuOf[d] : d \in {e \in listed : kind[e] = "synthetic"}}

DeviceSlice(devices) == [devices |-> devices, counters |-> <<>>]
CounterSlice(sets) == [devices |-> <<>>, counters |-> sets]

BuildSyntheticPartitionResources(listed) ==
    LET devices == Chunks(ByName(listed), DeviceLimit)
        sets == Chunks(SetToSeq(PartitionableGpus(listed)), SetLimit)
    IN [i \in DOMAIN devices |-> DeviceSlice(devices[i])]
       \o [i \in DOMAIN sets |-> CounterSlice(sets[i])]

PublishedSlices(autoPartition, listed) ==
    IF autoPartition
    THEN BuildSyntheticPartitionResources(listed)
    ELSE <<DeviceSlice(ByName(listed))>>

-----------------------------------------------------------------------------
(* The scheduler, which knows no more than the slices. *)

DevicesIn(pool) == UNION {ToSet(pool[i].devices) : i \in DOMAIN pool}
CountersIn(pool) == UNION {ToSet(pool[i].counters) : i \in DOMAIN pool}

\* An assignment of published devices to requests, within every capacity and
\* counter of the pool.
Schedulable(pool, assignment) ==
    LET users(name) == {r \in DOMAIN assignment : assignment[r] = name}
        used == {v \in DevicesIn(pool) : users(v.name) # {}}
    IN /\ \A r \in DOMAIN assignment : \E v \in used : v.name = assignment[r]
       /\ \A v \in used : Cardinality(users(v.name)) <= v.capacity
       /\ \A v \in used : v.consumes \subseteq CountersIn(pool)
       /\ \A v, w \in used : v.consumes \cap w.consumes # {} => v = w

=============================================================================

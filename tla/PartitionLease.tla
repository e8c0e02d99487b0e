--------------------------- MODULE PartitionLease ---------------------------
(***************************************************************************)
(* What the partition bookkeeping promises, with no counters, no mode      *)
(* fields and no loops: a lease on a partition slot is held by at most one *)
(* share, all leases of a node agree on the memory mode, all leases of a   *)
(* GPU on its compute mode, and a slot is one of the partitions that mode  *)
(* gives the GPU.  A node comes back from a restart with the leases it     *)
(* last recorded.                                                          *)
(***************************************************************************)
EXTENDS Integers

CONSTANTS Gpu, Share, ComputeMode, MemoryMode,
          gpuOf, computeOf, memoryOf, partitions

VARIABLES lease,    \* slot leased to each share, or NoLease
          durable   \* the leases last recorded

NoLease == -1

Leased(l) == {s \in Share : l[s] # NoLease}

Agree(s, t) ==
    /\ memoryOf[s] = memoryOf[t]
    /\ gpuOf[s] = gpuOf[t] => computeOf[s] = computeOf[t]

Init ==
    /\ lease = [s \in Share |-> NoLease]
    /\ durable = lease

Acquire(s, n) ==
    /\ lease[s] = NoLease
    /\ \A t \in Leased(lease) : /\ Agree(s, t)
                                /\ gpuOf[t] = gpuOf[s] => lease[t] # n
    /\ lease' = [lease EXCEPT ![s] = n]
    /\ UNCHANGED durable

Drop(s) ==
    /\ s \in Leased(lease)
    /\ lease' = [lease EXCEPT ![s] = NoLease]
    /\ UNCHANGED durable

Record == durable' = lease /\ UNCHANGED lease

Recover == lease' = durable /\ UNCHANGED durable

Next ==
    \/ \E s \in Share : \E n \in 0 .. (partitions[computeOf[s]] - 1) :
           Acquire(s, n)
    \/ \E s \in Share : Drop(s)
    \/ Record
    \/ Recover

Spec == Init /\ [][Next]_<<lease, durable>>

=============================================================================

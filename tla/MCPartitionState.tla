-------------------------- MODULE MCPartitionState --------------------------
(***************************************************************************)
(* Two GPUs and three claims.  c1 asks for two shares of one device, c2    *)
(* for a share of the same kind and one on the other GPU, c3 for a share   *)
(* whose memory mode conflicts with all others and one whose memory mode   *)
(* fits but whose compute mode does not, so its reservation is undone from *)
(* the middle.  Three partitions per GPU in the split mode.                *)
(***************************************************************************)
EXTENDS PartitionState

CONSTANTS g0, g1, c1, c2, c3, spx, cpx, nps1, nps4

MCGpu == {g0, g1}
MCClaim == {c1, c2, c3}
MCShare == 1 .. 6
MCComputeMode == {spx, cpx}
MCMemoryMode == {nps1, nps4}

MCClaimOf == <<c1, c1, c2, c2, c3, c3>>
MCGpuOf == <<g0, g0, g0, g1, g1, g0>>
MCComputeOf == <<cpx, cpx, cpx, cpx, cpx, spx>>
MCMemoryOf == <<nps4, nps4, nps4, nps4, nps4, nps1>>
MCPartitions == [m \in MCComputeMode |-> IF m = cpx THEN 3 ELSE 1]

=============================================================================

---------------------------- MODULE MCDeviceState ----------------------------
(***************************************************************************)
(* Two GPUs and the four kinds of claim that matter: c1 wants a partition  *)
(* of each GPU, c2 a partition of the first GPU in the same modes, c3 the  *)
(* whole second GPU in another memory mode, and the two devices of c4      *)
(* contradict each other's memory mode, so c4 can never be prepared.       *)
(* Shares 7 to 12 are the positional keys of shares 1 to 6.  Two           *)
(* partitions per GPU in the split mode, so c1 and c2 fill the first GPU.  *)
(* A configuration names the claims it is about.                           *)
(***************************************************************************)
EXTENDS DeviceState

CONSTANTS g0, g1, c1, c2, c3, c4, spx, cpx, nps1, nps4

MCGpu == {g0, g1}
MCComputeMode == {spx, cpx}
MCMemoryMode == {nps1, nps4}
MCPartitions == [m \in MCComputeMode |-> IF m = cpx THEN 2 ELSE 1]

AllClaimOf == <<c1, c1, c2, c3, c4, c4, c1, c1, c2, c3, c4, c4>>
AllGpuOf == <<g0, g1, g0, g1, g0, g1, g0, g1, g0, g1, g0, g1>>
AllComputeOf == <<cpx, cpx, cpx, spx, cpx, spx, cpx, cpx, cpx, spx, cpx, spx>>
AllMemoryOf == <<nps4, nps4, nps4, nps1, nps4, nps1,
                 nps4, nps4, nps4, nps1, nps4, nps1>>

MCShare == {s \in 1 .. 12 : AllClaimOf[s] \in Claim}
MCClaimOf == [s \in MCShare |-> AllClaimOf[s]]
MCGpuOf == [s \in MCShare |-> AllGpuOf[s]]
MCComputeOf == [s \in MCShare |-> AllComputeOf[s]]
MCMemoryOf == [s \in MCShare |-> AllMemoryOf[s]]
MCPositionalOf == [s \in MCShare |-> IF s <= 6 THEN s + 6 ELSE s]
MCKeyOrder == [s \in MCShare |-> s]

=============================================================================

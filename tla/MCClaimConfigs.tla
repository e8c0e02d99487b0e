---------------------------- MODULE MCClaimConfigs ----------------------------
(***************************************************************************)
(* GPU 0 has two modes, GPU 1 one, GPU 2 none; GPU 0 also stands for a     *)
(* whole GPU and a split one without AutoPartition; vf0 is a VFIO device.  *)
(* k1 makes one request and attaches configurations of every kind; k2      *)
(* makes two and attaches several that compete.  The scheduler writes the  *)
(* configurations of a class with the names its results use.  Limits of    *)
(* two devices and one counter set fill more than one slice.               *)
(***************************************************************************)
EXTENDS ClaimConfigs

CONSTANTS dpx0, spx0, cpx1, gpu0, part0, gpu2, vf0, k1, k2, r1, r2, alternatives

MCDevice == {dpx0, spx0, cpx1, gpu0, part0, gpu2, vf0}

MCKind == [d \in Device |->
    CASE d \in {dpx0, spx0, cpx1} -> "synthetic" [] d \in {gpu0, gpu2} -> "gpu"
      [] d = part0 -> "partition" [] d = vf0 -> "vfio"]
MCGpuOf == [d \in Device |->
    CASE d \in {dpx0, spx0, gpu0, part0} -> 0 [] d = cpx1 -> 1 [] d = gpu2 -> 2 [] d = vf0 -> 3]
MCPartitions == [d \in Device |-> IF d \in {dpx0, cpx1} THEN 2 ELSE 1]
MCNameOrder == [d \in Device |->
    CASE d = dpx0 -> 2 [] d = spx0 -> 3 [] d = cpx1 -> 5 [] d = gpu0 -> 1
      [] d = part0 -> 4 [] d = gpu2 -> 6 [] d = vf0 -> 7]

MCRequests == [c \in Claim |-> IF c = k1 THEN {r1} ELSE {r1, r2}]
MCRefs == [r \in {r1, r2} |-> IF r = r1 THEN alternatives ELSE {r2}]

Of(k, policy, named) == [kind |-> k, policy |-> policy, requests |-> named]
Gpus(named) == Of("gpu", "unset", named)
Vfio(policy, named) == Of("vfio", policy, named)
Odd(k) == Of(k, "unset", {})

MCOwnChoices == [c \in Claim |->
    IF c = k1
    THEN {<<>>, <<Vfio("unset", {})>>, <<Vfio("RequireIommuFD", {r1})>>,
          <<Odd("broken")>>, <<Odd("foreign"), Vfio("misspelt", {})>>, <<Odd("future")>>}
    ELSE {<<Vfio("PreferIommuFD", {}), Gpus({r1})>>, <<Gpus({}), Vfio("LegacyOnly", {r2})>>}]

MCClassChoices == [c \in Claim |->
    IF c = k1 THEN {<<>>, <<Vfio("PreferIommuFD", MCRefs[r1])>>, <<Odd("unknown"), Gpus(MCRefs[r1])>>}
    ELSE {<<>>, <<Vfio("RequireIommuFD", {r2})>>}]

MCHosts ==
    {[iommu |-> TRUE, control |-> TRUE, cdevs |-> {gpu0, vf0}, groups |-> Device],
     [iommu |-> TRUE, control |-> FALSE, cdevs |-> Device, groups |-> {}],
     [iommu |-> FALSE, control |-> TRUE, cdevs |-> {}, groups |-> Device]}

=============================================================================

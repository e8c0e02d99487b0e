---------------------------- MODULE MCDeviceNames -----------------------------
(***************************************************************************)
(* GPU 1 can be partitioned, GPU 2 cannot; function 0 is a PF bound to     *)
(* vfio-pci by somebody else, function 3 a VF.  One claim of each kind and *)
(* a second one that converts.  A configuration names the functions and    *)
(* claims it has and says where the IOMMU group of the pre-bound PF sorts. *)
(***************************************************************************)
EXTENDS DeviceNames

CONSTANTS k1, k2, k3, k4, k5, preboundOrder

MCXcpOf == [g \in Gpu |-> 10 + g]
MCIommuOrder == [f \in Function |-> IF f \in Prebound THEN preboundOrder ELSE f]
MCWants == [c \in Claim |->
                CASE c = k1 -> "convert" [] c = k2 -> "gpu" [] c = k3 -> "vfio"
                  [] c = k4 -> "convert" [] c = k5 -> "bare"]

=============================================================================

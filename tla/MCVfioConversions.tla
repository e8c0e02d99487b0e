-------------------------- MODULE MCVfioConversions --------------------------
(***************************************************************************)
(* Two GPUs, a PF bound to vfio-pci by the operator, a virtual function,   *)
(* and the claims over them: ca passes both GPUs through, cb the first     *)
(* one, cc passes the pre-bound PF through and uses the second GPU as a    *)
(* GPU, and ce passes the virtual function through.                        *)
(***************************************************************************)
EXTENDS VfioConversions, TLC

CONSTANTS ca, cb, cc, ce, g0, g1, p0, v0

AllDevicesOf == (ca :> {g0, g1}) @@ (cb :> {g0}) @@ (cc :> {g1, p0}) @@ (ce :> {v0})
AllVfioOf == (ca :> {g0, g1}) @@ (cb :> {g0}) @@ (cc :> {p0}) @@ (ce :> {v0})
MCDevicesOf == [c \in Claim |-> AllDevicesOf[c]]
MCVfioOf == [c \in Claim |-> AllVfioOf[c]]

=============================================================================

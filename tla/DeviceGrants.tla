----------------------------- MODULE DeviceGrants -----------------------------
(***************************************************************************)
(* What the plugin promises the pods of a node, with no calls, files,      *)
(* reservations or locks: a claim is granted its devices all at once, when *)
(* the hardware is in the modes they need and none of them is another's;   *)
(* from then on neither the grant nor the hardware under it changes, until *)
(* the pod is deleted.  What the hardware does elsewhere is nobody's       *)
(* business, and a restart of the plugin is none of the pods'.             *)
(***************************************************************************)
EXTENDS Integers

CONSTANTS Gpu, Share, Claim, WholeGpu, partitions,
          sharesOf,     \* claim -> the shares it is allocated
          gpuOf, computeOf, memoryOf

VARIABLES grant,            \* slot granted for each share, or NoGrant
          memory, compute   \* modes the GPUs are in

NoGrant == -1

Granted == {s \in Share : grant[s] # NoGrant}

\* The hardware is what a share needs; the memory mode is one for all GPUs.
Serves(s) == /\ compute[gpuOf[s]] = computeOf[s]
             /\ \A g \in Gpu : memory[g] = memoryOf[s]

\* A whole GPU is one device whatever its slot.
Exists(s) == computeOf[s] # WholeGpu => grant[s] \in 0 .. (partitions[computeOf[s]] - 1)

Apart(s, t) == gpuOf[s] = gpuOf[t] => computeOf[s] # WholeGpu /\ grant[s] # grant[t]

Init == grant = [s \in Share |-> NoGrant]

Grant(c) ==
    /\ \A s \in sharesOf[c] : s \notin Granted /\ Serves(s)
    /\ grant' \in [Share -> Int]
    /\ \A s \in sharesOf[c] : /\ s \in Granted' /\ Exists(s)'
                              /\ \A t \in Granted' \ {s} : Apart(s, t)'
    /\ \A s \in Share \ sharesOf[c] : grant'[s] = grant[s]
    /\ UNCHANGED <<memory, compute>>

Revoke(c) ==
    /\ grant' = [s \in Share |-> IF s \in sharesOf[c] THEN NoGrant ELSE grant[s]]
    /\ UNCHANGED <<memory, compute>>

Reconfigure ==
    /\ UNCHANGED grant
    /\ \A s \in Granted : memory' = memory /\ compute'[gpuOf[s]] = compute[gpuOf[s]]

Next == Reconfigure \/ \E c \in Claim : Revoke(c) \/ Grant(c)

Spec == Init /\ [][Next]_<<grant, memory, compute>>

=============================================================================

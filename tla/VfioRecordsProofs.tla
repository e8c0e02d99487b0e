-------------------------- MODULE VfioRecordsProofs --------------------------
(***************************************************************************)
(* Proofs about what VfioConversions gives back and what it leaves to a    *)
(* running pod, for any devices and claims.                                *)
(*                                                                         *)
(* MatchInv says whose a record is and what an Unprepare still has to give *)
(* back; it holds whatever fails.  BoundInv says what a living claim's     *)
(* devices are bound to; it needs pods that are not removed by force,      *)
(* since only then does the scheduler keep their devices apart.            *)
(***************************************************************************)
EXTENDS VfioConversionsProofs

PrepareStages == {"stranded", "convert", "intent", "configure", "cdi", "commit",
                  "reply", "rollback", "persist"}
UnprepareStages == Stages \ (PrepareStages \cup {"idle"})

\* A device is on record for one claim, as one of its passthrough GPUs.
OneOwner(records) ==
    /\ \A c \in Claim, d \in Device : <<c, d>> \in records => d \in Gpu /\ d \in vfioOf[c]
    /\ \A c, e \in Claim, d \in Device :
           <<c, d>> \in records /\ <<e, d>> \in records => c = e

\* The entry of a GPU is of type "vfio" exactly while it is on record.
EntriesFollowRecords ==
    /\ \A d \in Gpu : allocatable[d] = IF \E c \in Claim : <<c, d>> \in vfioConversions
                                       THEN "vfio" ELSE "gpu"
    /\ \A d \in Device \ Gpu : allocatable[d] # "gpu"

\* A prepared claim has been given all of its passthrough devices.
PreparedWhole ==
    \A c \in Claim : preparedDevices[c] # {} =>
        vfioOf[c] \subseteq preparedDevices[c] /\ preparedDevices[c] \subseteq devicesOf[c]

\* A call is for a claim whose pod is there, and so is a record.
PodsPresent ==
    /\ stage \in PrepareStages => pod[rpcClaim] \in {"pending", "running"}
    /\ stage \in UnprepareStages => pod[rpcClaim] \in {"terminating", "forced"}
    /\ \A c \in Claim, d \in Device : <<c, d>> \in vfioConversions => pod[c] # "none"

\* What the running Unprepare has still on record is what it has not tried to
\* return or could not.
StillToReturn ==
    /\ stage = "return" => ConvertedFor(rpcClaim) \subseteq work \cup failed
    /\ stage = "unstrandwrite" => ConvertedFor(rpcClaim) \subseteq failed
    /\ stage \in {"unspec", "unwrite"} => ConvertedFor(rpcClaim) = {}

MatchInv ==
    /\ OneOwner(vfioConversions) /\ OneOwner(savedConversions)
    /\ EntriesFollowRecords /\ PreparedWhole /\ PodsPresent /\ StillToReturn

-----------------------------------------------------------------------------

\* Living pods have no device in common, and calls stay within their claim's.
Apart ==
    /\ \A c \in Claim : pod[c] # "forced"
    /\ \A c, e \in Claim : c # e /\ pod[c] # "none" /\ pod[e] # "none" =>
           devicesOf[c] \cap devicesOf[e] = {}
    /\ stage # "idle" => work \subseteq devicesOf[rpcClaim]

\* How far the running call has brought its claim.
BoundSoFar ==
    /\ stage = "intent" => vfioOf[rpcClaim] \subseteq work
    /\ stage = "configure" => \A d \in vfioOf[rpcClaim] \ work : boundDriver[d] = "vfio-pci"
    /\ stage \in {"cdi", "commit", "reply"} =>
           \A d \in vfioOf[rpcClaim] : boundDriver[d] = "vfio-pci"
    /\ stage \in (PrepareStages \ {"reply"}) \cup {"unstrand", "unstrandwrite"} =>
           preparedDevices[rpcClaim] = {}
    /\ stage = "reply" /\ vfioOf[rpcClaim] # {} => preparedDevices[rpcClaim] # {}

Lives(c) == pod[c] \in {"pending", "running"} /\ preparedDevices[c] # {}

LivingBound ==
    \A c \in Claim :
        /\ Lives(c) => \A d \in vfioOf[c] : boundDriver[d] = "vfio-pci"
        /\ pod[c] = "running" /\ vfioOf[c] # {} => preparedDevices[c] # {}
        /\ preparedDevices[c] # {} => pod[c] # "none"

BoundInv == Apart /\ BoundSoFar /\ LivingBound

-----------------------------------------------------------------------------
(* Whose a record is. *)

\* Records and entries change in four of the steps; the checkpoint takes over
\* what is in memory.
LEMMA RecordSteps ==
  ASSUME IInv, VfioNext
  PROVE  \/ /\ UNCHANGED <<vfioConversions, allocatable>>
            /\ savedConversions' \in {savedConversions, vfioConversions}
         \/ Convert \/ ReleaseVfioDone \/ Crash
         \/ \E d \in Device : UnprepareDevice(d)
<1> USE DEF memoryVars, diskVars
<1>1. ASSUME NEW c \in Claim, Kubelet(c) \/ PodArrives(c) \/ PodDeleted(c) \/ PodForced(c)
      PROVE  UNCHANGED <<vfioConversions, allocatable, savedConversions>>
  BY <1>1 DEF Kubelet, PrepareCached, PrepareStart, UnprepareUnknown, UnprepareStart,
     PodArrives, PodDeleted, PodForced
<1>2. ASSUME NEW d \in Device, ReleaseVfio(d) \/ Configure(d)
      PROVE  UNCHANGED <<vfioConversions, allocatable, savedConversions>>
  BY <1>2 DEF ReleaseVfio, Configure
<1>3. CASE \/ SaveIntent \/ ConfigureDone \/ CreateClaimSpecFile \/ CommitPrepare
           \/ ReplyPrepared \/ PersistAfterFailure
  BY <1>3 DEF SaveIntent, ConfigureDone, CreateClaimSpecFile, CommitPrepare,
     ReplyPrepared, PersistAfterFailure, SaveConversions
<1>4. CASE \/ UnstrandWrite \/ UnprepareDevicesDone \/ PartialWrite
           \/ DeleteClaimSpecFile \/ CommitUnprepare
  BY <1>4 DEF UnstrandWrite, UnprepareDevicesDone, PartialWrite, SaveConversions,
     DeleteClaimSpecFile, CommitUnprepare
<1> QED
  BY <1>1, <1>2, <1>3, <1>4 DEF VfioNext, Running

\* What a Prepare converts is on record for no claim, and then for its own.
LEMMA ConvertOwners ==
  ASSUME IInv, MatchInv, Convert
  PROVE  OneOwner(vfioConversions)' /\ OneOwner(savedConversions)' /\ EntriesFollowRecords'
<1> DEFINE new == {d \in vfioOf[rpcClaim] : allocatable[d] = "gpu"}
<1>1. OneOwner(vfioConversions) /\ OneOwner(savedConversions) /\ EntriesFollowRecords
  BY DEF MatchInv
<1>2. UNCHANGED savedConversions /\ rpcClaim \in Claim
  BY DEF Convert, diskVars, IInv, CallHasClaim
<1>3. CASE stage' = "persist"
  <2>1. UNCHANGED <<allocatable, vfioConversions>>
    BY <1>3, ConvertFacts DEF IInv
  <2> QED
    BY <1>1, <1>2, <2>1 DEF OneOwner, EntriesFollowRecords
<1>4. CASE stage' # "persist"
  <2>1. /\ vfioConversions' = vfioConversions \cup ({rpcClaim} \X new)
        /\ \A d \in Device : allocatable'[d] = IF d \in new THEN "vfio" ELSE allocatable[d]
    BY <1>4, ConvertFacts DEF IInv
  <2>2. \A d \in new : /\ d \in Gpu /\ d \in vfioOf[rpcClaim]
                       /\ \A c \in Claim : <<c, d>> \notin vfioConversions
    BY <1>1, <1>2, VfioAssumption DEF EntriesFollowRecords
  <2>3. \A c \in Claim, d \in Device :
            <<c, d>> \in vfioConversions' <=>
                <<c, d>> \in vfioConversions \/ (c = rpcClaim /\ d \in new)
    BY <2>1
  <2>4. OneOwner(vfioConversions)'
    <3> HIDE DEF new
    <3> QED
      BY <1>1, <1>2, <2>2, <2>3 DEF OneOwner
  <2>5. EntriesFollowRecords'
    <3> HIDE DEF new
    <3> QED
      BY <1>1, <1>2, <2>1, <2>2, <2>3 DEF EntriesFollowRecords, Device
  <2> QED
    BY <1>1, <1>2, <2>4, <2>5 DEF OneOwner
<1> QED
  BY <1>3, <1>4

\* Dropping the records of one claim for some devices, and giving exactly those
\* their entries back, leaves no record without its entry.
LEMMA RestoreOwners ==
  ASSUME MatchInv, NEW c \in Claim, NEW S \in SUBSET Device, UNCHANGED savedConversions,
         \A d \in Device : allocatable'[d] = IF <<c, d>> \in vfioConversions /\ d \in S
                                             THEN "gpu" ELSE allocatable[d],
         \A e \in Claim, d \in Device :
             <<e, d>> \in vfioConversions' <=>
                 <<e, d>> \in vfioConversions /\ ~(e = c /\ d \in S)
  PROVE  OneOwner(vfioConversions)' /\ OneOwner(savedConversions)' /\ EntriesFollowRecords'
<1>1. OneOwner(vfioConversions) /\ OneOwner(savedConversions) /\ EntriesFollowRecords
  BY DEF MatchInv
<1>2. OneOwner(vfioConversions)' /\ OneOwner(savedConversions)'
  BY <1>1 DEF OneOwner
<1>3. ASSUME NEW d \in Gpu
      PROVE  allocatable'[d] = IF \E e \in Claim : <<e, d>> \in vfioConversions'
                               THEN "vfio" ELSE "gpu"
  <2>1. CASE <<c, d>> \in vfioConversions /\ d \in S
    <3>1. \A e \in Claim : <<e, d>> \in vfioConversions => e = c
      BY <1>1, <2>1 DEF OneOwner, Device
    <3> QED
      BY <2>1, <3>1 DEF Device
  <2>2. CASE ~(<<c, d>> \in vfioConversions /\ d \in S)
    BY <1>1, <2>2 DEF EntriesFollowRecords, Device
  <2> QED
    BY <2>1, <2>2
<1>4. ASSUME NEW d \in Device \ Gpu PROVE allocatable'[d] # "gpu"
  BY <1>1 DEF OneOwner, EntriesFollowRecords
<1> QED
  BY <1>2, <1>3, <1>4 DEF EntriesFollowRecords

\* After a restart a record in memory is one from before it: what is missing on
\* disk has not left amdgpu.
LEMMA RecoveredBefore ==
  ASSUME IInv, MatchInv, NEW c \in Claim, NEW d \in Device,
         <<c, d>> \in savedConversions, boundDriver[d] # "amdgpu"
  PROVE  <<c, d>> \in vfioConversions
<1>1. d \in Gpu
  BY DEF MatchInv, OneOwner
<1>2. PICK e \in Claim : <<e, d>> \in vfioConversions
  BY <1>1 DEF IInv, ConversionsOnRecord
<1>3. <<e, d>> \in savedConversions
  <2> SUFFICES ASSUME <<e, d>> \in vfioConversions \ savedConversions PROVE FALSE
    BY <1>2
  <2>1. /\ stage \in {"intent", "rollback"} /\ e = rpcClaim
        /\ stage = "rollback" => d \notin work \cup failed
    BY DEF IInv, RecordsWritten
  <2>2. d \in ConvertedFor(rpcClaim) \cap Gpu
    BY <1>1, <1>2, <2>1 DEF ConvertedFor
  <2> QED
    BY <2>1, <2>2 DEF IInv, RecordsAtHome, ReleaseStages
<1>4. e = c
  BY <1>3 DEF MatchInv, OneOwner
<1> QED
  BY <1>2, <1>4

LEMMA CrashOwners ==
  ASSUME IInv, MatchInv, Crash
  PROVE  OneOwner(vfioConversions)' /\ OneOwner(savedConversions)' /\ EntriesFollowRecords'
<1> USE DEF IInv
<1> PICK manager \in BOOLEAN : Restart(manager)
  BY DEF Crash
<1>1. /\ \A c \in Claim, d \in Device :
             <<c, d>> \in vfioConversions' <=>
                 <<c, d>> \in savedConversions /\ boundDriver[d] # "amdgpu"
      /\ savedConversions' = vfioConversions' \/ UNCHANGED savedConversions
  BY RestartFacts DEF Restart
<1>2. OneOwner(vfioConversions)' /\ OneOwner(savedConversions)'
  BY <1>1 DEF MatchInv, OneOwner
<1>3. ASSUME NEW d \in Gpu
      PROVE  allocatable'[d] = IF \E c \in Claim : <<c, d>> \in vfioConversions'
                               THEN "vfio" ELSE "gpu"
  <2> d \in Device
    BY DEF Device
  <2>1. CASE \E c \in Claim : <<c, d>> \in vfioConversions'
    BY <2>1, RestartFacts
  <2>2. CASE ~ \E c \in Claim : <<c, d>> \in vfioConversions'
    <3>1. boundDriver[d] = "amdgpu"
      BY <1>1, <2>2 DEF ConversionsOnRecord
    <3>2. ~ \E r \in {q \in savedConversions : boundDriver[q[2]] # "amdgpu"} : r[2] = d
      BY <3>1
    <3> QED
      BY <2>2, <3>1, <3>2 DEF Restart, Discovered
  <2> QED
    BY <2>1, <2>2
<1>4. ASSUME NEW d \in Device \ Gpu PROVE allocatable'[d] # "gpu"
  BY DEF Restart, Discovered
<1> QED
  BY <1>2, <1>3, <1>4 DEF EntriesFollowRecords

LEMMA OwnersStep ==
  ASSUME IInv, MatchInv, VfioNext
  PROVE  OneOwner(vfioConversions)' /\ OneOwner(savedConversions)' /\ EntriesFollowRecords'
<1>1. CASE /\ UNCHANGED <<vfioConversions, allocatable>>
           /\ savedConversions' \in {savedConversions, vfioConversions}
  BY <1>1 DEF MatchInv, OneOwner, EntriesFollowRecords
<1>2. CASE ReleaseVfioDone
  <2> DEFINE S == Device \ failed
  <2>1. /\ rpcClaim \in Claim /\ UNCHANGED savedConversions
        /\ \A d \in Device :
               allocatable'[d] = IF <<rpcClaim, d>> \in vfioConversions /\ d \in S
                                 THEN "gpu" ELSE allocatable[d]
        /\ \A e \in Claim, d \in Device :
               <<e, d>> \in vfioConversions' <=>
                   <<e, d>> \in vfioConversions /\ ~(e = rpcClaim /\ d \in S)
    BY <1>2, ReleaseVfioDoneFacts DEF IInv, diskVars
  <2> HIDE DEF S
  <2>2. S \in SUBSET Device
    BY DEF S
  <2> QED
    BY <2>1, <2>2, RestoreOwners
<1>3. ASSUME NEW d \in Device, UnprepareDevice(d)
      PROVE  OneOwner(vfioConversions)' /\ OneOwner(savedConversions)' /\ EntriesFollowRecords'
  <2>1. CASE UNCHANGED <<allocatable, vfioConversions>>
    BY <1>3, <2>1, UnprepareDeviceFacts
       DEF IInv, diskVars, MatchInv, OneOwner, EntriesFollowRecords
  <2>2. CASE ~UNCHANGED <<allocatable, vfioConversions>>
    <3> DEFINE S == {d}
    <3>1. /\ rpcClaim \in Claim /\ UNCHANGED savedConversions
          /\ \A e \in Device :
                 allocatable'[e] = IF <<rpcClaim, e>> \in vfioConversions /\ e \in S
                                   THEN "gpu" ELSE allocatable[e]
          /\ \A c \in Claim, e \in Device :
                 <<c, e>> \in vfioConversions' <=>
                     <<c, e>> \in vfioConversions /\ ~(c = rpcClaim /\ e \in S)
      BY <1>3, <2>2, UnprepareDeviceFacts DEF IInv, diskVars
    <3> HIDE DEF S
    <3>2. S \in SUBSET Device
      BY DEF S
    <3> QED
      BY <3>1, <3>2, RestoreOwners
  <2> QED
    BY <2>1, <2>2
<1> QED
  BY <1>1, <1>2, <1>3, RecordSteps, ConvertOwners, CrashOwners

-----------------------------------------------------------------------------
(* What is left for an Unprepare to return. *)

LEMMA PreparedWholeStep ==
  ASSUME IInv, MatchInv, VfioNext
  PROVE  PreparedWhole'
<1> USE DEF memoryVars, diskVars
<1>1. CASE UNCHANGED preparedDevices
  BY <1>1 DEF MatchInv, PreparedWhole
<1>2. CASE CommitPrepare
  <2>1. rpcClaim \in Claim /\ preparedDevices \in [Claim -> SUBSET Device]
    BY <1>2 DEF IInv, VfioTypeOK, CallHasClaim, CommitPrepare
  <2>2. /\ vfioOf[rpcClaim] \subseteq DevicesPrepared(rpcClaim)
        /\ DevicesPrepared(rpcClaim) \subseteq devicesOf[rpcClaim]
    BY <2>1, VfioAssumption DEF DevicesPrepared
  <2> QED
    BY <1>2, <2>1, <2>2 DEF CommitPrepare, MatchInv, PreparedWhole
<1>3. CASE CommitUnprepare
  BY <1>3 DEF CommitUnprepare, IInv, VfioTypeOK, CallHasClaim, MatchInv, PreparedWhole
<1>4. ASSUME NEW c \in Claim, Kubelet(c) \/ PodArrives(c) \/ PodDeleted(c) \/ PodForced(c)
      PROVE  UNCHANGED preparedDevices
  BY <1>4 DEF Kubelet, PrepareCached, PrepareStart, UnprepareUnknown, UnprepareStart,
     PodArrives, PodDeleted, PodForced
<1>5. ASSUME NEW d \in Device, ReleaseVfio(d) \/ Configure(d) \/ UnprepareDevice(d)
      PROVE  UNCHANGED preparedDevices
  BY <1>5 DEF ReleaseVfio, Configure, UnprepareDevice
<1>6. CASE \/ ReleaseVfioDone \/ Convert \/ SaveIntent \/ ConfigureDone
           \/ CreateClaimSpecFile \/ ReplyPrepared \/ PersistAfterFailure
  BY <1>1, <1>6 DEF ReleaseVfioDone, Convert, SaveIntent, ConfigureDone,
     CreateClaimSpecFile, ReplyPrepared, PersistAfterFailure
<1>7. CASE \/ UnstrandWrite \/ UnprepareDevicesDone \/ PartialWrite
           \/ DeleteClaimSpecFile \/ Crash
  BY <1>1, <1>7 DEF UnstrandWrite, UnprepareDevicesDone, PartialWrite,
     DeleteClaimSpecFile, Crash
<1> QED
  BY <1>1, <1>2, <1>3, <1>4, <1>5, <1>6, <1>7 DEF VfioNext, Running

\* A step makes records for the claim of the running Prepare at most.
LEMMA RecordsFromCalls ==
  ASSUME IInv, MatchInv, VfioNext, NEW c \in Claim, NEW d \in Device,
         <<c, d>> \in vfioConversions'
  PROVE  <<c, d>> \in vfioConversions \/ (stage = "convert" /\ c = rpcClaim)
<1>1. CASE UNCHANGED vfioConversions
  BY <1>1
<1>2. CASE Convert
  BY <1>2, ConvertFacts DEF IInv
<1>3. CASE ReleaseVfioDone
  BY <1>3, ReleaseVfioDoneFacts DEF IInv
<1>4. ASSUME NEW e \in Device, UnprepareDevice(e)
      PROVE  <<c, d>> \in vfioConversions
  BY <1>4, UnprepareDeviceFacts DEF IInv
<1>5. CASE Crash
  BY <1>5, RestartFacts, RecoveredBefore DEF IInv
<1> QED
  BY <1>1, <1>2, <1>3, <1>4, <1>5, RecordSteps

\* A pod goes only when nothing is on record for its claim.
LEMMA PodsGo ==
  ASSUME IInv, MatchInv, VfioNext, NEW c \in Claim, pod[c] # "none", pod'[c] = "none"
  PROVE  ConvertedFor(c) = {} /\ UNCHANGED vfioConversions
<1> USE DEF memoryVars
<1>1. pod \in [Claim -> PodStates] /\ rpcClaim \in Claim \cup {NoClaim}
  BY DEF IInv, VfioTypeOK
<1>2. ASSUME NEW e \in Claim, Kubelet(e)
      PROVE  ConvertedFor(c) = {} /\ UNCHANGED vfioConversions
  BY <1>1, <1>2 DEF Kubelet, PrepareCached, PrepareStart, UnprepareUnknown, UnprepareStart, Gone
<1>3. ASSUME NEW e \in Claim, PodArrives(e) \/ PodDeleted(e) \/ PodForced(e)
      PROVE  FALSE
  BY <1>1, <1>3 DEF PodArrives, PodDeleted, PodForced
<1>4. ASSUME NEW d \in Device, ReleaseVfio(d) \/ Configure(d) \/ UnprepareDevice(d)
      PROVE  FALSE
  BY <1>4 DEF ReleaseVfio, Configure, UnprepareDevice
<1>5. CASE UnstrandWrite
  BY <1>1, <1>5 DEF UnstrandWrite, Gone, MatchInv, StillToReturn
<1>6. CASE CommitUnprepare
  BY <1>1, <1>6 DEF CommitUnprepare, Gone, MatchInv, StillToReturn
<1>7. ~(\/ ReleaseVfioDone \/ Convert \/ SaveIntent \/ ConfigureDone
        \/ CreateClaimSpecFile \/ CommitPrepare \/ ReplyPrepared \/ PersistAfterFailure
        \/ UnprepareDevicesDone \/ PartialWrite \/ DeleteClaimSpecFile \/ Crash)
  BY <1>1 DEF ReleaseVfioDone, Convert, SaveIntent, ConfigureDone, CreateClaimSpecFile,
     CommitPrepare, ReplyPrepared, PersistAfterFailure, UnprepareDevicesDone,
     PartialWrite, DeleteClaimSpecFile, Crash
<1> QED
  BY <1>2, <1>3, <1>4, <1>5, <1>6, <1>7 DEF VfioNext, Running

\* A running call goes on for its claim within Prepare, or within Unprepare,
\* and leaves the pod alone until it ends.
LEMMA CallSteps ==
  ASSUME IInv, Running
  PROVE  \/ stage' = "idle"
         \/ /\ UNCHANGED <<rpcClaim, pod>>
            /\ \/ stage \in PrepareStages /\ stage' \in PrepareStages
               \/ stage \in UnprepareStages /\ stage' \in UnprepareStages
<1> USE DEF PrepareStages, UnprepareStages, Stages, GoTo, Begin, Return
<1>1. ASSUME NEW d \in Device, ReleaseVfio(d) \/ Configure(d) \/ UnprepareDevice(d)
      PROVE  /\ UNCHANGED <<rpcClaim, pod>>
             /\ \/ stage \in PrepareStages /\ stage' \in PrepareStages
                \/ stage \in UnprepareStages /\ stage' \in UnprepareStages
  BY <1>1 DEF ReleaseVfio, Configure, UnprepareDevice, ReleaseStages
<1>2. CASE ReleaseVfioDone
  <2>1. CASE stage = "unstrand"
    BY <1>2, <2>1 DEF ReleaseVfioDone
  <2>2. CASE stage \in {"stranded", "rollback"}
    BY <1>2, <2>2 DEF ReleaseVfioDone
  <2> QED
    BY <1>2, <2>1, <2>2 DEF ReleaseVfioDone, ReleaseStages
<1>3. CASE Convert \/ SaveIntent \/ ConfigureDone \/ CreateClaimSpecFile
  BY <1>3 DEF Convert, SaveIntent, ConfigureDone, CreateClaimSpecFile
<1>4. CASE CommitPrepare \/ ReplyPrepared \/ PersistAfterFailure
  BY <1>4 DEF CommitPrepare, ReplyPrepared, PersistAfterFailure
<1>5. CASE \/ UnstrandWrite \/ UnprepareDevicesDone \/ PartialWrite
           \/ DeleteClaimSpecFile \/ CommitUnprepare
  BY <1>5 DEF UnstrandWrite, UnprepareDevicesDone, PartialWrite,
     DeleteClaimSpecFile, CommitUnprepare
<1> QED
  BY <1>1, <1>2, <1>3, <1>4, <1>5 DEF Running

LEMMA PodsPresentStep ==
  ASSUME IInv, MatchInv, VfioNext
  PROVE  PodsPresent'
<1> USE DEF PrepareStages, UnprepareStages
<1>1. /\ pod \in [Claim -> PodStates] /\ rpcClaim \in Claim \cup {NoClaim}
      /\ stage # "idle" => rpcClaim \in Claim
      /\ stage \in PrepareStages => pod[rpcClaim] \in {"pending", "running"}
      /\ stage \in UnprepareStages => pod[rpcClaim] \in {"terminating", "forced"}
  BY DEF IInv, VfioTypeOK, CallHasClaim, MatchInv, PodsPresent
<1>2. ASSUME NEW c \in Claim, NEW d \in Device, <<c, d>> \in vfioConversions'
      PROVE  pod'[c] # "none"
  <2>1. pod[c] # "none"
    BY <1>1, <1>2, RecordsFromCalls DEF MatchInv, PodsPresent
  <2> QED
    BY <1>2, <2>1, PodsGo DEF ConvertedFor
<1> DEFINE Calls == /\ stage \in PrepareStages => pod[rpcClaim] \in {"pending", "running"}
                    /\ stage \in UnprepareStages => pod[rpcClaim] \in {"terminating", "forced"}
<1>3. ASSUME NEW c \in Claim, Kubelet(c) PROVE Calls'
  <2>1. CASE PrepareCached(c)
    BY <2>1 DEF PrepareCached, rpcVars
  <2>2. CASE PrepareStart(c)
    BY <2>2 DEF PrepareStart, Begin, Stages
  <2>3. CASE UnprepareUnknown(c) \/ UnprepareStart(c)
    BY <2>3 DEF UnprepareUnknown, UnprepareStart, Begin, rpcVars
  <2> QED
    BY <1>3, <2>1, <2>2, <2>3 DEF Kubelet
<1>4. ASSUME NEW c \in Claim, PodArrives(c) \/ PodDeleted(c) \/ PodForced(c) PROVE Calls'
  BY <1>1, <1>4 DEF PodArrives, PodDeleted, PodForced, rpcVars, Stages
<1>5. ASSUME Running PROVE Calls'
  BY <1>1, <1>5, CallSteps DEF Stages
<1>6. ASSUME Crash PROVE Calls'
  BY <1>6 DEF Crash, Return, Begin
<1> QED
  BY <1>2, <1>3, <1>4, <1>5, <1>6 DEF VfioNext, PodsPresent

\* An Unprepare that is about to give up its records has returned every device.
LEMMA StillToReturnStep ==
  ASSUME IInv, MatchInv, VfioNext
  PROVE  StillToReturn'
<1> DEFINE Late == {"return", "unstrandwrite", "unspec", "unwrite"}
<1> USE DEF memoryVars, GoTo, Return, Begin
<1>1. CASE stage' \notin Late
  BY <1>1 DEF StillToReturn
<1>2. CASE UNCHANGED <<vfioConversions, rpcVars>>
  BY <1>2 DEF MatchInv, StillToReturn, ConvertedFor, rpcVars
<1>3. ASSUME NEW c \in Claim, UnprepareStart(c) PROVE StillToReturn'
  <2>1. /\ stage' = "return" /\ rpcClaim' = c /\ work' = VfioAmong(preparedDevices[c])
        /\ UNCHANGED vfioConversions /\ preparedDevices[c] # {}
    BY <1>3 DEF UnprepareStart
  <2>2. ASSUME NEW d \in Device, <<c, d>> \in vfioConversions
        PROVE  d \in VfioAmong(preparedDevices[c])
    <3>1. d \in Gpu /\ d \in vfioOf[c]
      BY <2>2 DEF MatchInv, OneOwner
    <3>2. d \in preparedDevices[c]
      BY <2>1, <3>1 DEF MatchInv, PreparedWhole
    <3>3. allocatable[d] = "vfio"
      BY <2>2, <3>1 DEF MatchInv, EntriesFollowRecords
    <3> QED
      BY <3>2, <3>3 DEF VfioAmong
  <2> QED
    BY <2>1, <2>2 DEF StillToReturn, ConvertedFor
<1>4. ASSUME NEW d \in Device, UnprepareDevice(d) PROVE StillToReturn'
  <2>1. /\ stage = "return" /\ UNCHANGED <<stage, rpcClaim>> /\ rpcClaim \in Claim
        /\ work' = work \ {d}
    BY <1>4 DEF UnprepareDevice, IInv, CallHasClaim
  <2>2. ConvertedFor(rpcClaim) \subseteq work \cup failed
    BY <2>1 DEF MatchInv, StillToReturn
  <2>3. CASE /\ RestoreFromVfio(rpcClaim, {d}) /\ UNCHANGED failed
    <3>1. \A e \in Device : <<rpcClaim, e>> \in vfioConversions' <=>
              <<rpcClaim, e>> \in vfioConversions /\ e # d
      BY <2>1, <2>3, RestoreFacts DEF IInv
    <3> QED
      BY <2>1, <2>2, <2>3, <3>1 DEF StillToReturn, ConvertedFor
  <2>4. CASE failed' = failed \cup {d} /\ UNCHANGED vfioConversions
    BY <2>1, <2>2, <2>4 DEF StillToReturn, ConvertedFor
  <2> QED
    BY <1>4, <2>3, <2>4 DEF UnprepareDevice
<1>5. CASE ReleaseVfioDone
  BY <1>5, ReleaseVfioDoneFacts DEF IInv, StillToReturn, ConvertedFor
<1>6. CASE UnprepareDevicesDone
  BY <1>6 DEF UnprepareDevicesDone, MatchInv, StillToReturn, ConvertedFor
<1>7. CASE DeleteClaimSpecFile
  BY <1>7 DEF DeleteClaimSpecFile, MatchInv, StillToReturn, ConvertedFor
<1>8. ASSUME NEW c \in Claim, \/ PrepareCached(c) \/ PrepareStart(c) \/ UnprepareUnknown(c)
                              \/ PodArrives(c) \/ PodDeleted(c) \/ PodForced(c)
      PROVE  stage' \notin Late \/ UNCHANGED <<vfioConversions, rpcVars>>
  BY <1>8 DEF PrepareCached, PrepareStart, UnprepareUnknown, PodArrives, PodDeleted,
     PodForced, rpcVars
<1>9. ASSUME NEW d \in Device, ReleaseVfio(d) \/ Configure(d) PROVE stage' \notin Late
  BY <1>9 DEF ReleaseVfio, Configure, ReleaseStages
<1>10. CASE \/ Convert \/ SaveIntent \/ ConfigureDone \/ CreateClaimSpecFile
            \/ CommitPrepare \/ ReplyPrepared \/ PersistAfterFailure
  BY <1>1, <1>10 DEF Convert, SaveIntent, ConfigureDone, CreateClaimSpecFile,
     CommitPrepare, ReplyPrepared, PersistAfterFailure
<1>11. CASE UnstrandWrite \/ PartialWrite \/ CommitUnprepare \/ Crash
  BY <1>1, <1>11 DEF UnstrandWrite, PartialWrite, CommitUnprepare, Crash
<1> QED
  BY <1>1, <1>2, <1>3, <1>4, <1>5, <1>6, <1>7, <1>8, <1>9, <1>10, <1>11
     DEF VfioNext, Running, Kubelet

-----------------------------------------------------------------------------

LEMMA MatchInit == VfioInit => MatchInv
<1> SUFFICES ASSUME VfioInit PROVE MatchInv
  OBVIOUS
<1>1. PreparedWhole /\ PodsPresent /\ StillToReturn
  BY DEF VfioInit, PreparedWhole, PodsPresent, StillToReturn, PrepareStages, UnprepareStages
<1> QED
  BY <1>1 DEF VfioInit, MatchInv, OneOwner, EntriesFollowRecords, Device

LEMMA MatchStutter == MatchInv /\ UNCHANGED vfioVars => MatchInv'
BY DEF MatchInv, OneOwner, EntriesFollowRecords, PreparedWhole, PodsPresent, StillToReturn,
   ConvertedFor, vfioVars, memoryVars, diskVars, rpcVars

LEMMA MatchHolds == VfioSpec => [](IInv /\ MatchInv)
<1>1. IInv /\ MatchInv /\ [VfioNext]_vfioVars => MatchInv'
  <2> SUFFICES ASSUME IInv, MatchInv, VfioNext PROVE MatchInv'
    BY MatchStutter
  <2> QED
    BY OwnersStep, PreparedWholeStep, PodsPresentStep, StillToReturnStep DEF MatchInv
<1> QED
  BY <1>1, MatchInit, VfioInvariant, PTL DEF VfioSpec

\* Between two calls, and in fact at any moment, a record is for a claim whose
\* pod is still there and the entries of the GPUs follow the records: no retry,
\* rollback, restart or late Unprepare orphans a record, and none leaves a GPU
\* allocatable as what it is not.
THEOREM RecordsMatch == VfioSpec => []RecordsMatchEntries
<1>1. IInv /\ MatchInv => RecordsMatchEntries
  <2> SUFFICES ASSUME IInv, MatchInv, NEW r \in vfioConversions PROVE pod[r[1]] # "none"
    BY DEF MatchInv, EntriesFollowRecords, RecordsMatchEntries
  <2>1. r[1] \in Claim /\ r[2] \in Device /\ r = <<r[1], r[2]>>
    BY DEF IInv, VfioTypeOK, Record
  <2> QED
    BY <2>1 DEF MatchInv, PodsPresent
<1> QED
  BY <1>1, MatchHolds, PTL

\* Once every pod is gone, whatever failed on the way, every GPU is back on
\* amdgpu and allocatable as a GPU.
THEOREM AllGpusReturned == VfioSpec => []GpusReturned
<1>1. IInv /\ MatchInv => GpusReturned
  <2> SUFFICES ASSUME IInv, MatchInv, \A c \in Claim : pod[c] = "none", NEW d \in Gpu
               PROVE  boundDriver[d] = "amdgpu" /\ allocatable[d] = "gpu"
    BY DEF GpusReturned
  <2>1. ~ \E c \in Claim : <<c, d>> \in vfioConversions
    BY DEF MatchInv, PodsPresent, Device
  <2> QED
    BY <2>1 DEF IInv, ConversionsOnRecord, MatchInv, EntriesFollowRecords
<1> QED
  BY <1>1, MatchHolds, PTL

-----------------------------------------------------------------------------
(* Devices of living pods. *)

\* Pods come one at a time, to devices nobody else has.
LEMMA PodSteps ==
  ASSUME IInv, MatchInv, Apart, VfioNext, "force" \notin Faults
  PROVE  /\ \A c \in Claim : pod'[c] # "forced"
         /\ \A c, e \in Claim : c # e /\ pod'[c] # "none" /\ pod'[e] # "none" =>
                devicesOf[c] \cap devicesOf[e] = {}
<1>1. /\ pod \in [Claim -> PodStates] /\ rpcClaim \in Claim \cup {NoClaim}
      /\ \A c \in Claim : pod[c] # "forced"
      /\ \A c, e \in Claim : c # e /\ pod[c] # "none" /\ pod[e] # "none" =>
                devicesOf[c] \cap devicesOf[e] = {}
  BY DEF IInv, VfioTypeOK, Apart
<1>2. ASSUME NEW c \in Claim, PodArrives(c)
      PROVE  /\ \A e \in Claim : pod'[e] = IF e = c THEN "pending" ELSE pod[e]
             /\ \A e \in Claim : pod[e] # "none" => devicesOf[c] \cap devicesOf[e] = {}
  BY <1>1, <1>2 DEF PodArrives, Allocated
<1>3. ASSUME ~ \E c \in Claim : PodArrives(c)
      PROVE  \A e \in Claim : /\ pod'[e] # "none" => pod[e] # "none"
                              /\ pod'[e] # "forced"
  <2>1. ASSUME NEW c \in Claim, Kubelet(c) \/ PodDeleted(c) \/ PodForced(c)
        PROVE  \A e \in Claim : /\ pod'[e] # "none" => pod[e] # "none"
                                /\ pod'[e] # "forced"
    BY <1>1, <2>1 DEF Kubelet, PrepareCached, PrepareStart, UnprepareUnknown,
       UnprepareStart, PodDeleted, PodForced, Gone, May
  <2>2. CASE UNCHANGED pod
    BY <1>1, <2>2
  <2>3. CASE ReplyPrepared \/ UnstrandWrite \/ CommitUnprepare
    <3>1. stage # "idle"
      BY <2>3 DEF ReplyPrepared, UnstrandWrite, CommitUnprepare
    <3>2. rpcClaim \in Claim
      BY <3>1 DEF IInv, CallHasClaim
    <3>3. CASE ReplyPrepared
      <4>1. pod[rpcClaim] # "none"
        BY <3>3 DEF ReplyPrepared, MatchInv, PodsPresent, PrepareStages
      <4> QED
        BY <1>1, <3>2, <3>3, <4>1 DEF ReplyPrepared
    <3>4. CASE UnstrandWrite \/ CommitUnprepare
      BY <1>1, <3>2, <3>4 DEF UnstrandWrite, CommitUnprepare, Gone
    <3> QED
      BY <2>3, <3>3, <3>4
  <2>4. ASSUME NEW d \in Device, ReleaseVfio(d) \/ Configure(d) \/ UnprepareDevice(d)
        PROVE  UNCHANGED pod
    BY <2>4 DEF ReleaseVfio, Configure, UnprepareDevice
  <2>5. CASE \/ ReleaseVfioDone \/ Convert \/ SaveIntent \/ ConfigureDone
             \/ CreateClaimSpecFile \/ CommitPrepare \/ PersistAfterFailure
             \/ UnprepareDevicesDone \/ PartialWrite \/ DeleteClaimSpecFile \/ Crash
    BY <2>2, <2>5 DEF ReleaseVfioDone, Convert, SaveIntent, ConfigureDone,
       CreateClaimSpecFile, CommitPrepare, PersistAfterFailure, UnprepareDevicesDone,
       PartialWrite, DeleteClaimSpecFile, Crash
  <2> QED
    BY <1>3, <2>1, <2>2, <2>3, <2>4, <2>5 DEF VfioNext, Running
<1>4. CASE \E c \in Claim : PodArrives(c)
  <2> PICK c \in Claim : PodArrives(c)
    BY <1>4
  <2> QED
    BY <1>1, <1>2
<1>5. CASE ~ \E c \in Claim : PodArrives(c)
  BY <1>1, <1>3, <1>5
<1> QED
  BY <1>4, <1>5

\* A call visits devices of its claim only.
LEMMA WorkStep ==
  ASSUME IInv, MatchInv, Apart, VfioNext
  PROVE  stage' # "idle" => work' \subseteq devicesOf'[rpcClaim']
<1> USE DEF GoTo, Return, Begin
<1> SUFFICES ASSUME stage' # "idle" PROVE work' \subseteq devicesOf[rpcClaim']
  OBVIOUS
<1>1. /\ stage # "idle" => work \subseteq devicesOf[rpcClaim] /\ rpcClaim \in Claim
      /\ \A c \in Claim : /\ VfioAmong(ConvertedFor(c)) \subseteq devicesOf[c]
                          /\ VfioAmong(preparedDevices[c]) \subseteq devicesOf[c]
                          /\ VfioAmong(DevicesPrepared(c)) \subseteq devicesOf[c]
                          /\ vfioOf[c] \subseteq devicesOf[c]
  <2>1. stage # "idle" => work \subseteq devicesOf[rpcClaim] /\ rpcClaim \in Claim
    BY DEF Apart, IInv, CallHasClaim
  <2>2. ASSUME NEW c \in Claim
        PROVE  /\ ConvertedFor(c) \subseteq devicesOf[c]
               /\ preparedDevices[c] \subseteq devicesOf[c]
               /\ DevicesPrepared(c) \subseteq devicesOf[c]
    BY VfioAssumption DEF ConvertedFor, DevicesPrepared, MatchInv, OneOwner, PreparedWhole
  <2> QED
    BY <2>1, <2>2, VfioAssumption DEF VfioAmong
<1>2. ASSUME NEW c \in Claim, Kubelet(c) \/ PodArrives(c) \/ PodDeleted(c) \/ PodForced(c)
      PROVE  work' \subseteq devicesOf[rpcClaim']
  BY <1>1, <1>2 DEF Kubelet, PrepareCached, PrepareStart, UnprepareUnknown, UnprepareStart,
     PodArrives, PodDeleted, PodForced, rpcVars
<1>3. ASSUME NEW d \in Device, ReleaseVfio(d) \/ Configure(d) \/ UnprepareDevice(d)
      PROVE  work' \subseteq devicesOf[rpcClaim']
  <2>1. CASE ReleaseVfio(d) \/ UnprepareDevice(d)
    BY <1>1, <2>1 DEF ReleaseVfio, UnprepareDevice, ReleaseStages
  <2>2. CASE Configure(d)
    <3>1. /\ stage = "configure" /\ d \in work /\ rpcClaim' = rpcClaim
          /\ work' = work \ {d} \/ work' = VfioAmong((vfioOf[rpcClaim] \ work) \cup {d})
      BY <2>2, ConfigureFacts DEF IInv
    <3> QED
      BY <1>1, <3>1 DEF VfioAmong
  <2> QED
    BY <1>3, <2>1, <2>2
<1>4. CASE ReleaseVfioDone
  BY <1>1, <1>4 DEF ReleaseVfioDone, ReleaseStages
<1>5. CASE Convert
  BY <1>1, <1>5 DEF Convert
<1>6. CASE ConfigureDone
  <2>1. /\ stage = "configure" /\ rpcClaim' = rpcClaim
        /\ work' = {} \/ work' = VfioAmong(vfioOf[rpcClaim] \ work)
    BY <1>6 DEF ConfigureDone
  <2> QED
    BY <1>1, <2>1 DEF VfioAmong
<1>7. CASE \/ SaveIntent \/ CreateClaimSpecFile \/ CommitPrepare
           \/ ReplyPrepared \/ PersistAfterFailure
  BY <1>1, <1>7 DEF SaveIntent, CreateClaimSpecFile, CommitPrepare,
     ReplyPrepared, PersistAfterFailure
<1>8. CASE \/ UnstrandWrite \/ UnprepareDevicesDone \/ PartialWrite
           \/ DeleteClaimSpecFile \/ CommitUnprepare \/ Crash
  BY <1>1, <1>8 DEF UnstrandWrite, UnprepareDevicesDone, PartialWrite,
     DeleteClaimSpecFile, CommitUnprepare, Crash
<1> QED
  BY <1>2, <1>3, <1>4, <1>5, <1>6, <1>7, <1>8 DEF VfioNext, Running

\* A step rebinds at most one device, which is one the running call visits.
LEMMA BindingSteps ==
  ASSUME IInv, VfioNext, NEW e \in Device, boundDriver'[e] # boundDriver[e]
  PROVE  /\ stage \in {"configure", "return"} \cup ReleaseStages /\ e \in work
         /\ \/ /\ Configure(e)
               /\ boundDriver'[e] = "vfio-pci" \/ stage' = "rollback"
            \/ ReleaseVfio(e) \/ UnprepareDevice(e)
<1>1. \/ UNCHANGED boundDriver
      \/ \E d \in Device : ReleaseVfio(d) \/ Configure(d) \/ UnprepareDevice(d)
  <2>1. ASSUME NEW c \in Claim, Kubelet(c) \/ PodArrives(c) \/ PodDeleted(c) \/ PodForced(c)
        PROVE  UNCHANGED boundDriver
    BY <2>1 DEF Kubelet, PrepareCached, PrepareStart, UnprepareUnknown, UnprepareStart,
       PodArrives, PodDeleted, PodForced
  <2>2. CASE \/ ReleaseVfioDone \/ Convert \/ SaveIntent \/ ConfigureDone
             \/ CreateClaimSpecFile \/ CommitPrepare \/ ReplyPrepared \/ PersistAfterFailure
    BY <2>2 DEF ReleaseVfioDone, Convert, SaveIntent, ConfigureDone, CreateClaimSpecFile,
       CommitPrepare, ReplyPrepared, PersistAfterFailure
  <2>3. CASE \/ UnstrandWrite \/ UnprepareDevicesDone \/ PartialWrite
             \/ DeleteClaimSpecFile \/ CommitUnprepare \/ Crash
    BY <2>3 DEF UnstrandWrite, UnprepareDevicesDone, PartialWrite,
       DeleteClaimSpecFile, CommitUnprepare, Crash
  <2> QED
    BY <2>1, <2>2, <2>3 DEF VfioNext, Running
<1>2. PICK d \in Device : ReleaseVfio(d) \/ Configure(d) \/ UnprepareDevice(d)
  BY <1>1
<1>3. CASE ReleaseVfio(d)
  <2>1. d = e
    BY <1>3, ReleaseVfioFacts DEF IInv
  <2> QED
    BY <1>3, <2>1 DEF ReleaseVfio
<1>4. CASE UnprepareDevice(d)
  <2>1. d = e
    BY <1>4, UnprepareDeviceFacts DEF IInv
  <2> QED
    BY <1>4, <2>1 DEF UnprepareDevice
<1>5. CASE Configure(d)
  <2>1. d = e
    BY <1>5, ConfigureFacts DEF IInv
  <2>2. boundDriver'[e] = "vfio-pci" \/ stage' = "rollback"
    BY <1>5, <2>1 DEF Configure, IInv, VfioTypeOK, GoTo, Begin
  <2> QED
    BY <1>5, <2>1, <2>2 DEF Configure
<1> QED
  BY <1>2, <1>3, <1>4, <1>5

\* What a claim is prepared with changes with the two commits.
LEMMA PreparedSteps ==
  ASSUME IInv, VfioNext
  PROVE  \/ UNCHANGED preparedDevices
         \/ /\ stage = "commit" /\ stage' = "reply" /\ UNCHANGED <<rpcClaim, pod, boundDriver>>
            /\ rpcClaim \in Claim
            /\ preparedDevices' =
                   [preparedDevices EXCEPT ![rpcClaim] = DevicesPrepared(rpcClaim)]
         \/ /\ stage = "unwrite" /\ stage' = "idle" /\ UNCHANGED boundDriver
            /\ rpcClaim \in Claim /\ pod' = [pod EXCEPT ![rpcClaim] = "none"]
            /\ preparedDevices' = [preparedDevices EXCEPT ![rpcClaim] = {}]
<1> USE DEF memoryVars, diskVars, GoTo, Return, Begin
<1>1. ASSUME NEW c \in Claim, Kubelet(c) \/ PodArrives(c) \/ PodDeleted(c) \/ PodForced(c)
      PROVE  UNCHANGED preparedDevices
  BY <1>1 DEF Kubelet, PrepareCached, PrepareStart, UnprepareUnknown, UnprepareStart,
     PodArrives, PodDeleted, PodForced
<1>2. ASSUME NEW d \in Device, ReleaseVfio(d) \/ Configure(d) \/ UnprepareDevice(d)
      PROVE  UNCHANGED preparedDevices
  BY <1>2 DEF ReleaseVfio, Configure, UnprepareDevice
<1>3. CASE \/ ReleaseVfioDone \/ Convert \/ SaveIntent \/ ConfigureDone
           \/ CreateClaimSpecFile \/ ReplyPrepared \/ PersistAfterFailure
  BY <1>3 DEF ReleaseVfioDone, Convert, SaveIntent, ConfigureDone, CreateClaimSpecFile,
     ReplyPrepared, PersistAfterFailure
<1>4. CASE \/ UnstrandWrite \/ UnprepareDevicesDone \/ PartialWrite
           \/ DeleteClaimSpecFile \/ Crash
  BY <1>4 DEF UnstrandWrite, UnprepareDevicesDone, PartialWrite, DeleteClaimSpecFile, Crash
<1>5. CASE CommitPrepare
  BY <1>5 DEF CommitPrepare, IInv, CallHasClaim
<1>6. CASE CommitUnprepare
  BY <1>6 DEF CommitUnprepare, Gone, IInv, CallHasClaim
<1> QED
  BY <1>1, <1>2, <1>3, <1>4, <1>5, <1>6 DEF VfioNext, Running

\* Prepare binds one device after the other until all are bound.
LEMMA BoundSoFarStep ==
  ASSUME IInv, MatchInv, BoundSoFar, VfioNext
  PROVE  BoundSoFar'
<1> DEFINE Quiet == (PrepareStages \ {"reply"}) \cup {"unstrand", "unstrandwrite"}
<1> USE DEF PrepareStages, GoTo, Return, Begin, memoryVars, diskVars
<1>1. CASE stage' \notin Quiet \cup {"reply"}
  BY <1>1 DEF BoundSoFar
<1>2. CASE UNCHANGED <<rpcVars, boundDriver, preparedDevices>>
  BY <1>2 DEF BoundSoFar, rpcVars
<1>3. ASSUME NEW c \in Claim, PrepareStart(c) \/ UnprepareUnknown(c) PROVE BoundSoFar'
  BY <1>3 DEF PrepareStart, UnprepareUnknown, BoundSoFar, rpcVars
<1>4. ASSUME NEW c \in Claim, \/ PrepareCached(c) \/ UnprepareStart(c)
                              \/ PodArrives(c) \/ PodDeleted(c) \/ PodForced(c)
      PROVE  \/ stage' \notin Quiet \cup {"reply"}
             \/ UNCHANGED <<rpcVars, boundDriver, preparedDevices>>
  BY <1>4 DEF PrepareCached, UnprepareStart, PodArrives, PodDeleted, PodForced, rpcVars
<1>5. ASSUME NEW d \in Device, ReleaseVfio(d) \/ UnprepareDevice(d) PROVE BoundSoFar'
  BY <1>5 DEF ReleaseVfio, UnprepareDevice, ReleaseStages, BoundSoFar
<1>6. ASSUME NEW d \in Device, Configure(d) PROVE BoundSoFar'
  <2>1. /\ stage = "configure" /\ stage' \in {"configure", "rollback"}
        /\ UNCHANGED <<rpcClaim, preparedDevices>> /\ rpcClaim \in Claim
        /\ stage' = "configure" => /\ work' = work \ {d}
                                   /\ boundDriver' = [boundDriver EXCEPT ![d] = "vfio-pci"]
    BY <1>6 DEF Configure, IInv, VfioTypeOK, CallHasClaim
  <2>2. boundDriver \in [Device -> Drivers] /\ vfioOf[rpcClaim] \subseteq Device
    BY <2>1, VfioAssumption DEF IInv, VfioTypeOK
  <2> QED
    BY <2>1, <2>2 DEF BoundSoFar
<1>7. CASE ReleaseVfioDone
  <2>1. /\ stage' \in {"unstrandwrite", "convert", "persist"} /\ stage \in ReleaseStages
        /\ UNCHANGED <<rpcClaim, preparedDevices>>
    BY <1>7, ReleaseVfioDoneFacts DEF IInv
  <2> QED
    BY <2>1 DEF BoundSoFar, ReleaseStages
<1>8. CASE Convert \/ SaveIntent \/ PersistAfterFailure
  BY <1>8 DEF Convert, SaveIntent, PersistAfterFailure, BoundSoFar
<1>9. CASE ConfigureDone \/ CreateClaimSpecFile
  BY <1>9 DEF ConfigureDone, CreateClaimSpecFile, BoundSoFar
<1>10. CASE CommitPrepare
  <2>1. rpcClaim \in Claim /\ preparedDevices \in [Claim -> SUBSET Device]
    BY <1>10 DEF CommitPrepare, IInv, CallHasClaim, VfioTypeOK
  <2>2. vfioOf[rpcClaim] \subseteq DevicesPrepared(rpcClaim)
    BY <2>1, VfioAssumption DEF DevicesPrepared
  <2> QED
    BY <1>10, <2>1, <2>2 DEF CommitPrepare, BoundSoFar
<1>11. CASE \/ ReplyPrepared \/ UnstrandWrite \/ UnprepareDevicesDone \/ PartialWrite
            \/ DeleteClaimSpecFile \/ CommitUnprepare \/ Crash
  BY <1>1, <1>11 DEF ReplyPrepared, UnstrandWrite, UnprepareDevicesDone, PartialWrite,
     DeleteClaimSpecFile, CommitUnprepare, Crash
<1> QED
  BY <1>1, <1>2, <1>3, <1>4, <1>5, <1>6, <1>7, <1>8, <1>9, <1>10, <1>11
     DEF VfioNext, Running, Kubelet


\* A pod comes to a claim that is not prepared, runs when its claim is, and goes
\* when it no longer is.
LEMMA PodMoves ==
  ASSUME IInv, MatchInv, BoundInv, VfioNext, NEW c \in Claim, pod'[c] # pod[c]
  PROVE  /\ pod'[c] \in {"pending", "running"} =>
                pod[c] \in {"pending", "running"} \/ preparedDevices'[c] = {}
         /\ pod'[c] = "running" /\ vfioOf[c] # {} => preparedDevices'[c] # {}
         /\ pod'[c] = "none" => preparedDevices'[c] = {}
<1> USE DEF memoryVars, diskVars, GoTo, Return, Begin, Gone
<1>1. /\ pod \in [Claim -> PodStates] /\ rpcClaim \in Claim \cup {NoClaim}
      /\ preparedDevices \in [Claim -> SUBSET Device]
      /\ stage = "reply" => pod[rpcClaim] \in {"pending", "running"}
      /\ stage = "reply" /\ vfioOf[rpcClaim] # {} => preparedDevices[rpcClaim] # {}
      /\ stage = "unstrandwrite" => preparedDevices[rpcClaim] = {}
      /\ preparedDevices[c] # {} => pod[c] # "none"
  BY DEF IInv, VfioTypeOK, MatchInv, PodsPresent, PrepareStages, BoundInv, BoundSoFar, LivingBound
<1>2. ASSUME NEW e \in Claim, Kubelet(e)
      PROVE  /\ pod'[c] = "running" => /\ pod[c] \in {"pending", "running"}
                                       /\ preparedDevices'[c] # {}
             /\ pod'[c] # "pending"
             /\ pod'[c] = "none" => preparedDevices'[c] = {}
  <2>1. CASE PrepareCached(e)
    BY <1>1, <2>1 DEF PrepareCached
  <2>2. CASE UnprepareUnknown(e)
    BY <1>1, <2>2 DEF UnprepareUnknown
  <2>3. CASE PrepareStart(e) \/ UnprepareStart(e)
    BY <2>3 DEF PrepareStart, UnprepareStart
  <2> QED
    BY <1>2, <2>1, <2>2, <2>3 DEF Kubelet
<1>3. ASSUME NEW e \in Claim, PodArrives(e)
      PROVE  pod'[c] = "pending" /\ preparedDevices'[c] = {}
  BY <1>1, <1>3 DEF PodArrives
<1>4. ASSUME NEW e \in Claim, PodDeleted(e) \/ PodForced(e)
      PROVE  pod'[c] \in {"terminating", "forced"}
  BY <1>1, <1>4 DEF PodDeleted, PodForced
<1>5. CASE ReplyPrepared
  BY <1>1, <1>5 DEF ReplyPrepared
<1>6. CASE UnstrandWrite
  BY <1>1, <1>6 DEF UnstrandWrite
<1>7. CASE CommitUnprepare
  BY <1>1, <1>7 DEF CommitUnprepare
<1>8. ASSUME NEW d \in Device, ReleaseVfio(d) \/ Configure(d) \/ UnprepareDevice(d)
      PROVE  FALSE
  BY <1>8 DEF ReleaseVfio, Configure, UnprepareDevice
<1>9. ~(\/ ReleaseVfioDone \/ Convert \/ SaveIntent \/ ConfigureDone
        \/ CreateClaimSpecFile \/ CommitPrepare \/ PersistAfterFailure
        \/ UnprepareDevicesDone \/ PartialWrite \/ DeleteClaimSpecFile \/ Crash)
  BY DEF ReleaseVfioDone, Convert, SaveIntent, ConfigureDone, CreateClaimSpecFile,
     CommitPrepare, PersistAfterFailure, UnprepareDevicesDone, PartialWrite,
     DeleteClaimSpecFile, Crash
<1> QED
  BY <1>2, <1>3, <1>4, <1>5, <1>6, <1>7, <1>8, <1>9 DEF VfioNext, Running

\* Nobody rebinds a device of a living claim: the running call visits devices
\* of its own claim only, and that is not prepared yet or no longer alive.
LEMMA LivingUndisturbed ==
  ASSUME IInv, MatchInv, BoundInv, VfioNext, NEW c \in Claim, Lives(c), NEW d \in devicesOf[c]
  PROVE  boundDriver'[d] = boundDriver[d]
<1> SUFFICES ASSUME boundDriver'[d] # boundDriver[d] PROVE FALSE
  OBVIOUS
<1>1. d \in Device
  BY VfioAssumption
<1>2. stage \in {"configure", "return"} \cup ReleaseStages /\ d \in work
  BY <1>1, BindingSteps
<1>3. rpcClaim \in Claim /\ d \in devicesOf[rpcClaim]
  BY <1>2 DEF IInv, CallHasClaim, BoundInv, Apart, ReleaseStages
<1>4. pod[rpcClaim] # "none" /\ pod[c] # "none"
  BY <1>2 DEF MatchInv, PodsPresent, PrepareStages, UnprepareStages, Stages, ReleaseStages, Lives
<1>5. rpcClaim = c
  BY <1>3, <1>4 DEF BoundInv, Apart
<1> QED
  BY <1>2, <1>5 DEF MatchInv, PodsPresent, PrepareStages, UnprepareStages, Stages, ReleaseStages,
     Lives, BoundInv, BoundSoFar

LEMMA LivingBoundStep ==
  ASSUME IInv, MatchInv, BoundInv, VfioNext
  PROVE  LivingBound'
<1> SUFFICES ASSUME NEW c \in Claim
             PROVE  /\ Lives(c)' => \A d \in vfioOf[c] : boundDriver'[d] = "vfio-pci"
                    /\ pod'[c] = "running" /\ vfioOf[c] # {} => preparedDevices'[c] # {}
                    /\ preparedDevices'[c] # {} => pod'[c] # "none"
  BY DEF LivingBound
<1>1. /\ Lives(c) => \A d \in vfioOf[c] : boundDriver[d] = "vfio-pci"
      /\ pod[c] = "running" /\ vfioOf[c] # {} => preparedDevices[c] # {}
      /\ preparedDevices[c] # {} => pod[c] # "none"
  BY DEF BoundInv, LivingBound
<1>2. /\ pod \in [Claim -> PodStates] /\ preparedDevices \in [Claim -> SUBSET Device]
      /\ vfioOf[c] \subseteq devicesOf[c]
  BY VfioAssumption DEF IInv, VfioTypeOK
<1>3. CASE preparedDevices'[c] = preparedDevices[c]
  <2>1. CASE pod'[c] = pod[c]
    BY <1>1, <1>2, <1>3, <2>1, LivingUndisturbed DEF Lives
  <2>2. CASE pod'[c] # pod[c]
    BY <1>1, <1>2, <1>3, <2>2, PodMoves, LivingUndisturbed DEF Lives
  <2> QED
    BY <2>1, <2>2
<1>4. CASE preparedDevices'[c] # preparedDevices[c]
  <2>1. CASE /\ stage = "commit" /\ stage' = "reply" /\ UNCHANGED <<rpcClaim, pod, boundDriver>>
             /\ rpcClaim \in Claim
             /\ preparedDevices' =
                    [preparedDevices EXCEPT ![rpcClaim] = DevicesPrepared(rpcClaim)]
    <3>1. /\ c = rpcClaim /\ preparedDevices'[c] = DevicesPrepared(c)
          /\ vfioOf[c] \subseteq DevicesPrepared(c)
      BY <1>2, <1>4, <2>1 DEF DevicesPrepared
    <3>2. /\ pod[c] \in {"pending", "running"}
          /\ \A d \in vfioOf[c] : boundDriver[d] = "vfio-pci"
      BY <2>1, <3>1 DEF MatchInv, PodsPresent, PrepareStages, BoundInv, BoundSoFar
    <3> QED
      BY <2>1, <3>1, <3>2 DEF Lives
  <2>2. CASE /\ stage = "unwrite" /\ stage' = "idle" /\ UNCHANGED boundDriver
             /\ rpcClaim \in Claim /\ pod' = [pod EXCEPT ![rpcClaim] = "none"]
             /\ preparedDevices' = [preparedDevices EXCEPT ![rpcClaim] = {}]
    BY <1>2, <1>4, <2>2 DEF Lives
  <2> QED
    BY <1>4, <2>1, <2>2, PreparedSteps
<1> QED
  BY <1>3, <1>4

LEMMA BoundHolds ==
  ASSUME "force" \notin Faults
  PROVE  VfioSpec => [](IInv /\ MatchInv /\ BoundInv)
<1>1. VfioInit => BoundInv
  BY DEF VfioInit, BoundInv, Apart, BoundSoFar, LivingBound, PrepareStages, Lives
<1>2. IInv /\ MatchInv /\ BoundInv /\ UNCHANGED vfioVars => BoundInv'
  BY DEF BoundInv, Apart, BoundSoFar, LivingBound, Lives, vfioVars, memoryVars, diskVars, rpcVars
<1>3. IInv /\ MatchInv /\ BoundInv /\ VfioNext => BoundInv'
  <2> SUFFICES ASSUME IInv, MatchInv, BoundInv, VfioNext PROVE BoundInv'
    OBVIOUS
  <2>1. Apart'
    BY PodSteps, WorkStep DEF BoundInv, Apart
  <2> QED
    BY <2>1, BoundSoFarStep, LivingBoundStep DEF BoundInv
<1> QED
  BY <1>1, <1>2, <1>3, MatchHolds, PTL DEF VfioSpec

\* While its pod runs, a claim's passthrough devices stay on vfio-pci and its
\* GPUs on amdgpu, whatever fails or restarts and whatever other claims do, as
\* long as no pod's object is removed before its Unprepare: then a device goes
\* to another claim that has still to be returned for the first.
THEOREM RunningStayBound ==
  ASSUME "force" \notin Faults
  PROVE  VfioSpec => []RunningBound
<1>1. IInv /\ MatchInv /\ BoundInv => RunningBound
  <2> SUFFICES ASSUME IInv, MatchInv, BoundInv, NEW c \in Claim, pod[c] = "running"
               PROVE  /\ \A d \in vfioOf[c] : boundDriver[d] = "vfio-pci"
                      /\ \A d \in devicesOf[c] \ vfioOf[c] :
                             d \in Gpu => boundDriver[d] = "amdgpu"
    BY DEF RunningBound
  <2>1. \A d \in vfioOf[c] : boundDriver[d] = "vfio-pci"
    BY DEF BoundInv, LivingBound, Lives
  <2>2. ASSUME NEW d \in devicesOf[c] \ vfioOf[c], d \in Gpu, boundDriver[d] # "amdgpu"
        PROVE  FALSE
    <3>1. PICK e \in Claim : <<e, d>> \in vfioConversions
      BY <2>2 DEF IInv, ConversionsOnRecord
    <3>2. d \in vfioOf[e] /\ d \in devicesOf[e] /\ pod[e] # "none"
      BY <2>2, <3>1, VfioAssumption DEF MatchInv, OneOwner, PodsPresent, Device
    <3> QED
      BY <2>2, <3>2 DEF BoundInv, Apart
  <2> QED
    BY <2>1, <2>2
<1> QED
  BY <1>1, BoundHolds, PTL

=============================================================================

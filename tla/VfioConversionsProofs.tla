------------------------ MODULE VfioConversionsProofs ------------------------
(***************************************************************************)
(* No GPU is ever off amdgpu without a record in memory and on disk, for   *)
(* any devices, claims and faults.  IInv is the inductive strengthening.   *)
(***************************************************************************)
EXTENDS VfioConversions, TLAPS

\* A call that runs is for a claim.
CallHasClaim == stage # "idle" => rpcClaim \in Claim

\* A GPU is only ever returned to amdgpu.
HomeIsAmdgpu == \A d \in Gpu : preConfigureDriver[d] = "amdgpu"

\* Entries, bindings and records of a GPU agree.
EntriesAgree ==
    /\ \A d \in Gpu : allocatable[d] = "gpu" => boundDriver[d] = "amdgpu"
    /\ \A d \in Gpu : allocatable[d] = "vfio" => \E c \in Claim : <<c, d>> \in vfioConversions
    /\ \A c \in Claim, d \in Device : <<c, d>> \in vfioConversions => allocatable[d] # "none"

\* Every record is on disk, except those of a Prepare that has not written its
\* intent yet or is undoing them.
RecordsWritten ==
    \A c \in Claim, d \in Device :
        <<c, d>> \in vfioConversions \ savedConversions =>
            /\ stage \in {"intent", "rollback"}
            /\ c = rpcClaim
            /\ stage = "rollback" => d \notin work \cup failed

\* The records of a Prepare are for its own passthrough devices, which it has
\* turned into VFIO entries.
OwnRecords ==
    /\ stage = "convert" => ConvertedFor(rpcClaim) = {}
    /\ stage \in {"intent", "configure", "cdi", "commit"} =>
           \A d \in ConvertedFor(rpcClaim) : d \in vfioOf[rpcClaim] /\ allocatable[d] = "vfio"
    /\ stage \in {"intent", "configure"} => \A d \in work : allocatable[d] = "vfio"

\* A GPU on record for the running call is on amdgpu before its turn to be
\* bound, and after its turn to be returned unless that failed.
RecordsAtHome ==
    \A d \in ConvertedFor(rpcClaim) \cap Gpu :
        \/ boundDriver[d] = "amdgpu"
        \/ stage \notin {"intent", "configure"} \cup ReleaseStages
        \/ stage = "configure" /\ d \notin work
        \/ stage \in ReleaseStages /\ d \in work \cup failed

IInv ==
    /\ VfioTypeOK /\ CallHasClaim /\ HomeIsAmdgpu /\ EntriesAgree
    /\ ConversionsOnRecord /\ RecordsWritten /\ OwnRecords /\ RecordsAtHome

-----------------------------------------------------------------------------
(* What the pieces of the handlers do. *)

\* What restoreFromVfio does to entries and records.
LEMMA RestoreFacts ==
  ASSUME VfioTypeOK, NEW c \in Claim, NEW S, RestoreFromVfio(c, S)
  PROVE  /\ allocatable' \in [Device -> {"gpu", "vfio", "none"}]
         /\ vfioConversions' \subseteq vfioConversions
         /\ \A d \in Device : allocatable'[d] = IF <<c, d>> \in vfioConversions /\ d \in S
                                                THEN "gpu" ELSE allocatable[d]
         /\ \A e \in Claim, d \in Device :
                <<e, d>> \in vfioConversions' <=>
                    <<e, d>> \in vfioConversions /\ ~(e = c /\ d \in S)
  BY DEF VfioTypeOK, RestoreFromVfio, ConvertedFor, Record

\* A rebind touches one device, never takes a GPU off amdgpu, and when it
\* succeeds the GPU is on amdgpu.
LEMMA ReturnFacts ==
  ASSUME VfioTypeOK, HomeIsAmdgpu, NEW d \in Device, NEW ok \in BOOLEAN,
         ReturnToOriginalDriver(d, ok)
  PROVE  /\ boundDriver' \in [Device -> Drivers]
         /\ \A e \in Device : e # d => boundDriver'[e] = boundDriver[e]
         /\ d \in Gpu /\ (ok \/ boundDriver[d] = "amdgpu") => boundDriver'[d] = "amdgpu"
  BY DEF VfioTypeOK, HomeIsAmdgpu, ReturnToOriginalDriver, Drivers, Device

\* Configure touches one device, which is one the running call has to bind.
LEMMA ConfigureFacts ==
  ASSUME VfioTypeOK, NEW d \in Device, Configure(d)
  PROVE  /\ boundDriver' \in [Device -> Drivers]
         /\ \A e \in Device : e # d => boundDriver'[e] = boundDriver[e]
         /\ stage = "configure" /\ d \in work
         /\ stage' \in {"configure", "rollback"}
         /\ rpcClaim' = rpcClaim
         /\ stage' = "configure" => work' = work \ {d}
         /\ stage' = "rollback" => work' = VfioAmong((vfioOf[rpcClaim] \ work) \cup {d})
         /\ stage' = "rollback" => failed' = {}
         /\ UNCHANGED <<memoryVars, diskVars, pod>>
  BY DEF VfioTypeOK, Configure, GoTo, Begin, Drivers, Stages

\* Convert turns GPUs into VFIO entries and records exactly those.
LEMMA ConvertFacts ==
  ASSUME VfioTypeOK, CallHasClaim, Convert
  PROVE  LET new == {d \in vfioOf[rpcClaim] : allocatable[d] = "gpu"}
             ended == stage' = "persist"
         IN
         /\ stage = "convert" /\ rpcClaim \in Claim /\ rpcClaim' = rpcClaim
         /\ stage' \in {"persist", "intent", "configure"}
         /\ ended => UNCHANGED <<allocatable, preConfigureDriver, vfioConversions>>
         /\ ~ended =>
              /\ \A d \in devicesOf[rpcClaim] : allocatable[d] # "none"
              /\ vfioConversions' = vfioConversions \cup ({rpcClaim} \X new)
              /\ \A d \in Device : allocatable'[d] = IF d \in new THEN "vfio"
                                                     ELSE allocatable[d]
              /\ work' = vfioOf[rpcClaim]
              /\ stage' = "configure" <=> new = {}
  BY VfioAssumption DEF VfioTypeOK, CallHasClaim, Convert, GoTo, Begin

\* After a restart the records are those of the checkpoint whose device is not
\* on amdgpu, and entries and checkpoint agree with them.
LEMMA RestartFacts ==
  ASSUME VfioTypeOK, Crash
  PROVE  /\ \A c \in Claim, d \in Device :
                <<c, d>> \in vfioConversions' <=>
                    <<c, d>> \in savedConversions /\ boundDriver[d] # "amdgpu"
         /\ vfioConversions' \subseteq savedConversions'
         /\ savedConversions' \subseteq Record
         /\ allocatable' \in [Device -> {"gpu", "vfio", "none"}]
         /\ preConfigureDriver' \in [Device -> Drivers]
         /\ \A d \in Gpu : preConfigureDriver'[d] = "amdgpu"
         /\ \A c \in Claim, d \in Device :
                <<c, d>> \in vfioConversions' => allocatable'[d] = "vfio"
         /\ \A d \in Gpu :
                /\ allocatable'[d] = "gpu" => boundDriver[d] = "amdgpu"
                /\ allocatable'[d] = "vfio" =>
                       \E c \in Claim : <<c, d>> \in vfioConversions'
         /\ vfioManager' \in BOOLEAN
         /\ stage' = "idle" /\ rpcClaim' = NoClaim /\ work' = {} /\ failed' = {}
         /\ UNCHANGED <<boundDriver, preparedDevices, pod>>
<1> PICK manager \in BOOLEAN : Restart(manager)
  BY DEF Crash
<1> DEFINE live == {r \in savedConversions : boundDriver[r[2]] # "amdgpu"}
           converted == {r[2] : r \in live}
<1>1. /\ vfioConversions' = live
      /\ savedConversions' = live \/ savedConversions' = savedConversions
      /\ vfioManager' = manager
      /\ allocatable' = [d \in Device |-> IF d \in converted THEN "vfio"
                                          ELSE Discovered(d, manager)]
      /\ preConfigureDriver' =
             [d \in Device |-> IF d \in converted \cup Gpu THEN "amdgpu" ELSE boundDriver[d]]
  BY DEF Restart
<1>2. \A d \in Device : /\ Discovered(d, manager) \in {"gpu", "vfio", "none"}
                        /\ d \in Gpu => Discovered(d, manager) =
                               IF boundDriver[d] = "amdgpu" THEN "gpu" ELSE "none"
  <2> TAKE d \in Device
  <2>1. CASE d \in Gpu
    BY <2>1 DEF Discovered
  <2>2. CASE d \notin Gpu
    BY <2>2 DEF Discovered
  <2> QED
    BY <2>1, <2>2
<1>3. \A r \in live : r \in Record /\ r \in savedConversions
  BY DEF VfioTypeOK
<1>4. \A d \in Device : d \in converted <=> \E c \in Claim : <<c, d>> \in live
  <2> TAKE d \in Device
  <2>1. ASSUME d \in converted PROVE \E c \in Claim : <<c, d>> \in live
    <3>1. PICK r \in live : r[2] = d
      BY <2>1
    <3>2. r[1] \in Claim /\ r = <<r[1], d>>
      BY <1>3, <3>1 DEF Record
    <3> QED
      BY <3>1, <3>2
  <2>2. ASSUME NEW c \in Claim, <<c, d>> \in live PROVE d \in converted
    <3>1. <<c, d>>[2] = d
      OBVIOUS
    <3> QED
      BY <2>2, <3>1
  <2> QED
    BY <2>1, <2>2
<1>5. /\ \A c \in Claim, d \in Device :
             <<c, d>> \in vfioConversions' <=>
                 <<c, d>> \in savedConversions /\ boundDriver[d] # "amdgpu"
      /\ vfioConversions' \subseteq savedConversions'
      /\ savedConversions' \subseteq Record
  BY <1>1, <1>3 DEF VfioTypeOK
<1>6. /\ allocatable' \in [Device -> {"gpu", "vfio", "none"}]
      /\ preConfigureDriver' \in [Device -> Drivers]
      /\ \A d \in Gpu : preConfigureDriver'[d] = "amdgpu"
  <2>1. allocatable' \in [Device -> {"gpu", "vfio", "none"}]
    BY <1>1, <1>2
  <2>2. preConfigureDriver' \in [Device -> Drivers]
    BY <1>1 DEF VfioTypeOK, Drivers
  <2>3. \A d \in Gpu : preConfigureDriver'[d] = "amdgpu"
    BY <1>1 DEF Device
  <2> QED
    BY <2>1, <2>2, <2>3
<1>7. \A c \in Claim, d \in Device :
          <<c, d>> \in vfioConversions' => allocatable'[d] = "vfio"
  BY <1>1, <1>4
<1>8. \A d \in Gpu :
          /\ allocatable'[d] = "gpu" => boundDriver[d] = "amdgpu"
          /\ allocatable'[d] = "vfio" =>
                 \E c \in Claim : <<c, d>> \in vfioConversions'
  BY <1>1, <1>2, <1>4 DEF Device
<1> QED
  BY <1>1, <1>5, <1>6, <1>7, <1>8 DEF Crash, Return, Begin

\* One turn of releaseClaimVfio: a GPU that did not fail is on amdgpu, and no
\* GPU leaves it.
LEMMA ReleaseVfioFacts ==
  ASSUME VfioTypeOK, HomeIsAmdgpu, NEW d \in Device, ReleaseVfio(d)
  PROVE  /\ boundDriver' \in [Device -> Drivers]
         /\ \A e \in Device : e # d => boundDriver'[e] = boundDriver[e]
         /\ d \in Gpu /\ (d \notin failed' \/ boundDriver[d] = "amdgpu") =>
                boundDriver'[d] = "amdgpu"
         /\ failed \subseteq failed' /\ failed' \subseteq failed \cup {d}
         /\ stage \in ReleaseStages /\ d \in work /\ work' = work \ {d}
         /\ UNCHANGED <<memoryVars, diskVars, stage, rpcClaim, pod>>
<1>1. PICK ok \in BOOLEAN : /\ ReturnToOriginalDriver(d, ok)
                            /\ failed' = IF ok THEN failed ELSE failed \cup {d}
  BY DEF ReleaseVfio
<1>2. /\ boundDriver' \in [Device -> Drivers]
      /\ \A e \in Device : e # d => boundDriver'[e] = boundDriver[e]
      /\ d \in Gpu /\ (ok \/ boundDriver[d] = "amdgpu") => boundDriver'[d] = "amdgpu"
  BY <1>1, ReturnFacts
<1> QED
  BY <1>1, <1>2 DEF ReleaseVfio

\* The end of releaseClaimVfio gives back exactly what did not fail.
LEMMA ReleaseVfioDoneFacts ==
  ASSUME VfioTypeOK, CallHasClaim, ReleaseVfioDone
  PROVE  /\ allocatable' \in [Device -> {"gpu", "vfio", "none"}]
         /\ vfioConversions' \subseteq vfioConversions
         /\ \A d \in Device :
                allocatable'[d] = IF <<rpcClaim, d>> \in vfioConversions /\ d \notin failed
                                  THEN "gpu" ELSE allocatable[d]
         /\ \A c \in Claim, d \in Device :
                <<c, d>> \in vfioConversions' <=>
                    <<c, d>> \in vfioConversions /\ ~(c = rpcClaim /\ d \notin failed)
         /\ stage \in ReleaseStages /\ work = {}
         /\ stage' \in {"unstrandwrite", "convert", "persist"}
         /\ stage' = "convert" => failed = {}
         /\ rpcClaim \in Claim
         /\ UNCHANGED <<vfioManager, preConfigureDriver, boundDriver, diskVars,
                        rpcClaim, work, failed, pod>>
<1>1. rpcClaim \in Claim /\ RestoreFromVfio(rpcClaim, Device \ failed)
  BY DEF ReleaseVfioDone, CallHasClaim, ReleaseStages
<1>2. /\ stage' \in {"unstrandwrite", "convert", "persist"}
      /\ stage' = "convert" => failed = {}
  <2>1. CASE stage = "unstrand"
    BY <2>1 DEF ReleaseVfioDone
  <2>2. CASE stage # "unstrand" /\ stage = "stranded" /\ failed = {}
    BY <2>2 DEF ReleaseVfioDone
  <2>3. CASE stage # "unstrand" /\ ~(stage = "stranded" /\ failed = {})
    BY <2>3 DEF ReleaseVfioDone
  <2> QED
    BY <2>1, <2>2, <2>3
<1>3. /\ allocatable' \in [Device -> {"gpu", "vfio", "none"}]
      /\ vfioConversions' \subseteq vfioConversions
      /\ \A d \in Device :
             allocatable'[d] = IF <<rpcClaim, d>> \in vfioConversions /\ d \in Device \ failed
                               THEN "gpu" ELSE allocatable[d]
      /\ \A c \in Claim, d \in Device :
             <<c, d>> \in vfioConversions' <=>
                 <<c, d>> \in vfioConversions /\ ~(c = rpcClaim /\ d \in Device \ failed)
  BY <1>1, RestoreFacts
<1> QED
  BY <1>1, <1>2, <1>3 DEF ReleaseVfioDone

\* One turn of unprepareDevices: either nothing is given back, or one device,
\* which is then on amdgpu.
LEMMA UnprepareDeviceFacts ==
  ASSUME VfioTypeOK, HomeIsAmdgpu, CallHasClaim, NEW d \in Device, UnprepareDevice(d)
  PROVE  /\ boundDriver' \in [Device -> Drivers]
         /\ \A e \in Device : e # d => boundDriver'[e] = boundDriver[e]
         /\ d \in Gpu /\ boundDriver[d] = "amdgpu" => boundDriver'[d] = "amdgpu"
         /\ allocatable' \in [Device -> {"gpu", "vfio", "none"}]
         /\ vfioConversions' \subseteq vfioConversions
         /\ failed' \subseteq failed \cup {d} /\ work' \subseteq work
         /\ \/ UNCHANGED <<allocatable, vfioConversions>>
            \/ /\ d \in Gpu => boundDriver'[d] = "amdgpu"
               /\ \A e \in Device :
                      allocatable'[e] = IF <<rpcClaim, e>> \in vfioConversions /\ e = d
                                        THEN "gpu" ELSE allocatable[e]
               /\ \A c \in Claim, e \in Device :
                      <<c, e>> \in vfioConversions' <=>
                          <<c, e>> \in vfioConversions /\ ~(c = rpcClaim /\ e = d)
         /\ stage = "return" /\ rpcClaim \in Claim
         /\ UNCHANGED <<vfioManager, preConfigureDriver, diskVars, stage, rpcClaim, pod>>
<1>1. /\ stage = "return" /\ rpcClaim \in Claim
      /\ work' = work \ {d}
      /\ UNCHANGED <<vfioManager, preConfigureDriver, diskVars, stage, rpcClaim, pod>>
  BY DEF UnprepareDevice, CallHasClaim
<1>2. CASE /\ ReturnToOriginalDriver(d, TRUE)
           /\ RestoreFromVfio(rpcClaim, {d})
           /\ UNCHANGED failed
  <2>1. /\ boundDriver' \in [Device -> Drivers]
        /\ \A e \in Device : e # d => boundDriver'[e] = boundDriver[e]
        /\ d \in Gpu => boundDriver'[d] = "amdgpu"
    BY <1>2, ReturnFacts
  <2>2. /\ allocatable' \in [Device -> {"gpu", "vfio", "none"}]
        /\ vfioConversions' \subseteq vfioConversions
        /\ \A e \in Device :
               allocatable'[e] = IF <<rpcClaim, e>> \in vfioConversions /\ e \in {d}
                                 THEN "gpu" ELSE allocatable[e]
        /\ \A c \in Claim, e \in Device :
               <<c, e>> \in vfioConversions' <=>
                   <<c, e>> \in vfioConversions /\ ~(c = rpcClaim /\ e \in {d})
    BY <1>1, <1>2, RestoreFacts
  <2> QED
    BY <1>1, <1>2, <2>1, <2>2
<1>3. CASE /\ ReturnToOriginalDriver(d, FALSE)
           /\ failed' = failed \cup {d}
           /\ UNCHANGED <<allocatable, vfioConversions>>
  <2>1. /\ boundDriver' \in [Device -> Drivers]
        /\ \A e \in Device : e # d => boundDriver'[e] = boundDriver[e]
        /\ d \in Gpu /\ boundDriver[d] = "amdgpu" => boundDriver'[d] = "amdgpu"
    BY <1>3, ReturnFacts
  <2> QED
    BY <1>1, <1>3, <2>1 DEF VfioTypeOK
<1> QED
  BY <1>2, <1>3 DEF UnprepareDevice

-----------------------------------------------------------------------------
(* Every step preserves IInv: one lemma per action. *)

\* IInv is preserved by returnToOriginalDriver in releaseClaimVfio.
LEMMA ReleaseVfioStep ==
  ASSUME IInv, NEW d \in Device, ReleaseVfio(d)
  PROVE  IInv'
<1>1. VfioTypeOK'
  BY ReleaseVfioFacts DEF IInv, VfioTypeOK, memoryVars, diskVars
<1>2. CallHasClaim'
  BY ReleaseVfioFacts DEF IInv, CallHasClaim
<1>3. HomeIsAmdgpu'
  BY ReleaseVfioFacts DEF IInv, HomeIsAmdgpu, memoryVars
<1>4. EntriesAgree'
  <2>1. \A g \in Gpu : boundDriver[g] = "amdgpu" => boundDriver'[g] = "amdgpu"
    BY ReleaseVfioFacts DEF IInv, Device
  <2>2. UNCHANGED <<allocatable, vfioConversions>>
    BY DEF ReleaseVfio, memoryVars
  <2> QED
    BY <2>1, <2>2 DEF IInv, EntriesAgree
<1>5. ConversionsOnRecord'
  <2>1. \A g \in Gpu : boundDriver'[g] # "amdgpu" => boundDriver[g] # "amdgpu"
    BY ReleaseVfioFacts DEF IInv, Device
  <2>2. UNCHANGED <<vfioConversions, savedConversions>>
    BY DEF ReleaseVfio, memoryVars, diskVars
  <2> QED
    BY <2>1, <2>2 DEF IInv, ConversionsOnRecord
<1>6. RecordsWritten'
  BY ReleaseVfioFacts DEF IInv, RecordsWritten, memoryVars, diskVars
<1>7. OwnRecords'
  BY ReleaseVfioFacts DEF IInv, OwnRecords, ReleaseStages
<1>8. RecordsAtHome'
  BY ReleaseVfioFacts DEF IInv, RecordsAtHome, ConvertedFor, memoryVars
<1> QED
  BY <1>1, <1>2, <1>3, <1>4, <1>5, <1>6, <1>7, <1>8 DEF IInv

\* IInv is preserved by the end of releaseClaimVfio.
LEMMA ReleaseVfioDoneStep ==
  ASSUME IInv, ReleaseVfioDone
  PROVE  IInv'
<1>1. VfioTypeOK'
  BY ReleaseVfioDoneFacts DEF IInv, VfioTypeOK, Stages, diskVars
<1>2. CallHasClaim'
  BY ReleaseVfioDoneFacts DEF IInv, CallHasClaim
<1>3. HomeIsAmdgpu'
  BY ReleaseVfioDoneFacts DEF IInv, HomeIsAmdgpu
<1>4. EntriesAgree'
  BY DEF IInv, EntriesAgree, RecordsAtHome, Device, ReleaseStages,
     ReleaseVfioDone, RestoreFromVfio
<1>5. ConversionsOnRecord'
  BY ReleaseVfioDoneFacts DEF IInv, ConversionsOnRecord, RecordsAtHome,
     diskVars, ReleaseStages, ConvertedFor, Device
<1>6. RecordsWritten'
  BY ReleaseVfioDoneFacts DEF IInv, RecordsWritten, diskVars, ReleaseStages
<1>7. OwnRecords'
  BY ReleaseVfioDoneFacts DEF IInv, OwnRecords, ConvertedFor
<1>8. RecordsAtHome'
  BY ReleaseVfioDoneFacts DEF IInv, RecordsAtHome, ConvertedFor
<1> QED
  BY <1>1, <1>2, <1>3, <1>4, <1>5, <1>6, <1>7, <1>8 DEF IInv

\* IInv is preserved by Prepare of a claim already in the checkpoint.
LEMMA PrepareCachedStep ==
  ASSUME IInv, NEW c \in Claim, PrepareCached(c)
  PROVE  IInv'
<1>1. VfioTypeOK'
  BY DEF IInv, VfioTypeOK, PodStates, PrepareCached, memoryVars, diskVars,
     rpcVars
<1>2. CallHasClaim'
  BY DEF IInv, CallHasClaim, PrepareCached, rpcVars
<1>3. HomeIsAmdgpu' /\ EntriesAgree'
  BY DEF IInv, HomeIsAmdgpu, EntriesAgree, PrepareCached, memoryVars
<1>4. ConversionsOnRecord'
  BY DEF IInv, ConversionsOnRecord, PrepareCached, memoryVars, diskVars
<1>5. RecordsWritten'
  BY DEF IInv, RecordsWritten, PrepareCached, memoryVars, diskVars
<1>6. OwnRecords'
  BY DEF IInv, OwnRecords, PrepareCached, rpcVars
<1>7. RecordsAtHome'
  BY DEF IInv, RecordsAtHome, ReleaseStages, PrepareCached, rpcVars
<1> QED
  BY <1>1, <1>2, <1>3, <1>4, <1>5, <1>6, <1>7 DEF IInv

\* IInv is preserved by Prepare, up to releaseStrandedVfio.
LEMMA PrepareStartStep ==
  ASSUME IInv, NEW c \in Claim, PrepareStart(c)
  PROVE  IInv'
<1>1. VfioTypeOK'
  BY DEF IInv, VfioTypeOK, Stages, PrepareStart, Begin, VfioAmong,
     ConvertedFor, memoryVars, diskVars
<1>2. CallHasClaim'
  BY DEF IInv, CallHasClaim, PrepareStart, Begin
<1>3. HomeIsAmdgpu' /\ EntriesAgree'
  BY DEF IInv, HomeIsAmdgpu, EntriesAgree, PrepareStart, memoryVars
<1>4. ConversionsOnRecord'
  BY DEF IInv, ConversionsOnRecord, PrepareStart, memoryVars, diskVars
<1>5. RecordsWritten'
  BY DEF IInv, RecordsWritten, PrepareStart, memoryVars, diskVars
<1>6. OwnRecords'
  BY DEF IInv, OwnRecords, PrepareStart, Begin
<1>7. RecordsAtHome'
  BY DEF IInv, VfioTypeOK, EntriesAgree, RecordsAtHome, ConvertedFor,
     PrepareStart, Begin, VfioAmong, memoryVars
<1> QED
  BY <1>1, <1>2, <1>3, <1>4, <1>5, <1>6, <1>7 DEF IInv

\* IInv is preserved by the conversion of a claim's GPUs.
LEMMA ConvertStep ==
  ASSUME IInv, Convert
  PROVE  IInv'
<1>1. VfioTypeOK'
  BY VfioAssumption DEF IInv, VfioTypeOK, CallHasClaim, Drivers, Record,
     Stages, Convert, GoTo, diskVars, Begin
<1>2. CallHasClaim'
  BY ConvertFacts DEF IInv, CallHasClaim
<1>3. HomeIsAmdgpu'
  BY DEF IInv, HomeIsAmdgpu, Convert, Device
<1>4. EntriesAgree'
  <2> DEFINE new == {g \in vfioOf[rpcClaim] : allocatable[g] = "gpu"}
  <2>1. CASE stage' = "persist"
    <3>1. UNCHANGED <<allocatable, vfioConversions, boundDriver>>
      BY <2>1, ConvertFacts DEF IInv, Convert
    <3> QED
      BY <3>1 DEF IInv, EntriesAgree
  <2>2. CASE stage' # "persist"
    <3>1. /\ rpcClaim \in Claim
          /\ vfioConversions' = vfioConversions \cup ({rpcClaim} \X new)
          /\ \A e \in Device : allocatable'[e] = IF e \in new THEN "vfio"
                                                 ELSE allocatable[e]
      BY <2>2, ConvertFacts DEF IInv
    <3>2. UNCHANGED boundDriver
      BY DEF Convert
    <3>3. \A g \in Gpu : allocatable'[g] = "gpu" => boundDriver'[g] = "amdgpu"
      BY <3>1, <3>2 DEF IInv, EntriesAgree, Device
    <3>4. \A g \in Gpu : allocatable'[g] = "vfio" =>
                            \E c \in Claim : <<c, g>> \in vfioConversions'
      BY <3>1 DEF IInv, EntriesAgree, Device
    <3>5. \A c \in Claim, e \in Device :
              <<c, e>> \in vfioConversions' => allocatable'[e] # "none"
      BY <3>1 DEF IInv, EntriesAgree
    <3> QED
      BY <3>3, <3>4, <3>5 DEF EntriesAgree
  <2> QED
    BY <2>1, <2>2
<1>5. ConversionsOnRecord'
  BY DEF IInv, ConversionsOnRecord, Convert, diskVars
<1>6. RecordsWritten'
  BY DEF IInv, RecordsWritten, Convert, GoTo, diskVars, Begin
<1>7. OwnRecords'
  BY VfioAssumption, ConvertFacts DEF IInv, VfioTypeOK, OwnRecords,
     ConvertedFor
<1>8. RecordsAtHome'
  BY DEF IInv, EntriesAgree, OwnRecords, RecordsAtHome, ConvertedFor, Convert,
     GoTo, Begin
<1> QED
  BY <1>1, <1>2, <1>3, <1>4, <1>5, <1>6, <1>7, <1>8 DEF IInv

\* IInv is preserved by the write of the intent.
LEMMA SaveIntentStep ==
  ASSUME IInv, SaveIntent
  PROVE  IInv'
<1>1. VfioTypeOK'
  BY DEF IInv, VfioTypeOK, Stages, SaveIntent, GoTo, memoryVars, Begin
<1>2. CallHasClaim'
  BY DEF IInv, CallHasClaim, SaveIntent, GoTo, Begin
<1>3. HomeIsAmdgpu' /\ EntriesAgree'
  BY DEF IInv, HomeIsAmdgpu, EntriesAgree, SaveIntent, memoryVars
<1>4. ConversionsOnRecord'
  BY DEF IInv, ConversionsOnRecord, SaveIntent, memoryVars
<1>5. RecordsWritten'
  BY DEF IInv, RecordsWritten, SaveIntent, GoTo, memoryVars, Begin
<1>6. OwnRecords'
  BY DEF IInv, OwnRecords, ConvertedFor, SaveIntent, GoTo, memoryVars, Begin
<1>7. RecordsAtHome'
  BY DEF IInv, RecordsAtHome, ConvertedFor, ReleaseStages, SaveIntent, GoTo,
     memoryVars, Begin
<1> QED
  BY <1>1, <1>2, <1>3, <1>4, <1>5, <1>6, <1>7 DEF IInv

\* IInv is preserved by the bind of one device to vfio-pci.
LEMMA ConfigureStep ==
  ASSUME IInv, NEW d \in Device, Configure(d)
  PROVE  IInv'
<1>1. VfioTypeOK'
  BY VfioAssumption DEF IInv, VfioTypeOK, CallHasClaim, Drivers, Stages,
     Configure, GoTo, VfioAmong, memoryVars, diskVars, Begin
<1>2. CallHasClaim'
  BY ConfigureFacts DEF IInv, CallHasClaim
<1>3. HomeIsAmdgpu'
  BY DEF IInv, HomeIsAmdgpu, Configure, memoryVars
<1>4. EntriesAgree'
  <2>1. \A e \in Device : e # d => boundDriver'[e] = boundDriver[e]
    BY ConfigureFacts DEF IInv
  <2>2. allocatable[d] = "vfio"
    BY DEF IInv, OwnRecords, Configure
  <2>3. UNCHANGED <<allocatable, vfioConversions>>
    BY DEF Configure, memoryVars
  <2> QED
    BY <2>1, <2>2, <2>3 DEF IInv, EntriesAgree, Device
<1>5. ConversionsOnRecord'
  BY ConfigureFacts DEF IInv, EntriesAgree, ConversionsOnRecord,
     RecordsWritten, OwnRecords, memoryVars, diskVars, Device
<1>6. RecordsWritten'
  BY ConfigureFacts DEF IInv, RecordsWritten, memoryVars, diskVars
<1>7. OwnRecords'
  BY DEF IInv, OwnRecords, ConvertedFor, Configure, GoTo, memoryVars, Begin
<1>8. RecordsAtHome'
  BY DEF IInv, VfioTypeOK, OwnRecords, RecordsAtHome, ConvertedFor,
     ReleaseStages, Configure, GoTo, VfioAmong, memoryVars, Begin
<1> QED
  BY <1>1, <1>2, <1>3, <1>4, <1>5, <1>6, <1>7, <1>8 DEF IInv

\* IInv is preserved by the end of the configuration loop.
LEMMA ConfigureDoneStep ==
  ASSUME IInv, ConfigureDone
  PROVE  IInv'
<1>1. VfioTypeOK'
  BY VfioAssumption DEF IInv, VfioTypeOK, CallHasClaim, Stages, ConfigureDone,
     GoTo, VfioAmong, memoryVars, diskVars, Begin
<1>2. CallHasClaim'
  BY DEF IInv, CallHasClaim, ConfigureDone, GoTo, Begin
<1>3. HomeIsAmdgpu' /\ EntriesAgree'
  BY DEF IInv, HomeIsAmdgpu, EntriesAgree, ConfigureDone, memoryVars
<1>4. ConversionsOnRecord'
  BY DEF IInv, ConversionsOnRecord, ConfigureDone, memoryVars, diskVars
<1>5. RecordsWritten'
  BY DEF IInv, RecordsWritten, ConfigureDone, memoryVars, diskVars
<1>6. OwnRecords'
  BY DEF IInv, OwnRecords, ConvertedFor, ConfigureDone, GoTo, memoryVars,
     Begin
<1>7. RecordsAtHome'
  BY DEF IInv, OwnRecords, RecordsAtHome, ConvertedFor, ReleaseStages,
     ConfigureDone, GoTo, VfioAmong, memoryVars, Begin
<1> QED
  BY <1>1, <1>2, <1>3, <1>4, <1>5, <1>6, <1>7 DEF IInv

\* IInv is preserved by the write of the CDI file.
LEMMA CreateClaimSpecFileStep ==
  ASSUME IInv, CreateClaimSpecFile
  PROVE  IInv'
<1>1. VfioTypeOK'
  BY VfioAssumption DEF IInv, VfioTypeOK, CallHasClaim, Stages,
     CreateClaimSpecFile, GoTo, VfioAmong, DevicesPrepared, memoryVars, diskVars,
     Begin
<1>2. CallHasClaim'
  BY DEF IInv, CallHasClaim, CreateClaimSpecFile, GoTo, Begin
<1>3. HomeIsAmdgpu' /\ EntriesAgree'
  BY DEF IInv, HomeIsAmdgpu, EntriesAgree, CreateClaimSpecFile, memoryVars
<1>4. ConversionsOnRecord'
  BY DEF IInv, ConversionsOnRecord, CreateClaimSpecFile, memoryVars, diskVars
<1>5. RecordsWritten'
  BY DEF IInv, RecordsWritten, CreateClaimSpecFile, memoryVars, diskVars
<1>6. OwnRecords'
  BY DEF IInv, OwnRecords, ConvertedFor, CreateClaimSpecFile, GoTo,
     memoryVars, Begin
<1>7. RecordsAtHome'
  BY VfioAssumption DEF IInv, CallHasClaim, OwnRecords, RecordsAtHome,
     ConvertedFor, ReleaseStages, CreateClaimSpecFile, GoTo, VfioAmong,
     DevicesPrepared, memoryVars, Begin
<1> QED
  BY <1>1, <1>2, <1>3, <1>4, <1>5, <1>6, <1>7 DEF IInv

\* IInv is preserved by the commit of Prepare.
LEMMA CommitPrepareStep ==
  ASSUME IInv, CommitPrepare
  PROVE  IInv'
<1>1. VfioTypeOK'
  BY VfioAssumption DEF IInv, VfioTypeOK, CallHasClaim, Stages, CommitPrepare,
     DevicesPrepared, GoTo, VfioAmong, diskVars, memoryVars, Begin
<1>2. CallHasClaim'
  BY DEF IInv, CallHasClaim, CommitPrepare, GoTo, Begin
<1>3. HomeIsAmdgpu' /\ EntriesAgree'
  BY DEF IInv, HomeIsAmdgpu, EntriesAgree, CommitPrepare, memoryVars
<1>4. ConversionsOnRecord'
  BY DEF IInv, ConversionsOnRecord, CommitPrepare, diskVars, memoryVars
<1>5. RecordsWritten'
  BY DEF IInv, RecordsWritten, CommitPrepare, diskVars, memoryVars
<1>6. OwnRecords'
  BY DEF IInv, OwnRecords, CommitPrepare, GoTo, Begin
<1>7. RecordsAtHome'
  BY VfioAssumption DEF IInv, CallHasClaim, OwnRecords, RecordsAtHome,
     ConvertedFor, ReleaseStages, CommitPrepare, DevicesPrepared, GoTo,
     VfioAmong, memoryVars, Begin
<1> QED
  BY <1>1, <1>2, <1>3, <1>4, <1>5, <1>6, <1>7 DEF IInv

\* IInv is preserved by the reply of Prepare.
LEMMA ReplyPreparedStep ==
  ASSUME IInv, ReplyPrepared
  PROVE  IInv'
<1>1. VfioTypeOK'
  BY DEF IInv, VfioTypeOK, Stages, PodStates, ReplyPrepared, Return,
     memoryVars, diskVars, Begin
<1>2. CallHasClaim'
  BY DEF IInv, CallHasClaim, ReplyPrepared, Return, Begin
<1>3. HomeIsAmdgpu' /\ EntriesAgree'
  BY DEF IInv, HomeIsAmdgpu, EntriesAgree, ReplyPrepared, memoryVars
<1>4. ConversionsOnRecord'
  BY DEF IInv, ConversionsOnRecord, ReplyPrepared, memoryVars, diskVars
<1>5. RecordsWritten'
  BY DEF IInv, RecordsWritten, ReplyPrepared, memoryVars, diskVars
<1>6. OwnRecords'
  BY DEF IInv, OwnRecords, ReplyPrepared, Return, Begin
<1>7. RecordsAtHome'
  BY DEF IInv, RecordsAtHome, ReleaseStages, ReplyPrepared, Return, Begin
<1> QED
  BY <1>1, <1>2, <1>3, <1>4, <1>5, <1>6, <1>7 DEF IInv

\* IInv is preserved by persistVfioConversionsAfterFailure.
LEMMA PersistAfterFailureStep ==
  ASSUME IInv, PersistAfterFailure
  PROVE  IInv'
<1>1. VfioTypeOK'
  BY DEF IInv, VfioTypeOK, Stages, PersistAfterFailure, SaveConversions,
     Return, memoryVars, Begin
<1>2. CallHasClaim'
  BY DEF IInv, CallHasClaim, PersistAfterFailure, Return, Begin
<1>3. HomeIsAmdgpu' /\ EntriesAgree'
  BY DEF IInv, HomeIsAmdgpu, EntriesAgree, PersistAfterFailure, memoryVars
<1>4. ConversionsOnRecord'
  BY DEF IInv, ConversionsOnRecord, PersistAfterFailure, SaveConversions,
     memoryVars
<1>5. RecordsWritten'
  BY DEF IInv, RecordsWritten, PersistAfterFailure, SaveConversions,
     memoryVars
<1>6. OwnRecords'
  BY DEF IInv, OwnRecords, PersistAfterFailure, Return, Begin
<1>7. RecordsAtHome'
  BY DEF IInv, RecordsAtHome, ReleaseStages, PersistAfterFailure, Return,
     Begin
<1> QED
  BY <1>1, <1>2, <1>3, <1>4, <1>5, <1>6, <1>7 DEF IInv

\* IInv is preserved by Unprepare of a claim that is not in the checkpoint.
LEMMA UnprepareUnknownStep ==
  ASSUME IInv, NEW c \in Claim, UnprepareUnknown(c)
  PROVE  IInv'
<1>1. VfioTypeOK'
  <2>1. /\ UNCHANGED <<memoryVars, boundDriver, diskVars>>
        /\ \/ Gone(c) /\ UNCHANGED rpcVars
           \/ Begin(c, "unstrand", VfioAmong(ConvertedFor(c))) /\ UNCHANGED pod
    BY DEF UnprepareUnknown
  <2>2. CASE Gone(c) /\ UNCHANGED rpcVars
    BY <2>1, <2>2 DEF IInv, VfioTypeOK, PodStates, Gone, memoryVars, diskVars, rpcVars
  <2>3. CASE Begin(c, "unstrand", VfioAmong(ConvertedFor(c))) /\ UNCHANGED pod
    BY <2>1, <2>3 DEF IInv, VfioTypeOK, Stages, Begin, VfioAmong, ConvertedFor,
       memoryVars, diskVars
  <2> QED
    BY <2>1, <2>2, <2>3
<1>2. CallHasClaim'
  BY DEF IInv, CallHasClaim, UnprepareUnknown, rpcVars, Begin
<1>3. HomeIsAmdgpu' /\ EntriesAgree'
  BY DEF IInv, HomeIsAmdgpu, EntriesAgree, UnprepareUnknown, memoryVars
<1>4. ConversionsOnRecord'
  BY DEF IInv, ConversionsOnRecord, UnprepareUnknown, memoryVars, diskVars
<1>5. RecordsWritten'
  BY DEF IInv, RecordsWritten, UnprepareUnknown, memoryVars, diskVars
<1>6. OwnRecords'
  BY DEF IInv, OwnRecords, UnprepareUnknown, rpcVars, Begin
<1>7. RecordsAtHome'
  BY DEF IInv, VfioTypeOK, EntriesAgree, RecordsAtHome, ConvertedFor,
     UnprepareUnknown, rpcVars, Begin, VfioAmong, memoryVars
<1> QED
  BY <1>1, <1>2, <1>3, <1>4, <1>5, <1>6, <1>7 DEF IInv

\* IInv is preserved by the write that ends it.
LEMMA UnstrandWriteStep ==
  ASSUME IInv, UnstrandWrite
  PROVE  IInv'
<1>1. VfioTypeOK'
  BY DEF IInv, VfioTypeOK, Stages, PodStates, UnstrandWrite, Gone, Return,
     memoryVars, Begin
<1>2. CallHasClaim'
  BY DEF IInv, CallHasClaim, UnstrandWrite, Return, Begin
<1>3. HomeIsAmdgpu' /\ EntriesAgree'
  BY DEF IInv, HomeIsAmdgpu, EntriesAgree, UnstrandWrite, memoryVars
<1>4. ConversionsOnRecord'
  BY DEF IInv, ConversionsOnRecord, UnstrandWrite, memoryVars
<1>5. RecordsWritten'
  BY DEF IInv, RecordsWritten, UnstrandWrite, memoryVars
<1>6. OwnRecords'
  BY DEF IInv, OwnRecords, UnstrandWrite, Return, Begin
<1>7. RecordsAtHome'
  BY DEF IInv, RecordsAtHome, ReleaseStages, UnstrandWrite, Return, Begin
<1> QED
  BY <1>1, <1>2, <1>3, <1>4, <1>5, <1>6, <1>7 DEF IInv

\* IInv is preserved by Unprepare, up to unprepareDevices.
LEMMA UnprepareStartStep ==
  ASSUME IInv, NEW c \in Claim, UnprepareStart(c)
  PROVE  IInv'
<1>1. VfioTypeOK'
  BY DEF IInv, VfioTypeOK, Stages, UnprepareStart, Begin, VfioAmong,
     memoryVars, diskVars
<1>2. CallHasClaim'
  BY DEF IInv, CallHasClaim, UnprepareStart, Begin
<1>3. HomeIsAmdgpu' /\ EntriesAgree'
  BY DEF IInv, HomeIsAmdgpu, EntriesAgree, UnprepareStart, memoryVars
<1>4. ConversionsOnRecord'
  BY DEF IInv, ConversionsOnRecord, UnprepareStart, memoryVars, diskVars
<1>5. RecordsWritten'
  BY DEF IInv, RecordsWritten, UnprepareStart, memoryVars, diskVars
<1>6. OwnRecords'
  BY DEF IInv, OwnRecords, UnprepareStart, Begin
<1>7. RecordsAtHome'
  BY DEF IInv, RecordsAtHome, ReleaseStages, UnprepareStart, Begin
<1> QED
  BY <1>1, <1>2, <1>3, <1>4, <1>5, <1>6, <1>7 DEF IInv

\* IInv is preserved by one turn of unprepareDevices.
LEMMA UnprepareDeviceStep ==
  ASSUME IInv, NEW d \in Device, UnprepareDevice(d)
  PROVE  IInv'
<1>1. VfioTypeOK'
  BY UnprepareDeviceFacts DEF IInv, VfioTypeOK, diskVars
<1>2. CallHasClaim'
  BY UnprepareDeviceFacts DEF IInv, CallHasClaim
<1>3. HomeIsAmdgpu'
  BY UnprepareDeviceFacts DEF IInv, HomeIsAmdgpu
<1>4. EntriesAgree'
  <2>1. \A g \in Gpu : boundDriver[g] = "amdgpu" => boundDriver'[g] = "amdgpu"
    BY UnprepareDeviceFacts DEF IInv, Device
  <2>2. CASE UNCHANGED <<allocatable, vfioConversions>>
    BY <2>1, <2>2 DEF IInv, EntriesAgree
  <2>3. CASE ~UNCHANGED <<allocatable, vfioConversions>>
    <3>1. /\ d \in Gpu => boundDriver'[d] = "amdgpu"
          /\ \A e \in Device :
                 allocatable'[e] = IF <<rpcClaim, e>> \in vfioConversions /\ e = d
                                   THEN "gpu" ELSE allocatable[e]
          /\ \A c \in Claim, e \in Device :
                 <<c, e>> \in vfioConversions' <=>
                     <<c, e>> \in vfioConversions /\ ~(c = rpcClaim /\ e = d)
      BY <2>3, UnprepareDeviceFacts DEF IInv
    <3>2. \A g \in Gpu : allocatable'[g] = "gpu" => boundDriver'[g] = "amdgpu"
      BY <2>1, <3>1 DEF IInv, EntriesAgree, Device
    <3>3. \A g \in Gpu : allocatable'[g] = "vfio" =>
                            \E c \in Claim : <<c, g>> \in vfioConversions'
      BY <3>1 DEF IInv, EntriesAgree, Device
    <3>4. \A c \in Claim, e \in Device :
              <<c, e>> \in vfioConversions' => allocatable'[e] # "none"
      BY <3>1 DEF IInv, EntriesAgree
    <3> QED
      BY <3>2, <3>3, <3>4 DEF EntriesAgree
  <2> QED
    BY <2>2, <2>3
<1>5. ConversionsOnRecord'
  <2>1. \A g \in Gpu : boundDriver'[g] # "amdgpu" => boundDriver[g] # "amdgpu"
    BY UnprepareDeviceFacts DEF IInv, Device
  <2>2. UNCHANGED savedConversions
    BY DEF UnprepareDevice, diskVars
  <2>3. \A g \in Gpu : boundDriver'[g] # "amdgpu" =>
                          \E c \in Claim : <<c, g>> \in vfioConversions'
    <3>1. CASE UNCHANGED vfioConversions
      BY <2>1, <3>1 DEF IInv, ConversionsOnRecord
    <3>2. CASE ~UNCHANGED vfioConversions
      <4>1. /\ d \in Gpu => boundDriver'[d] = "amdgpu"
            /\ \A c \in Claim, e \in Device :
                   <<c, e>> \in vfioConversions' <=>
                       <<c, e>> \in vfioConversions /\ ~(c = rpcClaim /\ e = d)
        BY <3>2, UnprepareDeviceFacts DEF IInv
      <4> QED
        BY <2>1, <4>1 DEF IInv, ConversionsOnRecord, Device
    <3> QED
      BY <3>1, <3>2
  <2> QED
    BY <2>1, <2>2, <2>3 DEF IInv, ConversionsOnRecord
<1>6. RecordsWritten'
  BY UnprepareDeviceFacts DEF IInv, RecordsWritten, diskVars
<1>7. OwnRecords'
  BY UnprepareDeviceFacts DEF IInv, OwnRecords
<1>8. RecordsAtHome'
  BY UnprepareDeviceFacts DEF IInv, RecordsAtHome, ReleaseStages
<1> QED
  BY <1>1, <1>2, <1>3, <1>4, <1>5, <1>6, <1>7, <1>8 DEF IInv

\* IInv is preserved by the end of unprepareDevices.
LEMMA UnprepareDevicesDoneStep ==
  ASSUME IInv, UnprepareDevicesDone
  PROVE  IInv'
<1>1. VfioTypeOK'
  BY DEF IInv, VfioTypeOK, Stages, UnprepareDevicesDone, GoTo, memoryVars,
     diskVars, Begin
<1>2. CallHasClaim'
  BY DEF IInv, CallHasClaim, UnprepareDevicesDone, GoTo, Begin
<1>3. HomeIsAmdgpu' /\ EntriesAgree'
  BY DEF IInv, HomeIsAmdgpu, EntriesAgree, UnprepareDevicesDone, memoryVars
<1>4. ConversionsOnRecord'
  BY DEF IInv, ConversionsOnRecord, UnprepareDevicesDone, memoryVars, diskVars
<1>5. RecordsWritten'
  BY DEF IInv, RecordsWritten, UnprepareDevicesDone, memoryVars, diskVars
<1>6. OwnRecords'
  BY DEF IInv, OwnRecords, UnprepareDevicesDone, GoTo, Begin
<1>7. RecordsAtHome'
  BY DEF IInv, RecordsAtHome, ReleaseStages, UnprepareDevicesDone, GoTo, Begin
<1> QED
  BY <1>1, <1>2, <1>3, <1>4, <1>5, <1>6, <1>7 DEF IInv

\* IInv is preserved by the write after a partial Unprepare.
LEMMA PartialWriteStep ==
  ASSUME IInv, PartialWrite
  PROVE  IInv'
<1>1. VfioTypeOK'
  BY DEF IInv, VfioTypeOK, Stages, PartialWrite, SaveConversions, Return,
     memoryVars, Begin
<1>2. CallHasClaim'
  BY DEF IInv, CallHasClaim, PartialWrite, Return, Begin
<1>3. HomeIsAmdgpu' /\ EntriesAgree'
  BY DEF IInv, HomeIsAmdgpu, EntriesAgree, PartialWrite, memoryVars
<1>4. ConversionsOnRecord'
  BY DEF IInv, ConversionsOnRecord, PartialWrite, SaveConversions, memoryVars
<1>5. RecordsWritten'
  BY DEF IInv, RecordsWritten, PartialWrite, SaveConversions, memoryVars
<1>6. OwnRecords'
  BY DEF IInv, OwnRecords, PartialWrite, Return, Begin
<1>7. RecordsAtHome'
  BY DEF IInv, RecordsAtHome, ReleaseStages, PartialWrite, Return, Begin
<1> QED
  BY <1>1, <1>2, <1>3, <1>4, <1>5, <1>6, <1>7 DEF IInv

\* IInv is preserved by the deletion of the CDI file.
LEMMA DeleteClaimSpecFileStep ==
  ASSUME IInv, DeleteClaimSpecFile
  PROVE  IInv'
<1>1. VfioTypeOK'
  BY DEF IInv, VfioTypeOK, Stages, DeleteClaimSpecFile, GoTo, Return,
     memoryVars, diskVars, Begin
<1>2. CallHasClaim'
  BY DEF IInv, CallHasClaim, DeleteClaimSpecFile, GoTo, Return, Begin
<1>3. HomeIsAmdgpu' /\ EntriesAgree'
  BY DEF IInv, HomeIsAmdgpu, EntriesAgree, DeleteClaimSpecFile, memoryVars
<1>4. ConversionsOnRecord'
  BY DEF IInv, ConversionsOnRecord, DeleteClaimSpecFile, memoryVars, diskVars
<1>5. RecordsWritten'
  BY DEF IInv, RecordsWritten, DeleteClaimSpecFile, memoryVars, diskVars
<1>6. OwnRecords'
  BY DEF IInv, OwnRecords, DeleteClaimSpecFile, GoTo, Return, Begin
<1>7. RecordsAtHome'
  BY DEF IInv, RecordsAtHome, ReleaseStages, DeleteClaimSpecFile, GoTo,
     Return, Begin
<1> QED
  BY <1>1, <1>2, <1>3, <1>4, <1>5, <1>6, <1>7 DEF IInv

\* IInv is preserved by the commit of Unprepare.
LEMMA CommitUnprepareStep ==
  ASSUME IInv, CommitUnprepare
  PROVE  IInv'
<1>1. VfioTypeOK'
  BY DEF IInv, VfioTypeOK, Stages, PodStates, CommitUnprepare, Gone, diskVars,
     Return, memoryVars, Begin
<1>2. CallHasClaim'
  BY DEF IInv, CallHasClaim, CommitUnprepare, Return, Begin
<1>3. HomeIsAmdgpu' /\ EntriesAgree'
  BY DEF IInv, HomeIsAmdgpu, EntriesAgree, CommitUnprepare, memoryVars
<1>4. ConversionsOnRecord'
  BY DEF IInv, ConversionsOnRecord, CommitUnprepare, diskVars, memoryVars
<1>5. RecordsWritten'
  BY DEF IInv, RecordsWritten, CommitUnprepare, diskVars, memoryVars
<1>6. OwnRecords'
  BY DEF IInv, OwnRecords, CommitUnprepare, Return, Begin
<1>7. RecordsAtHome'
  BY DEF IInv, RecordsAtHome, ReleaseStages, CommitUnprepare, Return, Begin
<1> QED
  BY <1>1, <1>2, <1>3, <1>4, <1>5, <1>6, <1>7 DEF IInv

\* IInv is preserved by a kill and the restart after it.
LEMMA CrashStep ==
  ASSUME IInv, Crash
  PROVE  IInv'
<1>1. VfioTypeOK'
  BY RestartFacts DEF IInv, VfioTypeOK, Stages
<1>2. CallHasClaim'
  BY RestartFacts DEF IInv, CallHasClaim
<1>3. HomeIsAmdgpu'
  BY RestartFacts DEF IInv, HomeIsAmdgpu
<1>4. EntriesAgree'
  BY RestartFacts DEF IInv, EntriesAgree
<1>5. ConversionsOnRecord'
  BY RestartFacts DEF IInv, ConversionsOnRecord, Device
<1>6. RecordsWritten'
  BY RestartFacts DEF IInv, RecordsWritten
<1>7. OwnRecords'
  BY RestartFacts DEF IInv, OwnRecords
<1>8. RecordsAtHome'
  BY RestartFacts DEF IInv, RecordsAtHome, ReleaseStages
<1> QED
  BY <1>1, <1>2, <1>3, <1>4, <1>5, <1>6, <1>7, <1>8 DEF IInv

\* IInv is preserved by the arrival of a pod.
LEMMA PodArrivesStep ==
  ASSUME IInv, NEW c \in Claim, PodArrives(c)
  PROVE  IInv'
<1>1. VfioTypeOK'
  BY DEF IInv, VfioTypeOK, PodStates, PodArrives, memoryVars, diskVars,
     rpcVars
<1>2. CallHasClaim'
  BY DEF IInv, CallHasClaim, PodArrives, rpcVars
<1>3. HomeIsAmdgpu' /\ EntriesAgree'
  BY DEF IInv, HomeIsAmdgpu, EntriesAgree, PodArrives, memoryVars
<1>4. ConversionsOnRecord'
  BY DEF IInv, ConversionsOnRecord, PodArrives, memoryVars, diskVars
<1>5. RecordsWritten'
  BY DEF IInv, RecordsWritten, PodArrives, memoryVars, diskVars, rpcVars
<1>6. OwnRecords'
  BY DEF IInv, OwnRecords, ConvertedFor, PodArrives, memoryVars, rpcVars
<1>7. RecordsAtHome'
  BY DEF IInv, RecordsAtHome, ConvertedFor, PodArrives, memoryVars, rpcVars
<1> QED
  BY <1>1, <1>2, <1>3, <1>4, <1>5, <1>6, <1>7 DEF IInv

\* IInv is preserved by the deletion of a pod.
LEMMA PodDeletedStep ==
  ASSUME IInv, NEW c \in Claim, PodDeleted(c)
  PROVE  IInv'
<1>1. VfioTypeOK'
  BY DEF IInv, VfioTypeOK, PodStates, PodDeleted, memoryVars, diskVars,
     rpcVars
<1>2. CallHasClaim'
  BY DEF IInv, CallHasClaim, PodDeleted, rpcVars
<1>3. HomeIsAmdgpu' /\ EntriesAgree'
  BY DEF IInv, HomeIsAmdgpu, EntriesAgree, PodDeleted, memoryVars
<1>4. ConversionsOnRecord'
  BY DEF IInv, ConversionsOnRecord, PodDeleted, memoryVars, diskVars
<1>5. RecordsWritten'
  BY DEF IInv, RecordsWritten, PodDeleted, memoryVars, diskVars, rpcVars
<1>6. OwnRecords'
  BY DEF IInv, OwnRecords, ConvertedFor, PodDeleted, memoryVars, rpcVars
<1>7. RecordsAtHome'
  BY DEF IInv, RecordsAtHome, ConvertedFor, PodDeleted, memoryVars, rpcVars
<1> QED
  BY <1>1, <1>2, <1>3, <1>4, <1>5, <1>6, <1>7 DEF IInv

\* IInv is preserved by a pod removed by force.
LEMMA PodForcedStep ==
  ASSUME IInv, NEW c \in Claim, PodForced(c)
  PROVE  IInv'
<1>1. VfioTypeOK'
  BY DEF IInv, VfioTypeOK, PodStates, PodForced, memoryVars, diskVars, rpcVars
<1>2. CallHasClaim'
  BY DEF IInv, CallHasClaim, PodForced, rpcVars
<1>3. HomeIsAmdgpu' /\ EntriesAgree'
  BY DEF IInv, HomeIsAmdgpu, EntriesAgree, PodForced, memoryVars
<1>4. ConversionsOnRecord'
  BY DEF IInv, ConversionsOnRecord, PodForced, memoryVars, diskVars
<1>5. RecordsWritten'
  BY DEF IInv, RecordsWritten, PodForced, memoryVars, diskVars, rpcVars
<1>6. OwnRecords'
  BY DEF IInv, OwnRecords, ConvertedFor, PodForced, memoryVars, rpcVars
<1>7. RecordsAtHome'
  BY DEF IInv, RecordsAtHome, ConvertedFor, PodForced, memoryVars, rpcVars
<1> QED
  BY <1>1, <1>2, <1>3, <1>4, <1>5, <1>6, <1>7 DEF IInv

-----------------------------------------------------------------------------
(* The theorems. *)

\* At node boot every GPU is on amdgpu and nothing is converted.
LEMMA InitIInv == VfioInit => IInv
<1> SUFFICES ASSUME VfioInit PROVE IInv
  OBVIOUS
<1>1. \A d \in Device : /\ BootDriver(d) \in Drivers
                        /\ d \in Gpu => BootDriver(d) = "amdgpu"
  <2> TAKE d \in Device
  <2>1. CASE d \in Gpu
    BY <2>1, VfioAssumption DEF BootDriver, Drivers
  <2>2. CASE d \in Prebound
    BY <2>2, VfioAssumption DEF BootDriver, Drivers
  <2>3. CASE d \in Vf
    BY <2>3, VfioAssumption DEF BootDriver, Drivers
  <2> QED
    BY <2>1, <2>2, <2>3 DEF Device
<1>2. VfioTypeOK
  BY <1>1 DEF VfioInit, VfioTypeOK, Stages, PodStates
<1>3. CallHasClaim /\ OwnRecords /\ RecordsWritten
  BY DEF VfioInit, CallHasClaim, OwnRecords, RecordsWritten
<1>4. HomeIsAmdgpu /\ ConversionsOnRecord /\ RecordsAtHome
  BY <1>1 DEF VfioInit, HomeIsAmdgpu, ConversionsOnRecord, RecordsAtHome, Device
<1>5. EntriesAgree
  BY <1>1 DEF VfioInit, EntriesAgree, Device
<1> QED
  BY <1>2, <1>3, <1>4, <1>5 DEF IInv

\* A step that changes nothing preserves IInv.
LEMMA StutterStep ==
  ASSUME IInv, UNCHANGED vfioVars
  PROVE  IInv'
<1>1. /\ VfioTypeOK' /\ CallHasClaim' /\ HomeIsAmdgpu' /\ EntriesAgree'
      /\ ConversionsOnRecord' /\ RecordsWritten'
  BY DEF IInv, VfioTypeOK, CallHasClaim, HomeIsAmdgpu, EntriesAgree,
     ConversionsOnRecord, RecordsWritten, vfioVars, memoryVars, diskVars, rpcVars
<1>2. OwnRecords' /\ RecordsAtHome'
  BY DEF IInv, OwnRecords, RecordsAtHome, ConvertedFor,
     vfioVars, memoryVars, diskVars, rpcVars
<1> QED
  BY <1>1, <1>2 DEF IInv

\* Every step preserves IInv.
LEMMA NextIInv == IInv /\ [VfioNext]_vfioVars => IInv'
<1> SUFFICES ASSUME IInv, [VfioNext]_vfioVars PROVE IInv'
  OBVIOUS
<1>1. ASSUME NEW c \in Claim, Kubelet(c) PROVE IInv'
  BY <1>1, PrepareCachedStep, PrepareStartStep, UnprepareUnknownStep, UnprepareStartStep
     DEF Kubelet
<1>2. ASSUME NEW c \in Claim, PodArrives(c) \/ PodDeleted(c) \/ PodForced(c) PROVE IInv'
  BY <1>2, PodArrivesStep, PodDeletedStep, PodForcedStep
<1>3. ASSUME NEW d \in Device, ReleaseVfio(d) \/ Configure(d) \/ UnprepareDevice(d)
      PROVE  IInv'
  BY <1>3, ReleaseVfioStep, ConfigureStep, UnprepareDeviceStep
<1>4. CASE Running
  BY <1>3, <1>4, ReleaseVfioDoneStep, ConvertStep, SaveIntentStep, ConfigureDoneStep,
     CreateClaimSpecFileStep, CommitPrepareStep, ReplyPreparedStep,
     PersistAfterFailureStep, UnstrandWriteStep, UnprepareDevicesDoneStep,
     PartialWriteStep, DeleteClaimSpecFileStep, CommitUnprepareStep
     DEF Running
<1>5. CASE Crash
  BY <1>5, CrashStep
<1>6. CASE UNCHANGED vfioVars
  BY <1>6, StutterStep
<1> QED
  BY <1>1, <1>2, <1>4, <1>5, <1>6 DEF VfioNext

\* IInv holds in every reachable state, for any devices, claims and faults.
THEOREM VfioInvariant == VfioSpec => []IInv
<1>1. VfioInit => IInv
  BY InitIInv
<1>2. IInv /\ [VfioNext]_vfioVars => IInv'
  BY NextIInv
<1> QED
  BY <1>1, <1>2, PTL DEF VfioSpec

\* Every variable keeps its type.
THEOREM VfioTypeCorrect == VfioSpec => []VfioTypeOK
<1>1. IInv => VfioTypeOK
  BY DEF IInv
<1> QED
  BY <1>1, VfioInvariant, PTL

\* Whatever fails and whenever the process is killed, a GPU that has left
\* amdgpu is on record in memory and in the checkpoint: the order in which
\* Prepare, Unprepare, the rollbacks and the recovery convert, write, rebind
\* and restore never leaves a GPU nobody would return.
THEOREM OffAmdgpuOnRecord == VfioSpec => []ConversionsOnRecord
<1>1. IInv => ConversionsOnRecord
  BY DEF IInv
<1> QED
  BY <1>1, VfioInvariant, PTL

=============================================================================

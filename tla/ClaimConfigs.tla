----------------------------- MODULE ClaimConfigs -----------------------------
(***************************************************************************)
(* The opaque configurations of a claim on their way from the user to the  *)
(* device: the webhook admits the claim's own ones, the scheduler assigns  *)
(* devices and adds those of the device class, and Prepare orders them,    *)
(* picks one for each result and applies it.  A VfioDeviceConfig turns a   *)
(* GPU into a VFIO device and selects its IOMMU backend from what the host *)
(* has at that moment.                                                     *)
(*                                                                         *)
(* Prepare and Unprepare run under the state lock and are one step each.   *)
(* Rebinds succeed here; VfioConversions is about those that fail.         *)
(* Results of other drivers, which Prepare skips, are left out.            *)
(***************************************************************************)
EXTENDS ResourceSlices

CONSTANTS
    Claim,
    requests,       \* claim -> the requests it makes
    refs,           \* request -> what a result may name: the request itself or,
                    \*   if it lists alternatives, one of its subrequests
    ownChoices,     \* claim -> lists of configurations its user may attach
    classChoices,   \* claim -> lists its device classes may attach
    Hosts           \* what a host may expose

Request == DOMAIN refs
Ref == UNION {refs[r] : r \in Request}

Policy == {"unset", "LegacyOnly", "PreferIommuFD", "RequireIommuFD", "misspelt"}

\* "unknown": an object of the driver's API group that is no configuration;
\* "broken": parameters that do not decode; "foreign": for another driver;
\* "future": not opaque.
Config == [kind : {"gpu", "vfio", "unknown", "broken", "foreign", "future"},
           policy : Policy, requests : SUBSET (Request \cup Ref)]

DefaultGpuConfig == [kind |-> "gpu", policy |-> "unset", requests |-> {}]

\* iommu: /dev/iommu; control: /dev/vfio/vfio; cdevs, groups: the devices whose
\* node exists once they are bound to vfio-pci.
Host == [iommu : BOOLEAN, control : BOOLEAN, cdevs : SUBSET Device, groups : SUBSET Device]

ASSUME ConfigsAssumption ==
    /\ IsFiniteSet(Claim) /\ IsFiniteSet(Request)
    /\ requests \in [Claim -> SUBSET Request]
    /\ \A r \in Request : r \notin Ref \/ refs[r] = {r}
    /\ \A c \in Claim : ownChoices[c] \subseteq Seq(Config) /\ classChoices[c] \subseteq Seq(Config)
    /\ Hosts \subseteq Host

VARIABLES
    autoPartition, vfioPassthrough,     \* feature gates
    webhook,            \* the webhook is installed
    vfioManager,        \* the VFIO manager came up
    iommuFDEnabled,     \* it found /dev/iommu
    host,
    allocatable,        \* name -> kind of its entry, "none" if it has none
    pool,               \* the published slices
    stage, own, class,
    results,            \* claim -> request -> reference and device
    prepared,           \* claim -> request -> configuration, device and its nodes
    failure             \* claim -> why its last Prepare failed

nodeVars == <<autoPartition, vfioPassthrough, webhook, vfioManager, iommuFDEnabled, pool>>
claimVars == <<stage, own, class, results, prepared, failure>>
configsVars == <<nodeVars, host, allocatable, claimVars>>

None == <<>>
Node == {"render", "cdev", "group", "control", "iommu"}
Failures == {"none", "decode", "unrecognized", "policy", "manager", "backend"}

ConfigsTypeOK ==
    /\ {autoPartition, vfioPassthrough, webhook, vfioManager, iommuFDEnabled} \subseteq BOOLEAN
    /\ host \in Hosts
    /\ allocatable \in [Device -> Kind \cup {"none"}]
    /\ stage \in [Claim -> {"new", "refused", "pending", "allocated", "prepared", "done"}]
    /\ \A c \in Claim :
        /\ own[c] \in ownChoices[c] \cup {None} /\ class[c] \in classChoices[c] \cup {None}
        /\ \A r \in DOMAIN results[c] : results[c][r] \in [ref : refs[r], device : Device]
        /\ DOMAIN prepared[c] \subseteq DOMAIN results[c]
        /\ \A r \in DOMAIN prepared[c] :
            /\ prepared[c][r].config \in Config /\ prepared[c][r].device = results[c][r].device
            /\ prepared[c][r].nodes \subseteq Node
    /\ failure \in [Claim -> Failures]

\* NewDeviceState and NewDriver: GPUs are listed as synthetic devices or as
\* themselves, VFIO devices only with the gate and a manager.
Listed(auto, vfio) ==
    {d \in Device : /\ kind[d] = "synthetic" => auto
                    /\ kind[d] = "partition" => ~auto
                    /\ kind[d] = "gpu" /\ auto =>
                        ~\E e \in Device : kind[e] = "synthetic" /\ gpuOf[e] = gpuOf[d]
                    /\ kind[d] = "vfio" => vfio}

ConfigsInit ==
    /\ autoPartition \in BOOLEAN /\ vfioPassthrough \in BOOLEAN /\ webhook \in BOOLEAN
    /\ \E iommuOn \in BOOLEAN : vfioManager = (vfioPassthrough /\ iommuOn)
    /\ host \in Hosts
    /\ iommuFDEnabled = (vfioManager /\ host.iommu)
    /\ LET listed == Listed(autoPartition, vfioManager) IN
        /\ allocatable = [d \in Device |-> IF d \in listed THEN kind[d] ELSE "none"]
        /\ pool = PublishedSlices(autoPartition, listed)
    /\ stage = [c \in Claim |-> "new"]
    /\ own = [c \in Claim |-> None] /\ class = [c \in Claim |-> None]
    /\ results = [c \in Claim |-> None] /\ prepared = [c \in Claim |-> None]
    /\ failure = [c \in Claim |-> "none"]

-----------------------------------------------------------------------------
(* Admission and scheduling. *)

\* Mutant: the webhook takes whatever decodes.
Admitted_Decoded(configs) == \A i \in DOMAIN configs : configs[i].kind # "broken"

\* admitResourceClaimParameters: configurations of other drivers are not its
\* business, nor are those of the device classes, which it never sees.
Admitted(configs) == \A i \in DOMAIN configs : configs[i].kind \in {"foreign", "future", "gpu"}

Submit(c) ==
    /\ stage[c] = "new"
    /\ \E configs \in ownChoices[c] :
        \/ /\ webhook => Admitted(configs)
           /\ own' = [own EXCEPT ![c] = configs]
           /\ stage' = [stage EXCEPT ![c] = "pending"]
        \/ /\ webhook /\ ~Admitted(configs)
           /\ stage' = [stage EXCEPT ![c] = "refused"]
           /\ UNCHANGED own
    /\ UNCHANGED <<nodeVars, host, allocatable, class, results, prepared, failure>>

Assignment(res) == [cr \in UNION {{c} \X DOMAIN res[c] : c \in Claim} |-> res[cr[1]][cr[2]].device]

Allocate(c) ==
    /\ stage[c] = "pending"
    /\ class' \in {[class EXCEPT ![c] = configs] : configs \in classChoices[c]}
    /\ \E devices \in [requests[c] -> Device], named \in [requests[c] -> Ref] :
        /\ \A r \in requests[c] : named[r] \in refs[r]
        /\ results' = [results EXCEPT ![c] =
                [r \in requests[c] |-> [ref |-> named[r], device |-> devices[r]]]]
        /\ Schedulable(pool, Assignment(results'))
    /\ stage' = [stage EXCEPT ![c] = "allocated"]
    /\ UNCHANGED <<nodeVars, host, allocatable, own, prepared, failure>>

-----------------------------------------------------------------------------
(* Prepare. *)

\* GetOpaqueDeviceConfigs, then the default in front: lowest precedence first.
Decodes(configs) == \A i \in DOMAIN configs : configs[i].kind \notin {"broken", "future"}

\* Mutant: the claim's configurations before those of its classes.
OrderedConfigs_OwnFirst(c) == <<DefaultGpuConfig>> \o own[c] \o class[c]

OrderedConfigs(c) == <<DefaultGpuConfig>> \o class[c] \o own[c]

\* A configuration that Prepare does not pass over for this result.  Those of
\* other drivers are left in the list, where the code drops them beforehand.
Takes(config, ref, d) ==
    /\ config.kind # "foreign"
    /\ config.requests = {} \/ ref \in config.requests
    /\ config.kind = "vfio" => vfioPassthrough /\ allocatable[d] \in {"gpu", "vfio"}
    /\ config.kind = "gpu" => allocatable[d] # "vfio"

\* The search from the highest precedence down; 0 when every one is passed over.
ChosenIndex(configs, result) ==
    Max({0} \cup {i \in DOMAIN configs : Takes(configs[i], result.ref, result.device)})

\* UseIommuFD.
UseIommuFD(d, policy) ==
    /\ policy \in {"PreferIommuFD", "RequireIommuFD"}
    /\ iommuFDEnabled /\ host.iommu /\ d \in host.cdevs

\* Mutant: a required backend is only preferred.
BackendFails_Never(d, policy) == FALSE

BackendFails(d, policy) == policy = "RequireIommuFD" /\ ~UseIommuFD(d, policy)

\* GetVfioDeviceCDIEdits and GetVfioCommonCDIEdits.
DeviceNodes(useIommuFD) == {IF useIommuFD THEN "cdev" ELSE "group"}
CommonNodes(useIommuFD) ==
    IF useIommuFD THEN {"iommu"} \cup (IF host.control THEN {"control"} ELSE {}) ELSE {"control"}
NodesExist(d, useIommuFD) == useIommuFD \/ (d \in host.groups /\ host.control)

VfioNodes(d, policy) ==
    DeviceNodes(UseIommuFD(d, policy)) \cup CommonNodes(UseIommuFD(d, policy))

ApplyFailures(config, d) ==
    CASE config.kind = "gpu" -> {}
      [] config.kind = "unknown" -> {"unrecognized"}
      [] config.kind = "vfio" ->
            {f \in Failures :
                \/ f = "policy" /\ config.policy = "misspelt"
                \/ f = "manager" /\ ~vfioManager
                \/ f = "backend" /\ vfioManager /\
                    (\/ BackendFails(d, config.policy)
                     \/ ~NodesExist(d, UseIommuFD(d, config.policy)))}

Chosen(c) ==
    LET configs == OrderedConfigs(c)
        index == [r \in DOMAIN results[c] |-> ChosenIndex(configs, results[c][r])]
    IN [r \in {q \in DOMAIN index : index[q] # 0} |-> configs[index[r]]]

PrepareFailures(c) ==
    IF ~Decodes(class[c] \o own[c]) THEN {"decode"}
    ELSE UNION {ApplyFailures(Chosen(c)[r], results[c][r].device) : r \in DOMAIN Chosen(c)}

\* A failed Prepare undoes its conversions before it returns.
Convert(c, on) ==
    LET converted == {results[c][r].device : r \in {q \in DOMAIN on : on[q].kind = "vfio"}}
    IN allocatable' = [d \in Device |-> IF d \in converted THEN "vfio" ELSE allocatable[d]]

\* Mutant: it returns without.
PrepareFails_NoRollback(c) ==
    /\ stage[c] = "allocated"
    /\ \E f \in PrepareFailures(c) : failure' = [failure EXCEPT ![c] = f]
    /\ Convert(c, Chosen(c))
    /\ UNCHANGED <<nodeVars, host, stage, own, class, results, prepared>>

PrepareFails(c) ==
    /\ stage[c] = "allocated"
    /\ \E f \in PrepareFailures(c) : failure' = [failure EXCEPT ![c] = f]
    /\ Convert(c, None)
    /\ UNCHANGED <<nodeVars, host, stage, own, class, results, prepared>>

Prepare(c) ==
    /\ stage[c] = "allocated"
    /\ PrepareFailures(c) = {}
    /\ Convert(c, Chosen(c))
    /\ prepared' = [prepared EXCEPT ![c] =
            [r \in DOMAIN Chosen(c) |->
                LET config == Chosen(c)[r] d == results[c][r].device IN
                [config |-> config, device |-> d,
                 nodes |-> IF config.kind = "vfio" THEN VfioNodes(d, config.policy) ELSE {"render"}]]]
    /\ stage' = [stage EXCEPT ![c] = "prepared"]
    /\ failure' = [failure EXCEPT ![c] = "none"]
    /\ UNCHANGED <<nodeVars, host, own, class, results>>

\* Mutant: the claim stays on record as prepared.
Unprepare_Recorded(c) ==
    /\ stage[c] \in {"allocated", "prepared"}
    /\ stage' = [stage EXCEPT ![c] = "done"]
    /\ results' = [results EXCEPT ![c] = None]
    /\ UNCHANGED <<nodeVars, host, allocatable, own, class, prepared, failure>>

\* The kubelet unprepares what it prepared, and a claim it could not prepare.
Unprepare(c) ==
    /\ stage[c] \in {"allocated", "prepared"}
    /\ allocatable' = [d \in Device |->
            IF \E r \in DOMAIN prepared[c] : prepared[c][r].device = d /\ allocatable[d] = "vfio"
            THEN kind[d] ELSE allocatable[d]]
    /\ stage' = [stage EXCEPT ![c] = "done"]
    /\ prepared' = [prepared EXCEPT ![c] = None]
    /\ results' = [results EXCEPT ![c] = None]
    /\ own' = [own EXCEPT ![c] = None] /\ class' = [class EXCEPT ![c] = None]
    /\ failure' = [failure EXCEPT ![c] = "none"]
    /\ UNCHANGED <<nodeVars, host>>

\* udev creates a node, an administrator loads a module.
HostChanges ==
    /\ host' \in Hosts \ {host}
    /\ UNCHANGED <<nodeVars, allocatable, claimVars>>

ConfigsNext ==
    \/ \E c \in Claim :
        Submit(c) \/ Allocate(c) \/ PrepareFails(c) \/ Prepare(c) \/ Unprepare(c)
    \/ HostChanges

ConfigsSpec == ConfigsInit /\ [][ConfigsNext]_configsVars

-----------------------------------------------------------------------------
(* Properties. *)

\* The configurations that reach a claim, by precedence: the driver's default,
\* those of the device classes, then those of the claim, later ones first.
Attached(c) ==
    LET lists == <<<<DefaultGpuConfig>>, class[c], own[c]>>
    IN [p \in UNION {{i} \X DOMAIN lists[i] : i \in 1 .. 3} |-> lists[p[1]][p[2]]]

Precedes(p, q) == p[1] < q[1] \/ (p[1] = q[1] /\ p[2] < q[2])

\* The API's rule: a configuration names the request or one of its subrequests.
Names(config, r, ref) == config.requests = {} \/ {r, ref} \cap config.requests # {}

\* A GPU takes either kind of configuration, the others one.
Fits(config, d) ==
    \/ config.kind = "gpu" /\ kind[d] # "vfio"
    \/ config.kind = "vfio" /\ kind[d] \in {"gpu", "vfio"} /\ vfioPassthrough

\* Of the configurations that name a request and fit its device, the one of the
\* highest precedence takes effect on a prepared device, and a device is left
\* without one, and out of the claim, only when there is none.
EffectiveConfig ==
    \A c \in Claim : stage[c] = "prepared" =>
        \A r \in requests[c] :
            LET result == results[c][r]
                candidates == {p \in DOMAIN Attached(c) :
                    Names(Attached(c)[p], r, result.ref) /\ Fits(Attached(c)[p], result.device)}
            IN /\ r \in DOMAIN prepared[c] <=> candidates # {}
               /\ \A p \in candidates : (\A q \in candidates \ {p} : Precedes(q, p)) =>
                    prepared[c][r].config = Attached(c)[p]

\* A GPU is a VFIO device exactly while a claim holds it that asked for it in a
\* VfioDeviceConfig: neither the default, nor a Prepare that failed on another
\* device, nor a claim that is gone leaves one converted.
ConvertedForItsClaim ==
    \A d \in Device : kind[d] = "gpu" =>
        (allocatable[d] = "vfio" <=>
            \E c \in Claim : \E r \in DOMAIN prepared[c] :
                prepared[c][r].device = d /\ prepared[c][r].config.kind = "vfio")

\* A claim that requires IOMMUFD never runs with the group node, which opens
\* every function of the IOMMU group; a legacy one gets no IOMMUFD node; and no
\* device comes with the nodes of both backends.
BackendAsAsked ==
    \A c \in Claim : \A r \in DOMAIN prepared[c] :
        LET p == prepared[c][r] IN p.config.kind = "vfio" =>
            /\ "group" \in p.nodes => p.nodes \cap {"cdev", "iommu"} = {} /\ "control" \in p.nodes
            /\ "cdev" \in p.nodes <=> "iommu" \in p.nodes
            /\ p.config.policy = "RequireIommuFD" => "group" \notin p.nodes
            /\ p.config.policy \in {"unset", "LegacyOnly"} => "cdev" \notin p.nodes

\* What the webhook lets through, Prepare does not refuse for what it says: such
\* a failure is the doing of the device class or of a newer API.
AdmittedIsAccepted ==
    \A c \in Claim : webhook /\ failure[c] \in {"decode", "unrecognized", "policy"} =>
        \/ \E i \in DOMAIN class[c] :
            class[c][i].kind \in {"broken", "unknown", "future"} \/ class[c][i].policy = "misspelt"
        \/ \E i \in DOMAIN own[c] : own[c][i].kind = "future"

\* The slices hold every listed device once, by name, and the counter of every
\* GPU a device consumes once; none is over its limit or mixes the two.
DevicePlaces == UNION {{i} \X DOMAIN pool[i].devices : i \in DOMAIN pool}
CounterPlaces == UNION {{i} \X DOMAIN pool[i].counters : i \in DOMAIN pool}
NameAt(p) == pool[p[1]].devices[p[2]].name
CounterAt(p) == pool[p[1]].counters[p[2]]

SlicesComplete ==
    /\ {NameAt(p) : p \in DevicePlaces} = Listed(autoPartition, vfioManager)
    /\ \A p, q \in DevicePlaces : Precedes(p, q) => nameOrder[NameAt(p)] < nameOrder[NameAt(q)]
    /\ \A p, q \in CounterPlaces : CounterAt(p) = CounterAt(q) => p = q
    /\ {CounterAt(p) : p \in CounterPlaces} = UNION {v.consumes : v \in DevicesIn(pool)}
    /\ \A i \in DOMAIN pool :
        /\ pool[i].devices = <<>> \/ pool[i].counters = <<>>
        /\ autoPartition => Len(pool[i].devices) <= DeviceLimit
        /\ Len(pool[i].counters) <= SetLimit

\* Whatever the scheduler does within the published counters and capacities, the
\* claims of a GPU use one mode, and no more of its partitions than it has.
OneModePerGpu ==
    LET held == Assignment(results) IN
    \A x, y \in DOMAIN held : kind[held[x]] = "synthetic" =>
        /\ kind[held[y]] = "synthetic" /\ gpuOf[held[x]] = gpuOf[held[y]] => held[x] = held[y]
        /\ Cardinality({z \in DOMAIN held : held[z] = held[x]}) <= partitions[held[x]]

=============================================================================

SPECIFICATION ConfigsSpec
CONSTANTS
    dpx0 = dpx0
    spx0 = spx0
    cpx1 = cpx1
    gpu0 = gpu0
    part0 = part0
    gpu2 = gpu2
    vf0 = vf0
    k1 = k1
    k2 = k2
    r1 = r1
    r2 = r2
    Claim = {k1, k2}
    alternatives = {r1}
    Device <- MCDevice
    kind <- MCKind
    gpuOf <- MCGpuOf
    partitions <- MCPartitions
    nameOrder <- MCNameOrder
    DeviceLimit = 2
    SetLimit = 1
    requests <- MCRequests
    refs <- MCRefs
    ownChoices <- MCOwnChoices
    classChoices <- MCClassChoices
    Hosts <- MCHosts
INVARIANTS
    ConfigsTypeOK
    EffectiveConfig
    ConvertedForItsClaim
    
    AdmittedIsAccepted
    SlicesComplete
    OneModePerGpu

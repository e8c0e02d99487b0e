SPECIFICATION FairDeviceSpec
CONSTANTS
    NoMode = NoMode
    NoClaim = NoClaim
    g0 = g0
    g1 = g1
    c1 = c1
    c2 = c2
    c3 = c3
    c4 = c4
    spx = spx
    cpx = cpx
    nps1 = nps1
    nps4 = nps4
    Claim = {c1, c2}
    Gpu <- MCGpu
    Share <- MCShare
    ComputeMode <- MCComputeMode
    MemoryMode <- MCMemoryMode
    claimOf <- MCClaimOf
    gpuOf <- MCGpuOf
    computeOf <- MCComputeOf
    memoryOf <- MCMemoryOf
    positionalOf <- MCPositionalOf
    keyOrder <- MCKeyOrder
    partitions <- MCPartitions
    Kmm = TRUE
    WholeGpu = spx
    DefaultMemory = nps1
    Faults = {"crash", "deadline", "delete", "reuse"}
PROPERTIES
    PendingResolves
    TerminationResolves

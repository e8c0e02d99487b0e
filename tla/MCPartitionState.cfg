SPECIFICATION Spec
CONSTANTS
    NoMode = NoMode
    NoClaim = NoClaim
    g0 = g0
    g1 = g1
    c1 = c1
    c2 = c2
    c3 = c3
    spx = spx
    cpx = cpx
    nps1 = nps1
    nps4 = nps4
    Gpu <- MCGpu
    Claim <- MCClaim
    Share <- MCShare
    ComputeMode <- MCComputeMode
    MemoryMode <- MCMemoryMode
    claimOf <- MCClaimOf
    gpuOf <- MCGpuOf
    computeOf <- MCComputeOf
    memoryOf <- MCMemoryOf
    partitions <- MCPartitions
INVARIANTS
    TypeOK
    SlotsExclusive
    SlotWithinPartitions
    CountsExact
    LocksMatchHolders
    ReservationsWhole
PROPERTIES
    SlotsNeverMove
    ImplementsLease

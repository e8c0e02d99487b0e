SPECIFICATION FairVfioSpec
CONSTANTS
    NoClaim = NoClaim
    ca = ca
    cb = cb
    cc = cc
    ce = ce
    g0 = g0
    g1 = g1
    p0 = p0
    v0 = v0
    Claim = {ca, cb, cc}
    Gpu = {g0, g1}
    Prebound = {p0}
    Vf = {}
    devicesOf <- MCDevicesOf
    vfioOf <- MCVfioOf
    Faults = {"checkpoint", "cdi", "configure", "config", "unconfigure", "manager", "crash", "delete"}
INVARIANTS
    RunningBound
PROPERTIES
    TerminationResolves

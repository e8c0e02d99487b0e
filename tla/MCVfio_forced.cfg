SPECIFICATION VfioSpec
CONSTANTS
    NoClaim = NoClaim
    ca = ca
    cb = cb
    cc = cc
    ce = ce
    g0 = g0
    g1 = g1
    p0 = p0
    v0 = v0
    Claim = {ca, cc, ce}
    Gpu = {g0, g1}
    Prebound = {p0}
    Vf = {v0}
    devicesOf <- MCDevicesOf
    vfioOf <- MCVfioOf
    Faults = {"checkpoint", "cdi", "configure", "config", "unconfigure", "manager", "crash", "delete", "force"}
INVARIANTS
    VfioTypeOK
    ConversionsOnRecord
    
    

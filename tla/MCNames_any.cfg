SPECIFICATION NamesSpec
CONSTANTS
    NoFunction = NoFunction
    NoMinor = NoMinor
    NoName = NoName
    EarlyStart = TRUE
    k1 = k1
    k2 = k2
    k3 = k3
    k4 = k4
    k5 = k5
    Claim = {k1, k2, k3, k5}
    Gpu = {1, 2}
    Prebound = {0}
    Vf = {3}
    partitionable = {1}
    preboundOrder = 4
    xcpOf <- MCXcpOf
    iommuOrder <- MCIommuOrder
    wants <- MCWants
PROPERTIES RunningUndisturbed
INVARIANTS
    NamesTypeOK
    OneEntryPerFunction
    RecordsResolve

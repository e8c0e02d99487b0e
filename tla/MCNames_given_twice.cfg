SPECIFICATION NamesSpec
CONSTANTS
    NoFunction = NoFunction
    NoMinor = NoMinor
    NoName = NoName
    EarlyStart = FALSE
    k1 = k1
    k2 = k2
    k3 = k3
    k4 = k4
    k5 = k5
    Claim = {k1, k2, k4}
    Gpu = {1, 2}
    Prebound = {}
    Vf = {}
    partitionable = {1}
    preboundOrder = 0
    xcpOf <- MCXcpOf
    iommuOrder <- MCIommuOrder
    wants <- MCWants
INVARIANTS
    GivenOnce

SPECIFICATION PoolSpec
CONSTANTS
    Bpages <- ThreeBpages
    Bpage0 = b0
    BpageSize = 3
    Cores <- TwoCores
    Rpcs <- ThreeRpcs
    MsgLen <- Uneven
    Recycle = TRUE
    NoRpc = none
    none = none
    b0 = b0
    b1 = b1
    b2 = b2
    c1 = c1
    c2 = c2
    r1 = r1
    r2 = r2
    r3 = r3
INVARIANTS FreeCountExact

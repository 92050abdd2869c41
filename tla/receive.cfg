SPECIFICATION ReceiveSpec
CONSTANTS
    Packets <- AnyRange
    Length = 5
    Unsched = 2
    MaxSkbs = 2
    RegionFirst = FALSE
    Bpages <- TwoBpages
    Bpage0 = b0
    BpageSize = 3
    Cores <- TwoCores
    Rpcs <- ThreeRpcs
    NoRpc = none
    MsgLen <- Uneven
    Recycle = FALSE
    t1 = t1
    t2 = t2
    a = a
    p = p
    s = s
    b0 = b0
    b1 = b1
    c1 = c1
    c2 = c2
    r1 = r1
    r2 = r2
    r3 = r3
    none = none
INVARIANTS
    ArrivalsExact KeptOnce RetransExact PacketsAttended DistinctBytes
    BpageRefsExact ClaimsCovered Attended RpcRefsExact
PROPERTIES ImplementsAssembly ReturnedOnce
SYMMETRY Symmetry

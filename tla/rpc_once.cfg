SPECIFICATION Spec
CONSTANTS
    Rpcs = {1, 2}
    Configs <- OnceConfigs
    Ticks = 4
    MaxAcks = 1
    MaxExec = 2
INVARIANT AtMostOnce
CHECK_DEADLOCK FALSE

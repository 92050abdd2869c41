SPECIFICATION Spec
CONSTANTS
    Rpcs = {1, 2}
    Configs <- MCConfigs
    Ticks = 4
    MaxAcks = 1
    MaxExec = 2
INVARIANTS ResponseKept AckOnlyWhenDone OnceWhilePending
CHECK_DEADLOCK FALSE

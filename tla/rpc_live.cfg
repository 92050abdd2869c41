SPECIFICATION FairSpec
CONSTANTS
    Rpcs = {1}
    Configs <- LiveConfigs
    Ticks = 4
    MaxAcks = 1
    MaxExec = 2
PROPERTIES CallCompletes ServerForgets
CHECK_DEADLOCK FALSE

SPECIFICATION FairSpec
CONSTANTS
    Cores = {c1}
    Rpcs = {1, 2}
    Peers <- MCPeers
    Sender <- MCSender
    Length <- StallLength
    Unsched = 1
    Configs <- StallConfigs
    MaxCand = 2
    NoRpc = NoRpc
PROPERTY GrantedInTheEnd
CHECK_DEADLOCK FALSE

SPECIFICATION FairSpec
CONSTANTS
    Senders = {"a", "b"}
    Clients = {1, 2}
    Servers = {3}
    Packets = 2
    Sndbuf = 2
    SendConfigs <- WaitingSenders
PROPERTY SenderWoken
CHECK_DEADLOCK FALSE

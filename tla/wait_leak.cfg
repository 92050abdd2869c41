SPECIFICATION FairSpec
CONSTANTS
    Threads <- TwoThreads
    Client = {p}
    Private = {p}
    Server <- None
    NumPkts = 1
    MaxSkbs = 1
    Actor = FALSE
    MaxRefs = 4
    NoRpc = none
    NoThread = none
    Events = {"abort"}
    t1 = t1
    t2 = t2
    a = a
    p = p
    none = none
PROPERTIES DeadReaped

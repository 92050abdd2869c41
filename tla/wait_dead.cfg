SPECIFICATION Spec
CONSTANTS
    Threads <- TwoThreads
    Client = {a}
    Private <- None
    Server <- None
    NumPkts = 1
    MaxSkbs = 1
    Actor = FALSE
    MaxRefs = 4
    NoRpc = none
    NoThread = none
    Events = {"scan", "abort", "late_abort"}
    t1 = t1
    t2 = t2
    a = a
    p = p
    none = none
INVARIANTS DeadUnlinked

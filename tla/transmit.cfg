SPECIFICATION TransmitSpec
CONSTANTS
    Rpcs = {1, 2}
    Length <- TwoAndOne
    Unscheduled = 1
    Senders = {"s1", "s2"}
    DeferMin = 0
    MaxQueue = 1
    MaxResent = 1
    FifoFraction = 500
    FifoFull = 1000
    Qdevs = {1, 2, 3}
    Qdiscs = {1, 2}
    Scanners = {3}
INVARIANTS
    SendConsistent SegmentsExact PagesConsistent ThrottledExact
    DeferralConsistent QdevConsistent
CHECK_DEADLOCK FALSE

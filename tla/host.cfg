SPECIFICATION HostSpec
CONSTANTS
    c1 = c1
    c2 = c2
    none = none
    Dsts = {1, 2, 3}
    Senders = {1, 2}
    MaxChanges = 2
INVARIANTS
    GrantStateExact IncomingBound NoneForgotten PeersConsistent DstRefsExact
    SocktabConsistent GroConsistent TraceConsistent LoadConsistent
    MetricsConsistent
PROPERTIES GrantsAdvance
CHECK_DEADLOCK FALSE

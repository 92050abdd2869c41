SPECIFICATION FairSpec
CONSTANTS
    t1 = t1
    t2 = t2
    a = a
    b0 = b0
    b1 = b1
    b2 = b2
    c1 = c1
    r1 = r1
    r2 = r2
    r3 = r3
    none = none
PROPERTIES
    EventuallyReturned WaitersServed ReceiversServed
    SentInTheEnd DeferredSent CutoffsLearned
CHECK_DEADLOCK FALSE

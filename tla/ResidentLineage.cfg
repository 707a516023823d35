CONSTANTS
    s1 = s1
    s2 = s2
    w1 = w1
    w2 = w2
    t1 = t1
    t2 = t2
    NoSoul = NoSoul
    Souls = {s1, s2}
    Worlds = {w1, w2}
    Targets = {t1, t2}
    Feeds <- MCFeeds
    First = 1
    Limit = 2
    DeliveryBound = 4
    BatchBound = 7
    CallBound = 1
    DetachBound = 1
    CandidateBound = 2
    EditBound = 1
    CrashBound = 2
SPECIFICATION MCSpec
SYMMETRY Interchangeable
INVARIANT ConsentChain
INVARIANT Reservations
INVARIANT CarriedForward
 
CHECK_DEADLOCK FALSE

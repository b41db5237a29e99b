SPECIFICATION FairSpec
CONSTANTS
    Cids = {c1, c2}
    Calls = {w1, w2}
    Marks = {m1, m2}
INVARIANTS
    NoDoubleClose
    NoLostWakeup
    MapsAgree
PROPERTIES
    DoneWakesWaiter
    ImplementsDoneSet

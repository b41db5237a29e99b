SPECIFICATION Spec
CONSTANTS
    Users = {u1}
    NoUser = NoUser
    dir = dir
    leaf1 = leaf1
    leaf2 = leaf2
    Cids = {dir, leaf1, leaf2}
    Calls = {a1, a2}
    Jobs = {j1}
    MaxRows = 3
    Earlier <- MCEarlier
    MaxAttempts = 2
    Children <- MCChildren
SYMMETRY Symmetry
INVARIANTS
    PinnedIsHeld
    DeletedIsReleased
    HeldIsBilled
    AttemptsEndClean
CHECK_DEADLOCK FALSE

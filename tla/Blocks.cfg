SPECIFICATION Spec
CONSTANTS
    d1 = d1
    d2 = d2
    f = f
    j1 = j1
    j2 = j2
    Cids = {d1, d2, f}
    Links <- MCLinks
    None = None
    Jobs = {j1, j2}
    Tasks <- MCTasks
    BatchSize = 3
    MaxFaults = 1
INVARIANTS
    ReadyIsStored
    ChildrenKnown
    NamesResolved

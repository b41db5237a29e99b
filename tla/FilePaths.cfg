CONSTANTS
    Cids = {"d", "d0", "e", "f", "g", "k", "t", "u"}
    NormalizeCid <- MCNormalizeCid
    Meta <- MCMeta
    Requests = {1, 2, 3}
    Tasks <- MCTasks
    None = None
    Long = {"g"}
    Failing <- MCFailing
    MaxFaults = 1
    MaxBusy = 2
SPECIFICATION FilesSpec
INVARIANTS
    PinnedIsListed
    SizeIsTotal
    Browsable
CHECK_DEADLOCK FALSE

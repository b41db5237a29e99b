SPECIFICATION DownloaderSpec
CONSTANTS
    d = d
    e = e
    x = x
    y = y
    z = z
    BlockCids = {d, e, x, y, z}
    Links <- MCLinks
    Missing = {z}
    None = None
    Workers = {w1, w2}
    Getters = {g1, g2}
    MaxRelated = 2
    MaxFaults = 1
INVARIANTS
    InflightIsOwned
PROPERTIES
    ForegroundFirst
    GetsEnd
CHECK_DEADLOCK FALSE

SPECIFICATION IpnsSpec
CONSTANTS
    Keys = {k1}
    CIDs = {c1, c2}
    Names = {n1}
    None = None
    Pubs = {p1, p2}
    Deleters = {d1, d2}
    MaxPubs = 4
PROPERTIES
    NamesSettle
    DeletedKeysFallSilent

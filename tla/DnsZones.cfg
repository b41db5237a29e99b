SPECIFICATION Spec
CONSTANTS
    plain = plain
    dotted = dotted
    n1 = n1
    Domains = {plain, dotted}
    Names = {n1}
    Canonical <- MCCanonical
    Users = {u1, u2}
    Contents = {c1}
    Callers = {a1, a2}
    None = None
    MaxCalls = 5
SYMMETRY Symmetry
INVARIANTS
    ZonesAgree
    CreatedIsOwned
PROPERTY
    OwnersKept

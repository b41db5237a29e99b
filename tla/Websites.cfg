SPECIFICATION Spec
CONSTANTS
    Sites = {1, 2}
    Apex = apex
    Sub = sub
    Contents = {c1, c2}
    NewContents = {c1}
    NextContents = {c2}
    Callers = {a1, a2}
    None = None
    Ops = {"create", "update", "delete", "validate", "block", "unblock", "hns", "ssl", "unpin", "janitor"}
    MaxCalls = 3
    OneFault = TRUE
INVARIANTS
    HostedIsServed
    HnsFollows
    PublishedIsAsked
    AckedIsKept
SYMMETRY CallerSymmetry

SPECIFICATION Spec
CONSTANTS
    Cids = {a, b, d}
    Broken = {d}
    BatchSize = 2
    MaxFaults = 2
    MaxChanges = 2
INVARIANTS
    AnnouncedIsProvided
    TriggerKept
PROPERTY
    EventuallyAnnounced

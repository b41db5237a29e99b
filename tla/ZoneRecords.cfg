CONSTANTS
    Clients = {c1, c2}
    Domain <- MCDomain
    Lower <- MCLower
    Keys <- MCKeys
    Zones <- MCZones
    Requests <- MCRequests
    Entries <- MCEntries
    Texts <- MCTexts
    MaxFaults = 1
SPECIFICATION RecordsSpec
SYMMETRY Symmetry
INVARIANTS
    ImportHonoursMode
    ReportedIsThere
    DsIsStable
CHECK_DEADLOCK FALSE

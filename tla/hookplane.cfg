SPECIFICATION FairSpec
CONSTANTS
    a1 = a1
    a2 = a2
    p1 = p1
    Agent = {a1, a2}
    Pid = {p1}
    NoPid = NoPid
    Conn = {c1, c2}
    Payloads <- ShimPayloads
    Cap = 1
    Stalls = TRUE
    MaxReports = 1
    Budget = 2
INVARIANTS TypeOK BoundIsWatched
PROPERTIES DeadAreEnded SlotsComeBack

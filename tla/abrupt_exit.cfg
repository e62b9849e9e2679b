SPECIFICATION Spec
CONSTANTS
    a1 = a1
    a2 = a2
    p1 = p1
    Agent = {a1, a2}
    Pid = {p1}
    NoPid = NoPid
    Conn = {c1}
    Payloads <- ShimPayloads
    Cap = 1
    Stalls = FALSE
    MaxReports = 1
    Budget = 1
INVARIANT AbruptExitEnds

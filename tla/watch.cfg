SPECIFICATION FairSpec
CONSTANTS
  NoPid = NoPid
  Pid = {p1, p2}
  Caller = {c1, c2}
  MaxWatches = 3
  Faults = {"poll", "intr", "pidfd", "nosys", "receiver"}
INVARIANTS OneExitPerWatch
PROPERTIES KeepsReports ExitsAreReported DropStopsThread
CHECK_DEADLOCK FALSE

SPECIFICATION FairSpec
CONSTANTS
  Inst = {i1}
  Pid = {p1, p2}
  NoPid = NoPid
  Nobody = Nobody
  Run = {r1}
  Conn = {c1}
  Connected = TRUE
  Talk = {"session_end"}
  Lasting = {"gateway_start", "gateway_stop", "before_agent_run", "agent_end", "agent_end failed"}
  Stamped = {TRUE, FALSE}
  BusyDecay = 1
  PresenceTtl = 2
  DownRemove = 1
  MaxReports = 1
  MaxQueue = 1
  Budget = 2
INVARIANT BoundIsWatched
PROPERTIES ReplacementSurvives BusyEnds StageEmpties
CHECK_DEADLOCK FALSE

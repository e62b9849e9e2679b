SPECIFICATION LifecycleSpec
CONSTANTS
  P = P
  C = C
  k1 = k1
  k2 = k2
  s1 = s1
  s2 = s2
  a1 = a1
  a2 = a2
  a3 = a3
  NoAgent = NoAgent
  Agent = {a1, a2, a3}
  Tool = {}
  NoTool = NoTool
  Source = {s1}
  Blank = Blank
  ShortIdle = {}
  HookSilent = {}
  Capacities <- AllSizes
  Connectable <- On
  Events <- AllEvents
  HookWins = 1
  Tombstone = 1
  LedgerTTL = 2
  DrainTTL = 1
  VouchTTL = 1
  ExitGrace = 1
  B1Grace = 1
  ActiveGrace = 1
  StaleUnknownCwd = 1
  StaleShortIdle = 1
  StaleActive = 1
  StaleIdle = 1
  StaleWaiting = 1
INVARIANTS TypeOK NoParentCycle DesksExclusive LedgerKnowsLiveLinks
PROPERTIES DeadChildStaysGone KeepsOffice EndTakesSubtree
SYMMETRY AgentSymmetry

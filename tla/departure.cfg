SPECIFICATION FairSpec
CONSTANTS
  P = P
  C = C
  k1 = k1
  k2 = k2
  s1 = s1
  s2 = s2
  Budget = 5
  NoAgent = NoAgent
  Agent = {P, C}
  Tool = {}
  NoTool = NoTool
  Source = {s1, s2}
  Blank = Blank
  ShortIdle = {}
  HookSilent = {}
  Capacities = {2}
  Connectable <- OnOrOff
  Events <- WorldEvents
  HookWins = 1
  Tombstone = 1
  LedgerTTL = 2
  DrainTTL = 1
  VouchTTL = 2
  ExitGrace = 1
  B1Grace = 1
  ActiveGrace = 1
  StaleUnknownCwd = 1
  StaleShortIdle = 1
  StaleActive = 1
  StaleIdle = 1
  StaleWaiting = 2
PROPERTIES EveryoneLeaves StrangersLeave

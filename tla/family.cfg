SPECIFICATION FamilySpec
CONSTANTS
  P = P
  C = C
  k1 = k1
  k2 = k2
  s1 = s1
  s2 = s2
  NoAgent = NoAgent
  Agent = {P, C}
  Tool = {k1, k2}
  NoTool = NoTool
  Source = {s1}
  Blank = Blank
  ShortIdle = {}
  HookSilent = {}
  Capacities = {2}
  Connectable <- On
  Events <- FamilyEvents
  HookWins = 1
  Tombstone = 1
  LedgerTTL = 2
  DrainTTL = 1
  VouchTTL = 3
  ExitGrace = 1
  B1Grace = 1
  ActiveGrace = 1
  StaleUnknownCwd = 1
  StaleShortIdle = 1
  StaleActive = 2
  StaleIdle = 2
  StaleWaiting = 3
INVARIANTS CorrelationOwned
PROPERTIES TimerSparesTheBusy ReplayKeepsPrompt DispatchSparesSubtree PromptOutlivesParallelEnds ExitHasCause

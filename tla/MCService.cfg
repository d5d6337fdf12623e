SPECIFICATION ServiceSpec
CONSTANTS
  c1 = c1
  c2 = c2
  c3 = c3
  c4 = c4
  c5 = c5
  RuleId <- MCRuleId
  DenyConsecutive = 2
  WindowCount = 2
  WindowOfLast = 2
  RecentMax = 2
  NoWorkspace = "nowhere"
  NoSession = "none"
  NoKey = "none"
  Calls <- MCTwoCalls
  Requests <- MCServiceRequests
  Workspaces <- MCWorkspaces
  Known <- MCKnown
  Detect <- MCDetect
  Stage1 <- MCStage1
  TTL = 2
  MaxClock = 3
  Second = 2
  RestoreTime = 1
  MaxRestarts = 1
  SweepEvery = 2
  MaxEntries = 1
  RestoreLimit = 1
SYMMETRY Symmetry
CHECK_DEADLOCK FALSE
INVARIANTS
  ReplaysItsOwnAnswer
  AnswersAreRemembered
  PinComesFromADecision
  CachedAllowWasGranted
  StoreIsNeverAhead

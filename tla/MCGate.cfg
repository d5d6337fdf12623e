SPECIFICATION Spec
CONSTANTS
  c1 = c1
  c2 = c2
  c3 = c3
  c4 = c4
  c5 = c5
  RuleId <- MCRuleId
  DenyConsecutive = 2
  WindowCount = 2
  WindowOfLast = 2
  RecentMax = 2
  NoWorkspace = "nowhere"
  NoSession = "none"
  Calls <- MCCalls
  Requests <- MCRequests
  Workspaces <- MCWorkspaces
  Known <- MCKnown
  Detect <- MCDetect
  Stage1 <- MCStage1
  TTL = 2
  MaxClock = 2
SYMMETRY Symmetry
CHECK_DEADLOCK FALSE
INVARIANTS
  AllowIsLawful
  OneWorkspacePerSession
  CachedAllowHasGrant
  StreakMatchesWindow
PROPERTIES
  KeepsItsPromise

SPECIFICATION FairSpec
CONSTANTS
  c1 = c1
  c2 = c2
  c3 = c3
  c4 = c4
  c5 = c5
  RuleId <- MCRuleId
  DenyConsecutive = 2
  WindowCount = 3
  WindowOfLast = 4
  RecentMax = 4
  NoWorkspace = "nowhere"
  NoSession = "none"
  Calls <- MCFourCalls
  Requests <- MCDenyingRequests
  Workspaces <- MCWorkspaces
  Known <- MCKnown
  Detect <- MCDetect
  Stage1 <- MCStage1
  TTL = 1
  MaxClock = 0
CHECK_DEADLOCK FALSE
INVARIANTS
  StreakIsBounded
  CountersCountAnswers
PROPERTIES
  ReviewIsAnswered

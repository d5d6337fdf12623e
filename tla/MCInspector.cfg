SPECIFICATION MCSpec
CONSTANTS
  c1 = c1
  c2 = c2
  c3 = c3
  Calls <- MCCalls
  Requests <- MCRequests
  Known <- MCKnown
  Settings <- MCSettings
  Answers <- MCAnswers
  TTL = 2
  MaxClock = 2
  SweepEvery = 2
  MaxEntries = 2
SYMMETRY Symmetry
CHECK_DEADLOCK FALSE
INVARIANTS
  SecretsStayHidden
  StageOneDropStands
  OnlyTheLiftableIsLifted
  ModelMasksWhatItSaw
  WindowedLinesAreCounted
  CachedVerdictWasGiven
PROPERTY
  NoLiveVerdictIsLost

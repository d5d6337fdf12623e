SPECIFICATION Spec
CONSTANTS
  MaxWrapperChain = 2
  MaxNestingDepth = 2
  BaseName <- MCBaseName
  Options <- MCOptions
  InlineOptions = {}
  Assignments <- MCAssignments
  Durations <- MCDurations
  Unresolved <- MCUnresolved
  Devices <- MCDevices
  PathLike <- MCPathLike
  Globs = {}
  PathOf <- MCPathOf
  Requests <- MCRequests
CHECK_DEADLOCK FALSE
INVARIANTS
  NormalFormIsTheScript
  FailsAsAWhole
  OnePipelineOneNumber
  DroppedPathsAreFlagged
  UnwrappingFindsTheCommand
  PipedDownloadIsCaught

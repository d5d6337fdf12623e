SPECIFICATION Spec
CONSTANTS
  RuleId <- MCRuleId
  Chain <- STAGE1
  Actions <- MCActions
  Policies <- MCPolicies
  Evaluate <- EvaluateRule
CHECK_DEADLOCK FALSE
INVARIANTS
  LoopReturnsRunOutcome
  AllowIsUnopposed
  HardDenyWins

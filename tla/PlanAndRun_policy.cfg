SPECIFICATION Spec
CONSTANTS
  Slashed <- WithSlash
  Reach <- Reaches
  Requests <- AllRequests
  HostTags <- Hosts
  NameSymbols <- Names
  Control = "control"
  MaxAliasLength = 2
  MaxCommandLength = 9
  MoreRules <- Additions
CHECK_DEADLOCK FALSE
INVARIANTS ChainSplit ChainJudgedByMembers AppendedRuleFillsGaps
  LimitsPrecedence StrictRuleNamesAll PlanPredictsRun

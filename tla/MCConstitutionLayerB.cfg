SPECIFICATION Spec
CONSTANTS
  MaxScoringRules = 1
  MaxProcedures = 3
  MaxPolicies = 3
  MaxDepth = 2
  Agents = {1, 2}
  Sends = {s1}
  Deployed <- MCDeployed
  Candidates = {}
  MaxEntityCount = 3
  Clocks = {0}
  MaxChanges = 1
  s1 = s1
INVARIANT TriggersEnter
CHECK_DEADLOCK FALSE

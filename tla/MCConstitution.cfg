SPECIFICATION Spec
CONSTANTS
  MaxScoringRules = 1
  MaxProcedures = 3
  MaxPolicies = 3
  MaxDepth = 2
  Agents = {1, 2}
  Sends = {s1, s2}
  Deployed <- MCDeployed
  Candidates <- MCCandidates
  MaxEntityCount = 3
  Clocks = {0}
  MaxChanges = 2
  s1 = s1
  s2 = s2
SYMMETRY SendSymmetry
INVARIANTS
  VettedExactly
  EvidenceExact
  SendsAreJudged
  DiffExact
CHECK_DEADLOCK FALSE

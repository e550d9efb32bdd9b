SPECIFICATION RouterSpec
CONSTANTS
  g1 = g1  g2 = g2
  Goroutines = {g1, g2}
  RuleMaps <- MCRuleMaps
  Requests <- MCRequests
SYMMETRY GoroutineSymmetry
INVARIANTS RouterTypeOK RightRules SameOrderEverywhere

CONSTANTS
  Callers = {c1, c2}
  LoopTask = loop
  NumFlows = 1
  MaxGrants = 2
  MaxRevokes = 1
  GrantShapes <- AllShapes
  StoreMayFail = TRUE
SPECIFICATION Spec
INVARIANTS
  TypeOK
  SingleRefreshInFlight
  
  BackoffMatchesFailures
  

CONSTANTS
  Callers = {c1}
  LoopTask = loop
  NumFlows = 1
  MaxGrants = 2
  MaxRevokes = 1
  GrantShapes <- Rotating
  StoreMayFail = FALSE
SPECIFICATION Spec
INVARIANT RevokedStaysRevoked

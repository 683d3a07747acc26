CONSTANTS
  Producers = {p1, p2}
  NumEvents = 3
  Withholdable = {2}
  Unsaveable = {3}
  MaxQueue = 1
  MaxBatch = 1
  SmallQueue = 1
  LargeQueue = 1
  MaxRetries = 1
  Width = 16
  MaxRestarts = 1
  FailureThreshold = 1
  InitialCooldown = 1
  MaxCooldown = 1
  MaxFailures = 1
SPECIFICATION Spec
SYMMETRY ProducerSymmetry
INVARIANTS
  TypeOK
  CounterAccounting
  NoEventLostOrDuplicated
  DropsAccounted
PROPERTIES
  
  ImplementsLedger

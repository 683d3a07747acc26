CONSTANTS
  Producers = {p1}
  NumEvents = 4
  Withholdable = {}
  Unsaveable = {}
  MaxQueue = 1
  MaxBatch = 1
  SmallQueue = 1
  LargeQueue = 1
  MaxRetries = 0
  Width = 16
  MaxRestarts = 0
  FailureThreshold = 1
  InitialCooldown = 1
  MaxCooldown = 1
  MaxFailures = 1
SPECIFICATION FairSpec
INVARIANT BoundedOvershoot
PROPERTY HandedEventsLeave

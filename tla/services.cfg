CONSTANTS
  GuiCallers = {c1, c2}
  GuiMaxTickets = 2
  GuiMaxOverlays = 2
  GuiFocusRetries = 1
  GateCommands = {c1, c2}
  GateIds = {i1}
  GateTokens = {t1}
  GateTtl = 2
  GateMaxClock = 2
  SqRanks = 3
  SqContent <- Content
  SqNewest <- Newest
  SqLimit = 2
  SqMaxSize = 1
  SqMaxDeferred = 1
  SqMaxHand = 1
  FbSuggestions = {s1, s2}
  FbMaxGiven = 3
  FbMaxSize = 2
  FbMaxAttempts = 1
  FbMaxRestarts = 1
  IxRefreshers = {r1, r2}
  IxMaxPrompts = 3
  IxInsights = 1
  IxMaxMessages = 2
  IxBatch = 2
  IxMaxStored = 2
  IxMaxRestarts = 1
  IxMaxFailures = 1
  SyDevices = 2
  SyMakers = {1, 2}
  SyMaxRows = 1
  SyMaxStatus = 1
  SyMaxCycles = 2
  AsIds = {a1, a2}
  AsCallers = {c1, c2}
  AsMaxSessions = 2
  AsMaxRetries = 1
  AsBudget = 1
  AsUsage = 1
  TmCallers = {c1, c2}
  TmMaxTokens = 4
  TmMaxRetries = 1
SPECIFICATION Spec
INVARIANTS
  ServicesTypeOK
  GuiTicketRunsOnce
  
  FbOneCopy
  IxNothingForgotten
  IxCursorCoversSeen
  IxOneReceipt
  
  
  
PROPERTIES
  
  GateTokenOncePerTtl
  GateRunsOnlyIfApproved
  
  
  
CHECK_DEADLOCK FALSE

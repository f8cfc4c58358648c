SPECIFICATION FairClientsSpec
CONSTANTS
  run = run
  t1 = t1
  t2 = t2
  shared = shared
  logistic = logistic
  train = train
  Callers <- RunAndThreads
  Methods <- TwoMethods
  ProcessMap <- FirstMethod
  MaxCalls = 1
  Connections <- TwoConnections
  Breaks = TRUE
  SyncCallers <- OneRun
  Shared = shared
  Free = free
CHECK_DEADLOCK FALSE
INVARIANTS ClientsTypeOK OneMessagePerCall GivenUpIfBroken
PROPERTY ImplementsRemoteCall

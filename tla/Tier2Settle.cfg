CONSTANTS
  Threads = {t1}
  Funcs = {0, 2, 3, 4}
  Imports = {0}
  Unsupported = {4}
  Calls <- MCCalls
  MaxBatchSize = 2
  StaticFreqHot = 2
  Saturated = 9
  Loops <- MCLoops
  TierUpThreshold = 1
  OsrThreshold = 1
  MaxCompilations = 1
  CompileMayFail = TRUE
  MayShutdown = TRUE
  NoLoop = NoLoop
SPECIFICATION FairSpec
PROPERTIES RequestsSettle ShutdownJoins
CHECK_DEADLOCK FALSE

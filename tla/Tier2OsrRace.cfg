CONSTANTS
  Threads = {t1, t2}
  Funcs = {0, 2}
  Imports = {0}
  Unsupported = {}
  Calls <- MCCalls
  MaxBatchSize = 2
  StaticFreqHot = 2
  Saturated = 9
  Loops <- MCOneLoop
  TierUpThreshold = 2
  OsrThreshold = 2
  MaxCompilations = 9
  CompileMayFail = FALSE
  MayShutdown = FALSE
  NoLoop = NoLoop
SPECIFICATION Spec
PROPERTIES OsrReadyStable

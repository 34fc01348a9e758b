CONSTANTS
  Threads = {t1}
  Funcs = {0, 1, 2, 3, 4}
  Imports = {0}
  Unsupported = {4}
  Calls <- MCCalls
  MaxBatchSize = 2
  StaticFreqHot = 2
  Saturated = 9
  Loops <- MCLoops
  TierUpThreshold = 1
  OsrThreshold = 2
  MaxCompilations = 9
  CompileMayFail = FALSE
  MayShutdown = FALSE
  NoLoop = NoLoop
SPECIFICATION FairSpec
PROPERTIES HotLoopGetsEntry HotFunctionPromoted

CONSTANTS
  Threads = {t1, t2}
  Funcs = {0, 1, 2, 3}
  Imports = {0}
  Unsupported = {}
  Calls <- MCCalls
  MaxBatchSize = 2
  StaticFreqHot = 2
  Saturated = 9
  Loops <- MCOneLoop
  TierUpThreshold = 1
  OsrThreshold = 1
  MaxCompilations = 2
  CompileMayFail = TRUE
  MayShutdown = TRUE
  NoLoop = NoLoop
SPECIFICATION Spec
SYMMETRY ThreadSymmetry
INVARIANTS CompiledOnce RequestSound TriggerRecorded NoLostWakeup
PROPERTIES ImplementsTierUp
CHECK_DEADLOCK FALSE

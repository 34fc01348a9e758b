SPECIFICATION MCSpec
CONSTANTS
    Modules = {m1, m2}
    CalleeKinds = {"host", "jit", "wasm"}
    HostErrors = {"Terminated", "HostFuncError"}
    Traps = {"Unreachable"}
    MayReenter = TRUE
    MaxDepth = 4
    MaxActs = 7
    None = none
    Threads = {1, 2, 3}
    MaxCalls = 2
    Users = {1, 2}
    W = 4
    Limits = {1, 2}
    Cost <- MCCost
    Kinds <- MCKinds
    MaxFrames <- MCMaxFrames
    MaxIfs = 1
    MaxBlock = 1
SYMMETRY ModuleSymmetry
INVARIANTS
    InnermostPublished
    TopFrameIsOwn
    CountIsLive
    HandlerIsInnermost
    InstalledUnlessOverlap
    GasAccounted
    LimitRespected
    RefundCovered
\* An execution ends, the process may be gone.
CHECK_DEADLOCK FALSE

SPECIFICATION Spec
CONSTANTS
    Modules = {m1}
    CalleeKinds = {"host", "jit"}
    HostErrors = {"Terminated"}
    Traps = {}
    MayReenter = FALSE
    MaxDepth = 3
    MaxActs = 6
    None = none
SYMMETRY ModuleSymmetry
INVARIANTS
    NeverCrashes
CHECK_DEADLOCK FALSE

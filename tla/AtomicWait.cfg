SPECIFICATION Spec
CONSTANTS
    Execs = {e1, e2, e3}
    Mems = {m1, m2}
    Addrs = {a1}
    Vals = {0}
    Counts = {1, 2}
    Timeouts = {"finite", "none"}
    MaxNotifies = 2
    MaxCancels = 1
    Canceller = canceller
    Free = free
SYMMETRY ExecSymmetry
INVARIANTS
    IteratorsValid
    NotifyCountExact
CHECK_DEADLOCK FALSE

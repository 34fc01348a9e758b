SPECIFICATION FairSpec
CONSTANTS
    Execs = {e1, e2}
    Mems = {m1}
    Addrs = {a1}
    Vals = {0, 1}
    Counts = {1}
    Timeouts = {"finite"}
    MaxNotifies = 1
    MaxCancels = 1
    Canceller = canceller
    Free = free
INVARIANTS
    NoWaiterLeftBehind
PROPERTIES
    TimedWaitEnds
CHECK_DEADLOCK FALSE

SPECIFICATION FairSpec
CONSTANTS
    Execs = {e1}
    Mems = {m1}
    Addrs = {a1}
    Vals = {0, 1}
    Counts = {1}
    Timeouts = {"none"}
    MaxNotifies = 1
    MaxCancels = 1
    Canceller = canceller
    Free = free
PROPERTIES
    CancelEnds
CHECK_DEADLOCK FALSE

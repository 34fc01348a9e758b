SPECIFICATION Spec
CONSTANTS
    Fns <- MCTryFns
    Menu <- MCTryMenu
    Tags <- MCTags
    MaxLen = 10
    MaxNest = 4
    MaxFrames = 4
    MayCatchLate = TRUE
    MayStrayPayload = FALSE
    MayJumpAstray = FALSE
INVARIANTS
    OnlyEnclosingHandlers
CHECK_DEADLOCK FALSE

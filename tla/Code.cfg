SPECIFICATION MCSpec
CONSTANTS
    Fns <- MCFns
    Menu <- MCMenu
    Tags <- MCTags
    MaxLen = 6
    MaxNest = 5
    MaxFrames = 4
    MayCatchLate = FALSE
    MayStrayPayload = FALSE
    MayJumpAstray = FALSE
    Menus <- MCMenus
    Epilogue <- MCEpilogue
    NumLocals = 1
    MaxDepth = 4
    OsrThreshold = 1
    Width <- MCWidth
    Precision <- MCPrecision
    Patterns <- MCPatterns
    Floats <- MCFloats
    Seeds <- MCSeeds
    MaxSteps = 2
INVARIANTS
    OperandsAsTyped
    NoHandlerMissing
    TierOneAgrees
    OsrLoopsAgree
    EnginesAgree
    TierOneDiffersAsListed
\* A function returns or traps, a sequence of instructions ends.
CHECK_DEADLOCK FALSE

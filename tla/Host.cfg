SPECIFICATION MCSpec
CONSTANTS
    Names = {"lib"}
    Wasi = "wasi"
    Asts = {"plain", "app", "bad"}
    ImportsOf <- MCImportsOf
    Invalid = {"bad"}
    MaxInsts = 4
    None = None
    Dirs = {"root", "d", "e", "x"}
    Subdirs <- MCSubdirs
    Files <- MCFiles
    Links <- MCLinks
    Bases = {"root", "d", "x", "file"}
    Browsable = {"root", "d", "e"}
    PartNames <- MCPartNames
    Paths <- MCPaths
    kMaxNestedLinks = 8
    Guests = {g1, g2}
    Fds = {3, 4}
    Nodes = {3, 5}
    Requests = {{"tell"}, {"open", "seek"}}
    Preopened <- MCPreopened
    SocketRights = {"read"}
    NoNode = NoNode
    Callers = {c1, c2}
    Numbers = {0, 3}
    Natives = {0, 9}
    Special = {0}
    Pollsters = {c1}
    MaxPolls = 3
    NoFd = NoFd
    Growers = {c1, c2}
    Counts = {0, 1, 2}
    MinPages = 1
    MaxPages = 4
    NoMax = NoMax
    PageLimit = 3
    AllPages = 4
INVARIANTS
    LinksAgree
    NoDangling
    InstantiatedIsCurrent
    OnlyValidated
    BeneathBase
    ResolvesAsReference
    RightsWithinGrant
    BookMatchesKernel
    WaitsForWhatWasAsked
    MappedAsCounted
    PagesHandedOnce
PROPERTY
    OnlyRemoved
    GrowthKeeps
\* A path is resolved once.
CHECK_DEADLOCK FALSE

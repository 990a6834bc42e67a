\* A group and a project behind one slot: passes end and GitLab converges once
\* the disturbances stop.
SPECIFICATION FairSpec
CONSTANTS
    absent = absent  invalid = invalid  nobody = nobody
    s1 = s1  s2 = s2  v1 = v1  v2 = v2  bad = bad  attr = attr
    Targets = {"group", "project"}
    Kind <- PairKind
    Specs <- PairSpecs
    Secrets = {s1, s2}
    NumFields = 1
    Values = {v1, v2}
    Maskable = {v1, v2}
    Oversized = {}
    Keys = {"A"}
    InvalidKey = invalid
    Scopes = {"all"}
    NoScope = ""
    Attrs = {attr}
    SkipWarn = FALSE
    Absent = absent
    Concurrency = 1
    DryRuns = {FALSE}
    ObjectIds = {1, 2}
    NoTarget = nobody
    InitNames <- PairNames
    InitVaults <- PairVaults
    InitStore <- PairStore
    Edits <- PairEdits
    Rotations <- PairRotations
    Moves <- PairMoves
    MaxUpsets = 3
PROPERTIES
    PassTerminates
    EventuallyConverged

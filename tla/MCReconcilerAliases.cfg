\* Three targets, two of which are one project; two slots; two
\* disturbances; passes that write and passes that only plan (the diff command).
SPECIFICATION Spec
CONSTANTS
    absent = absent  invalid = invalid  nobody = nobody
    s1 = s1  s2 = s2  v1 = v1  v2 = v2  bad = bad  attr = attr
    Targets = {"byPath", "byId", "group"}
    Kind <- AliasKind
    Specs <- AliasSpecs
    Secrets = {s1}
    NumFields = 1
    Values = {v1, v2}
    Maskable = {v1, v2}
    Oversized = {}
    Keys = {"A"}
    InvalidKey = invalid
    Scopes = {"all", "prod"}
    NoScope = ""
    Attrs = {attr}
    SkipWarn = FALSE
    Absent = absent
    Concurrency = 2
    DryRuns = {FALSE, TRUE}
    ObjectIds = {1, 2}
    NoTarget = nobody
    InitNames <- AliasNames
    InitVaults <- AliasVaults
    InitStore <- AliasStore
    Edits <- AliasEdits
    Rotations <- AliasRotations
    Moves <- AliasMoves
    MaxUpsets = 2
INVARIANTS
    TypeOK
    SemaphoreAccounted
    OneWriterPerObject
    RefusalHasOwner
    AppliedOrReported
    PlanStillFits
PROPERTIES
    WritesOnlyDesired
    UsesSource

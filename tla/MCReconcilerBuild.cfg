\* The instance and a project whose entries compete for identities, over the
\* contents of two secrets; masked violations are skipped with a warning.
SPECIFICATION Spec
CONSTANTS
    absent = absent  invalid = invalid  nobody = nobody
    s1 = s1  s2 = s2  v1 = v1  v2 = v2  bad = bad  attr = attr
    Targets = {"inst", "p"}
    Kind <- BuildKind
    Specs <- BuildSpecs
    Secrets = {s1, s2}
    NumFields = 2
    Values = {v1, v2, bad}
    Maskable = {v1, v2}
    Oversized = {v2}
    Keys = {"A", "B"}
    InvalidKey = invalid
    Scopes = {"all", "prod"}
    NoScope = ""
    Attrs = {attr}
    SkipWarn = TRUE
    Absent = absent
    Concurrency = 1
    DryRuns = {FALSE}
    ObjectIds = {1}
    NoTarget = nobody
    InitNames <- BuildNames
    InitVaults <- BuildVaults
    InitStore <- BuildStore
    Edits <- BuildEdits
    Rotations = {}
    Moves = {}
    MaxUpsets = 1
INVARIANTS
    BuildMeetsReference
    NothingDropped
    CleanPassInForce

\* Every file of MCFiles, from the parsed YAML to a Config or an error.
SPECIFICATION Spec
CONSTANTS
    unset = unset
    b1 = b1  b2 = b2  b3 = b3
    BundleNames = {b1, b2, b3}
    Keys = {"", "A", "B", "-"}
    Scopes = {"", "*", "prod"}
    Texts = {"", "http", "malformed", "token", "approle", "kubernetes", "other", "role", "error", "skip-warn", "one", "two", "f", "p", "kv", "a", "secret"}
    AnyScope = "*"
    Attrs = {"x", "y", "z", "mistyped"}
    Unset = unset
    Files <- MCFiles
    VaultAddr = ""
    ValidURLs = {"http"}
    ValidKeys = {"A", "B"}
    Mistyped = {"mistyped"}
    DefaultInterval = 5
    DefaultConcurrency = 4
    DefaultTimeout = 10
    DefaultMount <- SecretMount
    DefaultAttrs = "x"
CHECK_DEADLOCK FALSE
INVARIANTS
    TypeOK
    UniqueIdentities
    ExpandMeetsReference
    AcceptedMeetsAssumptions

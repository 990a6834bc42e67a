\* A secret that was read is soft-deleted between two passes.
SPECIFICATION Spec
CONSTANTS
    Readers = {r1, r2}
    Secrets = {s1}
    Contents = {c1, c2}
    Absent = absent
    MayRecreate = FALSE
    MaxWrites = 2
    MaxReads = 2
    MaxPass = 2
CHECK_DEADLOCK FALSE
INVARIANT
    FreshWithinPass

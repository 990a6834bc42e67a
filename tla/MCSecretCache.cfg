\* Three targets read one secret in two passes while it is rotated, soft-deleted,
\* undeleted or deleted with its metadata, though not written again after that.
SPECIFICATION FairSpec
CONSTANTS
    Readers = {r1, r2, r3}
    Secrets = {s1}
    Contents = {c1, c2}
    Absent = absent
    MayRecreate = FALSE
    MaxWrites = 2
    MaxReads = 1
    MaxPass = 2
CHECK_DEADLOCK FALSE
INVARIANTS
    TypeOK
    EntryMatchesVersion
    NeverReplaced
    SharedMetadataRead
    LockHeldWhileInside
    OneContentPerPass
PROPERTIES
    ImplementsSource
    ReadsReturn

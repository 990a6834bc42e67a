\* Leases of every kind, two outages of any length, cancellation at any moment.
SPECIFICATION FairSpec
CONSTANTS
    Leases <- MixedLeases
    MaxTTL = 18
    NoLeaseWait = 3
    MaxBackoff = 4
    LoginTime = 1
    MaxOutages = 2
CHECK_DEADLOCK FALSE
INVARIANTS
    TypeOK
    NeverExpiresWhileUp
    RecoversSoon
PROPERTIES
    KeeperStops

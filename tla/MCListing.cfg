\* Objects of three and of five variables, two to a page, and three changes or
\* failures.
SPECIFICATION Spec
CONSTANTS
    absent = absent
    Identities = {"a", "b", "c", "d", "e"}
    Bodies = {"x", "y"}
    Absent = absent
    PerPage = 2
    InitStored <- MCStored
    MaxUpsets = 3
INVARIANTS
    TypeOK
    ListFaithful
PROPERTIES
    ListingHeals

\* One transaction, three handlers at a time, any number of requests one after the other.
CONSTANTS
    Txn = {t1}
    Goroutine = {g1, g2, g3}
    MaxRows = 2
SYMMETRY Symmetry
SPECIFICATION Spec
INVARIANTS
    TypeOK
    IssuedOnlyWhenPaid
    LedgerBacked
    AnnouncedCoverIsReal
PROPERTIES
    NothingForgotten
    CoverEndsOnlyByInit
    ImplementsCover

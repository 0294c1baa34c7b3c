\* A failed release is reported as settled.
CONSTANTS
    Txn = {t1}
    Goroutine = {g1, g2}
    MaxRows = 2
SPECIFICATION Spec
INVARIANT
    SettledMeansReleased

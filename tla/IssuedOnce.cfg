\* Two confirms that both read an unissued policy.
CONSTANTS
    Txn = {t1}
    Goroutine = {g1, g2}
    MaxRows = 2
SPECIFICATION Spec
PROPERTY
    IssuedOnce

\* Two notifications of one payment leave two hold rows.
CONSTANTS
    Txn = {t1}
    Goroutine = {g1, g2}
    MaxRows = 2
SPECIFICATION Spec
INVARIANT
    PaymentIsIdempotent

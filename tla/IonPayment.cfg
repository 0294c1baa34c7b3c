SPECIFICATION Spec
CONSTANTS
    inv1 = inv1
    inv2 = inv2
    req1 = req1
    req2 = req2
    Invoice <- MCInvoice
    Checkout <- MCCheckout
    None = None
    Other = Other
    Accounts = TRUE
    Completed <- MCCompleted
    MaxPosts = 1
    MaxLate = 1
CHECK_DEADLOCK FALSE
INVARIANTS
    TypeOK
    ReleaseIsDue
    ReleaseDoesWhatItSays
PROPERTIES
    PaymentReachesInsurer

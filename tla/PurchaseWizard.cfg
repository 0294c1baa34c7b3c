SPECIFICATION Spec
CONSTANTS
    tab = tab
    Txn <- MCTxn
    Trip <- MCTrip
    Page <- MCPage
    None = None
    MaxPolls = 2
    MaxPosts = 5
INVARIANTS
    TypeOK
    ConfirmOnlyPaid
    DataIsOfTransaction
    ConfirmedIsIssued
    ViewsAgree
PROPERTIES
    StatusRunsForward
    PageCatchesUp
    SpinnerEnds

SPECIFICATION Spec
CONSTANTS
    tab1 = tab1
    tab2 = tab2
    login1 = login1
    login2 = login2
    Tab <- MCTab
    Login <- MCLogin
    None = None
    Saves = 2
    InventoryPage = 2
    MaxRequests = 2
SYMMETRY Symmetry
CHECK_DEADLOCK FALSE
INVARIANTS
    TypeOK
    ShownIsAccepted
PROPERTIES
    LiveLoginStays

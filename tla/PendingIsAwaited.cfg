\* One publication whose callback overtakes the insertion of its row.
CONSTANTS
    MaxCatalogs = 2
    MaxPublications = 2
    DraftSize = 1
SPECIFICATION Spec
INVARIANT
    PendingIsAwaited
CHECK_DEADLOCK FALSE

\* A draft of two catalogs, three catalog rows, two publications.
CONSTANTS
    MaxCatalogs = 3
    MaxPublications = 2
    DraftSize = 2
SPECIFICATION Spec
INVARIANTS
    TypeOK
    RowsAcknowledged
    AcceptedByCs
    SuccessIsPublished
PROPERTIES
    AcceptedStays
    PendingIsDecided
    PublishingEnds
CHECK_DEADLOCK FALSE

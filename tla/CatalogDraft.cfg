\* A provider, a catalog, two resources, an offer and five changes to them.
CONSTANTS
    Typed <- MCTyped
    MaxItems <- MCMaxItems
    MaxLinks = 2
    MaxEdits = 5
SPECIFICATION Spec
INVARIANTS
    TypeOK
    IdsDistinct
    EditFindsItsItem
    OneSource
    SuccessSavesLinked

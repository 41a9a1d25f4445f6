SPECIFICATION Spec
CONSTANTS
    Events <- RevokeEvents
    Ids <- MCIds
    Tools <- MCTools
    PerSecond = 2
INVARIANT DeletedHasNoBody

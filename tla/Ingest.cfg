SPECIFICATION Spec
CONSTANTS
    Events <- ChatEvents
    Ids <- MCIds
    Tools <- MCTools
    PerSecond = 2
INVARIANTS
    TypeOK
    OriginalStaysGone
    FreshestCovered
    OnlyActivityReorders
    ReactionsNeverRegress
    OneOwnReaction
    NewestVoteStands

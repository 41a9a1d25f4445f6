SPECIFICATION Spec
CONSTANTS
    Events <- ReactionEvents
    Ids <- MCIds
    Tools <- MCTools
    PerSecond = 2
INVARIANT NewestReactionStands

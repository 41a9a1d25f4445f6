SPECIFICATION Spec
CONSTANTS
    Events <- SecondEvents
    Ids <- MCIds
    Tools <- MCTools
    PerSecond = 2
INVARIANT NewerRowLeftAlone

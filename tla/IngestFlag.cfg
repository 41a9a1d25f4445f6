SPECIFICATION Spec
CONSTANTS
    Events <- FlagEvents
    Ids <- MCIds
    Tools <- MCTools
    PerSecond = 2
PROPERTY FlagsOnlyByTheirEvents

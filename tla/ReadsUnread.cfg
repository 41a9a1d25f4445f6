SPECIFICATION Spec
CONSTANTS
    Phones = {2}
    Lids = {1}
    Groups = {3}
    Mail <- MCMail
    Hits <- MCHits
    Edits <- MCEdits
    Named = {}
    AliasPairs <- MCPairs
    Horizon = 2
    Stamps = {2}
    Names = 1
    Titles = {1}
    Unread = {0, 1}
    Limit = 1
    Window = 1
    Who = 2
    Lists = {}
    MaxDuring = 2
    MaxRows = 3
CHECK_DEADLOCK FALSE
INVARIANT
    UnreadCountedOnce

SPECIFICATION Spec
CONSTANTS
    Groups = {g1}
    Newsletters = {n1}
    Memberships = {{g1}, {g1, n1}}
    Clients = {c1}
    Patches = 2
    UnreadPatch = 2
    Capacity = 1
    MaxTitle = 2
    MaxChanges = 2
    MaxSyncs = 2
    MaxTrouble = 1
CHECK_DEADLOCK FALSE
INVARIANTS
    TypeOK
    QuietSyncIsFresh
PROPERTIES
    ReportOnlyMovesForward
    EverySyncFinishes

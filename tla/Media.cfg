SPECIFICATION FairSpec
CONSTANTS
    Digests = {"a", "b"}
    Exts = {"bin"}
    SizeOf <- MCSizeOf
    Writers = {w1, w2}
    Readers = {r1}
    UploadLimit = 2
    MaxBytes = 2
    TTL = 1
    TempAge = 1
    MaxTime = 2
    MaxPuts = 2
    MaxFaults = 1
    w1 = w1
    w2 = w2
    r1 = r1
INVARIANTS
    TypeOK
    ServedBytes
    StoredWhole
    UseCounts
    SweepCaps
    SweepExpires
PROPERTIES
    EventuallyTidy

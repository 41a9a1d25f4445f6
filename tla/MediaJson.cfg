SPECIFICATION Spec
CONSTANTS
    Digests = {"a"}
    Exts = {"json"}
    SizeOf <- MCSizeOf
    Writers = {w1, w2}
    Readers = {r1}
    UploadLimit = 2
    MaxBytes = 4
    TTL = 1
    TempAge = 1
    MaxTime = 3
    MaxPuts = 1
    MaxFaults = 0
    w1 = w1
    w2 = w2
    r1 = r1
INVARIANTS
    ServedBytes

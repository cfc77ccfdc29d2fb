CONSTANTS
    w1 = w1  w2 = w2  h1 = h1  h2 = h2  Null = Null
    Workers = {w1, w2}
    Hosts = {h1, h2}
    Patches <- MCPatches
    LogPaths = {"log"}
    Fingerprints = {"f1"}
    MaxServers = 2
    MaxRequests = 4
    MaxCaptures = 2
    MaxTicks = 3

SPECIFICATION Spec
SYMMETRY MCSymmetry
CHECK_DEADLOCK FALSE

INVARIANTS TypeOK KeysAndParents SettingsStay RefreshFindsACapture
PROPERTIES PayloadStays AlertRowKeepsItsPast

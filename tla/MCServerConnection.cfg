CONSTANTS
    Main = main
    r1 = r1
    r2 = r2
    Recoveries = {r1, r2}
    Nobody = nobody
    i1 = i1
    i2 = i2
    Ids = {i1, i2}
    NoId = noId
    MaxKeys = 3
    MaxInFlight = 1
    MaxFaults = 2
SPECIFICATION KnownLiveSpec
INVARIANTS TypeOK OnlineIsReal DiskMatchesMemory
PROPERTIES ComesOnline

SPECIFICATION Spec
CONSTANTS
    Pages = {w1}
    Edits = {"audit", "access"}
    Adopted = {}
    Tasks = {t1, t2}
    Main = Main
    Tokens = {1, 2, 3}
    MaxSaves = 1
    MaxDrops = 0
    MaxCrashes = 1
    MaxFailures = 1
    MaxFaults = 1
    Null = Null
    Torn = Torn
    Nobody = Nobody
SYMMETRY SyncSymmetry
INVARIANTS
    TypeOK
    LoneFetchConverges
    TornIsTransient
CHECK_DEADLOCK FALSE

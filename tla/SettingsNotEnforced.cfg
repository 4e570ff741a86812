SPECIFICATION Spec
CONSTANTS
    Pages = {w1}
    Edits = {"access"}
    Adopted <- AllOn
    Tasks = {t1, t2}
    Main = Main
    Tokens = {1, 2, 3}
    MaxSaves = 2
    MaxDrops = 0
    MaxCrashes = 0
    MaxFailures = 0
    MaxFaults = 0
    Null = Null
    Torn = Torn
    Nobody = Nobody
SYMMETRY SyncSymmetry
INVARIANTS
    EnabledIsEnforced
CHECK_DEADLOCK FALSE

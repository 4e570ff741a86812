SPECIFICATION LiveSpec
CONSTANTS
    Pages = {w1}
    Edits = {"access"}
    Adopted <- AllOn
    Tasks = {t1}
    Main = Main
    Tokens = {1, 2, 3}
    MaxSaves = 1
    MaxDrops = 1
    MaxCrashes = 1
    MaxFailures = 0
    MaxFaults = 1
    Null = Null
    Torn = Torn
    Nobody = Nobody
PROPERTIES
    EveryChangeIsFetched
CHECK_DEADLOCK FALSE

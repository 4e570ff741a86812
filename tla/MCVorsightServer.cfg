SPECIFICATION ServerSpec

CONSTANTS
    Machines = {m1}
    InitiallyPending = {m1}
    Absent = Absent
    Nothing = Nothing
    MaxOps = 2
    MaxLists = 1
    MaxSaves = 2
    MaxFlips = 3
    Periods = {0, 1, 2}
    Defaults <- MCDefaults
    MaxAge = 3
    MaxRows = 1
    MaxEdits = 1
    Unset = Unset
    MaxGrants = 2
    None = None

INVARIANTS
    ServerTypeOK
    ActiveMeansAdopted
    SettingsSurvive
    DisconnectSticks

PROPERTIES
    ListConverges
    StatusSettles
    OnlyExpiredRowsGo
    OldRowsGo
    RevokedConsentGoes

CHECK_DEADLOCK FALSE

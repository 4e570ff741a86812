\* Two screenshots over any number of sessions and crashes; each reaches
\* Drive at most once, no receive is abandoned.
CONSTANTS
    s1 = s1
    s2 = s2
    Shots = {s1, s2}
    NoShot = NoShot
    MaxCopies = 1
    MaxOrphans = 0
SPECIFICATION Spec
SYMMETRY ShotSymmetry
INVARIANTS TypeOK ExclusiveUpload RowsHaveFiles
PROPERTIES DeliversScreenshots

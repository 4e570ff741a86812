\* Finding: the processor deletes files it did not upload.
CONSTANTS
    s1 = s1
    s2 = s2
    Shots = {s1, s2}
    NoShot = NoShot
    MaxCopies = 1
    MaxOrphans = 1
SPECIFICATION SessionSpec
CHECK_DEADLOCK FALSE
PROPERTY DeletedOnlyIfUploaded

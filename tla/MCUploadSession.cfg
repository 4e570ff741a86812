\* One short session over two files, each left behind by an earlier one or new;
\* one receive is abandoned.
CONSTANTS
    s1 = s1
    s2 = s2
    Shots = {s1, s2}
    NoShot = NoShot
    MaxCopies = 1
    MaxOrphans = 1
SPECIFICATION SessionSpec
INVARIANTS NoDoubleQueue
PROPERTIES UploadsEnd StopTerminatesOrStuck
CHECK_DEADLOCK FALSE

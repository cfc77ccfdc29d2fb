CONSTANTS
    p1 = p1  p2 = p2  f1 = f1  f2 = f2
    Pulls = {p1, p2}
    FileList <- MCFileList
    MaxBytes = 1
    MaxSize = 2
    MaxMishaps = 2
    MaxPulls = 3

SPECIFICATION Spec
SYMMETRY MCSymmetry
CHECK_DEADLOCK FALSE

INVARIANTS CursorCovers
PROPERTIES RepeatsHaveAReason

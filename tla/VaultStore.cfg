CONSTANTS
    p1 = p1
    p2 = p2
    k1 = k1
    k2 = k2
    Procs = {p1, p2}
    Keys = {k1, k2}
    Empty = Empty
    Values = {Empty, v1}
    v1 = v1
    Absent = Absent
    None = None
    MaxWrites = 2
    MaxLives = 1
SYMMETRY ProcSymmetry
SPECIFICATION Spec
INVARIANT
    TypeOK
PROPERTIES
    SavesBuildOnWhatWasShown
    SavesKeepShownProtection
    LoadsOverwriteNothing

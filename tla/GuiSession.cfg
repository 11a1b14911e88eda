CONSTANTS
    w1 = w1
    w2 = w2
    s1 = s1
    s2 = s2
    Windows = {w1, w2}
    Slots = {s1, s2}
    MaxRequests = 2
    None = None
    BootstrapTtl = 1
    SessionTtl = 1
    MaxActs = 2
    MaxEvents = 1
SYMMETRY GuiSymmetry
SPECIFICATION Spec
INVARIANTS
    TypeOK
    OneTimeToken
    PlaintextSavesWereConfirmed
    SavedMeansStored
    EditsAreNotForgotten
CHECK_DEADLOCK FALSE

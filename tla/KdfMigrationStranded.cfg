CONSTANTS
    p1 = p1
    p2 = p2
    Procs = {p1, p2}
    Absent = Absent
    Nobody = Nobody
    NoJournal = NoJournal
    MaxAttempts = 1
    MaxWrites = 1
    MaxStops = 1
SPECIFICATION Spec
INVARIANT
    AlwaysRecoverable

CONSTANTS
    p1 = p1
    p2 = p2
    Procs = {p1, p2}
    Absent = Absent
    Nobody = Nobody
    NoJournal = NoJournal
    MaxAttempts = 1
    MaxWrites = 1
    MaxStops = 2
SPECIFICATION UpgradeSpec
INVARIANTS
    TypeOK
    NothingLeftBehind
    StrandedOnlyWithOriginals
    OldBytesReachable
PROPERTIES
    SettlesAllOrNothing
    ImplementsAtomicMigration
    UpgradeCompletes

CONSTANTS
    p1 = p1
    p2 = p2
    Procs = {p1, p2}
    None = None
    MaxCommands = 2
    MaxFaults = 2
SPECIFICATION Spec
INVARIANTS
    TypeOK
    OnlyTheGuardIsWaitedFor
PROPERTIES
    WritesBuildOnReads
    AnnouncedBeforeChanged
    ImplementsAtomicFiles
    CommandsEnd

CONSTANTS
    p1 = p1
    p2 = p2
    r1 = r1
    t1 = t1
    t2 = t2
    s1 = s1
    Procs = {p1, p2}
    RequestIds = {r1}
    TokenIds = {t1, t2}
    Scopes = {s1}
    Absent = Absent
    None = None
    MaxRecords = 2
    RequestTtl = 1
    MaxTtl = 1
    ConsentRetention = 0
    AuditRetention = 0
    MaxTime = 1
    MaxOps = 3
SYMMETRY ProcSymmetry
SPECIFICATION Spec
INVARIANTS
    TypeOK
    SpentOnce
    DecisionsAreFinal
    RecordsWithinLimit
    ReleasesAreAccounted

CONSTANTS
    p1 = p1
    p2 = p2
    r1 = r1
    t1 = t1
    s1 = s1
    Procs = {p1, p2}
    RequestIds = {r1}
    TokenIds = {t1}
    Scopes = {s1}
    Absent = Absent
    None = None
    MaxRecords = 1
    RequestTtl = 1
    MaxTtl = 1
    ConsentRetention = 0
    AuditRetention = 0
    MaxTime = 2
    MaxOps = 2
    MaxRows = 5
    MaxDamages = 1
SYMMETRY ProcSymmetry
SPECIFICATION AuditSpec
PROPERTY NewEventsAreReadable

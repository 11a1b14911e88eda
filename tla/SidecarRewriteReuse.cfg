CONSTANTS
    p1 = p1
    w1 = w1
    r1 = r1
    t1 = t1
    s1 = s1
    Procs = {p1}
    Rewriters = {w1}
    RequestIds = {r1}
    TokenIds = {t1}
    Scopes = {s1}
    Absent = Absent
    None = None
    MaxRecords = 1
    RequestTtl = 1
    MaxTtl = 1
    ConsentRetention = 0
    AuditRetention = 0
    MaxTime = 0
    MaxOps = 4
    MaxRevision = 1
SPECIFICATION RewriteSpec
INVARIANT SpentOnce

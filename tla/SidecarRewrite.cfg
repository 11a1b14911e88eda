CONSTANTS
    p1 = p1
    w1 = w1
    r1 = r1
    t1 = t1
    s1 = s1
    Procs = {p1}
    Rewriters = {w1}
    RequestIds = {r1}
    TokenIds = {t1}
    Scopes = {s1}
    Absent = Absent
    None = None
    MaxRecords = 2
    RequestTtl = 1
    MaxTtl = 1
    ConsentRetention = 0
    AuditRetention = 0
    MaxTime = 1
    MaxOps = 2
    MaxRevision = 2
SPECIFICATION RewriteSpec
PROPERTIES
    SidecarsFollowVault
    PreparedSidecarsAreProtected

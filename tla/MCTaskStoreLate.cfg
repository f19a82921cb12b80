SPECIFICATION Spec
CONSTANTS
    c1 = c1
    c2 = c2
    t1 = t1
    t2 = t2
    t3 = t3
    Clients = {c1, c2}
    Tasks = {t1, t2, t3}
    Legacy = {t3}
    LegacyRows <- MCLegacyRows
    Deps <- MCDeps
    LeaseLen = 2
    MaxAge = 2
    NoOwner = NoOwner
    NoLease = NoLease
    NoTask = NoTask

PROPERTIES
    ExpiredLeaseStaysExpired

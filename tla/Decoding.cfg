SPECIFICATION Spec
CONSTANTS
    a1 = a1
    s2 = s2
    s1 = s1
    p1 = p1
    p2 = p2
    p3 = p3
    p4 = p4
    bad = bad
    t1 = t1
    t2 = t2
    None = None
    Threads = {t1, t2}
    Apps = {a1}
    Sessions = {s1, s2}
    Garbage = {0, 1}
    Templates = {p1, p2, p3, p4, bad}
    Improper = {bad}
    MaxCapacity = 1
    MaxDrift = 1
    Workloads <- Days
INVARIANTS
    TypeOK
    TestedIsUsed
    CacheBounded
    OwnOutcome
PROPERTIES
    LockReleased

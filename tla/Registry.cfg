SPECIFICATION Spec
CONSTANTS
    a1 = a1
    a2 = a2
    k1 = k1
    k2 = k2
    k3 = k3
    h1 = h1
    h2 = h2
    d1 = d1
    d2 = d2
    d3 = d3
    p1 = p1
    p2 = p2
    p3 = p3
    t1 = t1
    None = None
    Apps = {a1, a2}
    Tokens = {k1, k2, k3}
    Handlers = {h1, h2}
    DocIds = {d1, d2, d3}
    ProfileIds = {p1, p2, p3}
    Targets = {t1}
    Levels = {50}
    UserLevel <- AtLevel
    MaxRequests = 3
SYMMETRY Sym
INVARIANTS
    TypeOK
    IssuedKeyWorks
    IssuedTokenWorks
    SerialUpdatesApply
    OnlyNamedAreTold
    InsertRacesBounded

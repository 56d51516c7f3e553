SPECIFICATION Spec
CONSTANTS
    u1 = u1
    u2 = u2
    u3 = u3
    k1 = k1
    k2 = k2
    k3 = k3
    n1 = n1
    n2 = n2
    n3 = n3
    None = None
    Uploads = {u1}
    Batches = {{u1}}
    KeyOf <- OwnKeys
    FileOf <- OwnFiles
    Crash = {u1}
    Attachment = {}
    Retriers = {r1}
    MaxConn = 2
    MaxInFlight = 2
    Capacity = 1
    PageLimit = 1
    Replies = {"created"}
    Faults = FALSE
    Expiring = {}
INVARIANTS
    ClosedIsSettled
    NotLeftBehind
PROPERTIES
    ParkedRecordsClose
    EventLoopProgress

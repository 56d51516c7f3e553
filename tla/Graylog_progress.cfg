SPECIFICATION Spec
CONSTANTS
    m1 = m1
    m2 = m2
    m3 = m3
    m4 = m4
    r1 = r1
    None = None
    Messages = {m1, m2}
    Interruptible = {}
    Poison = {}
    Malformed = {}
    Retriers = {r1}
    MaxConn = 2
    MaxSent = 1
    Capacity = 1
    PageLimit = 2
    Unsaved = {}
    Expiring = {}
    MaxBuffered = 1
PROPERTIES
    QueueDrains
    CallersReturn
    RecordsResent

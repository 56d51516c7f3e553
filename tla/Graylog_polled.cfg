SPECIFICATION SafeSpec
CONSTANTS
    m1 = m1
    m2 = m2
    m3 = m3
    m4 = m4
    r1 = r1
    None = None
    Messages = {m1}
    Interruptible = {}
    Poison = {}
    Malformed = {}
    Retriers = {}
    MaxConn = 1
    MaxSent = 2
    Capacity = 1
    PageLimit = 1
    Unsaved = {}
    Expiring = {}
    MaxBuffered = 1
PROPERTIES
    PolledIsKept

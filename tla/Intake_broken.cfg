SPECIFICATION SafeSpec
CONSTANTS
    f1 = f1
    f2 = f2
    f3 = f3
    f4 = f4
    f5 = f5
    f6 = f6
    f7 = f7
    f8 = f8
    j1 = j1
    None = None
    Files = {f1}
    Batches = {{f1}}
    Content <- Cut
    Verbose = {}
    NotGzip = {}
    BadName = {}
    NoDot = {}
    Corrupt = {}
    Jobs = {}
    MaxThreads = 1
    QueueCapacity = 1
    MaxRequests = 1
    Failing = {}
    Raced = {}
    Expiring = {}
    Libraries = {TRUE}
INVARIANTS
    ParseErrorsAreKept
CHECK_DEADLOCK FALSE

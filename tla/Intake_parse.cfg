SPECIFICATION Spec
CONSTANTS
    f1 = f1
    f2 = f2
    f3 = f3
    f4 = f4
    f5 = f5
    f6 = f6
    f7 = f7
    f8 = f8
    j1 = j1
    None = None
    Files = {f1, f2, f3, f4, f5, f6, f7, f8}
    Batches = {{f1, f2, f4, f5}, {f3, f4, f7}, {f3, f6, f8}}
    Content <- Mixed
    Verbose = {f4}
    NotGzip = {f7}
    BadName = {f5}
    NoDot = {f6}
    Corrupt = {f8}
    Jobs = {j1}
    MaxThreads = 2
    QueueCapacity = 2
    MaxRequests = 2
    Failing = {f3}
    Raced = {f3}
    Expiring = {f3, f7}
    Libraries = {TRUE, FALSE}
INVARIANTS
    TypeOK
    CompleteIsHandedOn
    DamagedIsQuarantined
    NoRejection
PROPERTIES
    AcceptedIsProcessed
CHECK_DEADLOCK FALSE

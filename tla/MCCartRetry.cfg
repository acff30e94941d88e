SPECIFICATION FairSpec
CONSTANTS
    f1 = f1
    r1 = r1
    w1 = w1
    NoCart = NoCart
    Foods = {f1}
    Requests = {r1}
    Workers = {w1}
    Faults = {"db"}
    MaxQuantity = 2
    MaxWrites = 2
PROPERTY FailedSyncIsRetried
CHECK_DEADLOCK FALSE

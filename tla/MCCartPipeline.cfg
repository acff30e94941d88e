SPECIFICATION FairSpec
CONSTANTS
    f1 = f1
    r1 = r1
    r2 = r2
    w1 = w1
    NoCart = NoCart
    Foods = {f1}
    Requests = {r1, r2}
    Workers = {w1}
    Faults = {"crash", "db", "expiry", "redis", "send"}
    MaxQuantity = 1
    MaxWrites = 2
INVARIANT CartTypeOK
INVARIANT SyncedWhenDrained
PROPERTY SyncIsFresh
PROPERTY EventsAreHandled
CHECK_DEADLOCK FALSE

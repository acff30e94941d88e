SPECIFICATION Spec
CONSTANTS
    f1 = f1
    r1 = r1
    r2 = r2
    w1 = w1
    NoCart = NoCart
    Foods = {f1}
    Requests = {r1, r2}
    Workers = {w1}
    Faults = {}
    MaxQuantity = 2
    MaxWrites = 2
INVARIANT OutOfOrderStaysCorrect
CHECK_DEADLOCK FALSE

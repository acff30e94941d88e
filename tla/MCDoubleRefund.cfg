SPECIFICATION Spec
CONSTANTS
    o1 = o1
    c1 = c1
    c2 = c2
    w1 = w1
    w2 = w2
    Orders = {o1}
    NoOrder = NoOrder
    Totals = {0, 1}
    Calls = {c1, c2}
    Runs = {w1, w2}
    MaxPayments = 1
    ClaimLimit = 10
    StringsCompare = TRUE
INVARIANT NoDoubleRefund
CHECK_DEADLOCK FALSE

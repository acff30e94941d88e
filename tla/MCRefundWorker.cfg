SPECIFICATION CancelledSpec
CONSTANTS
    o1 = o1
    o2 = o2
    o3 = o3
    c1 = c1
    c2 = c2
    w1 = w1
    w2 = w2
    Orders = {o1, o2, o3}
    NoOrder = NoOrder
    Totals = {1}
    Calls = {c1}
    Runs = {w1}
    MaxPayments = 4
    ClaimLimit = 2
    StringsCompare = TRUE
PROPERTY ImplementsLedger
PROPERTY RefundableIsRefunded
CHECK_DEADLOCK FALSE

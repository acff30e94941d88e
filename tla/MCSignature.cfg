SPECIFICATION Spec
CONSTANTS
    o1 = o1
    c1 = c1
    c2 = c2
    w1 = w1
    w2 = w2
    Orders = {o1}
    NoOrder = NoOrder
    Totals = {0, 1}
    Calls = {c1}
    Runs = {w1}
    MaxPayments = 1
    ClaimLimit = 10
    StringsCompare = FALSE
PROPERTY GenuineSignatureSucceeds
CHECK_DEADLOCK FALSE

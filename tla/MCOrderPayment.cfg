\* Two requests and two worker runs in flight, two payments of one order.
SPECIFICATION Spec
CONSTANTS
    o1 = o1
    c1 = c1
    c2 = c2
    w1 = w1
    w2 = w2
    Orders = {o1}
    NoOrder = NoOrder
    Totals = {0, 1}
    Calls = {c1, c2}
    Runs = {w1, w2}
    MaxPayments = 2
    ClaimLimit = 10
    StringsCompare = TRUE
SYMMETRY SlotSymmetry
INVARIANT TypeOK
INVARIANT StatusMatchesLog
INVARIANT RefundJustified
INVARIANT SuccessIsCaptured
INVARIANT ConfirmedIsPaid
INVARIANT ClaimsAreDisjoint
CHECK_DEADLOCK FALSE

SPECIFICATION ServicesSpec
CONSTANTS
    Users = {u1, u2}
    Admin = u1
    Emails = {e1, e2}
    Requests = {r1, r2}
    Foods = {f1}
    Prices = {1}
    Saves = {r1, r2}
    Addresses = {r1, r2}
    WindowMs = 2
    MaxRequests = 2
    MaxNow = 4
    Resources = {food, menu}
    Routed = {food}
    Dishes = {d1, d2}
    MaxCount = 2
    MaxChanges = 3
    MaxClock = 2
SYMMETRY Symmetry
INVARIANT ServicesTypeOK
INVARIANT NoLostUpdate
INVARIANT PricesAreTyped
INVARIANT NoLostAvailability
INVARIANT AtMostMaxInAnyWindow
INVARIANT ErrorsStayErrors
INVARIANT CartOpsAgree
INVARIANT MarkOutlivesFailure
CHECK_DEADLOCK FALSE

SPECIFICATION FrontendSpec
CONSTANTS
    Calls = {c1, c2}
    MaxGrants = 2
    Fetches = {x1, x2}
    Filters = {"All", "PENDING"}
    LastPage = 2
    LastStatus = 3
    MaxUpsets = 1
    Tabs = {t1, t2}
    Foods = {f1, f2}
    Orders = {o1, o2}
    MaxQuantity = 2
    MenuFetches = {m1, m2}
    Categories = {k1, k2}
INVARIANT FrontendTypeOK
INVARIANT RefreshIsSingleFlight
INVARIANT NoCallIsStranded
INVARIANT OneRefreshPerCall
INVARIANT SpinnersHaveRequests
INVARIANT OneOrderPerVisit
PROPERTY BoardCatchesUp
PROPERTY CallsSettle
CHECK_DEADLOCK FALSE

SPECIFICATION Spec
CONSTANTS
    u1 = u1
    f1 = f1
    k1 = k1
    k2 = k2
    o1 = o1
    o2 = o2
    r1 = r1
    r2 = r2
    c1 = c1
    Users = {u1}
    Foods = {f1}
    Orders = {o1, o2}
    Requests = {r1, r2}
    Keys = {k1, k2}
    KeyUser <- OneUser
    None = None
    Prices = {1, 2}
    Totals = {0, 1, 2}
    Calls = {c1}
    Runs = {}
    MaxPayments = 1
    ClaimLimit = 10
    StringsCompare = TRUE
SYMMETRY Symmetry
INVARIANT CheckoutTypeOK
INVARIANT OneOrderPerKey
INVARIANT NoZombieOrder
INVARIANT AmountIsSnapshot
PROPERTY LateRetryIsHarmless
PROPERTY ImplementsExactlyOnce

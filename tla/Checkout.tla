------------------------------- MODULE Checkout -------------------------------
(***************************************************************************)
(* OrderService.checkout and PrismaOrderRepository.checkout: the user's    *)
(* database cart becomes an order, once per idempotency key.               *)
(*                                                                         *)
(* Several requests are in flight; a client that got no answer sends its   *)
(* key again.  The transaction runs at READ COMMITTED, so each of its      *)
(* reads sees what is committed at that moment, and its writes appear      *)
(* together at its commit.  A second transaction that inserts a key        *)
(* another one is inserting waits for it and then fails on the unique      *)
(* index, which here is a failed commit.                                   *)
(*                                                                         *)
(* Abstracted: a cart is a set of foods (quantities only scale the total); *)
(* a key belongs to the user whose client made it.                         *)
(***************************************************************************)
EXTENDS Integers, Functions

CONSTANTS
    Users, Foods, Orders, Requests, Keys,
    KeyUser,         \* the user whose client made the key
    None,            \* the absence of an order or a key
    Prices           \* the prices an administrator may set, in cents

ASSUME CheckoutAssumption ==
    /\ None \notin Orders \cup Keys
    /\ KeyUser \in [Keys -> Users]
    /\ Prices \subseteq Nat

VARIABLES
    cart,       \* cart_items: for each user the foods in the database cart
    price,      \* foods.price
    available,  \* the foods with isAvailable
    orders,     \* orders and order_items: a row for each order that exists
    keyRow,     \* idempotency_keys: the order stored under each key
    request,    \* the checkout requests in flight
    answered    \* history: the orders the senders of each key were told of

checkoutVars == <<cart, price, available, orders, keyRow, request, answered>>

\* The snapshot of a cart: each food with the price it had.
Lines == UNION {[items -> Prices] : items \in SUBSET Foods}

NoLines == [f \in {} |-> 0]

\* The order's row and its items; the key is None while there is no such row.
NoRow == [key |-> None, lines |-> NoLines]

IsPlaced(o) == orders[o].key # None

Idle == [pc |-> "idle", key |-> None, lines |-> NoLines]

\* totalPrice: the sum over the snapshot.
TotalOf(lines) == SumFunction(lines)

CheckoutInit ==
    /\ cart = [u \in Users |-> {}]
    /\ price \in [Foods -> Prices]
    /\ available = Foods
    /\ orders = [o \in Orders |-> NoRow]
    /\ keyRow = [k \in Keys |-> None]
    /\ request = [r \in Requests |-> Idle]
    /\ answered = [k \in Keys |-> {}]

\* The sender of k is told of order o, or the answer is lost.
Answer(k, o) ==
    \/ answered' = [answered EXCEPT ![k] = @ \cup {o}]
    \/ UNCHANGED answered

-----------------------------------------------------------------------------
(* The request                                                             *)

\* Mutant: the request goes on without its key.
SubmitForgetsKey(r, k) ==
    /\ request[r].pc = "idle"
    /\ keyRow[k] = None
    /\ request' = [request EXCEPT ![r] = [Idle EXCEPT !.pc = "submitted"]]
    /\ UNCHANGED <<cart, price, available, orders, keyRow, answered>>

\* OrderService.checkout: a key that has an order is answered at once.
Submit(r, k) ==
    /\ request[r].pc = "idle"
    /\ \/ /\ keyRow[k] # None
          /\ Answer(k, keyRow[k])
          /\ UNCHANGED request
       \/ /\ keyRow[k] = None
          /\ request' = [request EXCEPT ![r] = [Idle EXCEPT !.pc = "submitted", !.key = k]]
          /\ UNCHANGED answered
    /\ UNCHANGED <<cart, price, available, orders, keyRow>>

\* Step 1 of the transaction looks at the key again.
ReadKey(r) ==
    LET k == request[r].key
    IN  /\ request[r].pc = "submitted"
        /\ \/ /\ keyRow[k] # None
              /\ Answer(k, keyRow[k])
              /\ request' = [request EXCEPT ![r] = Idle]
           \/ /\ keyRow[k] = None
              /\ request' = [request EXCEPT ![r].pc = "keyRead"]
              /\ UNCHANGED answered
        /\ UNCHANGED <<cart, price, available, orders, keyRow>>

\* Step 2 reads the cart and its foods: no food or an unavailable one is an error.
ReadCart(r) ==
    LET items == cart[KeyUser[request[r].key]]
    IN  /\ request[r].pc = "keyRead"
        /\ \/ /\ items # {} /\ items \subseteq available
              /\ request' = [request EXCEPT ![r].pc = "cartRead",
                                            ![r].lines = Restrict(price, items)]
           \/ /\ items = {} \/ ~(items \subseteq available)
              /\ request' = [request EXCEPT ![r] = Idle]
        /\ UNCHANGED <<cart, price, available, orders, keyRow, answered>>

\* Mutant: the key is stored outside the transaction, and that write is lost.
WriteOrderWithoutKey(r, o) ==
    LET k == request[r].key
    IN  /\ ~IsPlaced(o)
        /\ orders' = [orders EXCEPT ![o] = [key |-> k, lines |-> request[r].lines]]
        /\ cart' = [cart EXCEPT ![KeyUser[k]] = {}]
        /\ request' = [request EXCEPT ![r] = Idle]
        /\ Answer(k, o)
        /\ UNCHANGED <<price, available, keyRow>>

\* Steps 3 to 8 become visible.  Whatever is in the cart by now is deleted.
WriteOrder(r, o) ==
    LET k == request[r].key
    IN  /\ ~IsPlaced(o)
        /\ orders' = [orders EXCEPT ![o] = [key |-> k, lines |-> request[r].lines]]
        /\ keyRow' = [keyRow EXCEPT ![k] = o]
        /\ cart' = [cart EXCEPT ![KeyUser[k]] = {}]
        /\ request' = [request EXCEPT ![r] = Idle]
        /\ Answer(k, o)
        /\ UNCHANGED <<price, available>>

\* Mutant: no unique index on the key.
CommitNotUnique(r, o) == request[r].pc = "cartRead" /\ WriteOrder(r, o)

Commit(r, o) ==
    /\ request[r].pc = "cartRead"
    /\ keyRow[request[r].key] = None
    /\ WriteOrder(r, o)

\* The unique index refuses the key: the transaction rolls back, the client is
\* told of a conflict.  Any other failure, a time-out or the death of the
\* replica rolls it back as well.
Abort(r) ==
    /\ request[r].pc # "idle"
    /\ request' = [request EXCEPT ![r] = Idle]
    /\ UNCHANGED <<cart, price, available, orders, keyRow, answered>>

-----------------------------------------------------------------------------
(* Around the request                                                      *)

\* The cart worker replaces the rows of the user's cart (module CartPipeline).
SyncCart(u, items) ==
    /\ cart' = [cart EXCEPT ![u] = items]
    /\ UNCHANGED <<price, available, orders, keyRow, request, answered>>

\* An administrator edits a food.
EditFood(f, newPrice, isAvailable) ==
    /\ price' = [price EXCEPT ![f] = newPrice]
    /\ available' = IF isAvailable THEN available \cup {f} ELSE available \ {f}
    /\ UNCHANGED <<cart, orders, keyRow, request, answered>>

\* Every step but the commit of an order.
CheckoutStep ==
    \/ \E r \in Requests, k \in Keys : Submit(r, k)
    \/ \E r \in Requests : ReadKey(r) \/ ReadCart(r) \/ Abort(r)
    \/ \E u \in Users, items \in SUBSET Foods : SyncCart(u, items)
    \/ \E f \in Foods, p \in Prices, isAvailable \in BOOLEAN : EditFood(f, p, isAvailable)

CheckoutNext ==
    \/ \E r \in Requests, o \in Orders : Commit(r, o)
    \/ CheckoutStep

CheckoutSpec == CheckoutInit /\ [][CheckoutNext]_checkoutVars

-----------------------------------------------------------------------------

RequestType ==
    [pc : {"idle", "submitted", "keyRead", "cartRead"},
     key : Keys \cup {None}, lines : Lines]

\* The variables have their types, and a request that is under way has a key.
CheckoutTypeOK ==
    /\ cart \in [Users -> SUBSET Foods]
    /\ price \in [Foods -> Prices]
    /\ available \subseteq Foods
    /\ orders \in [Orders -> [key : Keys \cup {None}, lines : Lines]]
    /\ keyRow \in [Keys -> Orders \cup {None}]
    /\ request \in [Requests -> RequestType]
    /\ \A r \in Requests : request[r].pc # "idle" => request[r].key \in Keys
    /\ answered \in [Keys -> SUBSET Orders]

\* Requests with the same key that overlap, fail and are sent again never leave
\* two orders of one key.
OneOrderPerKey ==
    \A o1, o2 \in Orders : IsPlaced(o1) /\ orders[o1].key = orders[o2].key => o1 = o2

\* The key's row and the order it names are written together or not at all, and
\* no client was ever told of an order that is not the one of its key.
NoZombieOrder ==
    /\ \A o \in Orders : IsPlaced(o) => keyRow[orders[o].key] = o
    /\ \A k \in Keys : keyRow[k] # None => orders[keyRow[k]].key = k
    /\ \A k \in Keys : answered[k] \subseteq {keyRow[k]}

\* A request that comes late, after its key has an order, neither orders again
\* nor empties the cart the user has filled since.
LateRetryIsHarmless ==
    [][\A r \in Requests :
          /\ request[r].pc # "idle"
          /\ keyRow[request[r].key] # None
          /\ request'[r] # request[r]
          => UNCHANGED <<cart, orders>>]_checkoutVars

\* The checkouts implement the promise of the idempotency key.
Promise == INSTANCE ExactlyOnce WITH
    outcome <- [k \in Keys |-> {o \in Orders : orders[o].key = k}]

ImplementsExactlyOnce == Promise!Spec
=============================================================================

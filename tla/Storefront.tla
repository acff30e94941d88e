----------------------------- MODULE Storefront -----------------------------
(***************************************************************************)
(* The customer's pages: the cart slice (cartSlice.js) and its copy in     *)
(* localStorage, the cart page (useCart.js), the checkout page             *)
(* (useCheckout.js) and the confirmation page (useOrderConfirmation.js),   *)
(* in several tabs of one browser.  Every tab keeps the cart in memory,    *)
(* reads the stored one only when it is loaded, and overwrites it at each  *)
(* change.                                                                 *)
(*                                                                         *)
(* The orders API (POST /order, GET /order/:id) is external: it accepts an *)
(* order or fails, and finds an order or fails.                            *)
(***************************************************************************)
EXTENDS Integers, Sequences, FiniteSets, Filtering

CONSTANTS
    Tabs,           \* the tabs of the browser
    Foods,          \* the foods of the menu
    Orders,         \* the order requests the tabs can have under way
    MaxQuantity     \* bound on the quantity of a line

ASSUME StoreAssumption == MaxQuantity \in Nat \ {0} /\ Tabs # {}

VARIABLES
    cartItems,      \* the cart slice of each tab: a sequence of lines
    storedCart,     \* localStorage 'cart'
    page,           \* where each tab is
    form,           \* what the checkout form is filled in for
    ordering,       \* the checkout page's loading
    orders,         \* the order requests: [pc, tab, live]
    confirmation    \* the confirmation page: [status, shows, asked]

storeVars ==
    <<cartItems, storedCart, page, form, ordering, orders, confirmation>>

CustomerPage == {"menu", "cart", "checkout", "confirmation"}
Line == [food : Foods, quantity : 1..MaxQuantity]

\* Lines are told apart by item._id, and what the public menu returns has an id
\* and no _id: every line has the key undefined.
KeyOf(food) == "undefined"

\* The form can be sent, or something the browser requires is missing: name,
\* telephone number, or the address of a delivery.
Form == {"incomplete", "complete"}

NoOrder == [pc |-> "free", tab |-> CHOOSE t \in Tabs : TRUE, live |-> FALSE]

\* The confirmation page asks for the order of its address; when the address changes
\* under it, what it shows and the request under way are those of the old one.
NoConfirmation == [status |-> "none", shows |-> "nothing", asked |-> {}]
FirstConfirmation == [status |-> "loading", shows |-> "nothing", asked |-> {"own"}]
Aged(c) == [c EXCEPT !.shows = IF @ = "own" THEN "old" ELSE @,
                     !.asked = {"own"} \union (IF @ = {} THEN {} ELSE {"old"})]

-----------------------------------------------------------------------------
\* The reducers.

HasLine(items, key) == \E i \in DOMAIN items : KeyOf(items[i].food) = key
FirstLine(items, key) ==
    CHOOSE i \in DOMAIN items :
        /\ KeyOf(items[i].food) = key
        /\ \A j \in 1..(i - 1) : KeyOf(items[j].food) # key

\* The line that is there already gets one more; otherwise there is a new one.
Added(items, food) ==
    IF HasLine(items, KeyOf(food))
    THEN [items EXCEPT ![FirstLine(items, KeyOf(food))].quantity = @ + 1]
    ELSE Append(items, [food |-> food, quantity |-> 1])

Removed(items, key) == AtPositions(items, {i \in DOMAIN items : KeyOf(items[i].food) # key})

Requantified(items, key, quantity) ==
    IF HasLine(items, key)
    THEN [items EXCEPT ![FirstLine(items, key)].quantity = quantity]
    ELSE items

\* The checkout page leaves for the cart page when the cart is empty.
Landing(p, items) == IF p = "checkout" /\ items = <<>> THEN "cart" ELSE p

\* Requests of a tab whose checkout page is gone run on, unheard by any page.
Unheard(t) ==
    [o \in Orders |-> IF orders[o].tab = t THEN [orders[o] EXCEPT !.live = FALSE]
                                           ELSE orders[o]]

-----------------------------------------------------------------------------
StoreInit ==
    /\ cartItems = [t \in Tabs |-> <<>>]
    /\ storedCart = <<>>
    /\ page = [t \in Tabs |-> "menu"]
    /\ form = [t \in Tabs |-> "incomplete"]
    /\ ordering = [t \in Tabs |-> FALSE]
    /\ confirmation = [t \in Tabs |-> NoConfirmation]
    /\ orders = [o \in Orders |-> NoOrder]

\* Each reducer writes what it leaves to localStorage, over whatever another tab has
\* put there since this one read it.
ChangeCart(t, items) ==
    /\ cartItems' = [cartItems EXCEPT ![t] = items]
    /\ storedCart' = items
    /\ UNCHANGED <<page, form, ordering, orders, confirmation>>

AddToStoredCart(t, food) ==
    /\ page[t] = "menu"
    /\ \A i \in DOMAIN cartItems[t] : cartItems[t][i].quantity < MaxQuantity
    /\ ChangeCart(t, Added(cartItems[t], food))

\* Mutant: a quantity of zero is stored as any other.
ChangeQuantityToZero(t, i, quantity) ==
    /\ page[t] = "cart"
    /\ quantity \in {cartItems[t][i].quantity - 1, cartItems[t][i].quantity + 1}
    /\ ChangeCart(t, Requantified(cartItems[t], KeyOf(cartItems[t][i].food), quantity))

\* The - and + buttons of a line: below one, the line goes.
ChangeQuantity(t, i, quantity) ==
    /\ page[t] = "cart"
    /\ quantity \in {cartItems[t][i].quantity - 1, cartItems[t][i].quantity + 1}
    /\ LET key == KeyOf(cartItems[t][i].food)
       IN  ChangeCart(t, IF quantity < 1 THEN Removed(cartItems[t], key)
                                         ELSE Requantified(cartItems[t], key, quantity))

RemoveItem(t, i) ==
    /\ page[t] = "cart"
    /\ ChangeCart(t, Removed(cartItems[t], KeyOf(cartItems[t][i].food)))

ClearStoredCart(t) ==
    /\ page[t] = "cart"
    /\ cartItems[t] # <<>>
    /\ ChangeCart(t, <<>>)

\* The customer goes to another page, by a link, a button or the address of the
\* page inside the application; a checkout page starts out empty and not loading.
GoTo(t, p) ==
    /\ page[t] # p
    /\ p \in {"menu", "cart", "checkout"}
    /\ page' = [page EXCEPT ![t] = Landing(p, cartItems[t])]
    /\ form' = [form EXCEPT ![t] = "incomplete"]
    /\ ordering' = [ordering EXCEPT ![t] = FALSE]
    /\ confirmation' = [confirmation EXCEPT ![t] = NoConfirmation]
    /\ orders' = Unheard(t)
    /\ UNCHANGED <<cartItems, storedCart>>

\* A tab is loaded: its cart is the stored one, its requests are gone.
LoadTab(t) ==
    /\ cartItems' = [cartItems EXCEPT ![t] = storedCart]
    /\ page' = [page EXCEPT ![t] = Landing(@, storedCart)]
    /\ form' = [form EXCEPT ![t] = "incomplete"]
    /\ confirmation' =
          [confirmation EXCEPT ![t] = IF page[t] = "confirmation" THEN FirstConfirmation
                                                                  ELSE NoConfirmation]
    /\ ordering' = [ordering EXCEPT ![t] = FALSE]
    /\ orders' = [o \in Orders |-> IF orders[o].tab = t THEN NoOrder ELSE orders[o]]
    /\ UNCHANGED storedCart

\* handleChange of the checkout page; the fields stay open while an order is sent.
FillForm(t, filled) ==
    /\ page[t] = "checkout"
    /\ form[t] # filled
    /\ form' = [form EXCEPT ![t] = filled]
    /\ UNCHANGED <<cartItems, storedCart, page, ordering, orders, confirmation>>

\* Mutant: the submit button is not disabled while an order is under way.
PlaceOrderAgain(t, o) ==
    /\ page[t] = "checkout"
    /\ form[t] = "complete"
    /\ orders[o].pc = "free"
    /\ ordering' = [ordering EXCEPT ![t] = TRUE]
    /\ orders' = [orders EXCEPT ![o] = [pc |-> "sent", tab |-> t, live |-> TRUE]]
    /\ UNCHANGED <<cartItems, storedCart, page, form, confirmation>>

\* placeOrder: the submit button is disabled while it runs.
PlaceOrder(t, o) ==
    /\ page[t] = "checkout"
    /\ form[t] = "complete"
    /\ ~ordering[t]
    /\ orders[o].pc = "free"
    /\ ordering' = [ordering EXCEPT ![t] = TRUE]
    /\ orders' = [orders EXCEPT ![o] = [pc |-> "sent", tab |-> t, live |-> TRUE]]
    /\ UNCHANGED <<cartItems, storedCart, page, form, confirmation>>

\* Accepted: the cart is emptied as it is by then, and the tab goes to the
\* confirmation.  The emptied cart also makes a checkout page go to the cart page,
\* and which of the two moves comes last is the renderer's choice.
OrderAccepted(o) ==
    /\ orders[o].pc = "sent"
    /\ LET t == orders[o].tab
       IN  /\ cartItems' = [cartItems EXCEPT ![t] = <<>>]
           /\ storedCart' = <<>>
           /\ \E p \in {"confirmation"} \union (IF page[t] = "checkout" THEN {"cart"} ELSE {}) :
                 /\ page' = [page EXCEPT ![t] = p]
                 /\ confirmation' =
                       [confirmation EXCEPT ![t] =
                           IF p = "cart" THEN NoConfirmation
                           ELSE IF page[t] = "confirmation" THEN Aged(@)
                           ELSE FirstConfirmation]
           /\ form' = [form EXCEPT ![t] = "incomplete"]
           /\ ordering' = [ordering EXCEPT ![t] = FALSE]
           /\ orders' = [Unheard(t) EXCEPT ![o] = NoOrder]

\* Refused, or no answer: the page that waits for it is free again.
OrderFails(o) ==
    /\ orders[o].pc = "sent"
    /\ ordering' = IF orders[o].live THEN [ordering EXCEPT ![orders[o].tab] = FALSE]
                                     ELSE ordering
    /\ orders' = [orders EXCEPT ![o] = NoOrder]
    /\ UNCHANGED <<cartItems, storedCart, page, form, confirmation>>

-----------------------------------------------------------------------------
\* An answer for the confirmation page that is still there: found or not, the last
\* one that arrives is what the page shows, whichever address it was asked for.
OrderShown(t, which) ==
    /\ which \in confirmation[t].asked
    /\ confirmation' = [confirmation EXCEPT ![t] = [status |-> "shown", shows |-> which,
                                                   asked |-> @.asked \ {which}]]
    /\ UNCHANGED <<cartItems, storedCart, page, form, ordering, orders>>

OrderNotFound(t, which) ==
    /\ which \in confirmation[t].asked
    /\ confirmation' = [confirmation EXCEPT ![t].status = "error",
                                           ![t].asked = @ \ {which}]
    /\ UNCHANGED <<cartItems, storedCart, page, form, ordering, orders>>

StoreNext ==
    \/ \E t \in Tabs :
          \/ \E food \in Foods : AddToStoredCart(t, food)
          \/ \E i \in DOMAIN cartItems[t] :
                \/ \E quantity \in 0..MaxQuantity : ChangeQuantity(t, i, quantity)
                \/ RemoveItem(t, i)
          \/ ClearStoredCart(t) \/ LoadTab(t)
          \/ \E p \in CustomerPage : GoTo(t, p)
          \/ \E filled \in Form : FillForm(t, filled)
          \/ \E which \in {"own", "old"} : OrderShown(t, which) \/ OrderNotFound(t, which)
          \/ \E o \in Orders : PlaceOrder(t, o)
    \/ \E o \in Orders : OrderAccepted(o) \/ OrderFails(o)

StoreSpec == StoreInit /\ [][StoreNext]_storeVars

-----------------------------------------------------------------------------
\* The types of the storefront's state.
StoreTypeOK ==
    /\ \A t \in Tabs : \A i \in DOMAIN cartItems[t] : cartItems[t][i] \in Line
    /\ \A i \in DOMAIN storedCart : storedCart[i] \in Line
    /\ page \in [Tabs -> CustomerPage]
    /\ form \in [Tabs -> Form]
    /\ ordering \in [Tabs -> BOOLEAN]
    /\ orders \in [Orders -> [pc : {"free", "sent"}, tab : Tabs, live : BOOLEAN]]
    /\ confirmation \in [Tabs -> [status : {"none", "loading", "shown", "error"},
                                  shows : {"nothing", "own", "old"},
                                  asked : SUBSET {"own", "old"}]]

\* One visit to the checkout page never has two orders under way, however it is
\* submitted and whatever fails, and a page that loads has its order to wait for
\* (useCheckout.js:46-74).  Nothing stops a customer who leaves the page and comes
\* back from ordering the same cart again.
OneOrderPerVisit ==
    \A t \in Tabs :
        Cardinality({o \in Orders : orders[o].pc = "sent" /\ orders[o].tab = t
                                       /\ orders[o].live})
            = IF ordering[t] THEN 1 ELSE 0

\* The spinner of the confirmation page has a request behind it, also when a second
\* order is accepted under it (useOrderConfirmation.js:22-48).
ConfirmationSpinnerHasARequest ==
    \A t \in Tabs : confirmation[t].status = "loading" => confirmation[t].asked # {}
=============================================================================

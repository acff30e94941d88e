---------------------------- MODULE FoodCatalogue ----------------------------
(***************************************************************************)
(* The foods: food.service.ts and prisma-food.repository.ts, the admin's   *)
(* page over them (useMenuManagement.js), other clients of the same API,   *)
(* the public menu, and the orders that refer to foods.                    *)
(*                                                                         *)
(* Of a food the price and the availability are kept.  Prices are whole    *)
(* cents in the table and decimal amounts everywhere else: an amount is    *)
(* named by its cents, and arithmetic on it is inexact.                    *)
(***************************************************************************)
EXTENDS Integers, FiniteSets

CONSTANTS
    Foods,          \* the ids the table hands out
    Prices,         \* the prices people type, in cents
    Saves           \* the requests under way

ASSUME PricesAssumption == Prices \subseteq Nat /\ Prices # {}

VARIABLES
    foods,          \* the table: for each id that has a row, [price, available]
    freeFoods,      \* the ids not handed out yet
    ordered,        \* the ids that lines of orders refer to
    listed,         \* the admin's page: the price it shows for each id
    form,           \* its modal: [id, price, available], or closed
    saves,          \* the requests under way: [pc, op, id, price, available, mine, found]
    menu,           \* the public menu as a customer last saw it
    lastAvailable   \* history: each availability as it was last set on purpose

foodVars == <<foods, freeFoods, ordered, listed, form, saves, menu, lastAvailable>>

NoPrice == -1
Unset == "unset"
Availability == {"yes", "no"}
Food == [price : Prices, available : Availability]

Closed == [id |-> "closed", price |-> NoPrice, available |-> Unset]
NewFood == [id |-> "new", price |-> NoPrice, available |-> "yes"]
NoFood == [price |-> CHOOSE p \in Prices : TRUE, available |-> "yes"]
Idle == [pc |-> "free", op |-> "update", id |-> "new", price |-> NoPrice,
         available |-> Unset, mine |-> FALSE, found |-> NoFood]

-----------------------------------------------------------------------------
\* Money.  cents / 100 * 100, or a typed amount times 100, is a double beside the
\* whole number or on it; it is given here in tenths of a cent.
Product(cents) == {10 * cents - 1, 10 * cents, 10 * cents + 1}

\* Mutant: Math.floor.
Floored(tenths) == tenths \div 10

\* Math.round.
Rounded(tenths) == (tenths + 5) \div 10

DisplayToCents(amount) == {Rounded(x) : x \in Product(amount)}

-----------------------------------------------------------------------------
FoodInit ==
    /\ foods = [id \in {} |-> NoFood]
    /\ freeFoods = Foods
    /\ ordered = {}
    /\ listed = [id \in {} |-> NoPrice]
    /\ form = Closed
    /\ saves = [s \in Saves |-> Idle]
    /\ menu = {}
    /\ lastAvailable = [id \in {} |-> Unset]

serverVars == <<foods, freeFoods, ordered, lastAvailable>>

\* fetchMenuItems: formatFoodOutput spreads the entity's own fields, which are
\* _id, _name, _isAvailable and so on, and adds the price: of the names the page
\* uses, only _id and price are there.
ShowList ==
    /\ listed' = [id \in DOMAIN foods |-> foods[id].price]
    /\ UNCHANGED <<serverVars, form, saves, menu>>

OpenAdd ==
    /\ form = Closed
    /\ form' = NewFood
    /\ UNCHANGED <<serverVars, listed, saves, menu>>

\* handleEdit copies the row; its isAvailable is undefined.
OpenEdit(id) ==
    /\ form = Closed
    /\ id \in DOMAIN listed
    /\ form' = [id |-> id, price |-> listed[id], available |-> Unset]
    /\ UNCHANGED <<serverVars, listed, saves, menu>>

TypePrice(price) ==
    /\ form # Closed
    /\ form' = [form EXCEPT !.price = price]
    /\ UNCHANGED <<serverVars, listed, saves, menu>>

\* The checkbox: without a value it shows as not checked.
Tick ==
    /\ form # Closed
    /\ form' = [form EXCEPT !.available = IF @ = "yes" THEN "no" ELSE "yes"]
    /\ UNCHANGED <<serverVars, listed, saves, menu>>

CloseModal ==
    /\ form # Closed
    /\ form' = Closed
    /\ UNCHANGED <<serverVars, listed, saves, menu>>

Send(s, op, id, price, available, mine) ==
    /\ saves[s].pc = "free"
    /\ saves' = [saves EXCEPT ![s] = [Idle EXCEPT !.pc = "sent", !.op = op, !.id = id,
                                        !.price = price, !.available = available,
                                        !.mine = mine]]
    /\ UNCHANGED <<serverVars, listed, form, menu>>

\* handleSubmit: its button stays enabled, so a form may be sent twice.
Submit(s) ==
    /\ form # Closed
    /\ form.price # NoPrice
    /\ Send(s, IF form.id = "new" THEN "create" ELSE "update", form.id, form.price,
            form.available, TRUE)

\* Another client of the API sends the fields it likes.
OtherUpdate(s, id, price, available) ==
    /\ id \in DOMAIN foods
    /\ Send(s, "update", id, price, available, FALSE)

\* handleDelete, here or elsewhere.
AskDelete(s, id) ==
    /\ id \in DOMAIN foods \union DOMAIN listed
    /\ Send(s, "delete", id, NoPrice, Unset, FALSE)

-----------------------------------------------------------------------------
\* The server.  The page's own success closes the modal, whatever it shows by now;
\* the list is fetched again by a step of its own.
Succeed(s) ==
    /\ saves' = [saves EXCEPT ![s] = Idle]
    /\ form' = IF saves[s].mine THEN Closed ELSE form
    /\ UNCHANGED <<listed, menu>>

Fail(s) ==
    /\ saves' = [saves EXCEPT ![s] = Idle]
    /\ UNCHANGED <<serverVars, listed, form, menu>>

\* A table with one more row.
NewRow(table, id, row) ==
    [i \in DOMAIN table \union {id} |-> IF i = id THEN row ELSE table[i]]

CreateFood(s) ==
    /\ saves[s].pc = "sent" /\ saves[s].op = "create"
    /\ \E id \in freeFoods, cents \in DisplayToCents(saves[s].price) :
          LET available == IF saves[s].available = Unset THEN "yes" ELSE saves[s].available
          IN  /\ foods' = NewRow(foods, id, [price |-> cents, available |-> available])
              /\ lastAvailable' = NewRow(lastAvailable, id, available)
              /\ freeFoods' = freeFoods \ {id}
    /\ Succeed(s)
    /\ UNCHANGED ordered

\* findById of update and remove: 404 when there is no such food.
FindFood(s) ==
    /\ saves[s].pc = "sent" /\ saves[s].op \in {"update", "delete"}
    /\ IF saves[s].id \in DOMAIN foods
       THEN /\ saves' = [saves EXCEPT ![s].pc = "found", ![s].found = foods[saves[s].id]]
            /\ UNCHANGED <<serverVars, listed, form, menu>>
       ELSE Fail(s)

\* The fields of the body that are not undefined are set.
Patch(row, cents, available) ==
    [price |-> IF cents = NoPrice THEN row.price ELSE cents,
     available |-> IF available = Unset THEN row.available ELSE available]

\* Mutant: the service merges the patch into the row it found and writes it all.
WrittenWhole(row, found, cents, available) == Patch(found, cents, available)

\* prisma.food.update writes the columns of the patch, whatever was found.
WrittenRow(row, found, cents, available) == Patch(row, cents, available)

UpdateFood(s) ==
    /\ saves[s].pc = "found" /\ saves[s].op = "update"
    /\ saves[s].id \in DOMAIN foods
    /\ \E cents \in IF saves[s].price = NoPrice THEN {NoPrice}
                                               ELSE DisplayToCents(saves[s].price) :
          LET id == saves[s].id
              available == saves[s].available
          IN  /\ foods' = [foods EXCEPT ![id] = WrittenRow(@, saves[s].found, cents, available)]
              /\ lastAvailable' =
                    IF available = Unset THEN lastAvailable
                    ELSE [lastAvailable EXCEPT ![id] = available]
    /\ Succeed(s)
    /\ UNCHANGED <<freeFoods, ordered>>

\* Lines of orders keep their food: the database refuses, 400.
Deletable(id) == id \in DOMAIN foods /\ id \notin ordered

DeleteFood(s) ==
    /\ saves[s].pc = "found" /\ saves[s].op = "delete"
    /\ Deletable(saves[s].id)
    /\ LET left == DOMAIN foods \ {saves[s].id}
       IN  /\ foods' = [id \in left |-> foods[id]]
           /\ lastAvailable' = [id \in left |-> lastAvailable[id]]
    /\ saves' = [saves EXCEPT ![s] = Idle]
    /\ UNCHANGED <<freeFoods, ordered, listed, form, menu>>

\* The row is gone since it was found, or an order refers to it.
SaveRefused(s) ==
    /\ saves[s].pc = "found"
    /\ IF saves[s].op = "update" THEN saves[s].id \notin DOMAIN foods
                                 ELSE ~Deletable(saves[s].id)
    /\ Fail(s)

-----------------------------------------------------------------------------
OnMenu == {id \in DOMAIN foods : foods[id].available = "yes"}

\* GET /menu: the foods that are available, by their repository rows.
FetchMenu ==
    /\ menu' = OnMenu
    /\ UNCHANGED <<serverVars, listed, form, saves>>

\* A checkout makes a line for a food that is available by then; Checkout has the
\* rest.
OrderFood(id) ==
    /\ id \in menu \intersect OnMenu
    /\ ordered' = ordered \union {id}
    /\ UNCHANGED <<foods, freeFoods, lastAvailable, listed, form, saves, menu>>

FoodNext ==
    \/ ShowList \/ OpenAdd \/ Tick \/ CloseModal \/ FetchMenu
    \/ \E id \in Foods : OpenEdit(id) \/ OrderFood(id)
    \/ \E price \in Prices : TypePrice(price)
    \/ \E s \in Saves :
          \/ Submit(s) \/ CreateFood(s) \/ FindFood(s) \/ UpdateFood(s) \/ DeleteFood(s)
          \/ SaveRefused(s)
          \/ \E id \in Foods :
                \/ AskDelete(s, id)
                \/ \E price \in Prices \union {NoPrice}, available \in Availability \union {Unset} :
                      OtherUpdate(s, id, price, available)

FoodSpec == FoodInit /\ [][FoodNext]_foodVars

-----------------------------------------------------------------------------
\* The types of the catalogue's state.
FoodTypeOK ==
    /\ DOMAIN foods \subseteq Foods \ freeFoods
    /\ \A id \in DOMAIN foods : foods[id].price \in Nat /\ foods[id].available \in Availability
    /\ DOMAIN lastAvailable = DOMAIN foods
    /\ freeFoods \subseteq Foods /\ ordered \subseteq Foods /\ menu \subseteq Foods
    /\ DOMAIN listed \subseteq Foods
    /\ form.id \in Foods \union {"closed", "new"}
    /\ \A s \in Saves : saves[s].pc \in {"free", "sent", "found"}

\* A price goes from the table to the form and back at every edit, as a decimal
\* amount; however often that happens, it stays a price somebody typed and does
\* not drift by a cent (currency.util.ts:16-41, useMenuManagement.js:59-87).
PricesAreTyped == \A id \in DOMAIN foods : foods[id].price \in Prices

\* A food taken off the menu stays off until somebody puts it back: an edit of its
\* price that was under way, or a form opened before, does not put it back
\* (food.service.ts:59-90, useMenuManagement.js:76-87).
NoLostAvailability == \A id \in DOMAIN foods : foods[id].available = lastAvailable[id]
=============================================================================

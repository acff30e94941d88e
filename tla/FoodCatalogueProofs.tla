------------------------- MODULE FoodCatalogueProofs -------------------------
(***************************************************************************)
(* For any foods, prices and requests in flight: the prices in the table   *)
(* are prices somebody typed, an availability is as it was last set on     *)
(* purpose, and foods that orders refer to stay.                           *)
(***************************************************************************)
EXTENDS FoodCatalogue, TLAPS

PriceOrNone == Prices \union {NoPrice}
AvailableOrUnset == Availability \union {Unset}

\* The table and its history.
TableInv ==
    /\ DOMAIN foods \subseteq Foods \ freeFoods
    /\ \A id \in DOMAIN foods : foods[id] \in Food
    /\ DOMAIN lastAvailable = DOMAIN foods
    /\ freeFoods \subseteq Foods /\ ordered \subseteq Foods /\ menu \subseteq Foods

\* Wherever a price waits to be written, in the list, in the form or in a request, it
\* is one that was typed.
PagesInv ==
    /\ DOMAIN listed \subseteq Foods
    /\ \A id \in DOMAIN listed : listed[id] \in Prices
    /\ form \in [id : Foods \union {"closed", "new"}, price : PriceOrNone,
                 available : AvailableOrUnset]

SaveType ==
    [pc : {"free", "sent", "found"}, op : {"create", "update", "delete"},
     id : Foods \union {"closed", "new"}, price : PriceOrNone,
     available : AvailableOrUnset, mine : BOOLEAN, found : Food]

SavesInv ==
    /\ saves \in [Saves -> SaveType]
    /\ \A s \in Saves : saves[s].pc = "sent" /\ saves[s].op = "create"
                            => saves[s].price \in Prices

FoodInv == TableInv /\ PagesInv /\ SavesInv /\ NoLostAvailability

-----------------------------------------------------------------------------
(* Money                                                                   *)

\* An amount that is a tenth of a cent off is rounded to the cents it was named by.
LEMMA RoundingIsExact ==
    ASSUME NEW cents \in Nat
    PROVE  DisplayToCents(cents) = {cents}
<1>1. Rounded(10 * cents - 1) = cents
  BY DEF Rounded
<1>2. Rounded(10 * cents) = cents
  BY DEF Rounded
<1>3. Rounded(10 * cents + 1) = cents
  BY DEF Rounded
<1> QED
  BY <1>1, <1>2, <1>3 DEF DisplayToCents, Product

LEMMA TypedPricesAreCents ==
    ASSUME NEW price \in Prices
    PROVE  DisplayToCents(price) = {price} /\ price # NoPrice
BY PricesAssumption, RoundingIsExact DEF NoPrice

-----------------------------------------------------------------------------
(* The initial states                                                      *)

LEMMA NoFoodIsAFood == NoFood \in Food /\ Idle \in SaveType
<1>1. NoFood \in Food
  BY PricesAssumption DEF NoFood, Food, Availability
<1> QED
  BY <1>1 DEF Idle, SaveType, PriceOrNone, AvailableOrUnset

LEMMA FoodInitInvariant == FoodInit => FoodInv
<1> SUFFICES ASSUME FoodInit PROVE FoodInv
  OBVIOUS
<1>1. TableInv
  BY DEF FoodInit, TableInv
<1>2. PagesInv
  BY DEF FoodInit, PagesInv, Closed, PriceOrNone, AvailableOrUnset
<1>3. SavesInv
  BY NoFoodIsAFood DEF FoodInit, SavesInv, Idle
<1>4. NoLostAvailability
  BY DEF FoodInit, NoLostAvailability
<1> QED
  BY <1>1, <1>2, <1>3, <1>4 DEF FoodInv

-----------------------------------------------------------------------------
(* The writes to the table                                                 *)

ServerInv == TableInv /\ NoLostAvailability

FoodCreated(id, row) ==
    /\ id \in freeFoods
    /\ foods' = NewRow(foods, id, row)
    /\ lastAvailable' = NewRow(lastAvailable, id, row.available)
    /\ freeFoods' = freeFoods \ {id}
    /\ UNCHANGED <<ordered, menu>>

FoodUpdated(id, cents, available) ==
    /\ id \in DOMAIN foods
    /\ foods' = [foods EXCEPT ![id] = Patch(@, cents, available)]
    /\ lastAvailable' = IF available = Unset THEN lastAvailable
                        ELSE [lastAvailable EXCEPT ![id] = available]
    /\ UNCHANGED <<freeFoods, ordered, menu>>

FoodDeleted(id) ==
    /\ Deletable(id)
    /\ foods' = [i \in DOMAIN foods \ {id} |-> foods[i]]
    /\ lastAvailable' = [i \in DOMAIN foods \ {id} |-> lastAvailable[i]]
    /\ UNCHANGED <<freeFoods, ordered, menu>>

LEMMA CreatedKeeps ==
    ASSUME ServerInv, NEW id \in Foods, NEW row \in Food, FoodCreated(id, row)
    PROVE  ServerInv'
<1> USE DEF ServerInv, TableInv, NoLostAvailability
<1>1. /\ DOMAIN foods' = DOMAIN foods \union {id}
      /\ \A i \in DOMAIN foods' : foods'[i] = IF i = id THEN row ELSE foods[i]
      /\ DOMAIN lastAvailable' = DOMAIN foods'
      /\ \A i \in DOMAIN foods' :
            lastAvailable'[i] = IF i = id THEN row.available ELSE lastAvailable[i]
      /\ freeFoods' = freeFoods \ {id} /\ id \in freeFoods
      /\ UNCHANGED <<ordered, menu>>
  BY DEF FoodCreated, NewRow
<1>2. TableInv'
  BY <1>1
<1>3. NoLostAvailability'
  BY <1>1
<1> QED
  BY <1>1, <1>2, <1>3

LEMMA UpdatedKeeps ==
    ASSUME ServerInv, NEW id \in Foods, NEW cents \in PriceOrNone,
           NEW available \in AvailableOrUnset, FoodUpdated(id, cents, available)
    PROVE  ServerInv'
<1> USE DEF ServerInv, TableInv, NoLostAvailability
<1> DEFINE row == Patch(foods[id], cents, available)
<1>1. /\ id \in DOMAIN foods
      /\ DOMAIN foods' = DOMAIN foods
      /\ \A i \in DOMAIN foods : foods'[i] = IF i = id THEN row ELSE foods[i]
      /\ UNCHANGED <<freeFoods, ordered, menu>>
  BY DEF FoodUpdated
<1>2. foods[id] \in Food
  BY <1>1
<1>3. /\ row \in Food
      /\ row.available = IF available = Unset THEN foods[id].available ELSE available
  BY <1>2 DEF Patch, Food, PriceOrNone, AvailableOrUnset
<1>4. /\ DOMAIN lastAvailable' = DOMAIN foods
      /\ \A i \in DOMAIN foods :
            lastAvailable'[i] = IF i = id /\ available # Unset THEN available
                                ELSE lastAvailable[i]
  BY <1>1 DEF FoodUpdated
<1> HIDE DEF row
<1>5. TableInv'
  BY <1>1, <1>3, <1>4
<1>6. NoLostAvailability'
  BY <1>1, <1>3, <1>4
<1> QED
  BY <1>1, <1>5, <1>6

LEMMA DeletedKeeps ==
    ASSUME ServerInv, NEW id, FoodDeleted(id)
    PROVE  ServerInv'
BY DEF ServerInv, TableInv, NoLostAvailability, FoodDeleted, Deletable

LEMMA ServerUnchangedKeeps ==
    ASSUME ServerInv, UNCHANGED <<foods, freeFoods, ordered, lastAvailable, menu>>
    PROVE  ServerInv'
BY DEF ServerInv, TableInv, NoLostAvailability

-----------------------------------------------------------------------------
(* The steps                                                               *)

\* A request with this content is of the type of requests, and the others stay.
LEMMA OneSaveChanges ==
    ASSUME SavesInv, NEW s \in Saves, NEW save \in SaveType,
           save.pc = "sent" /\ save.op = "create" => save.price \in Prices,
           saves' = [saves EXCEPT ![s] = save]
    PROVE  SavesInv'
BY DEF SavesInv

\* A request that ends leaves the list alone, and the form alone or closed.
LEMMA EndingKeepsPages ==
    ASSUME PagesInv, SavesInv, NEW s \in Saves, saves' = [saves EXCEPT ![s] = Idle],
           listed' = listed, form' \in {Closed, form}
    PROVE  PagesInv' /\ SavesInv'
<1>1. Closed \in [id : Foods \union {"closed", "new"}, price : PriceOrNone,
                  available : AvailableOrUnset]
  BY DEF Closed, PriceOrNone, AvailableOrUnset
<1>2. PagesInv'
  BY <1>1 DEF PagesInv
<1>3. Idle.pc = "free"
  BY DEF Idle
<1> QED
  BY <1>2, <1>3, NoFoodIsAFood, OneSaveChanges

\* The admin's page.
LEMMA PageStepKeeps ==
    ASSUME FoodInv,
           \/ ShowList \/ OpenAdd \/ Tick \/ CloseModal
           \/ \E id \in Foods : OpenEdit(id)
           \/ \E price \in Prices : TypePrice(price)
    PROVE  FoodInv'
<1> DEFINE FormType == [id : Foods \union {"closed", "new"}, price : PriceOrNone,
                        available : AvailableOrUnset]
<1>1. PagesInv /\ SavesInv /\ ServerInv
  BY DEF FoodInv, ServerInv
<1>2. ASSUME UNCHANGED <<serverVars, saves, menu>>, PagesInv'
      PROVE  FoodInv'
  <2>1. ServerInv'
    BY <1>1, <1>2, ServerUnchangedKeeps DEF serverVars
  <2>2. SavesInv'
    BY <1>1, <1>2 DEF SavesInv
  <2> QED
    BY <1>2, <2>1, <2>2 DEF FoodInv, ServerInv
<1>3. ASSUME UNCHANGED <<serverVars, saves, menu, listed>>, form' \in FormType
      PROVE  FoodInv'
  <2>1. PagesInv'
    BY <1>1, <1>3 DEF PagesInv
  <2> QED
    BY <1>2, <1>3, <2>1
<1>4. form \in FormType /\ \A id \in DOMAIN listed : listed[id] \in Prices
  BY <1>1 DEF PagesInv
<1>5. CASE ShowList
  <2>1. \A id \in DOMAIN foods : foods[id].price \in Prices /\ id \in Foods
    BY <1>1 DEF ServerInv, TableInv, Food
  <2>2. PagesInv'
    BY <1>1, <1>5, <2>1 DEF ShowList, PagesInv
  <2> QED
    BY <1>2, <1>5, <2>2 DEF ShowList
<1>6. CASE OpenAdd
  <2>1. NewFood \in FormType
    BY DEF NewFood, PriceOrNone, AvailableOrUnset, Availability
  <2> QED
    BY <1>3, <1>6, <2>1 DEF OpenAdd
<1>7. CASE Tick
  <2>1. [form EXCEPT !.available = IF @ = "yes" THEN "no" ELSE "yes"] \in FormType
    BY <1>4 DEF AvailableOrUnset, Availability
  <2> QED
    BY <1>3, <1>7, <2>1 DEF Tick
<1>8. CASE CloseModal
  <2>1. Closed \in FormType
    BY DEF Closed, PriceOrNone, AvailableOrUnset
  <2> QED
    BY <1>3, <1>8, <2>1 DEF CloseModal
<1>9. ASSUME NEW id \in Foods, OpenEdit(id) PROVE FoodInv'
  <2>1. [id |-> id, price |-> listed[id], available |-> Unset] \in FormType
    BY <1>4, <1>9 DEF OpenEdit, PriceOrNone, AvailableOrUnset
  <2> QED
    BY <1>3, <1>9, <2>1 DEF OpenEdit
<1>10. ASSUME NEW price \in Prices, TypePrice(price) PROVE FoodInv'
  <2>1. [form EXCEPT !.price = price] \in FormType
    BY <1>4 DEF PriceOrNone
  <2> QED
    BY <1>3, <1>10, <2>1 DEF TypePrice
<1> QED
  BY <1>5, <1>6, <1>7, <1>8, <1>9, <1>10

\* A request is sent, by the page or by another client.
LEMMA SendKeeps ==
    ASSUME FoodInv, NEW s \in Saves, NEW op \in {"create", "update", "delete"},
           NEW id \in Foods \union {"closed", "new"}, NEW price \in PriceOrNone,
           NEW available \in AvailableOrUnset, NEW mine \in BOOLEAN,
           op = "create" => price \in Prices,
           Send(s, op, id, price, available, mine)
    PROVE  FoodInv'
<1> DEFINE save == [Idle EXCEPT !.pc = "sent", !.op = op, !.id = id, !.price = price,
                                !.available = available, !.mine = mine]
<1>1. save \in SaveType /\ save.op = op /\ save.price = price
  BY NoFoodIsAFood DEF SaveType
<1>2. saves' = [saves EXCEPT ![s] = save]
      /\ UNCHANGED <<serverVars, listed, form, menu>>
  BY DEF Send
<1> HIDE DEF save
<1>3. SavesInv'
  BY <1>1, <1>2, OneSaveChanges DEF FoodInv
<1>4. PagesInv'
  BY <1>2 DEF FoodInv, PagesInv
<1>5. ServerInv'
  BY <1>2, ServerUnchangedKeeps DEF FoodInv, ServerInv, serverVars
<1> QED
  BY <1>3, <1>4, <1>5 DEF FoodInv, ServerInv

LEMMA SendersKeep ==
    ASSUME FoodInv, NEW s \in Saves,
           \/ Submit(s)
           \/ \E id \in Foods : AskDelete(s, id)
           \/ \E id \in Foods, price \in Prices \union {NoPrice},
                 available \in Availability \union {Unset} : OtherUpdate(s, id, price, available)
    PROVE  FoodInv'
<1>1. CASE Submit(s)
  <2> DEFINE op == IF form.id = "new" THEN "create" ELSE "update"
  <2>1. /\ form.id \in Foods \union {"closed", "new"}
        /\ form.price \in Prices
        /\ form.available \in AvailableOrUnset
    BY <1>1 DEF Submit, FoodInv, PagesInv, PriceOrNone
  <2>2. Send(s, op, form.id, form.price, form.available, TRUE)
    BY <1>1 DEF Submit
  <2>3. op \in {"create", "update", "delete"} /\ form.price \in PriceOrNone
    BY <2>1 DEF PriceOrNone
  <2> HIDE DEF op
  <2> QED
    BY <2>1, <2>2, <2>3, SendKeeps
<1>2. ASSUME NEW id \in Foods, AskDelete(s, id) PROVE FoodInv'
  <2>1. NoPrice \in PriceOrNone /\ Unset \in AvailableOrUnset
    BY DEF PriceOrNone, AvailableOrUnset
  <2>2. Send(s, "delete", id, NoPrice, Unset, FALSE)
    BY <1>2 DEF AskDelete
  <2> QED
    BY <2>1, <2>2, SendKeeps
<1>3. ASSUME NEW id \in Foods, NEW price \in PriceOrNone, NEW available \in AvailableOrUnset,
             OtherUpdate(s, id, price, available)
      PROVE  FoodInv'
  <2>1. Send(s, "update", id, price, available, FALSE)
    BY <1>3 DEF OtherUpdate
  <2> QED
    BY <2>1, SendKeeps
<1> QED
  BY <1>1, <1>2, <1>3 DEF PriceOrNone, AvailableOrUnset

\* What the server does with a request.
LEMMA ServeKeeps ==
    ASSUME FoodInv, NEW s \in Saves,
           CreateFood(s) \/ FindFood(s) \/ UpdateFood(s) \/ DeleteFood(s) \/ SaveRefused(s)
    PROVE  FoodInv'
<1>1. PagesInv /\ SavesInv /\ ServerInv /\ saves[s] \in SaveType
  BY DEF FoodInv, ServerInv, SavesInv
<1>2. ASSUME Fail(s) PROVE FoodInv'
  <2>1. ServerInv'
    BY <1>1, <1>2, ServerUnchangedKeeps DEF Fail, serverVars
  <2>2. PagesInv' /\ SavesInv'
    BY <1>1, <1>2, EndingKeepsPages DEF Fail
  <2> QED
    BY <2>1, <2>2 DEF FoodInv, ServerInv
<1>3. ASSUME Succeed(s) PROVE PagesInv' /\ SavesInv' /\ menu' = menu
  <2>1. form' \in {Closed, form}
    BY <1>3 DEF Succeed
  <2> QED
    BY <1>1, <1>3, <2>1, EndingKeepsPages DEF Succeed
<1>4. CASE CreateFood(s)
  <2>1. PICK id \in freeFoods, cents \in DisplayToCents(saves[s].price) :
          LET available == IF saves[s].available = Unset THEN "yes" ELSE saves[s].available
          IN  /\ foods' = NewRow(foods, id, [price |-> cents, available |-> available])
              /\ lastAvailable' = NewRow(lastAvailable, id, available)
              /\ freeFoods' = freeFoods \ {id}
    BY <1>4 DEF CreateFood
  <2> DEFINE available == IF saves[s].available = Unset THEN "yes" ELSE saves[s].available
             row == [price |-> cents, available |-> available]
  <2>2. saves[s].price \in Prices
    BY <1>1, <1>4 DEF CreateFood, SavesInv
  <2>3. cents \in Prices
    BY <2>1, <2>2, TypedPricesAreCents
  <2>4. row \in Food /\ row.available = available
    BY <1>1, <2>3 DEF SaveType, AvailableOrUnset, Food, Availability
  <2>5. id \in Foods
    BY <1>1 DEF ServerInv, TableInv
  <2>6. Succeed(s) /\ UNCHANGED ordered
    BY <1>4 DEF CreateFood
  <2>7. PagesInv' /\ SavesInv' /\ menu' = menu
    BY <1>3, <2>6
  <2>8. FoodCreated(id, row)
    BY <2>1, <2>4, <2>6, <2>7 DEF FoodCreated
  <2> HIDE DEF row
  <2>9. ServerInv'
    BY <1>1, <2>4, <2>5, <2>8, CreatedKeeps
  <2> QED
    BY <2>7, <2>9 DEF FoodInv, ServerInv
<1>5. CASE FindFood(s)
  <2>1. CASE saves[s].id \in DOMAIN foods
    <3> DEFINE save == [saves[s] EXCEPT !.pc = "found", !.found = foods[saves[s].id]]
    <3>1. foods[saves[s].id] \in Food
      BY <1>1, <2>1 DEF ServerInv, TableInv
    <3>2. save \in SaveType /\ save.pc = "found"
      BY <1>1, <3>1 DEF SaveType
    <3>3. /\ saves' = [saves EXCEPT ![s] = save]
          /\ UNCHANGED <<serverVars, listed, form, menu>>
      BY <1>1, <1>5, <2>1 DEF FindFood, SavesInv
    <3> HIDE DEF save
    <3>4. SavesInv'
      BY <1>1, <3>2, <3>3, OneSaveChanges
    <3>5. PagesInv' /\ ServerInv'
      BY <1>1, <3>3, ServerUnchangedKeeps DEF PagesInv, serverVars
    <3> QED
      BY <3>4, <3>5 DEF FoodInv, ServerInv
  <2>2. CASE saves[s].id \notin DOMAIN foods
    BY <1>2, <1>5, <2>2 DEF FindFood
  <2> QED
    BY <2>1, <2>2
<1>6. CASE UpdateFood(s)
  <2> DEFINE id == saves[s].id
             available == saves[s].available
  <2>1. PICK cents \in IF saves[s].price = NoPrice THEN {NoPrice}
                                                  ELSE DisplayToCents(saves[s].price) :
          /\ foods' = [foods EXCEPT ![id] = WrittenRow(@, saves[s].found, cents, available)]
          /\ lastAvailable' = IF available = Unset THEN lastAvailable
                              ELSE [lastAvailable EXCEPT ![id] = available]
    BY <1>6 DEF UpdateFood
  <2>2. cents \in PriceOrNone
    <3>1. CASE saves[s].price = NoPrice
      BY <3>1 DEF PriceOrNone
    <3>2. CASE saves[s].price # NoPrice
      <4>1. saves[s].price \in Prices
        BY <1>1, <3>2 DEF SaveType, PriceOrNone
      <4>2. cents \in DisplayToCents(saves[s].price)
        BY <3>2
      <4> QED
        BY <4>1, <4>2, TypedPricesAreCents DEF PriceOrNone
    <3> QED
      BY <3>1, <3>2
  <2>3. available \in AvailableOrUnset
    BY <1>1 DEF SaveType
  <2>4. id \in DOMAIN foods /\ Succeed(s) /\ UNCHANGED <<freeFoods, ordered>>
    BY <1>6 DEF UpdateFood
  <2>5. id \in Foods
    BY <1>1, <2>4 DEF ServerInv, TableInv
  <2>6. PagesInv' /\ SavesInv' /\ menu' = menu
    BY <1>3, <2>4
  <2>7. FoodUpdated(id, cents, available)
    BY <2>1, <2>4, <2>6 DEF FoodUpdated, WrittenRow
  <2> HIDE DEF id, available
  <2>8. ServerInv'
    BY <1>1, <2>2, <2>3, <2>5, <2>7, UpdatedKeeps
  <2> QED
    BY <2>6, <2>8 DEF FoodInv, ServerInv
<1>7. CASE DeleteFood(s)
  <2>1. FoodDeleted(saves[s].id)
    BY <1>7 DEF DeleteFood, FoodDeleted
  <2>2. ServerInv'
    BY <1>1, <2>1, DeletedKeeps
  <2>3. PagesInv' /\ SavesInv'
    BY <1>1, <1>7, EndingKeepsPages DEF DeleteFood
  <2> QED
    BY <2>2, <2>3 DEF FoodInv, ServerInv
<1>8. CASE SaveRefused(s)
  BY <1>2, <1>8 DEF SaveRefused
<1> QED
  BY <1>4, <1>5, <1>6, <1>7, <1>8

\* Customers: the menu and the orders.
LEMMA CustomerStepKeeps ==
    ASSUME FoodInv, FetchMenu \/ \E id \in Foods : OrderFood(id)
    PROVE  FoodInv'
<1> USE DEF FoodInv, TableInv, PagesInv, SavesInv, NoLostAvailability
<1>1. CASE FetchMenu
  BY <1>1 DEF FetchMenu, OnMenu, serverVars
<1>2. ASSUME NEW id \in Foods, OrderFood(id) PROVE FoodInv'
  BY <1>2 DEF OrderFood, OnMenu
<1> QED
  BY <1>1, <1>2

LEMMA FoodStepInvariant ==
    ASSUME FoodInv, [FoodNext]_foodVars
    PROVE  FoodInv'
<1>1. CASE UNCHANGED foodVars
  BY <1>1 DEF foodVars, FoodInv, TableInv, PagesInv, SavesInv, NoLostAvailability
<1>2. CASE FoodNext
  BY <1>2, PageStepKeeps, SendersKeep, ServeKeeps, CustomerStepKeeps DEF FoodNext
<1> QED
  BY <1>1, <1>2

-----------------------------------------------------------------------------
(* The theorems                                                            *)

\* The catalogue and everything that waits to be written to it are well formed.
THEOREM FoodInvariant == FoodSpec => []FoodInv
<1>1. FoodInit => FoodInv
  BY FoodInitInvariant
<1>2. FoodInv /\ [FoodNext]_foodVars => FoodInv'
  BY FoodStepInvariant
<1> QED
  BY <1>1, <1>2, PTL DEF FoodSpec

\* However often a price goes through the form and back, and whatever price it is, the
\* table has a price somebody typed (currency.util.ts:16-41,
\* useMenuManagement.js:59-87).
THEOREM PricesStayTyped == FoodSpec => []PricesAreTyped
<1>1. FoodInv => PricesAreTyped
  BY DEF FoodInv, TableInv, Food, PricesAreTyped
<1> QED
  BY <1>1, FoodInvariant, PTL

\* However many edits overlap, an availability is as it was last set on purpose
\* (food.service.ts:59-90).
THEOREM AvailabilityStays == FoodSpec => []NoLostAvailability
<1>1. FoodInv => NoLostAvailability
  BY DEF FoodInv
<1> QED
  BY <1>1, FoodInvariant, PTL
=============================================================================

---------------------------- MODULE CartContracts ----------------------------
(***************************************************************************)
(* Three implementations of the changes of a cart: CartService's own, on   *)
(* the object it keeps in Redis; the Lua scripts, which run inside Redis   *)
(* on the JSON text of the cart; and the functions of mutations.ts; with   *)
(* the validator and the mappings to and from the rows of the database.    *)
(* The service calls neither the scripts nor the functions: they stand     *)
(* ready to take its place.                                                *)
(*                                                                         *)
(* A line is a food and its quantity.  Prices, ids and times are left out. *)
(***************************************************************************)
EXTENDS Integers, Sequences, SequencesExt, FiniteSets, Filtering

CONSTANTS
    Dishes,         \* the foods
    MaxCount        \* bound on the quantity of a line

ASSUME CountAssumption == MaxCount \in Nat \ {0}

VARIABLES
    cartLines,      \* the lines as CartService makes them
    redisValue      \* the value of the key as the scripts make it

contractVars == <<cartLines, redisValue>>

Line(dish, count) == [foodId |-> dish, quantity |-> count]

Has(lines, dish) == \E i \in DOMAIN lines : lines[i].foodId = dish
Without(lines, dish) == AtPositions(lines, {i \in DOMAIN lines : lines[i].foodId # dish})
Quantity(lines, dish) == (CHOOSE line \in Range(lines) : line.foodId = dish).quantity

\* The first line of a food gets another quantity, or is cut out.
First(lines, dish) ==
    CHOOSE i \in DOMAIN lines :
        lines[i].foodId = dish /\ \A j \in 1..(i - 1) : lines[j].foodId # dish
Rewritten(lines, dish, count) == [lines EXCEPT ![First(lines, dish)].quantity = count]
Spliced(lines, dish) == AtPositions(lines, DOMAIN lines \ {First(lines, dish)})

-----------------------------------------------------------------------------
(* CartService.  An operation, a function or a script gives the set of     *)
(* what it returns: nothing when it throws.                                *)

ServiceAdd(lines, dish, count) ==
    IF Has(lines, dish) THEN {Rewritten(lines, dish, Quantity(lines, dish) + count)}
    ELSE {Append(lines, Line(dish, count))}

\* A quantity of 0 takes the line away.
ServiceUpdate(lines, dish, count) ==
    IF ~Has(lines, dish) THEN {}
    ELSE IF count <= 0 THEN {Spliced(lines, dish)}
    ELSE {Rewritten(lines, dish, count)}

ServiceRemove(lines, dish) == IF Has(lines, dish) THEN {Spliced(lines, dish)} ELSE {}

-----------------------------------------------------------------------------
(* mutations.ts.  Its functions throw at a quantity of 0.                  *)

AddItemToCart(lines, dish, count) ==
    IF count <= 0 THEN {}
    ELSE IF Has(lines, dish) THEN {Rewritten(lines, dish, Quantity(lines, dish) + count)}
    ELSE {Append(lines, Line(dish, count))}

UpdateItemInCart(lines, dish, count) ==
    IF count <= 0 \/ ~Has(lines, dish) THEN {} ELSE {Rewritten(lines, dish, count)}

RemoveItemFromCart(lines, dish) ==
    IF Has(lines, dish) THEN {Without(lines, dish)} ELSE {}

-----------------------------------------------------------------------------
(* The scripts.  An empty table is {} in JSON: Lua has no arrays, and      *)
(* cjson makes an array of a table that has a first element.               *)

NoKey == [form |-> "none", items |-> <<>>]
Array(lines) == [form |-> "array", items |-> lines]
Encoded(lines) == IF lines = <<>> THEN [form |-> "object", items |-> <<>>] ELSE Array(lines)

LuaAdd(value, dish, count) ==
    LET lines == value.items
    IN  {Encoded(IF Has(lines, dish)
                 THEN Rewritten(lines, dish, Quantity(lines, dish) + count)
                 ELSE Append(lines, Line(dish, count)))}

\* Mutant: a line of no quantity is kept.
LuaUpdateKeeps(value, dish, count) ==
    IF value = NoKey \/ ~Has(value.items, dish) THEN {}
    ELSE {Encoded(Rewritten(value.items, dish, count))}

LuaUpdate(value, dish, count) ==
    IF value = NoKey \/ ~Has(value.items, dish) THEN {}
    ELSE {Encoded(IF count <= 0 THEN Without(value.items, dish)
                                ELSE Rewritten(value.items, dish, count))}

LuaRemove(value, dish) ==
    IF value = NoKey \/ ~Has(value.items, dish) THEN {}
    ELSE {Encoded(Without(value.items, dish))}

-----------------------------------------------------------------------------
(* types.ts and transformers.ts                                            *)

ValidateRedisCart(value) ==
    value.form = "array" /\ \A i \in DOMAIN value.items : value.items[i].quantity > 0

\* mapRedisCartToDb: rows have no order.
RowsOf(value) == Range(value.items)

\* mapDbCartToRedis, and the lines the rows may come back in.
OrdersOf(rows) == {lines \in [1..Cardinality(rows) -> rows] : Range(lines) = rows}

-----------------------------------------------------------------------------
ContractInit == cartLines = <<>> /\ redisValue = NoKey

\* One change by both; a change that throws leaves its cart alone.
Change(lines, values) ==
    /\ cartLines' \in IF lines = {} THEN {cartLines} ELSE lines
    /\ redisValue' \in IF values = {} THEN {redisValue} ELSE values

\* The controller takes what the DTOs let through: at least 1 to add, at least 0 to
\* update.
Addable == 1..MaxCount
Updatable == 0..MaxCount

AddDish(dish, count) ==
    /\ Has(cartLines, dish) => Quantity(cartLines, dish) + count <= MaxCount
    /\ Change(ServiceAdd(cartLines, dish, count), LuaAdd(redisValue, dish, count))

UpdateDish(dish, count) ==
    Change(ServiceUpdate(cartLines, dish, count), LuaUpdate(redisValue, dish, count))

RemoveDish(dish) ==
    Change(ServiceRemove(cartLines, dish), LuaRemove(redisValue, dish))

\* clearCart, createEmptyRedisCart.
ClearDishes == Change({<<>>}, {Array(<<>>)})

\* The cart goes to the database and comes back, through mutationsToRedisCart and
\* redisCartToMutations.
ThroughDatabase ==
    /\ ValidateRedisCart(redisValue)
    /\ \E lines \in OrdersOf(RowsOf(redisValue)) : Change({lines}, {Array(lines)})

ContractNext ==
    \/ ClearDishes \/ ThroughDatabase
    \/ \E dish \in Dishes :
          \/ RemoveDish(dish)
          \/ \E count \in Addable : AddDish(dish, count)
          \/ \E count \in Updatable : UpdateDish(dish, count)

ContractSpec == ContractInit /\ [][ContractNext]_contractVars

-----------------------------------------------------------------------------
\* The types of both carts.
ContractTypeOK ==
    /\ cartLines \in Seq([foodId : Dishes, quantity : 1..MaxCount])
    /\ redisValue.form \in {"none", "array", "object"}

\* After any changes the DTOs let through, in any order, the service and the scripts
\* hold the same lines, one for each food, and what the scripts wrote passes the
\* validator that the application reads it with, as long as a line is left.  From
\* there the functions do what the service does, whatever quantity they are given, or
\* throw (cart.service.ts:117-288, cart-add.lua:26-53, cart-update.lua:28-56,
\* cart-remove.lua:24-44, mutations.ts:11-84, types.ts:25-67).
CartOpsAgree ==
    /\ redisValue.items = cartLines
    /\ \A i, j \in DOMAIN cartLines : cartLines[i].foodId = cartLines[j].foodId => i = j
    /\ cartLines # <<>> => ValidateRedisCart(redisValue)
    /\ \A dish \in Dishes :
          /\ RemoveItemFromCart(cartLines, dish) = ServiceRemove(cartLines, dish)
          /\ \A count \in 0..MaxCount :
                /\ AddItemToCart(cartLines, dish, count)
                      \subseteq ServiceAdd(cartLines, dish, count)
                /\ UpdateItemInCart(cartLines, dish, count)
                      \subseteq ServiceUpdate(cartLines, dish, count)
=============================================================================

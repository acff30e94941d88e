---------------------------- MODULE CartPipeline ----------------------------
(***************************************************************************)
(* The cart of one user on its way to the database: CartService keeps it   *)
(* in Redis and sends an event for every change, the cart worker consumes  *)
(* the events and copies the cart of Redis into cart_items, and checkout   *)
(* empties cart_items.                                                     *)
(***************************************************************************)
EXTENDS Integers, Sequences

CONSTANTS
    Foods,
    Requests,       \* requests of the user in flight at a time
    Workers,        \* consumers of the user's partition
    NoCart,         \* no key in Redis, or Redis did not answer
    Faults,         \* what can go wrong: a subset of AllFaults
    MaxQuantity,    \* bound on the quantity of one food
    MaxWrites       \* bound on the changes of the cart

AllFaults == {"crash", "db", "expiry", "redis", "send"}

ASSUME CartAssumption ==
    /\ Faults \subseteq AllFaults
    /\ MaxQuantity \in Nat /\ MaxWrites \in Nat

\* Kafka assigns a partition to one consumer of a group.
ASSUME OneConsumer == \A v, w \in Workers : v = w

VARIABLES
    redis,          \* the key cart:user
    writes,         \* number of changes so far: the version of the last one
    topic,          \* the user's partition of cart-events
    handled,        \* the position of the consumer: the last message it is through with
    committed,      \* the committed offset of the consumer group
    processed,      \* the ids processed_events: an event is known by its version
    db,             \* the rows of cart_items, and the version they come from
    owed,           \* the last change that nobody will bring to the database
    request,
    worker

vars == <<redis, writes, topic, handled, committed, processed, db, owed, request, worker>>

-----------------------------------------------------------------------------
(* Carts and events                                                        *)

\* Quantity per food; a food that is not in the cart has none.
Items == [Foods -> 0..MaxQuantity]
EmptyItems == [f \in Foods |-> 0]
Cart == [items : Items, version : 0..MaxWrites]

\* updatedAt of a cart and the id of its event are the number of the change.
\* `written` is not in the message: whether RedisService.set wrote the cart.
CartEvent == [type : {"ITEM", "CLEARED"}, version : 1..MaxWrites, written : BOOLEAN]

Request ==
    [pc : {"idle"}] \cup [pc : {"read"}, cart : Items] \cup [pc : {"changed"}, event : CartEvent]

Worker ==
    [pc : {"idle"}]
      \cup [pc : {"checked", "done", "marked"}, event : Nat]
      \cup [pc : {"read"}, event : Nat, cart : Cart]

Idle == [pc |-> "idle"]

\* Nobody will bring change v to the database.
Owe(v) == owed' = IF v > owed THEN v ELSE owed

\* Nobody will bring the change of this event there, if it was made at all.
OweChange(event) == IF event.written THEN Owe(event.version) ELSE UNCHANGED owed

\* RedisService.get: an error reads as an absent key, and so does every key
\* from a connection error to the next connect.
RedisGet(cart) == cart = redis \/ ("redis" \in Faults /\ cart = NoCart)

Init ==
    /\ redis = NoCart
    /\ writes = 0
    /\ topic = <<>>
    /\ handled = 0
    /\ committed = 0
    /\ processed = {}
    /\ db = [items |-> EmptyItems, version |-> 0]
    /\ owed = 0
    /\ request = [r \in Requests |-> Idle]
    /\ worker = [w \in Workers |-> Idle]

workerSide == <<handled, committed, processed, db, worker>>
requestSide == <<redis, writes, topic, request>>

-----------------------------------------------------------------------------
(* CartService                                                             *)

\* Mutant: the event is sent before the cart is written.
ReadCartAndEmit(r) ==
    /\ request[r].pc = "idle"
    /\ writes < MaxWrites
    /\ topic' = Append(topic, [type |-> "ITEM", version |-> writes + 1, written |-> TRUE])
    /\ request' = [request EXCEPT ![r] =
          [pc |-> "read", cart |-> IF redis = NoCart THEN EmptyItems ELSE redis.items]]
    /\ UNCHANGED <<redis, writes, owed>>
    /\ UNCHANGED workerSide

\* Every change but clearCart starts from the cart in Redis, or an empty one.
ReadCart(r) ==
    /\ request[r].pc = "idle"
    /\ \E cart \in {redis, NoCart} :
          /\ RedisGet(cart)
          /\ request' = [request EXCEPT ![r] =
                [pc |-> "read", cart |-> IF cart = NoCart THEN EmptyItems ELSE cart.items]]
    /\ UNCHANGED <<redis, writes, topic, owed>>
    /\ UNCHANGED workerSide

\* The change is written to Redis; its event is still to be sent. Between a
\* connection error and the next connect set returns without writing, and the
\* event of a change that is nowhere goes out all the same.
WriteRedis(r, type, items) ==
    /\ writes < MaxWrites
    /\ writes' = writes + 1
    /\ \E written \in BOOLEAN :
          /\ \/ written /\ redis' = [items |-> items, version |-> writes']
             \/ ~written /\ "redis" \in Faults /\ UNCHANGED redis
          /\ request' = [request EXCEPT ![r] =
                [pc |-> "changed",
                 event |-> [type |-> type, version |-> writes', written |-> written]]]
    /\ UNCHANGED <<topic, owed>>
    /\ UNCHANGED workerSide

AddToCart(r, f, quantity) ==
    /\ request[r].pc = "read"
    /\ request[r].cart[f] + quantity <= MaxQuantity
    /\ WriteRedis(r, "ITEM", [request[r].cart EXCEPT ![f] = @ + quantity])

\* Mutant: an update adds to the quantity instead of replacing it.
UpdateCartItemByDelta(r, f, quantity) ==
    /\ request[r].pc = "read"
    /\ request[r].cart[f] > 0
    /\ WriteRedis(r, "ITEM", [request[r].cart EXCEPT ![f] = @ + quantity])

\* A quantity of 0 removes the food.
UpdateCartItem(r, f, quantity) ==
    /\ request[r].pc = "read"
    /\ request[r].cart[f] > 0
    /\ WriteRedis(r, "ITEM", [request[r].cart EXCEPT ![f] = quantity])

RemoveFromCart(r, f) ==
    /\ request[r].pc = "read"
    /\ request[r].cart[f] > 0
    /\ WriteRedis(r, "ITEM", [request[r].cart EXCEPT ![f] = 0])

\* clearCart does not look at the cart it replaces.
ClearCart(r) ==
    /\ request[r].pc = "idle"
    /\ WriteRedis(r, "CLEARED", EmptyItems)

\* update and remove of a food that is not in the cart.
NotFound(r, f) ==
    /\ request[r].pc = "read"
    /\ request[r].cart[f] = 0
    /\ request' = [request EXCEPT ![r] = Idle]
    /\ UNCHANGED <<redis, writes, topic, owed>>
    /\ UNCHANGED workerSide

\* The producer is idempotent: a change is sent at most once.
EmitEvent(r) ==
    /\ request[r].pc = "changed"
    /\ topic' = Append(topic, request[r].event)
    /\ request' = [request EXCEPT ![r] = Idle]
    /\ UNCHANGED <<redis, writes, owed>>
    /\ UNCHANGED workerSide

\* The write to Redis or the send fails, or the server dies: the cart may have
\* changed without an event.
RequestFails(r) ==
    /\ "send" \in Faults
    /\ \/ request[r].pc = "read" /\ UNCHANGED owed
       \/ request[r].pc = "changed" /\ OweChange(request[r].event)
    /\ request' = [request EXCEPT ![r] = Idle]
    /\ UNCHANGED <<redis, writes, topic>>
    /\ UNCHANGED workerSide

\* Seven days without a change.
Expire ==
    /\ "expiry" \in Faults
    /\ redis # NoCart
    /\ redis' = NoCart
    /\ UNCHANGED <<writes, topic, owed, request>>
    /\ UNCHANGED workerSide

\* Checkout deletes the rows of cart_items and leaves Redis alone: until the
\* next sync the two differ.
Checkout ==
    /\ db.items # EmptyItems
    /\ db' = [items |-> EmptyItems, version |-> 0]
    /\ Owe(db.version)
    /\ UNCHANGED <<handled, committed, processed, worker>>
    /\ UNCHANGED requestSide

-----------------------------------------------------------------------------
(* CartWorker                                                              *)

EventOf(w) == topic[worker[w].event]

Goto(w, pc) == worker' = [worker EXCEPT ![w] = [pc |-> pc, event |-> worker[w].event]]

\* Mutant: the event is marked before it is processed.
DeliverMarked(w) ==
    /\ worker[w] = Idle
    /\ handled < Len(topic)
    /\ worker' = [worker EXCEPT ![w] =
          [pc    |-> IF topic[handled + 1].version \in processed THEN "marked" ELSE "checked",
           event |-> handled + 1]]
    /\ processed' = processed \cup {topic[handled + 1].version}
    /\ UNCHANGED <<handled, committed, db, owed>>
    /\ UNCHANGED requestSide

\* The next message; an event that is known to be processed is skipped.
Deliver(w) ==
    /\ worker[w] = Idle
    /\ handled < Len(topic)
    /\ \E pc \in {"checked", "marked"} :
          /\ pc = "marked" => topic[handled + 1].version \in processed
          /\ pc = "checked" => topic[handled + 1].version \notin processed \/ "redis" \in Faults
          /\ worker' = [worker EXCEPT ![w] = [pc |-> pc, event |-> handled + 1]]
    /\ UNCHANGED <<handled, committed, processed, db, owed>>
    /\ UNCHANGED requestSide

\* syncCartToDatabase reads the cart of Redis: without one there is nothing to do.
ReadRedisCart(w) ==
    /\ worker[w].pc = "checked"
    /\ EventOf(w).type = "ITEM"
    /\ \E cart \in {redis, NoCart} :
          /\ RedisGet(cart)
          /\ \/ cart = NoCart /\ Goto(w, "done") /\ OweChange(EventOf(w))
             \/ /\ cart # NoCart
                /\ worker' = [worker EXCEPT ![w] =
                      [pc |-> "read", event |-> worker[w].event, cart |-> cart]]
                /\ UNCHANGED owed
    /\ UNCHANGED <<handled, committed, processed, db>>
    /\ UNCHANGED requestSide

\* The transaction of syncCartToDatabase replaces the rows.
WriteCart(w) ==
    /\ worker[w].pc = "read"
    /\ db' = worker[w].cart
    /\ Goto(w, "done")
    /\ UNCHANGED <<handled, committed, processed, owed>>
    /\ UNCHANGED requestSide

\* clearCartInDatabase deletes the rows, whatever Redis holds: if the clear was
\* not written there, the change that the rows came from is owed again.
ClearCartInDatabase(w) ==
    /\ worker[w].pc = "checked"
    /\ EventOf(w).type = "CLEARED"
    /\ \/ /\ EventOf(w).written
          /\ db' = [items |-> EmptyItems, version |-> EventOf(w).version]
          /\ UNCHANGED owed
       \/ /\ ~EventOf(w).written
          /\ db' = [items |-> EmptyItems, version |-> 0]
          /\ Owe(db.version)
    /\ Goto(w, "done")
    /\ UNCHANGED <<handled, committed, processed>>
    /\ UNCHANGED requestSide

MarkEventProcessed(w) ==
    /\ worker[w].pc = "done"
    /\ processed' = processed \cup {EventOf(w).version}
    /\ Goto(w, "marked")
    /\ UNCHANGED <<handled, committed, db, owed>>
    /\ UNCHANGED requestSide

\* The consumer moves on, even if the event could not be marked.
ResolveOffset(w) ==
    /\ worker[w].pc = "marked" \/ (worker[w].pc = "done" /\ "redis" \in Faults)
    /\ handled' = worker[w].event
    /\ worker' = [worker EXCEPT ![w] = Idle]
    /\ UNCHANGED <<committed, processed, db, owed>>
    /\ UNCHANGED requestSide

\* autoCommit commits at the end of the batch that was fetched.
CommitOffsets(w) ==
    /\ worker[w] = Idle
    /\ committed < handled
    /\ committed' = handled
    /\ UNCHANGED <<handled, processed, db, owed, worker>>
    /\ UNCHANGED requestSide

\* Mutant: the error is thrown on, and the message stays.
HandlerFailsAgain(w) ==
    /\ "db" \in Faults
    /\ worker[w].pc \in {"checked", "read"}
    /\ worker' = [worker EXCEPT ![w] = Idle]
    /\ UNCHANGED <<handled, committed, processed, db, owed>>
    /\ UNCHANGED requestSide

\* The database fails: eachMessage logs the error, and the consumer moves on.
HandlerFails(w) ==
    /\ "db" \in Faults
    /\ \/ worker[w].pc = "read"
       \/ worker[w].pc = "checked" /\ EventOf(w).type = "CLEARED"
    /\ handled' = worker[w].event
    /\ worker' = [worker EXCEPT ![w] = Idle]
    /\ OweChange(EventOf(w))
    /\ UNCHANGED <<committed, processed, db>>
    /\ UNCHANGED requestSide

\* A clear that was handled and not committed comes again, and is not skipped.
ClearsAgain ==
    \E i \in committed + 1 .. handled :
        topic[i].type = "CLEARED" /\ (topic[i].version \notin processed \/ "redis" \in Faults)

\* Every message after the committed offset is delivered again. What the rows
\* hold is owed again if a clear among them is to delete it.
Crash(w) ==
    /\ "crash" \in Faults
    /\ worker[w] # Idle \/ committed < handled
    /\ worker' = [worker EXCEPT ![w] = Idle]
    /\ handled' = committed
    /\ IF ClearsAgain THEN Owe(db.version) ELSE UNCHANGED owed
    /\ UNCHANGED <<committed, processed, db>>
    /\ UNCHANGED requestSide

-----------------------------------------------------------------------------

RequestStep(r) ==
    \/ ReadCart(r) \/ ClearCart(r) \/ EmitEvent(r) \/ RequestFails(r)
    \/ \E f \in Foods : RemoveFromCart(r, f) \/ NotFound(r, f)
    \/ \E f \in Foods, quantity \in 1..MaxQuantity : AddToCart(r, f, quantity)
    \/ \E f \in Foods, quantity \in 0..MaxQuantity : UpdateCartItem(r, f, quantity)

WorkerStep(w) ==
    \/ Deliver(w) \/ ReadRedisCart(w) \/ WriteCart(w) \/ ClearCartInDatabase(w)
    \/ MarkEventProcessed(w) \/ ResolveOffset(w) \/ CommitOffsets(w)
    \/ HandlerFails(w) \/ Crash(w)

Next ==
    \/ \E r \in Requests : RequestStep(r)
    \/ \E w \in Workers : WorkerStep(w)
    \/ Expire \/ Checkout

Spec == Init /\ [][Next]_vars

-----------------------------------------------------------------------------

CartTypeOK ==
    /\ redis \in Cart \cup {NoCart}
    /\ writes \in 0..MaxWrites
    /\ topic \in Seq(CartEvent)
    /\ handled \in 0..Len(topic)
    /\ committed \in 0..handled
    /\ processed \subseteq 1..MaxWrites
    /\ db \in Cart
    /\ owed \in 0..MaxWrites
    /\ request \in [Requests -> Request]
    /\ worker \in [Workers -> Worker]

\* No change is on its way to the database.
Drained ==
    /\ handled = Len(topic)
    /\ \A r \in Requests : request[r].pc # "changed"
    /\ \A w \in Workers : worker[w] = Idle

\* The event of a clearCart is sent before those of the changes after it.
ClearsInOrder ==
    \A i, j \in 1..Len(topic) :
        i < j /\ topic[j].type = "CLEARED" => topic[i].version < topic[j].version

\* Whatever the order of the other events, the retries, the crashes and the
\* silences of Redis: when nothing is on its way, and what got lost has been made
\* good by a later sync, the database holds the cart of Redis.
SyncedWhenDrained ==
    Drained /\ ClearsInOrder /\ redis # NoCart /\ db.version >= owed => db.items = redis.items

\* A sync never brings a cart that is older than the change it was sent for, if
\* that change was made.
SyncIsFresh ==
    [][\A w \in Workers :
        WriteCart(w) /\ EventOf(w).written => db'.version >= EventOf(w).version]_vars
=============================================================================

------------------------- MODULE CartPipelineProofs -------------------------
(***************************************************************************)
(* For every number of foods, requests and changes, and any set of faults: *)
(* syncs are fresh, and a drained pipeline has the cart of Redis in the    *)
(* database.                                                               *)
(***************************************************************************)
EXTENDS CartPipeline, TLAPS

Positions == 1..Len(topic)

\* The change that the cart of Redis comes from: the last one written.
latest == redis.version

RedisIsWritten == redis # NoCart => 0 < latest /\ latest <= writes

\* An event is of a change made. What is newer than Redis was not written; if
\* Redis holds the change of a clear, it is empty.
Known(e) ==
    /\ e.version <= writes
    /\ redis # NoCart =>
          /\ e.written => e.version <= latest
          /\ e.version = latest => e.written /\ (e.type = "CLEARED" => redis.items = EmptyItems)

EventsAreKnown ==
    /\ \A r \in Requests : request[r].pc = "changed" => Known(request[r].event)
    /\ \A i \in Positions : Known(topic[i])

VersionsAreKnown ==
    /\ db.version <= writes /\ owed <= writes
    /\ redis # NoCart => db.version <= latest /\ owed <= latest

\* The consumer is at the first message it is not through with, and works on it
\* only if it did not see it as processed.
HandlesNext ==
    \A w \in Workers : worker[w].pc # "idle" =>
        /\ worker[w].event = handled + 1 /\ handled < Len(topic)
        /\ worker[w].pc \in {"checked", "read"} =>
              EventOf(w).version \notin processed \/ "redis" \in Faults

\* The consumer is at, or past, an event of change v.
Reached(v) == \E i \in Positions : i <= handled + 1 /\ topic[i].version = v

\* The cart a sync holds has the change it was sent for, and what is newer in
\* Redis has its event behind.
HoldsFresh ==
    \A w \in Workers : worker[w].pc = "read" =>
        /\ worker[w].cart.version <= writes
        /\ EventOf(w).written => EventOf(w).version <= worker[w].cart.version
        /\ redis # NoCart =>
              /\ worker[w].cart.version <= latest
              /\ worker[w].cart.version = latest => worker[w].cart.items = redis.items
              /\ worker[w].cart.version # latest => latest \notin processed /\ ~Reached(latest)

ProcessedIsReached == \A v \in processed : \E i \in Positions : topic[i].version = v

\* The change in Redis is about to be sent, was sent, or will never be.
LastIsAccounted ==
    redis # NoCart =>
        \/ owed = latest
        \/ \E r \in Requests : request[r].pc = "changed" /\ request[r].event.version = latest
        \/ \E i \in Positions : topic[i].version = latest

\* The worker is through with an event of change v.
Through(v) ==
    \E i \in Positions :
        /\ topic[i].version = v
        /\ \/ i <= handled
           \/ v \in processed
           \/ \E w \in Workers : worker[w].pc \in {"done", "marked"} /\ worker[w].event = i

LastIsSynced ==
    redis # NoCart =>
        /\ db.version = latest => db.items = redis.items
        /\ ClearsInOrder /\ Through(latest) => owed = latest \/ db.version = latest

\* Once the change in Redis is marked, no older clear is still to come.
ClearsStay ==
    redis # NoCart /\ ClearsInOrder /\ latest \in processed =>
        \/ owed = latest
        \/ \A k \in Positions : k > handled /\ topic[k].type = "CLEARED" =>
              \/ topic[k].version >= latest
              \/ topic[k].version \in processed /\ "redis" \notin Faults

CartInv ==
    /\ CartTypeOK /\ RedisIsWritten /\ EventsAreKnown /\ VersionsAreKnown /\ HandlesNext
    /\ HoldsFresh /\ ProcessedIsReached /\ LastIsAccounted /\ LastIsSynced /\ ClearsStay

-----------------------------------------------------------------------------
(* One lemma per action                                                    *)

\* What the type invariant says of the parts of the state.
LEMMA StateFacts ==
    ASSUME CartTypeOK
    PROVE  /\ writes \in Nat /\ owed \in Nat /\ db.version \in Nat
           /\ handled \in Nat /\ committed \in Nat /\ Len(topic) \in Nat
           /\ committed <= handled /\ handled <= Len(topic)
           /\ redis # NoCart => redis \in Cart /\ latest \in Nat
           /\ \A i \in Positions : topic[i] \in CartEvent /\ topic[i].version \in Nat
           /\ \A r \in Requests : request[r].pc = "changed" =>
                 request[r].event \in CartEvent /\ request[r].event.version \in Nat
           /\ \A r \in Requests : request[r].pc = "read" => request[r].cart \in Items
           /\ \A v \in processed : v \in Nat
<1>1. /\ writes \in Nat /\ owed \in Nat /\ handled \in Nat /\ Len(topic) \in Nat
      /\ committed \in Nat /\ committed <= handled /\ handled <= Len(topic)
      /\ \A v \in processed : v \in Nat
  BY CartAssumption DEF CartTypeOK
<1>2. db.version \in Nat /\ (redis # NoCart => redis \in Cart /\ latest \in Nat)
  BY CartAssumption DEF CartTypeOK, Cart, latest
<1>3. \A i \in Positions : topic[i] \in CartEvent /\ topic[i].version \in Nat
  <2>1. TAKE i \in Positions
  <2>2. topic[i] \in CartEvent
    BY <2>1 DEF CartTypeOK, Positions
  <2> QED
    BY <2>2, CartAssumption DEF CartEvent
<1>4. \A r \in Requests : request[r] \in Request
  BY DEF CartTypeOK
<1>5. /\ \A r \in Requests : request[r].pc = "changed" => request[r].event \in CartEvent
      /\ \A r \in Requests : request[r].pc = "read" => request[r].cart \in Items
  BY <1>4 DEF Request
<1>6. \A r \in Requests : request[r].pc = "changed" => request[r].event.version \in Nat
  BY <1>5, CartAssumption DEF CartEvent
<1> QED
  BY <1>1, <1>2, <1>3, <1>5, <1>6

\* What the consumer is at.
LEMMA WorkerFacts ==
    ASSUME CartInv, NEW w \in Workers, worker[w].pc # "idle"
    PROVE  /\ worker[w] \in Worker
           /\ worker[w].event \in Positions
           /\ worker[w].event = handled + 1
           /\ EventOf(w) = topic[handled + 1]
           /\ EventOf(w) \in CartEvent
           /\ EventOf(w).version \in 1..MaxWrites /\ EventOf(w).version \in Nat
           /\ Known(EventOf(w))
           /\ worker[w].pc = "read" => worker[w].cart \in Cart /\ worker[w].cart.version \in Nat
           /\ \A v \in Workers : v = w
<1>1. worker[w] \in Worker
  BY DEF CartInv, CartTypeOK
<1>2. worker[w].event = handled + 1 /\ handled < Len(topic)
  BY DEF CartInv, HandlesNext
<1>3. worker[w].event \in Positions
  BY <1>2, StateFacts DEF CartInv, Positions
<1>4. EventOf(w) \in CartEvent /\ Known(EventOf(w))
  BY <1>3, StateFacts DEF EventOf, CartInv, EventsAreKnown
<1>5. worker[w].pc = "read" => worker[w].cart \in Cart
  BY <1>1 DEF Worker
<1>6. worker[w].pc = "read" => worker[w].cart.version \in Nat
  BY <1>5, CartAssumption DEF Cart
<1>7. EventOf(w).version \in 1..MaxWrites /\ EventOf(w).version \in Nat
  BY <1>4, CartAssumption DEF CartEvent
<1>8. \A v \in Workers : v = w
  BY OneConsumer
<1> QED
  BY <1>1, <1>2, <1>3, <1>4, <1>5, <1>6, <1>7, <1>8 DEF EventOf

\* The bounds of the invariant, on what is owed and on what the rows come from.
LEMMA VersionFacts ==
    ASSUME CartInv
    PROVE  /\ owed \in Nat /\ db.version \in Nat /\ writes \in Nat
           /\ owed <= writes /\ db.version <= writes
           /\ redis # NoCart => /\ latest \in Nat /\ 0 < latest /\ latest <= writes
                                /\ owed <= latest /\ db.version <= latest
BY StateFacts DEF CartInv, VersionsAreKnown, RedisIsWritten

\* A change that is marked has an event the worker is through with.
LEMMA ProcessedIsThrough ==
    ASSUME CartInv, NEW v \in processed
    PROVE  Through(v)
BY DEF CartInv, ProcessedIsReached, Through

\* What is owed grows, and never beyond the change in Redis: if the change in
\* Redis was owed, it still is.
LEMMA OweFacts ==
    ASSUME CartInv, NEW event \in CartEvent, Known(event), OweChange(event)
    PROVE  /\ owed' \in 0..MaxWrites /\ owed' <= writes
           /\ redis # NoCart =>
                 /\ owed' <= latest
                 /\ owed = latest \/ event.version = latest => owed' = latest
<1>1. event.version \in Nat /\ event.version \in 1..MaxWrites /\ event.written \in BOOLEAN
  BY CartAssumption DEF CartEvent
<1>2. /\ owed \in 0..MaxWrites
      /\ owed' = (IF event.written /\ event.version > owed THEN event.version ELSE owed)
  BY <1>1 DEF OweChange, Owe, CartInv, CartTypeOK
<1>3. owed' \in 0..MaxWrites /\ owed' <= writes
  BY <1>1, <1>2, VersionFacts, CartAssumption DEF Known
<1>4. ASSUME redis # NoCart
      PROVE  owed' <= latest /\ (owed = latest \/ event.version = latest => owed' = latest)
  <2>1. /\ latest \in Nat /\ owed \in Nat /\ owed <= latest
        /\ event.written => event.version <= latest
        /\ event.version = latest => event.written
    BY <1>4, VersionFacts DEF Known
  <2> QED
    BY <1>1, <1>2, <2>1
<1> QED
  BY <1>3, <1>4

\* The same for the rows that are given up.
LEMMA OweRowsFacts ==
    ASSUME CartInv, Owe(db.version)
    PROVE  /\ owed' \in 0..MaxWrites /\ owed' <= writes
           /\ redis # NoCart =>
                 /\ owed' <= latest
                 /\ owed = latest \/ db.version = latest => owed' = latest
<1>1. owed \in 0..MaxWrites /\ db.version \in 0..MaxWrites
  BY CartAssumption DEF CartInv, CartTypeOK, Cart
<1> QED
  BY <1>1, VersionFacts, CartAssumption DEF Owe

\* A request reads the cart.
LEMMA ReadCartKeeps ==
    ASSUME CartInv, NEW r \in Requests, ReadCart(r)
    PROVE  CartInv'
<1>a. /\ UNCHANGED <<redis, writes, topic, owed, handled, committed, processed, db, worker>>
      /\ request[r].pc = "idle" /\ request'[r].pc = "read"
      /\ \A s \in Requests : s # r => request'[s] = request[s]
  BY DEF ReadCart, workerSide, CartInv, CartTypeOK
<1>1. CartTypeOK'
  BY CartAssumption
     DEF CartInv, CartTypeOK, Cart, Request, Worker, Idle, CartEvent, Items, EmptyItems,
         ReadCart, RedisGet, workerSide
<1>2. RedisIsWritten'
  BY <1>a DEF CartInv, RedisIsWritten, latest
<1>3. EventsAreKnown'
  BY <1>a DEF CartInv, EventsAreKnown, Known, latest, Positions
<1>4. VersionsAreKnown'
  BY <1>a DEF CartInv, VersionsAreKnown, latest
<1>5. HandlesNext'
  BY <1>a DEF CartInv, HandlesNext, EventOf
<1>6. HoldsFresh'
  BY <1>a DEF CartInv, HoldsFresh, Reached, EventOf, latest, Positions
<1>7. ProcessedIsReached'
  BY <1>a DEF CartInv, ProcessedIsReached, Positions
<1>8. LastIsAccounted'
  BY <1>a DEF CartInv, LastIsAccounted, latest, Positions
<1>9. LastIsSynced'
  BY <1>a DEF CartInv, LastIsSynced, Through, ClearsInOrder, latest, Positions
<1>10. ClearsStay'
  BY <1>a DEF CartInv, ClearsStay, ClearsInOrder, latest, Positions
<1> QED
  BY <1>1, <1>2, <1>3, <1>4, <1>5, <1>6, <1>7, <1>8, <1>9, <1>10 DEF CartInv

\* A change of the cart, written or not: its event is still to be sent.
LEMMA WriteRedisKeeps ==
    ASSUME CartInv, NEW r \in Requests, NEW items \in Items, NEW type \in {"ITEM", "CLEARED"},
           type = "CLEARED" => items = EmptyItems, request[r].pc # "changed",
           WriteRedis(r, type, items)
    PROVE  CartInv'
<1>0. PICK written \in BOOLEAN :
      /\ \/ written /\ redis' = [items |-> items, version |-> writes']
         \/ ~written /\ "redis" \in Faults /\ UNCHANGED redis
      /\ request' = [request EXCEPT ![r] =
            [pc |-> "changed",
             event |-> [type |-> type, version |-> writes', written |-> written]]]
  BY DEF WriteRedis
<1>a. PICK event :
      /\ event = [type |-> type, version |-> writes', written |-> written]
      /\ written => redis' = [items |-> items, version |-> writes']
      /\ ~written => redis' = redis
      /\ request' = [request EXCEPT ![r] = [pc |-> "changed", event |-> event]]
  BY <1>0
<1>b. /\ writes \in Nat /\ writes' = writes + 1 /\ writes' \in 1..MaxWrites
      /\ request \in [Requests -> Request]
      /\ UNCHANGED <<topic, owed, handled, committed, processed, db, worker>>
  BY StateFacts, CartAssumption DEF CartInv, CartTypeOK, WriteRedis, workerSide
<1>c. /\ \A i \in Positions : topic[i].version \in Nat /\ topic[i].version <= writes
      /\ \A s \in Requests : request[s].pc = "changed" =>
            request[s].event.version \in Nat /\ request[s].event.version <= writes
      /\ \A w \in Workers : worker[w].pc = "read" =>
            worker[w].cart.version \in Nat /\ worker[w].cart.version <= writes
      /\ \A v \in processed : v \in Nat /\ v <= writes
  BY StateFacts, WorkerFacts
     DEF CartInv, EventsAreKnown, Known, HoldsFresh, ProcessedIsReached
<1>d. /\ request'[r].pc = "changed" /\ request'[r].event = event
      /\ \A s \in Requests : s # r => request'[s] = request[s]
  BY <1>a, <1>b
<1>e. event.type = type /\ event.version = writes + 1 /\ event.written = written
  BY <1>a, <1>b
<1>f. written /\ redis' # NoCart => latest' = writes + 1 /\ redis'.items = items
  BY <1>a, <1>b DEF latest
<1>g. ~written => redis' = redis /\ latest' = latest
  BY <1>a DEF latest
<1>1. CartTypeOK'
  <2>1. redis' \in Cart \cup {NoCart}
    BY <1>a, <1>b, CartAssumption DEF CartInv, CartTypeOK, Cart
  <2>2. request' \in [Requests -> Request]
    <3>1. event \in CartEvent
      BY <1>a, <1>b DEF CartEvent
    <3>2. [pc |-> "changed", event |-> event] \in Request
      BY <3>1 DEF Request
    <3> QED
      BY <1>a, <1>b, <3>2
  <2>3. owed' \in 0..MaxWrites /\ writes' \in 0..MaxWrites
    BY <1>b DEF CartInv, CartTypeOK
  <2> QED
    BY <1>b, <2>1, <2>2, <2>3 DEF CartInv, CartTypeOK
<1>2. RedisIsWritten'
  BY <1>b, <1>f, <1>g, VersionFacts DEF RedisIsWritten
<1>3. EventsAreKnown'
  <2>1. ASSUME NEW e, e.version \in Nat, e.version <= writes, Known(e)
        PROVE  Known(e)'
    BY <1>b, <1>f, <1>g, <2>1 DEF Known
  <2>2. Known(event)'
    BY <1>b, <1>e, <1>f, <1>g, VersionFacts DEF Known, EmptyItems
  <2>3. \A s \in Requests : (request[s].pc = "changed" => Known(request[s].event))'
    <3>0. TAKE s \in Requests
    <3>1. CASE s = r
      BY <1>d, <2>2, <3>1 DEF Known
    <3>2. CASE s # r
      BY <1>c, <1>d, <2>1, <3>2 DEF CartInv, EventsAreKnown
    <3> QED
      BY <3>1, <3>2
  <2>4. \A i \in Positions : Known(topic[i])'
    BY <1>b, <1>c, <2>1 DEF CartInv, EventsAreKnown
  <2> QED
    BY <1>b, <2>3, <2>4 DEF EventsAreKnown, Positions
<1>4. VersionsAreKnown'
  BY <1>b, <1>f, <1>g, VersionFacts DEF VersionsAreKnown
<1>5. HandlesNext'
  BY <1>b DEF CartInv, HandlesNext, EventOf
<1>6. HoldsFresh'
  <2>1. CASE written
    <3>1. redis' # NoCart => latest' \notin processed /\ ~Reached(latest)'
      BY <1>b, <1>c, <1>f, <2>1, VersionFacts DEF Reached, Positions
    <3>2. \A w \in Workers : EventOf(w)' = EventOf(w)
      BY <1>b DEF EventOf
    <3> QED
      BY <1>b, <1>c, <1>f, <2>1, <3>1, <3>2, VersionFacts DEF CartInv, HoldsFresh
  <2>2. CASE ~written
    BY <1>b, <1>c, <1>g, <2>2, VersionFacts
       DEF CartInv, HoldsFresh, Reached, EventOf, Positions
  <2> QED
    BY <2>1, <2>2
<1>7. ProcessedIsReached'
  BY <1>b DEF CartInv, ProcessedIsReached, Positions
<1>8. LastIsAccounted'
  <2>1. CASE written
    BY <1>d, <1>e, <1>f, <1>b, <2>1 DEF LastIsAccounted
  <2>2. CASE ~written
    BY <1>b, <1>d, <1>g, <2>2 DEF CartInv, LastIsAccounted, Positions
  <2> QED
    BY <2>1, <2>2
<1>9. LastIsSynced'
  <2>1. CASE written
    <3>1. redis' # NoCart => db'.version # latest' /\ ~Through(latest)'
      BY <1>b, <1>c, <1>f, <2>1, VersionFacts DEF Through, Positions
    <3> QED
      BY <3>1 DEF LastIsSynced
  <2>2. CASE ~written
    BY <1>b, <1>g, <2>2 DEF CartInv, LastIsSynced, Through, ClearsInOrder, Positions
  <2> QED
    BY <2>1, <2>2
<1>10. ClearsStay'
  <2>1. CASE written
    BY <1>b, <1>c, <1>f, <2>1 DEF ClearsStay
  <2>2. CASE ~written
    BY <1>b, <1>g, <2>2 DEF CartInv, ClearsStay, ClearsInOrder, Positions
  <2> QED
    BY <2>1, <2>2
<1> QED
  BY <1>1, <1>2, <1>3, <1>4, <1>5, <1>6, <1>7, <1>8, <1>9, <1>10 DEF CartInv

\* A change of a food that is not in the cart.
LEMMA NotFoundKeeps ==
    ASSUME CartInv, NEW r \in Requests, NEW f \in Foods, NotFound(r, f)
    PROVE  CartInv'
<1>a. /\ UNCHANGED <<redis, writes, topic, owed, handled, committed, processed, db, worker>>
      /\ request[r].pc = "read" /\ request'[r].pc = "idle"
      /\ \A s \in Requests : s # r => request'[s] = request[s]
  BY DEF NotFound, workerSide, CartInv, CartTypeOK, Idle
<1>1. CartTypeOK'
  BY CartAssumption
     DEF CartInv, CartTypeOK, Cart, Request, Worker, Idle, CartEvent, Items, EmptyItems,
         NotFound, workerSide
<1>2. RedisIsWritten'
  BY <1>a DEF CartInv, RedisIsWritten, latest
<1>3. EventsAreKnown'
  BY <1>a DEF CartInv, EventsAreKnown, Known, latest, Positions
<1>4. VersionsAreKnown'
  BY <1>a DEF CartInv, VersionsAreKnown, latest
<1>5. HandlesNext'
  BY <1>a DEF CartInv, HandlesNext, EventOf
<1>6. HoldsFresh'
  BY <1>a DEF CartInv, HoldsFresh, Reached, EventOf, latest, Positions
<1>7. ProcessedIsReached'
  BY <1>a DEF CartInv, ProcessedIsReached, Positions
<1>8. LastIsAccounted'
  BY <1>a DEF CartInv, LastIsAccounted, latest, Positions
<1>9. LastIsSynced'
  BY <1>a DEF CartInv, LastIsSynced, Through, ClearsInOrder, latest, Positions
<1>10. ClearsStay'
  BY <1>a DEF CartInv, ClearsStay, ClearsInOrder, latest, Positions
<1> QED
  BY <1>1, <1>2, <1>3, <1>4, <1>5, <1>6, <1>7, <1>8, <1>9, <1>10 DEF CartInv

\* The event joins the partition, behind all that are there.
LEMMA EmitEventKeeps ==
    ASSUME CartInv, NEW r \in Requests, EmitEvent(r)
    PROVE  CartInv'
<1>0. PICK event : event = request[r].event
  OBVIOUS
<1>a. /\ topic \in Seq(CartEvent) /\ event \in CartEvent /\ topic' = Append(topic, event)
      /\ UNCHANGED <<redis, writes, owed, handled, committed, processed, db, worker, latest>>
      /\ Known(event) /\ event.version \in Nat
      /\ request[r].pc = "changed" /\ request'[r].pc = "idle"
      /\ \A s \in Requests : s # r => request'[s] = request[s]
  BY <1>0, StateFacts DEF CartInv, CartTypeOK, EmitEvent, workerSide, latest, EventsAreKnown, Idle
<1>b. /\ Len(topic) \in Nat /\ Len(topic') = Len(topic) + 1
      /\ handled \in Nat /\ handled <= Len(topic)
  BY <1>a, StateFacts DEF CartInv
<1>c. /\ Positions' = Positions \cup {Len(topic) + 1}
      /\ \A i \in Positions : topic'[i] = topic[i] /\ i \in Nat /\ i <= Len(topic)
      /\ topic'[Len(topic) + 1] = event
  BY <1>a, <1>b DEF Positions
<1>d. \A w \in Workers : worker[w].pc # "idle" =>
          worker[w].event \in Positions /\ EventOf(w)' = EventOf(w) /\ handled + 1 <= Len(topic)
  BY <1>a, <1>c, WorkerFacts DEF EventOf
<1>1. CartTypeOK'
  <2>1. topic' \in Seq(CartEvent) /\ request' \in [Requests -> Request]
    BY <1>a DEF CartInv, CartTypeOK, EmitEvent, Request, Idle
  <2>2. handled' \in 0..Len(topic')
    BY <1>a, <1>b
  <2> QED
    BY <1>a, <2>1, <2>2 DEF CartInv, CartTypeOK
<1>2. RedisIsWritten'
  BY <1>a DEF CartInv, RedisIsWritten, latest
<1>3. EventsAreKnown'
  <2>0. \A e : Known(e)' <=> Known(e)
    BY <1>a DEF Known
  <2>1. (\A i \in Positions : Known(topic[i]))'
    <3>1. ASSUME NEW i \in Positions'
          PROVE  Known(topic'[i])
      BY <1>a, <1>c, <3>1 DEF CartInv, EventsAreKnown
    <3> QED
      BY <2>0, <3>1
  <2>2. (\A s \in Requests : request[s].pc = "changed" => Known(request[s].event))'
    BY <1>a, <2>0 DEF CartInv, EventsAreKnown
  <2> QED
    BY <2>1, <2>2 DEF EventsAreKnown
<1>4. VersionsAreKnown'
  BY <1>a DEF CartInv, VersionsAreKnown, latest
<1>5. HandlesNext'
  BY <1>a, <1>b, <1>d DEF CartInv, HandlesNext
<1>6. HoldsFresh'
  <2>1. ASSUME NEW w \in Workers, worker[w].pc # "idle"
        PROVE  Reached(latest)' => Reached(latest)
    <3>1. handled + 1 <= Len(topic)
      BY <1>d, <2>1
    <3>2. \A i \in Positions' : i <= handled + 1 => i \in Positions
      BY <1>b, <1>c, <3>1
    <3> QED
      BY <1>a, <1>c, <3>2 DEF Reached
  <2> QED
    BY <1>a, <1>d, <2>1 DEF CartInv, HoldsFresh
<1>7. ProcessedIsReached'
  <2>1. ASSUME NEW v \in processed
        PROVE  \E i \in Positions' : topic'[i].version = v
    <3>1. PICK i \in Positions : topic[i].version = v
      BY DEF CartInv, ProcessedIsReached
    <3> QED
      BY <1>c, <3>1
  <2> QED
    BY <1>a, <2>1 DEF ProcessedIsReached
<1>8. LastIsAccounted'
  <2>1. CASE event.version = latest
    BY <1>a, <1>c, <2>1 DEF LastIsAccounted
  <2>2. CASE event.version # latest
    BY <1>0, <1>a, <1>c, <2>2 DEF CartInv, LastIsAccounted
  <2> QED
    BY <2>1, <2>2
<1>9. LastIsSynced'
  <2>1. ClearsInOrder' => ClearsInOrder
    BY <1>b, <1>c DEF ClearsInOrder, Positions
  <2>2. Through(latest)' => Through(latest)
    <3>1. SUFFICES ASSUME NEW i \in Positions', topic'[i].version = latest,
                          \/ i <= handled
                          \/ latest \in processed
                          \/ \E w \in Workers : worker[w].pc \in {"done", "marked"} /\ worker[w].event = i
                   PROVE  Through(latest)
      BY <1>a DEF Through
    <3>2. CASE latest \in processed
      BY <3>2, ProcessedIsThrough
    <3>3. CASE latest \notin processed
      <4>1. i \in Positions
        BY <1>b, <1>c, <1>d, <3>1, <3>3
      <4> QED
        BY <1>c, <3>1, <4>1 DEF Through
    <3> QED
      BY <3>2, <3>3
  <2> QED
    BY <1>a, <2>1, <2>2 DEF CartInv, LastIsSynced
<1>10. ClearsStay'
  <2>1. SUFFICES ASSUME redis # NoCart, ClearsInOrder', latest \in processed, owed # latest,
                        NEW k \in Positions', k > handled, topic'[k].type = "CLEARED"
                 PROVE  \/ topic'[k].version >= latest
                        \/ topic'[k].version \in processed /\ "redis" \notin Faults
    BY <1>a DEF ClearsStay
  <2>2. CASE k \in Positions
    <3>1. ClearsInOrder
      BY <1>b, <1>c, <2>1 DEF ClearsInOrder, Positions
    <3> QED
      BY <1>c, <2>1, <2>2, <3>1 DEF CartInv, ClearsStay
  <2>3. CASE k = Len(topic) + 1
    <3>1. PICK i \in Positions : topic[i].version = latest
      BY <2>1 DEF CartInv, ProcessedIsReached
    <3>2. i \in Nat /\ 1 <= i /\ i <= Len(topic)
      BY <1>b, <3>1 DEF Positions
    <3>3. i \in 1..Len(topic') /\ k \in 1..Len(topic') /\ i < k
      BY <1>b, <2>3, <3>2
    <3>4. topic'[i].version < topic'[k].version
      BY <2>1, <3>3 DEF ClearsInOrder
    <3>5. topic'[i].version = latest /\ topic'[k].version \in Nat /\ latest \in Nat
      BY <1>a, <1>c, <2>1, <2>3, <3>1, VersionFacts
    <3> QED
      BY <3>4, <3>5
  <2> QED
    BY <1>c, <2>1, <2>2, <2>3
<1> QED
  BY <1>1, <1>2, <1>3, <1>4, <1>5, <1>6, <1>7, <1>8, <1>9, <1>10 DEF CartInv

\* A change without an event is owed.
LEMMA RequestFailsKeeps ==
    ASSUME CartInv, NEW r \in Requests, RequestFails(r)
    PROVE  CartInv'
<1>a. /\ UNCHANGED <<redis, writes, topic, handled, committed, processed, db, worker, latest>>
      /\ request' = [request EXCEPT ![r] = Idle] /\ request \in [Requests -> Request]
      /\ request'[r].pc = "idle"
      /\ \A s \in Requests : s # r => request'[s] = request[s]
  BY DEF CartInv, CartTypeOK, RequestFails, workerSide, latest, Idle
<1>b. /\ owed' \in 0..MaxWrites /\ owed' <= writes
      /\ redis # NoCart =>
            /\ owed' <= latest
            /\ owed = latest => owed' = latest
            /\ request[r].pc = "changed" /\ request[r].event.version = latest => owed' = latest
  <2>1. CASE request[r].pc = "read"
    BY <2>1, VersionFacts DEF RequestFails, CartInv, CartTypeOK
  <2>2. CASE request[r].pc = "changed"
    <3>1. request[r].event \in CartEvent /\ Known(request[r].event) /\ OweChange(request[r].event)
      BY <2>2, StateFacts DEF RequestFails, CartInv, EventsAreKnown
    <3> QED
      BY <3>1, OweFacts
  <2> QED
    BY <2>1, <2>2 DEF RequestFails
<1>1. CartTypeOK'
  BY <1>a, <1>b DEF CartInv, CartTypeOK, Request, Idle
<1>2. RedisIsWritten'
  BY <1>a DEF CartInv, RedisIsWritten, latest
<1>3. EventsAreKnown'
  BY <1>a DEF CartInv, EventsAreKnown, Known, latest, Positions
<1>4. VersionsAreKnown'
  BY <1>a, <1>b, VersionFacts DEF VersionsAreKnown
<1>5. HandlesNext'
  BY <1>a DEF CartInv, HandlesNext, EventOf
<1>6. HoldsFresh'
  BY <1>a DEF CartInv, HoldsFresh, Reached, EventOf, latest, Positions
<1>7. ProcessedIsReached'
  BY <1>a DEF CartInv, ProcessedIsReached, Positions
<1>8. LastIsAccounted'
  BY <1>a, <1>b DEF CartInv, LastIsAccounted, Positions
<1>9. LastIsSynced'
  BY <1>a, <1>b DEF CartInv, LastIsSynced, Through, ClearsInOrder, Positions
<1>10. ClearsStay'
  BY <1>a, <1>b DEF CartInv, ClearsStay, ClearsInOrder, Positions
<1> QED
  BY <1>1, <1>2, <1>3, <1>4, <1>5, <1>6, <1>7, <1>8, <1>9, <1>10 DEF CartInv

\* The cart leaves Redis.
LEMMA ExpireKeeps ==
    ASSUME CartInv, Expire
    PROVE  CartInv'
<1>a. redis' = NoCart /\ UNCHANGED <<writes, topic, owed, request, handled, committed, processed, db, worker>>
  BY DEF Expire, workerSide
<1>1. CartTypeOK'
  BY <1>a DEF CartInv, CartTypeOK
<1>2. RedisIsWritten'
  BY <1>a DEF CartInv, RedisIsWritten, latest
<1>3. EventsAreKnown'
  BY <1>a DEF CartInv, EventsAreKnown, Known, latest, Positions
<1>4. VersionsAreKnown'
  BY <1>a DEF CartInv, VersionsAreKnown, latest
<1>5. HandlesNext'
  BY <1>a DEF CartInv, HandlesNext, EventOf
<1>6. HoldsFresh'
  BY <1>a DEF CartInv, HoldsFresh, Reached, EventOf, latest, Positions
<1>7. ProcessedIsReached'
  BY <1>a DEF CartInv, ProcessedIsReached, Positions
<1>8. LastIsAccounted'
  BY <1>a DEF CartInv, LastIsAccounted, latest, Positions
<1>9. LastIsSynced'
  BY <1>a DEF CartInv, LastIsSynced, Through, ClearsInOrder, latest, Positions
<1>10. ClearsStay'
  BY <1>a DEF CartInv, ClearsStay, ClearsInOrder, latest, Positions
<1> QED
  BY <1>1, <1>2, <1>3, <1>4, <1>5, <1>6, <1>7, <1>8, <1>9, <1>10 DEF CartInv

\* Checkout deletes the rows: the change they came from is owed.
LEMMA CheckoutKeeps ==
    ASSUME CartInv, Checkout
    PROVE  CartInv'
<1>a. /\ UNCHANGED <<redis, writes, topic, request, handled, committed, processed, worker, latest>>
      /\ db' = [items |-> EmptyItems, version |-> 0]
  BY DEF Checkout, requestSide, latest
<1>b. /\ owed' \in 0..MaxWrites /\ owed' <= writes
      /\ redis # NoCart =>
            owed' <= latest /\ (owed = latest \/ db.version = latest => owed' = latest)
  BY OweRowsFacts DEF Checkout
<1>1. CartTypeOK'
  <2>1. db' \in Cart
    BY <1>a, CartAssumption DEF Cart, Items, EmptyItems
  <2> QED
    BY <1>a, <1>b, <2>1 DEF CartInv, CartTypeOK
<1>2. RedisIsWritten'
  BY <1>a DEF CartInv, RedisIsWritten, latest
<1>3. EventsAreKnown'
  BY <1>a DEF CartInv, EventsAreKnown, Known, latest, Positions
<1>4. VersionsAreKnown'
  BY <1>a, <1>b, VersionFacts DEF VersionsAreKnown
<1>5. HandlesNext'
  BY <1>a DEF CartInv, HandlesNext, EventOf
<1>6. HoldsFresh'
  BY <1>a DEF CartInv, HoldsFresh, Reached, EventOf, latest, Positions
<1>7. ProcessedIsReached'
  BY <1>a DEF CartInv, ProcessedIsReached, Positions
<1>8. LastIsAccounted'
  BY <1>a, <1>b DEF CartInv, LastIsAccounted, Positions
<1>9. LastIsSynced'
  BY <1>a, <1>b, VersionFacts DEF CartInv, LastIsSynced, Through, ClearsInOrder, Positions
<1>10. ClearsStay'
  BY <1>a, <1>b DEF CartInv, ClearsStay, ClearsInOrder, Positions
<1> QED
  BY <1>1, <1>2, <1>3, <1>4, <1>5, <1>6, <1>7, <1>8, <1>9, <1>10 DEF CartInv

\* The consumer takes the next message; a change that is marked is skipped.
LEMMA DeliverKeeps ==
    ASSUME CartInv, NEW w \in Workers, Deliver(w)
    PROVE  CartInv'
<1>a. /\ UNCHANGED <<redis, writes, topic, request, handled, committed, processed, db, owed, latest>>
      /\ handled < Len(topic) /\ handled \in Nat /\ Len(topic) \in Nat
      /\ worker \in [Workers -> Worker] /\ \A v \in Workers : v = w
  BY StateFacts, OneConsumer DEF CartInv, CartTypeOK, Deliver, requestSide, latest
<1>b. PICK pc \in {"checked", "marked"} :
         /\ pc = "marked" => topic[handled + 1].version \in processed
         /\ pc = "checked" => topic[handled + 1].version \notin processed \/ "redis" \in Faults
         /\ worker' = [worker EXCEPT ![w] = [pc |-> pc, event |-> handled + 1]]
  BY DEF Deliver
<1>c. /\ worker'[w].pc = pc /\ worker'[w].event = handled + 1
      /\ EventOf(w)' = topic[handled + 1]
  BY <1>a, <1>b DEF EventOf
<1>1. CartTypeOK'
  BY <1>a, <1>b DEF CartInv, CartTypeOK, Worker
<1>2. RedisIsWritten'
  BY <1>a DEF CartInv, RedisIsWritten, latest
<1>3. EventsAreKnown'
  BY <1>a DEF CartInv, EventsAreKnown, Known, latest, Positions
<1>4. VersionsAreKnown'
  BY <1>a DEF CartInv, VersionsAreKnown, latest
<1>5. HandlesNext'
  BY <1>a, <1>b, <1>c DEF HandlesNext
<1>6. HoldsFresh'
  BY <1>a, <1>b, <1>c DEF HoldsFresh
<1>7. ProcessedIsReached'
  BY <1>a DEF CartInv, ProcessedIsReached, Positions
<1>8. LastIsAccounted'
  BY <1>a DEF CartInv, LastIsAccounted, latest, Positions
<1>9. LastIsSynced'
  <2>1. Through(latest)' => Through(latest)
    <3>1. \A i \in Positions : worker'[w].pc \in {"done", "marked"} /\ worker'[w].event = i =>
              topic[i].version \in processed
      BY <1>b, <1>c
    <3> QED
      BY <1>a, <3>1 DEF Through, Positions
  <2>2. ClearsInOrder' = ClearsInOrder
    BY <1>a DEF ClearsInOrder
  <2> QED
    BY <1>a, <2>1, <2>2 DEF CartInv, LastIsSynced
<1>10. ClearsStay'
  BY <1>a DEF CartInv, ClearsStay, ClearsInOrder, latest, Positions
<1> QED
  BY <1>1, <1>2, <1>3, <1>4, <1>5, <1>6, <1>7, <1>8, <1>9, <1>10 DEF CartInv

\* A sync that finds no cart in Redis gives its change up.
LEMMA NoCartKeeps ==
    ASSUME CartInv, NEW w \in Workers, worker[w].pc = "checked",
           Goto(w, "done"), OweChange(EventOf(w)), requestSide' = requestSide,
           UNCHANGED <<handled, committed, processed, db>>
    PROVE  CartInv'
<1>a. /\ UNCHANGED <<redis, writes, topic, request, handled, committed, processed, db, latest>>
      /\ worker[w].event = handled + 1 /\ worker[w].event \in Positions
      /\ EventOf(w) \in CartEvent /\ Known(EventOf(w)) /\ EventOf(w) = topic[handled + 1]
      /\ worker \in [Workers -> Worker] /\ \A v \in Workers : v = w
  BY WorkerFacts DEF CartInv, CartTypeOK, requestSide, latest
<1>b. /\ worker' = [worker EXCEPT ![w] = [pc |-> "done", event |-> worker[w].event]]
      /\ worker'[w].pc = "done" /\ worker'[w].event = handled + 1
  BY <1>a DEF Goto
<1>c. /\ owed' \in 0..MaxWrites /\ owed' <= writes
      /\ redis # NoCart =>
            owed' <= latest /\ (owed = latest \/ EventOf(w).version = latest => owed' = latest)
  BY <1>a, OweFacts
<1>1. CartTypeOK'
  BY <1>a, <1>b, <1>c DEF CartInv, CartTypeOK, Worker, Positions
<1>2. RedisIsWritten'
  BY <1>a DEF CartInv, RedisIsWritten, latest
<1>3. EventsAreKnown'
  BY <1>a DEF CartInv, EventsAreKnown, Known, latest, Positions
<1>4. VersionsAreKnown'
  BY <1>a, <1>c, VersionFacts DEF VersionsAreKnown
<1>5. HandlesNext'
  BY <1>a, <1>b DEF CartInv, HandlesNext
<1>6. HoldsFresh'
  BY <1>a, <1>b DEF HoldsFresh
<1>7. ProcessedIsReached'
  BY <1>a DEF CartInv, ProcessedIsReached, Positions
<1>8. LastIsAccounted'
  BY <1>a, <1>c DEF CartInv, LastIsAccounted, Positions
<1>9. LastIsSynced'
  <2>1. Through(latest)' => Through(latest) \/ EventOf(w).version = latest
    BY <1>a, <1>b DEF Through, Positions
  <2>2. ClearsInOrder' = ClearsInOrder
    BY <1>a DEF ClearsInOrder
  <2> QED
    BY <1>a, <1>c, <2>1, <2>2 DEF CartInv, LastIsSynced
<1>10. ClearsStay'
  BY <1>a, <1>c DEF CartInv, ClearsStay, ClearsInOrder, Positions
<1> QED
  BY <1>1, <1>2, <1>3, <1>4, <1>5, <1>6, <1>7, <1>8, <1>9, <1>10 DEF CartInv

\* A sync that finds a cart holds the one of Redis.
LEMMA HasCartKeeps ==
    ASSUME CartInv, NEW w \in Workers, worker[w].pc = "checked", redis # NoCart,
           worker' = [worker EXCEPT ![w] =
              [pc |-> "read", event |-> worker[w].event, cart |-> redis]],
           UNCHANGED owed, requestSide' = requestSide,
           UNCHANGED <<handled, committed, processed, db>>
    PROVE  CartInv'
<1>a. /\ UNCHANGED <<redis, writes, topic, request, handled, committed, processed, db, owed, latest>>
      /\ worker[w].event = handled + 1 /\ worker[w].event \in Positions
      /\ Known(EventOf(w)) /\ worker \in [Workers -> Worker] /\ \A v \in Workers : v = w
  BY WorkerFacts DEF CartInv, CartTypeOK, requestSide, latest
<1>b. /\ worker'[w].pc = "read" /\ worker'[w].event = handled + 1 /\ worker'[w].cart = redis
      /\ EventOf(w)' = EventOf(w) /\ redis \in Cart
  BY <1>a, StateFacts DEF CartInv, EventOf
<1>1. CartTypeOK'
  BY <1>a, <1>b DEF CartInv, CartTypeOK, Worker, Positions
<1>2. RedisIsWritten'
  BY <1>a DEF CartInv, RedisIsWritten, latest
<1>3. EventsAreKnown'
  BY <1>a DEF CartInv, EventsAreKnown, Known, latest, Positions
<1>4. VersionsAreKnown'
  BY <1>a DEF CartInv, VersionsAreKnown, latest
<1>5. HandlesNext'
  BY <1>a, <1>b DEF CartInv, HandlesNext
<1>6. HoldsFresh'
  BY <1>a, <1>b, VersionFacts DEF HoldsFresh, Known, latest
<1>7. ProcessedIsReached'
  BY <1>a DEF CartInv, ProcessedIsReached, Positions
<1>8. LastIsAccounted'
  BY <1>a DEF CartInv, LastIsAccounted, latest, Positions
<1>9. LastIsSynced'
  <2>1. Through(latest)' => Through(latest)
    BY <1>a, <1>b DEF Through, Positions
  <2>2. ClearsInOrder' = ClearsInOrder
    BY <1>a DEF ClearsInOrder
  <2> QED
    BY <1>a, <2>1, <2>2 DEF CartInv, LastIsSynced
<1>10. ClearsStay'
  BY <1>a DEF CartInv, ClearsStay, ClearsInOrder, latest, Positions
<1> QED
  BY <1>1, <1>2, <1>3, <1>4, <1>5, <1>6, <1>7, <1>8, <1>9, <1>10 DEF CartInv

LEMMA ReadRedisCartKeeps ==
    ASSUME CartInv, NEW w \in Workers, ReadRedisCart(w)
    PROVE  CartInv'
BY NoCartKeeps, HasCartKeeps DEF ReadRedisCart, RedisGet

\* A sync writes the cart it holds, which is the one of Redis or older than an
\* event behind its own.
LEMMA WriteCartKeeps ==
    ASSUME CartInv, NEW w \in Workers, WriteCart(w)
    PROVE  CartInv'
<1>a. /\ UNCHANGED <<redis, writes, topic, request, handled, committed, processed, owed, latest>>
      /\ worker[w].pc = "read" /\ worker[w].event = handled + 1 /\ worker[w].event \in Positions
      /\ worker[w].cart \in Cart /\ db' = worker[w].cart
      /\ worker \in [Workers -> Worker] /\ \A v \in Workers : v = w
      /\ handled \in Nat
  BY WorkerFacts, StateFacts DEF CartInv, CartTypeOK, WriteCart, requestSide, latest
<1>b. /\ worker' = [worker EXCEPT ![w] = [pc |-> "done", event |-> worker[w].event]]
      /\ worker'[w].pc = "done" /\ worker'[w].event = handled + 1
  BY <1>a DEF WriteCart, Goto
<1>c. /\ db'.version <= writes
      /\ redis # NoCart =>
            /\ db'.version <= latest
            /\ db'.version = latest => db'.items = redis.items
            /\ db'.version # latest => latest \notin processed /\ ~Reached(latest)
  BY <1>a DEF CartInv, HoldsFresh
<1>1. CartTypeOK'
  BY <1>a, <1>b DEF CartInv, CartTypeOK, Worker, Positions
<1>2. RedisIsWritten'
  BY <1>a DEF CartInv, RedisIsWritten, latest
<1>3. EventsAreKnown'
  BY <1>a DEF CartInv, EventsAreKnown, Known, latest, Positions
<1>4. VersionsAreKnown'
  BY <1>a, <1>c DEF CartInv, VersionsAreKnown
<1>5. HandlesNext'
  BY <1>a, <1>b DEF CartInv, HandlesNext
<1>6. HoldsFresh'
  BY <1>a, <1>b DEF HoldsFresh
<1>7. ProcessedIsReached'
  BY <1>a DEF CartInv, ProcessedIsReached, Positions
<1>8. LastIsAccounted'
  BY <1>a DEF CartInv, LastIsAccounted, latest, Positions
<1>9. LastIsSynced'
  <2>1. Through(latest)' => latest \in processed \/ Reached(latest)
    BY <1>a, <1>b DEF Through, Reached, Positions
  <2> QED
    BY <1>a, <1>c, <2>1 DEF LastIsSynced
<1>10. ClearsStay'
  BY <1>a DEF CartInv, ClearsStay, ClearsInOrder, latest, Positions
<1> QED
  BY <1>1, <1>2, <1>3, <1>4, <1>5, <1>6, <1>7, <1>8, <1>9, <1>10 DEF CartInv

\* A clear deletes the rows. In order, no later change is synced already.
LEMMA ClearCartInDatabaseKeeps ==
    ASSUME CartInv, NEW w \in Workers, ClearCartInDatabase(w)
    PROVE  CartInv'
<1> DEFINE version == EventOf(w).version
<1>a. /\ UNCHANGED <<redis, writes, topic, request, handled, committed, processed, latest>>
      /\ worker[w].pc = "checked" /\ worker[w].event = handled + 1 /\ worker[w].event \in Positions
      /\ EventOf(w) = topic[handled + 1] /\ EventOf(w).type = "CLEARED" /\ EventOf(w).written \in BOOLEAN
      /\ Known(EventOf(w)) /\ version \in 1..MaxWrites /\ version \in Nat
      /\ version \notin processed \/ "redis" \in Faults
      /\ worker \in [Workers -> Worker] /\ \A v \in Workers : v = w
      /\ handled \in Nat
  BY WorkerFacts, StateFacts
     DEF CartInv, CartTypeOK, ClearCartInDatabase, requestSide, latest, CartEvent, HandlesNext
<1>b. /\ worker' = [worker EXCEPT ![w] = [pc |-> "done", event |-> worker[w].event]]
      /\ worker'[w].pc = "done" /\ worker'[w].event = handled + 1
  BY <1>a DEF ClearCartInDatabase, Goto
<1>c. /\ EventOf(w).written => db' = [items |-> EmptyItems, version |-> version] /\ owed' = owed
      /\ ~EventOf(w).written => db' = [items |-> EmptyItems, version |-> 0] /\ Owe(db.version)
  BY DEF ClearCartInDatabase
<1>d. /\ owed' \in 0..MaxWrites /\ owed' <= writes
      /\ redis # NoCart => owed' <= latest /\ (owed = latest => owed' = latest)
      /\ redis # NoCart /\ ~EventOf(w).written /\ db.version = latest => owed' = latest
  <2>1. CASE EventOf(w).written
    BY <1>c, <2>1, VersionFacts DEF CartInv, CartTypeOK
  <2>2. CASE ~EventOf(w).written
    BY <1>c, <2>2, OweRowsFacts
  <2> QED
    BY <1>a, <2>1, <2>2
<1>e. db'.version \in {0, version} /\ db'.items = EmptyItems /\ (EventOf(w).written => db'.version = version)
      /\ (~EventOf(w).written => db'.version = 0)
  BY <1>a, <1>c
<1> HIDE DEF version
<1>1. CartTypeOK'
  <2>1. db' \in Cart
    BY <1>a, <1>c, CartAssumption DEF Cart, Items, EmptyItems, version
  <2> QED
    BY <1>a, <1>b, <1>d, <2>1 DEF CartInv, CartTypeOK, Worker, Positions
<1>2. RedisIsWritten'
  BY <1>a DEF CartInv, RedisIsWritten, latest
<1>3. EventsAreKnown'
  BY <1>a DEF CartInv, EventsAreKnown, Known, latest, Positions
<1>4. VersionsAreKnown'
  BY <1>a, <1>d, <1>e, VersionFacts DEF VersionsAreKnown, Known, version
<1>5. HandlesNext'
  BY <1>a, <1>b DEF CartInv, HandlesNext
<1>6. HoldsFresh'
  BY <1>a, <1>b DEF HoldsFresh
<1>7. ProcessedIsReached'
  BY <1>a DEF CartInv, ProcessedIsReached, Positions
<1>8. LastIsAccounted'
  BY <1>a, <1>d DEF CartInv, LastIsAccounted, Positions
<1>9. LastIsSynced'
  <2>1. SUFFICES ASSUME redis # NoCart
                 PROVE  /\ db'.version = latest => db'.items = redis.items
                        /\ ClearsInOrder /\ Through(latest)' => owed' = latest \/ db'.version = latest
    BY <1>a DEF LastIsSynced, ClearsInOrder
  <2>2. db'.version = latest => db'.items = redis.items
    BY <1>a, <1>e, <2>1, VersionFacts DEF Known, version
  <2>3. ASSUME ClearsInOrder, Through(latest)', db'.version # latest
        PROVE  owed' = latest
    <3>1. CASE EventOf(w).written
      <4>1. version # latest /\ version <= latest
        BY <1>a, <1>e, <2>1, <2>3, <3>1 DEF Known, version
      <4>2. \A i \in Positions : i <= handled => topic[i].version < version
        BY <1>a, <2>3 DEF ClearsInOrder, Positions, version
      <4>3. \A i \in Positions : i <= handled + 1 => topic[i].version # latest
        <5> SUFFICES ASSUME NEW i \in Positions, i <= handled + 1
                     PROVE  topic[i].version # latest
          OBVIOUS
        <5>1. CASE i = handled + 1
          BY <1>a, <4>1, <5>1 DEF version
        <5>2. CASE i <= handled
          <6>1. topic[i].version \in Nat /\ topic[i].version < version
            BY <4>2, <5>2, StateFacts DEF CartInv
          <6> QED
            BY <1>a, <2>1, <4>1, <6>1, VersionFacts
        <5>3. i = handled + 1 \/ i <= handled
          BY <1>a DEF Positions
        <5> QED
          BY <5>1, <5>2, <5>3
      <4>4. latest \in processed
        BY <1>a, <1>b, <2>3, <4>3 DEF Through, Positions
      <4>5. owed = latest \/ version >= latest
        BY <1>a, <2>1, <2>3, <4>4 DEF CartInv, ClearsStay, version
      <4> QED
        BY <1>a, <1>d, <2>1, <4>1, <4>5, VersionFacts
    <3>2. CASE ~EventOf(w).written
      <4>1. EventOf(w).version # latest
        BY <1>a, <2>1, <3>2 DEF Known
      <4>2. Through(latest)
        BY <1>a, <1>b, <2>3, <4>1 DEF Through, Positions
      <4> QED
        BY <1>d, <2>1, <2>3, <3>2, <4>2 DEF CartInv, LastIsSynced
    <3> QED
      BY <3>1, <3>2
  <2> QED
    BY <2>2, <2>3
<1>10. ClearsStay'
  BY <1>a, <1>d DEF CartInv, ClearsStay, ClearsInOrder, Positions
<1> QED
  BY <1>1, <1>2, <1>3, <1>4, <1>5, <1>6, <1>7, <1>8, <1>9, <1>10 DEF CartInv

\* Only the change whose event is through is marked. In order, the clears behind
\* it are newer.
LEMMA MarkEventProcessedKeeps ==
    ASSUME CartInv, NEW w \in Workers, MarkEventProcessed(w)
    PROVE  CartInv'
<1> DEFINE version == EventOf(w).version
<1>a. /\ UNCHANGED <<redis, writes, topic, request, handled, committed, db, owed, latest>>
      /\ worker[w].pc = "done" /\ worker[w].event \in Positions /\ worker[w].event = handled + 1
      /\ topic[handled + 1].version = version
      /\ version \in 1..MaxWrites
      /\ \A v \in Workers : v = w
      /\ handled \in Nat
  BY WorkerFacts, StateFacts DEF CartInv, MarkEventProcessed, EventOf, requestSide, latest
<1>b. /\ processed' = processed \cup {version}
      /\ worker' = [worker EXCEPT ![w] = [pc |-> "marked", event |-> worker[w].event]]
      /\ worker \in [Workers -> Worker]
      /\ worker'[w].pc = "marked" /\ worker'[w].event = handled + 1
  BY <1>a DEF CartInv, CartTypeOK, MarkEventProcessed, Goto
<1> HIDE DEF version
<1>1. CartTypeOK'
  BY <1>a, <1>b DEF CartInv, CartTypeOK, Worker, Positions
<1>2. RedisIsWritten'
  BY <1>a DEF CartInv, RedisIsWritten, latest
<1>3. EventsAreKnown'
  BY <1>a DEF CartInv, EventsAreKnown, Known, latest, Positions
<1>4. VersionsAreKnown'
  BY <1>a DEF CartInv, VersionsAreKnown, latest
<1>5. HandlesNext'
  BY <1>a, <1>b DEF CartInv, HandlesNext
<1>6. HoldsFresh'
  BY <1>a, <1>b DEF HoldsFresh
<1>7. ProcessedIsReached'
  BY <1>a, <1>b DEF CartInv, ProcessedIsReached, Positions
<1>8. LastIsAccounted'
  BY <1>a DEF CartInv, LastIsAccounted, latest, Positions
<1>9. LastIsSynced'
  <2>1. Through(latest)' => Through(latest)
    BY <1>a, <1>b DEF Through, Positions
  <2>2. ClearsInOrder' = ClearsInOrder
    BY <1>a DEF ClearsInOrder
  <2> QED
    BY <1>a, <2>1, <2>2 DEF CartInv, LastIsSynced
<1>10. ClearsStay'
  <2>1. SUFFICES ASSUME redis # NoCart, ClearsInOrder, latest \in processed', owed # latest,
                        NEW k \in Positions, k > handled, topic[k].type = "CLEARED"
                 PROVE  \/ topic[k].version >= latest
                        \/ topic[k].version \in processed' /\ "redis" \notin Faults
    BY <1>a DEF ClearsStay, ClearsInOrder, Positions
  <2>2. CASE latest \in processed
    BY <1>b, <2>1, <2>2 DEF CartInv, ClearsStay
  <2>3. CASE latest = version
    <3>1. topic[k].version \in Nat /\ latest \in Nat
      BY <2>1, StateFacts, VersionFacts DEF CartInv
    <3>2. k = handled + 1 \/ handled + 1 < k
      BY <1>a, <2>1 DEF Positions
    <3>3. handled + 1 < k => topic[handled + 1].version < topic[k].version
      BY <1>a, <2>1 DEF ClearsInOrder, Positions
    <3> QED
      BY <1>a, <2>3, <3>1, <3>2, <3>3
  <2> QED
    BY <1>b, <2>1, <2>2, <2>3
<1> QED
  BY <1>1, <1>2, <1>3, <1>4, <1>5, <1>6, <1>7, <1>8, <1>9, <1>10 DEF CartInv

\* The consumer is through with the message.
LEMMA ResolveOffsetKeeps ==
    ASSUME CartInv, NEW w \in Workers, ResolveOffset(w)
    PROVE  CartInv'
<1>a. /\ UNCHANGED <<redis, writes, topic, request, committed, processed, db, owed, latest>>
      /\ worker[w].pc \in {"done", "marked"}
      /\ worker[w].event \in Positions /\ worker[w].event = handled + 1
      /\ \A v \in Workers : v = w
      /\ handled \in Nat /\ Len(topic) \in Nat /\ handled' = handled + 1
  BY WorkerFacts, StateFacts DEF CartInv, ResolveOffset, requestSide, latest
<1>b. /\ worker' = [worker EXCEPT ![w] = Idle] /\ worker \in [Workers -> Worker]
      /\ worker'[w].pc = "idle"
  BY DEF CartInv, CartTypeOK, ResolveOffset, Idle
<1>1. CartTypeOK'
  BY <1>a, <1>b, StateFacts DEF CartInv, CartTypeOK, Worker, Idle, Positions
<1>2. RedisIsWritten'
  BY <1>a DEF CartInv, RedisIsWritten, latest
<1>3. EventsAreKnown'
  BY <1>a DEF CartInv, EventsAreKnown, Known, latest, Positions
<1>4. VersionsAreKnown'
  BY <1>a DEF CartInv, VersionsAreKnown, latest
<1>5. HandlesNext'
  BY <1>a, <1>b DEF HandlesNext
<1>6. HoldsFresh'
  BY <1>a, <1>b DEF HoldsFresh
<1>7. ProcessedIsReached'
  BY <1>a DEF CartInv, ProcessedIsReached, Positions
<1>8. LastIsAccounted'
  BY <1>a DEF CartInv, LastIsAccounted, latest, Positions
<1>9. LastIsSynced'
  <2>1. Through(latest)' => Through(latest)
    BY <1>a, <1>b DEF Through, Positions
  <2>2. ClearsInOrder' = ClearsInOrder
    BY <1>a DEF ClearsInOrder
  <2> QED
    BY <1>a, <2>1, <2>2 DEF CartInv, LastIsSynced
<1>10. ClearsStay'
  BY <1>a DEF CartInv, ClearsStay, ClearsInOrder, latest, Positions
<1> QED
  BY <1>1, <1>2, <1>3, <1>4, <1>5, <1>6, <1>7, <1>8, <1>9, <1>10 DEF CartInv

\* The batch ends.
LEMMA CommitOffsetsKeeps ==
    ASSUME CartInv, NEW w \in Workers, CommitOffsets(w)
    PROVE  CartInv'
<1>a. /\ UNCHANGED <<redis, writes, topic, request, handled, processed, db, owed, worker>>
      /\ committed' = handled
  BY DEF CommitOffsets, requestSide
<1>1. CartTypeOK'
  BY <1>a, StateFacts DEF CartInv, CartTypeOK
<1>2. RedisIsWritten'
  BY <1>a DEF CartInv, RedisIsWritten, latest
<1>3. EventsAreKnown'
  BY <1>a DEF CartInv, EventsAreKnown, Known, latest, Positions
<1>4. VersionsAreKnown'
  BY <1>a DEF CartInv, VersionsAreKnown, latest
<1>5. HandlesNext'
  BY <1>a DEF CartInv, HandlesNext, EventOf
<1>6. HoldsFresh'
  BY <1>a DEF CartInv, HoldsFresh, Reached, EventOf, latest, Positions
<1>7. ProcessedIsReached'
  BY <1>a DEF CartInv, ProcessedIsReached, Positions
<1>8. LastIsAccounted'
  BY <1>a DEF CartInv, LastIsAccounted, latest, Positions
<1>9. LastIsSynced'
  BY <1>a DEF CartInv, LastIsSynced, Through, ClearsInOrder, latest, Positions
<1>10. ClearsStay'
  BY <1>a DEF CartInv, ClearsStay, ClearsInOrder, latest, Positions
<1> QED
  BY <1>1, <1>2, <1>3, <1>4, <1>5, <1>6, <1>7, <1>8, <1>9, <1>10 DEF CartInv

\* The consumer is through with the message, and its change is owed.
LEMMA HandlerFailsKeeps ==
    ASSUME CartInv, NEW w \in Workers, HandlerFails(w)
    PROVE  CartInv'
<1>a. /\ UNCHANGED <<redis, writes, topic, request, committed, processed, db, latest>>
      /\ worker[w].pc \in {"checked", "read"}
      /\ worker[w].event \in Positions /\ worker[w].event = handled + 1
      /\ EventOf(w) = topic[handled + 1]
      /\ EventOf(w) \in CartEvent /\ Known(EventOf(w)) /\ OweChange(EventOf(w))
      /\ \A v \in Workers : v = w
      /\ handled \in Nat /\ Len(topic) \in Nat /\ handled' = handled + 1
  BY WorkerFacts, StateFacts DEF CartInv, HandlerFails, requestSide, latest
<1>b. /\ worker' = [worker EXCEPT ![w] = Idle] /\ worker \in [Workers -> Worker]
      /\ worker'[w].pc = "idle"
  BY DEF CartInv, CartTypeOK, HandlerFails, Idle
<1>c. /\ owed' \in 0..MaxWrites /\ owed' <= writes
      /\ redis # NoCart =>
            owed' <= latest /\ (owed = latest \/ EventOf(w).version = latest => owed' = latest)
  BY <1>a, OweFacts
<1>1. CartTypeOK'
  BY <1>a, <1>b, <1>c, StateFacts DEF CartInv, CartTypeOK, Worker, Idle, Positions
<1>2. RedisIsWritten'
  BY <1>a DEF CartInv, RedisIsWritten, latest
<1>3. EventsAreKnown'
  BY <1>a DEF CartInv, EventsAreKnown, Known, latest, Positions
<1>4. VersionsAreKnown'
  BY <1>a, <1>c, VersionFacts DEF VersionsAreKnown
<1>5. HandlesNext'
  BY <1>a, <1>b DEF HandlesNext
<1>6. HoldsFresh'
  BY <1>a, <1>b DEF HoldsFresh
<1>7. ProcessedIsReached'
  BY <1>a DEF CartInv, ProcessedIsReached, Positions
<1>8. LastIsAccounted'
  BY <1>a, <1>c DEF CartInv, LastIsAccounted, Positions
<1>9. LastIsSynced'
  <2>1. Through(latest)' => Through(latest) \/ EventOf(w).version = latest
    BY <1>a, <1>b DEF Through, Positions
  <2>2. ClearsInOrder' = ClearsInOrder
    BY <1>a DEF ClearsInOrder
  <2> QED
    BY <1>a, <1>c, <2>1, <2>2 DEF CartInv, LastIsSynced
<1>10. ClearsStay'
  BY <1>a, <1>c DEF CartInv, ClearsStay, ClearsInOrder, Positions
<1> QED
  BY <1>1, <1>2, <1>3, <1>4, <1>5, <1>6, <1>7, <1>8, <1>9, <1>10 DEF CartInv

\* Every message after the committed offset comes again: the rows are owed if a
\* clear among them is to delete them.
LEMMA CrashKeeps ==
    ASSUME CartInv, NEW w \in Workers, Crash(w)
    PROVE  CartInv'
<1>a. /\ UNCHANGED <<redis, writes, topic, request, committed, processed, db, latest>>
      /\ handled' = committed /\ handled \in Nat /\ committed \in Nat /\ committed <= handled
      /\ \A v \in Workers : v = w
  BY StateFacts, OneConsumer DEF CartInv, Crash, requestSide, latest
<1>b. /\ worker' = [worker EXCEPT ![w] = Idle] /\ worker \in [Workers -> Worker]
      /\ worker'[w].pc = "idle"
  BY DEF CartInv, CartTypeOK, Crash, Idle
<1>c. /\ owed' \in 0..MaxWrites /\ owed' <= writes
      /\ redis # NoCart => owed' <= latest /\ (owed = latest => owed' = latest)
      /\ redis # NoCart /\ ClearsAgain /\ db.version = latest => owed' = latest
  <2>1. CASE ClearsAgain
    BY <2>1, OweRowsFacts DEF Crash
  <2>2. CASE ~ClearsAgain
    BY <2>2, VersionFacts DEF Crash, CartInv, CartTypeOK
  <2> QED
    BY <2>1, <2>2
<1>d. ClearsInOrder' = ClearsInOrder
  BY <1>a DEF ClearsInOrder
<1>1. CartTypeOK'
  BY <1>a, <1>b, <1>c, StateFacts DEF CartInv, CartTypeOK, Worker, Idle
<1>2. RedisIsWritten'
  BY <1>a DEF CartInv, RedisIsWritten, latest
<1>3. EventsAreKnown'
  BY <1>a DEF CartInv, EventsAreKnown, Known, latest, Positions
<1>4. VersionsAreKnown'
  BY <1>a, <1>c, VersionFacts DEF VersionsAreKnown
<1>5. HandlesNext'
  BY <1>a, <1>b DEF HandlesNext
<1>6. HoldsFresh'
  BY <1>a, <1>b DEF HoldsFresh
<1>7. ProcessedIsReached'
  BY <1>a DEF CartInv, ProcessedIsReached, Positions
<1>8. LastIsAccounted'
  BY <1>a, <1>c DEF CartInv, LastIsAccounted, Positions
<1>9. LastIsSynced'
  <2>1. Through(latest)' => Through(latest)
    BY <1>a, <1>b DEF Through, Positions
  <2> QED
    BY <1>a, <1>c, <1>d, <2>1 DEF CartInv, LastIsSynced
<1>10. ClearsStay'
  <2>1. SUFFICES ASSUME redis # NoCart, ClearsInOrder, latest \in processed, owed' # latest,
                        NEW k \in Positions, k > committed, topic[k].type = "CLEARED"
                 PROVE  \/ topic[k].version >= latest
                        \/ topic[k].version \in processed /\ "redis" \notin Faults
    BY <1>a, <1>d DEF ClearsStay, Positions
  <2>2. owed # latest
    BY <1>c, <2>1
  <2>3. db.version = latest
    BY <2>1, <2>2, ProcessedIsThrough DEF CartInv, LastIsSynced
  <2>4. ~ClearsAgain
    BY <1>c, <2>1, <2>3
  <2>5. CASE k > handled
    BY <2>1, <2>2, <2>5 DEF CartInv, ClearsStay
  <2>6. CASE k <= handled
    <3>1. k \in committed + 1 .. handled
      BY <1>a, <2>1, <2>6 DEF Positions
    <3> QED
      BY <2>1, <2>4, <3>1 DEF ClearsAgain
  <2> QED
    BY <1>a, <2>5, <2>6 DEF Positions
<1> QED
  BY <1>1, <1>2, <1>3, <1>4, <1>5, <1>6, <1>7, <1>8, <1>9, <1>10 DEF CartInv

-----------------------------------------------------------------------------
(* The invariant and what follows from it                                  *)

LEMMA CartInit == Init => CartInv
<1>1. Init => CartTypeOK
  BY CartAssumption DEF Init, CartTypeOK, Cart, Items, EmptyItems, Request, Worker, Idle, CartEvent
<1>2. Init => Len(topic) = 0
  BY DEF Init
<1> QED
  BY <1>1, <1>2, CartAssumption
     DEF Init, CartInv, Idle, Positions, RedisIsWritten, EventsAreKnown, VersionsAreKnown,
         HandlesNext, HoldsFresh, ProcessedIsReached, LastIsAccounted, LastIsSynced, ClearsStay

\* Every change of the cart writes items of the right type, and clearCart none.
LEMMA ChangesKeep ==
    ASSUME CartInv, NEW r \in Requests, RequestStep(r)
    PROVE  CartInv'
<1>1. EmptyItems \in Items
  BY CartAssumption DEF EmptyItems, Items
<1>2. request[r].pc = "read" => request[r].cart \in Items
  BY StateFacts DEF CartInv
<1>3. CASE ClearCart(r)
  BY <1>1, <1>3, WriteRedisKeeps DEF ClearCart
<1>4. ASSUME NEW f \in Foods, NEW quantity \in 1..MaxQuantity, AddToCart(r, f, quantity)
      PROVE  CartInv'
  <2>1. [request[r].cart EXCEPT ![f] = @ + quantity] \in Items
    BY <1>2, <1>4, CartAssumption DEF AddToCart, Items
  <2> QED
    BY <1>4, <2>1, WriteRedisKeeps DEF AddToCart
<1>5. ASSUME NEW f \in Foods, NEW quantity \in 0..MaxQuantity, UpdateCartItem(r, f, quantity)
      PROVE  CartInv'
  <2>1. [request[r].cart EXCEPT ![f] = quantity] \in Items
    BY <1>2, <1>5, CartAssumption DEF UpdateCartItem, Items
  <2> QED
    BY <1>5, <2>1, WriteRedisKeeps DEF UpdateCartItem
<1>6. ASSUME NEW f \in Foods, RemoveFromCart(r, f)
      PROVE  CartInv'
  <2>1. [request[r].cart EXCEPT ![f] = 0] \in Items
    BY <1>2, <1>6, CartAssumption DEF RemoveFromCart, Items
  <2> QED
    BY <1>6, <2>1, WriteRedisKeeps DEF RemoveFromCart
<1> QED
  BY <1>3, <1>4, <1>5, <1>6, ReadCartKeeps, EmitEventKeeps, RequestFailsKeeps, NotFoundKeeps
     DEF RequestStep

LEMMA CartStep == CartInv /\ [Next]_vars => CartInv'
<1> SUFFICES ASSUME CartInv, [Next]_vars
             PROVE  CartInv'
  OBVIOUS
<1>1. CASE \E r \in Requests : RequestStep(r)
  BY <1>1, ChangesKeep
<1>2. CASE \E w \in Workers : WorkerStep(w)
  BY <1>2, DeliverKeeps, ReadRedisCartKeeps, WriteCartKeeps, ClearCartInDatabaseKeeps,
     MarkEventProcessedKeeps, ResolveOffsetKeeps, CommitOffsetsKeeps, HandlerFailsKeeps, CrashKeeps
     DEF WorkerStep
<1>3. CASE Expire \/ Checkout
  BY <1>3, ExpireKeeps, CheckoutKeeps
<1>4. CASE UNCHANGED vars
  BY <1>4 DEF vars, CartInv, CartTypeOK, RedisIsWritten, EventsAreKnown, Known, VersionsAreKnown,
              HandlesNext, HoldsFresh, Reached, EventOf, ProcessedIsReached, LastIsAccounted,
              LastIsSynced, Through, ClearsStay, ClearsInOrder, latest, Positions
<1> QED
  BY <1>1, <1>2, <1>3, <1>4 DEF Next

THEOREM CartInvariant == Spec => []CartInv
BY CartInit, CartStep, PTL DEF Spec

\* The state keeps its type (all of CartService, CartWorker and the consumer).
THEOREM CartTypeCorrect == Spec => []CartTypeOK
BY CartInvariant, PTL DEF CartInv

LEMMA InvariantIsSynced == CartInv => SyncedWhenDrained
<1> SUFFICES ASSUME CartInv, Drained, ClearsInOrder, redis # NoCart, owed <= db.version
             PROVE  db.items = redis.items
  BY StateFacts DEF SyncedWhenDrained, CartInv
<1>1. owed = latest \/ Through(latest)
  BY DEF CartInv, LastIsAccounted, Drained, Through, Positions
<1>2. owed = latest \/ db.version = latest
  BY <1>1 DEF CartInv, LastIsSynced
<1>3. db.version = latest
  BY <1>2, VersionFacts
<1> QED
  BY <1>3 DEF CartInv, LastIsSynced

\* However requests, redeliveries, failures and checkouts interleave: with no
\* event on its way, none owed and the clears in order, cart_items holds the
\* cart of Redis (syncCartToDatabase reads Redis, and not its event). Events of
\* changes that RedisService.set left out do not spoil it.
THEOREM CartIsSynced == Spec => []SyncedWhenDrained
BY CartInvariant, InvariantIsSynced, PTL

LEMMA SyncStepIsFresh ==
    CartInv /\ [Next]_vars =>
        [\A w \in Workers :
            WriteCart(w) /\ EventOf(w).written => db'.version >= EventOf(w).version]_vars
<1> SUFFICES ASSUME CartInv, NEW w \in Workers, WriteCart(w), EventOf(w).written
             PROVE  db'.version >= EventOf(w).version
  OBVIOUS
<1>1. worker[w].cart.version \in Nat /\ EventOf(w).version \in Nat
  BY WorkerFacts DEF WriteCart
<1>2. EventOf(w).version <= worker[w].cart.version
  BY DEF CartInv, HoldsFresh, WriteCart
<1> QED
  BY <1>1, <1>2 DEF WriteCart

\* The transaction of syncCartToDatabase writes a cart that has the change its
\* event reports, if the change was written: cart.service.ts sends the event
\* after the write to Redis.
THEOREM SyncsAreFresh == Spec => SyncIsFresh
<1>1. CartInv /\ [Next]_vars =>
          [\A w \in Workers :
              WriteCart(w) /\ EventOf(w).written => db'.version >= EventOf(w).version]_vars
  BY SyncStepIsFresh
<1> QED
  BY <1>1, CartInvariant, PTL DEF Spec, SyncIsFresh
=============================================================================

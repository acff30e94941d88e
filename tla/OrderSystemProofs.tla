------------------------- MODULE OrderSystemProofs -------------------------
(***************************************************************************)
(* For every number of users, foods, keys and requests in flight: a key    *)
(* has at most one order, every answer names it, and Checkout implements   *)
(* ExactlyOnce.  Composed with payments, cancellation and refunds, both    *)
(* parts keep what is proved of them alone, and what a payment asks for is *)
(* what the customer ordered.                                              *)
(***************************************************************************)
EXTENDS OrderSystem, TLAPS

KeyInv == CheckoutTypeOK /\ NoZombieOrder

-----------------------------------------------------------------------------
(* The steps that bear on a key                                            *)

\* A request with a key that has an order is answered with it.
Repeats(k) ==
    /\ keyRow[k] # None
    /\ Answer(k, keyRow[k])
    /\ UNCHANGED <<orders, keyRow>>

\* The commit of a checkout: order, key and answer.
Decides(k, o, lines) ==
    /\ keyRow[k] = None
    /\ ~IsPlaced(o)
    /\ orders' = [orders EXCEPT ![o] = [key |-> k, lines |-> lines]]
    /\ keyRow' = [keyRow EXCEPT ![k] = o]
    /\ Answer(k, o)

\* Every step leaves the orders, the keys and the answers alone, or answers a
\* key again, or decides a key.
LEMMA CheckoutStepKinds ==
    ASSUME CheckoutTypeOK, [CheckoutNext]_checkoutVars
    PROVE  \/ UNCHANGED <<orders, keyRow, answered>>
           \/ \E k \in Keys : Repeats(k)
           \/ \E k \in Keys, o \in Orders, lines \in Lines : Decides(k, o, lines)
<1>1. CASE \E r \in Requests, o \in Orders : Commit(r, o)
  <2>1. PICK r \in Requests, o \in Orders : Commit(r, o)
    BY <1>1
  <2>2. request[r].key \in Keys /\ request[r].lines \in Lines
    BY <2>1 DEF Commit, CheckoutTypeOK, RequestType
  <2>3. Decides(request[r].key, o, request[r].lines)
    BY <2>1 DEF Commit, WriteOrder, Decides
  <2> QED
    BY <2>2, <2>3
<1>2. CASE \E r \in Requests, k \in Keys : Submit(r, k)
  BY <1>2 DEF Submit, Repeats
<1>3. ASSUME NEW r \in Requests, ReadKey(r)
      PROVE  UNCHANGED <<orders, keyRow, answered>> \/ \E k \in Keys : Repeats(k)
  <2>1. request[r].key \in Keys
    BY <1>3 DEF ReadKey, CheckoutTypeOK
  <2> QED
    BY <1>3, <2>1 DEF ReadKey, Repeats
<1>4. CASE \E r \in Requests : ReadCart(r) \/ Abort(r)
  BY <1>4 DEF ReadCart, Abort
<1>5. CASE \E u \in Users, items \in SUBSET Foods : SyncCart(u, items)
  BY <1>5 DEF SyncCart
<1>6. CASE \E f \in Foods, p \in Prices, isAvailable \in BOOLEAN : EditFood(f, p, isAvailable)
  BY <1>6 DEF EditFood
<1> QED
  BY <1>1, <1>2, <1>3, <1>4, <1>5, <1>6 DEF CheckoutNext, CheckoutStep, checkoutVars

-----------------------------------------------------------------------------
(* The invariant                                                           *)

\* Nothing is placed, stored or answered at first.
LEMMA CheckoutInitInvariant == CheckoutInit => KeyInv
<1> SUFFICES ASSUME CheckoutInit PROVE KeyInv
  OBVIOUS
<1>1. NoLines \in Lines
  <2>1. NoLines \in [{} -> Prices]
    BY DEF NoLines
  <2> QED
    BY <2>1 DEF Lines
<1>2. CheckoutTypeOK
  BY <1>1 DEF CheckoutInit, CheckoutTypeOK, RequestType, NoRow, Idle
<1>3. NoZombieOrder
  BY DEF CheckoutInit, NoZombieOrder, IsPlaced, NoRow
<1> QED
  BY <1>2, <1>3 DEF KeyInv

\* A step keeps the types.
LEMMA CheckoutTypeStep ==
    ASSUME CheckoutTypeOK, [CheckoutNext]_checkoutVars
    PROVE  CheckoutTypeOK'
<1> USE DEF CheckoutTypeOK
<1>1. Idle \in RequestType /\ Idle.pc = "idle"
  <2>1. NoLines \in [{} -> Prices]
    BY DEF NoLines
  <2>2. NoLines \in Lines
    BY <2>1 DEF Lines
  <2> QED
    BY <2>2 DEF Idle, RequestType
<1>2. ASSUME NEW k \in Keys, NEW o \in Orders, Answer(k, o)
      PROVE  answered' \in [Keys -> SUBSET Orders]
  BY <1>2 DEF Answer
<1>3. ASSUME NEW k \in Keys, keyRow[k] # None
      PROVE  keyRow[k] \in Orders
  BY <1>3
<1> DEFINE RequestsOK == /\ request' \in [Requests -> RequestType]
                         /\ \A r \in Requests : request'[r].pc # "idle" => request'[r].key \in Keys
<1>4. ASSUME NEW r \in Requests, request' = [request EXCEPT ![r] = Idle]
      PROVE  RequestsOK
  BY <1>1, <1>4
<1>5. ASSUME NEW r \in Requests, NEW o \in Orders, Commit(r, o)
      PROVE  CheckoutTypeOK'
  <2>1. request[r].key \in Keys /\ request[r].lines \in Lines
    BY <1>5 DEF Commit, RequestType
  <2>2. [key |-> request[r].key, lines |-> request[r].lines] \in [key : Keys \cup {None}, lines : Lines]
    BY <2>1
  <2>3. RequestsOK
    BY <1>4, <1>5 DEF Commit, WriteOrder
  <2>4. answered' \in [Keys -> SUBSET Orders]
    BY <1>2, <1>5, <2>1 DEF Commit, WriteOrder
  <2>5. orders' \in [Orders -> [key : Keys \cup {None}, lines : Lines]]
    BY <1>5, <2>2 DEF Commit, WriteOrder
  <2>6. /\ keyRow' \in [Keys -> Orders \cup {None}]
        /\ cart' \in [Users -> SUBSET Foods]
    BY <1>5 DEF Commit, WriteOrder
  <2> QED
    BY <1>5, <2>3, <2>4, <2>5, <2>6 DEF Commit, WriteOrder
<1>6. ASSUME NEW r \in Requests, NEW k \in Keys, Submit(r, k)
      PROVE  CheckoutTypeOK'
  <2>1. CASE keyRow[k] # None
    <3>1. answered' \in [Keys -> SUBSET Orders]
      BY <1>2, <1>3, <1>6, <2>1 DEF Submit
    <3> QED
      BY <1>6, <2>1, <3>1 DEF Submit
  <2>2. CASE keyRow[k] = None
    <3>1. request' = [request EXCEPT ![r] = [Idle EXCEPT !.pc = "submitted", !.key = k]]
      BY <1>6, <2>2 DEF Submit
    <3>2. /\ [Idle EXCEPT !.pc = "submitted", !.key = k] \in RequestType
          /\ [Idle EXCEPT !.pc = "submitted", !.key = k].key = k
      BY <1>1 DEF Idle, RequestType
    <3>3. RequestsOK
      BY <3>1, <3>2
    <3> QED
      BY <1>6, <2>2, <3>3 DEF Submit
  <2> QED
    BY <2>1, <2>2
<1>7. ASSUME NEW r \in Requests, ReadKey(r)
      PROVE  CheckoutTypeOK'
  <2>0. request[r].key \in Keys
    BY <1>7 DEF ReadKey
  <2>1. CASE keyRow[request[r].key] # None
    <3>1. answered' \in [Keys -> SUBSET Orders] /\ RequestsOK
      BY <1>2, <1>3, <1>4, <1>7, <2>0, <2>1 DEF ReadKey
    <3> QED
      BY <1>7, <3>1 DEF ReadKey
  <2>2. CASE keyRow[request[r].key] = None
    <3>1. request' = [request EXCEPT ![r].pc = "keyRead"]
      BY <1>7, <2>2 DEF ReadKey
    <3>2. RequestsOK
      BY <2>0, <3>1 DEF RequestType
    <3> QED
      BY <1>7, <2>2, <3>2 DEF ReadKey
  <2> QED
    BY <2>1, <2>2
<1>8. ASSUME NEW r \in Requests, ReadCart(r)
      PROVE  CheckoutTypeOK'
  <2> DEFINE items == cart[KeyUser[request[r].key]]
  <2>1. request[r].key \in Keys /\ items \in SUBSET Foods
    BY <1>8, CheckoutAssumption DEF ReadCart
  <2>2. Restrict(price, items) \in Lines
    <3>1. Restrict(price, items) \in [items -> Prices]
      BY <2>1 DEF Restrict
    <3> QED
      BY <2>1, <3>1 DEF Lines
  <2> HIDE DEF items
  <2>3. CASE request' = [request EXCEPT ![r].pc = "cartRead", ![r].lines = Restrict(price, items)]
    BY <1>8, <2>1, <2>2, <2>3 DEF ReadCart, RequestType
  <2>4. CASE request' = [request EXCEPT ![r] = Idle]
    BY <1>4, <1>8, <2>4 DEF ReadCart
  <2> QED
    BY <1>8, <2>3, <2>4 DEF ReadCart, items
<1>9. ASSUME NEW r \in Requests, Abort(r)
      PROVE  CheckoutTypeOK'
  BY <1>4, <1>9 DEF Abort
<1>10. ASSUME NEW u \in Users, NEW items \in SUBSET Foods, SyncCart(u, items)
       PROVE  CheckoutTypeOK'
  BY <1>10 DEF SyncCart
<1>11. ASSUME NEW f \in Foods, NEW p \in Prices, NEW isAvailable \in BOOLEAN,
              EditFood(f, p, isAvailable)
       PROVE  CheckoutTypeOK'
  BY <1>11 DEF EditFood
<1>12. CASE UNCHANGED checkoutVars
  BY <1>12 DEF checkoutVars
<1> QED
  BY <1>5, <1>6, <1>7, <1>8, <1>9, <1>10, <1>11, <1>12 DEF CheckoutNext, CheckoutStep

\* The order and its key appear together, for a key that had no order and an
\* order that did not exist, and every answer names the order of its key.
LEMMA NoZombieOrderStep ==
    ASSUME KeyInv, [CheckoutNext]_checkoutVars
    PROVE  NoZombieOrder'
<1> USE DEF KeyInv, CheckoutTypeOK, IsPlaced
<1>1. CASE UNCHANGED <<orders, keyRow, answered>>
  BY <1>1 DEF NoZombieOrder
<1>2. ASSUME NEW k \in Keys, Repeats(k)
      PROVE  NoZombieOrder'
  BY <1>2 DEF Repeats, Answer, NoZombieOrder
<1>3. ASSUME NEW k \in Keys, NEW o \in Orders, NEW lines \in Lines, Decides(k, o, lines)
      PROVE  NoZombieOrder'
  <2>1. /\ orders'[o].key = k
        /\ \A other \in Orders : other # o => orders'[other] = orders[other]
        /\ keyRow'[k] = o
        /\ \A other \in Keys : other # k => keyRow'[other] = keyRow[other]
        /\ orders[o].key = None /\ keyRow[k] = None
    BY <1>3 DEF Decides
  <2>2. \A other \in Orders : orders'[other].key # None => keyRow'[orders'[other].key] = other
    BY <2>1, CheckoutAssumption DEF NoZombieOrder
  <2>3. \A other \in Keys : keyRow'[other] # None => orders'[keyRow'[other]].key = other
    BY <2>1, CheckoutAssumption DEF NoZombieOrder
  <2>4. answered[k] = {}
    BY <2>1, CheckoutAssumption DEF NoZombieOrder
  <2>5. \A other \in Keys : answered'[other] \subseteq {keyRow'[other]}
    BY <1>3, <2>1, <2>4 DEF Decides, Answer, NoZombieOrder
  <2> QED
    BY <2>2, <2>3, <2>5 DEF NoZombieOrder
<1> QED
  BY <1>1, <1>2, <1>3, CheckoutStepKinds

\* The types and the agreement of orders, keys and answers are inductive.
THEOREM KeyInvariant == CheckoutSpec => []KeyInv
<1>1. CheckoutInit => KeyInv
  BY CheckoutInitInvariant
<1>2. KeyInv /\ [CheckoutNext]_checkoutVars => KeyInv'
  BY CheckoutTypeStep, NoZombieOrderStep DEF KeyInv
<1> QED
  BY <1>1, <1>2, PTL DEF CheckoutSpec

\* Every request and every row has its type, through retries, failures and
\* edits of the menu.
THEOREM CheckoutTypes == CheckoutSpec => []CheckoutTypeOK
<1>1. KeyInv => CheckoutTypeOK
  BY DEF KeyInv
<1> QED
  BY <1>1, KeyInvariant, PTL

\* An order, its key and the answers about it always agree, whatever overlaps,
\* fails or is sent again.
THEOREM NoOrderIsAZombie == CheckoutSpec => []NoZombieOrder
<1>1. KeyInv => NoZombieOrder
  BY DEF KeyInv
<1> QED
  BY <1>1, KeyInvariant, PTL

\* One key never has two orders.
THEOREM KeysAreUnique == CheckoutSpec => []OneOrderPerKey
<1>1. KeyInv => OneOrderPerKey
  BY CheckoutAssumption DEF KeyInv, CheckoutTypeOK, NoZombieOrder, OneOrderPerKey, IsPlaced
<1> QED
  BY <1>1, KeyInvariant, PTL

\* A late request with a key that has an order changes neither orders nor cart.
THEOREM LateRetriesAreHarmless == CheckoutSpec => LateRetryIsHarmless
<1>1. ASSUME CheckoutTypeOK, [CheckoutNext]_checkoutVars,
             NEW r \in Requests, request[r].pc # "idle", keyRow[request[r].key] # None,
             request'[r] # request[r]
      PROVE  UNCHANGED <<cart, orders>>
  <2>1. ASSUME NEW s \in Requests, NEW o \in Orders, Commit(s, o)
        PROVE  FALSE
    <3>1. request' = [request EXCEPT ![s] = Idle] /\ keyRow[request[s].key] = None
      BY <2>1 DEF Commit, WriteOrder
    <3> QED
      BY <1>1, <3>1 DEF CheckoutTypeOK
  <2>2. ASSUME NEW u \in Users, NEW items \in SUBSET Foods, SyncCart(u, items)
        PROVE  FALSE
    BY <1>1, <2>2 DEF SyncCart
  <2> QED
    BY <1>1, <2>1, <2>2 DEF CheckoutNext, CheckoutStep, Submit, ReadKey, ReadCart, Abort, EditFood,
                            checkoutVars
<1>2. CheckoutTypeOK /\ [CheckoutNext]_checkoutVars =>
        [\A r \in Requests :
            /\ request[r].pc # "idle"
            /\ keyRow[request[r].key] # None
            /\ request'[r] # request[r]
            => UNCHANGED <<cart, orders>>]_checkoutVars
  BY <1>1
<1>3. KeyInv => CheckoutTypeOK
  BY DEF KeyInv
<1> QED
  BY <1>2, <1>3, KeyInvariant, PTL DEF CheckoutSpec, LateRetryIsHarmless

-----------------------------------------------------------------------------
(* Refinement                                                              *)

\* The checkouts, with all their reads, retries and failures, implement the
\* promise of the idempotency key.
THEOREM CheckoutImplementsExactlyOnce == CheckoutSpec => Promise!Spec
<1> DEFINE outcome == [k \in Keys |-> {o \in Orders : orders[o].key = k}]
<1>1. CheckoutInit => Promise!Init
  <2> SUFFICES ASSUME CheckoutInit PROVE Promise!Init
    OBVIOUS
  <2>1. \A o \in Orders, k \in Keys : orders[o].key # k
    BY CheckoutAssumption DEF CheckoutInit, NoRow
  <2> QED
    BY <2>1 DEF CheckoutInit, Promise!Init
<1>2. ASSUME KeyInv, [CheckoutNext]_checkoutVars
      PROVE  [Promise!Next]_<<outcome, answered>>
  <2> USE DEF KeyInv, CheckoutTypeOK
  <2>1. CASE UNCHANGED <<orders, keyRow, answered>>
    BY <2>1
  <2>2. ASSUME NEW k \in Keys, Repeats(k)
        PROVE  Promise!Next
    <3>1. keyRow[k] \in Orders /\ orders[keyRow[k]].key = k
      BY <1>2, <2>2 DEF Repeats, NoZombieOrder
    <3>2. Promise!Repeat(k, keyRow[k])
      BY <2>2, <3>1 DEF Repeats, Answer, Promise!Repeat, Promise!Answer
    <3> QED
      BY <3>1, <3>2 DEF Promise!Next
  <2>3. ASSUME NEW k \in Keys, NEW o \in Orders, NEW lines \in Lines, Decides(k, o, lines)
        PROVE  Promise!Next
    <3>1. orders[o].key = None /\ keyRow[k] = None
      BY <2>3 DEF Decides, IsPlaced
    <3>2. \A other \in Orders : orders[other].key # k
      BY <1>2, <3>1, CheckoutAssumption DEF NoZombieOrder, IsPlaced
    <3>3. /\ orders'[o].key = k
          /\ \A other \in Orders : other # o => orders'[other] = orders[other]
      BY <1>2, <2>3 DEF Decides
    <3>4. outcome[k] = {} /\ \A other \in Keys : o \notin outcome[other]
      BY <3>1, <3>2, CheckoutAssumption
    <3>5. outcome' = [outcome EXCEPT ![k] = {o}]
      <4>1. ASSUME NEW q \in Keys
            PROVE  {x \in Orders : orders'[x].key = q} = IF q = k THEN {o} ELSE outcome[q]
        BY <3>1, <3>2, <3>3, CheckoutAssumption
      <4> QED
        BY <4>1
    <3>6. Promise!Decide(k, o)
      BY <2>3, <3>4, <3>5 DEF Decides, Answer, Promise!Decide, Promise!Answer
    <3> QED
      BY <3>6 DEF Promise!Next
  <2> QED
    BY <1>2, <2>1, <2>2, <2>3, CheckoutStepKinds
<1> QED
  BY <1>1, <1>2, KeyInvariant, PTL DEF CheckoutSpec, Promise!Spec

-----------------------------------------------------------------------------
(* The system                                                              *)

\* The system runs the checkouts, and between their steps something else.
THEOREM SystemRunsCheckouts == Spec => CheckoutSpec
<1>1. Init => CheckoutInit
  BY DEF Init
<1>2. [Next]_vars => [CheckoutNext]_checkoutVars
  BY DEF Next, vars, PlaceOrder, CheckoutNext
<1> QED
  BY <1>1, <1>2, PTL DEF Spec, CheckoutSpec

\* In the whole system, too, a key has one order, every answer names it, and a
\* late retry changes nothing.
THEOREM SystemKeepsPromise ==
    Spec => /\ []OneOrderPerKey
            /\ []NoZombieOrder
            /\ LateRetryIsHarmless
            /\ ImplementsExactlyOnce
<1>1. KeyInv => NoZombieOrder
  BY DEF KeyInv
<1> QED
  BY <1>1, SystemRunsCheckouts, KeyInvariant, KeysAreUnique, LateRetriesAreHarmless,
     CheckoutImplementsExactlyOnce, PTL
     DEF ImplementsExactlyOnce

-----------------------------------------------------------------------------
(* Payments in the system                                                  *)

\* OrderPayment with the results proved of it.
PaymentProofs == INSTANCE OrderPaymentProofs WITH NoOrder <- None

\* It is the OrderPayment that the system runs.
LEMMA SamePaymentStep == Payment!PaymentStep => PaymentProofs!PaymentStep
<1>1. ASSUME NEW o \in Orders, Payment!InitiatePayment(o)
      PROVE  PaymentProofs!InitiatePayment(o)
  BY <1>1 DEF Payment!InitiatePayment, PaymentProofs!InitiatePayment, Payment!NewPayment,
              PaymentProofs!NewPayment, Payment!LogEvent,
              PaymentProofs!LogEvent, Payment!NewEvent, PaymentProofs!NewEvent, Payment!NoPayment,
              PaymentProofs!NoPayment
<1>2. ASSUME NEW c \in Calls, Payment!CallStep(c)
      PROVE  PaymentProofs!CallStep(c)
  <2>1. (\E p \in Payment!PaymentIds, paid \in captured \cup {Payment!NoPayment} :
            Payment!BeginVerify(c, p, paid)) =>
        (\E p \in PaymentProofs!PaymentIds, paid \in captured \cup {PaymentProofs!NoPayment} :
            PaymentProofs!BeginVerify(c, p, paid))
    BY DEF Payment!BeginVerify, PaymentProofs!BeginVerify, Payment!PaymentIds,
           PaymentProofs!PaymentIds, Payment!NoPayment, PaymentProofs!NoPayment
  <2>2. Payment!LockPayment(c) => PaymentProofs!LockPayment(c)
    BY DEF Payment!LockPayment, PaymentProofs!LockPayment, Payment!RowLocked,
           PaymentProofs!RowLocked
  <2>3. Payment!CommitVerify(c) => PaymentProofs!CommitVerify(c)
    BY DEF Payment!CommitVerify, PaymentProofs!CommitVerify, Payment!SetStatus,
           PaymentProofs!SetStatus, Payment!UpdatePayment, PaymentProofs!UpdatePayment, Payment!VerifySignature, PaymentProofs!VerifySignature,
           Payment!LogEvent, PaymentProofs!LogEvent, Payment!NewEvent, PaymentProofs!NewEvent,
           Payment!NoPayment, PaymentProofs!NoPayment, Payment!IdleCall, PaymentProofs!IdleCall
  <2>4. (\E o \in Orders : Payment!BeginCancel(c, o)) =>
           (\E o \in Orders : PaymentProofs!BeginCancel(c, o))
    BY DEF Payment!BeginCancel, PaymentProofs!BeginCancel, Payment!IsValidTransition,
           PaymentProofs!IsValidTransition, Payment!ALLOWED_TRANSITIONS,
           PaymentProofs!ALLOWED_TRANSITIONS, Payment!DeriveOrderState,
           PaymentProofs!DeriveOrderState, Payment!IsLastSetter, PaymentProofs!IsLastSetter,
           Payment!SetsState, PaymentProofs!SetsState, Payment!StateSetBy,
           PaymentProofs!StateSetBy, Payment!IdleCall, PaymentProofs!IdleCall, Payment!NoPayment,
           PaymentProofs!NoPayment
  <2>5. Payment!CommitCancel(c) => PaymentProofs!CommitCancel(c)
    BY DEF Payment!CommitCancel, PaymentProofs!CommitCancel, Payment!LogEvent,
           PaymentProofs!LogEvent, Payment!NewEvent, PaymentProofs!NewEvent, Payment!NoPayment,
           PaymentProofs!NoPayment, Payment!IdleCall, PaymentProofs!IdleCall
  <2>6. Payment!Rollback(c) => PaymentProofs!Rollback(c)
    BY DEF Payment!Rollback, PaymentProofs!Rollback, Payment!IdleCall, PaymentProofs!IdleCall,
           Payment!NoPayment, PaymentProofs!NoPayment
  <2> QED
    BY <1>2, <2>1, <2>2, <2>3, <2>4, <2>5, <2>6 DEF Payment!CallStep, PaymentProofs!CallStep
<1>3. ASSUME NEW w \in Runs, Payment!RunStep(w)
      PROVE  PaymentProofs!RunStep(w)
  <2>1. Payment!Claim(w) => PaymentProofs!Claim(w)
    <3>1. Payment!Claimable = PaymentProofs!Claimable
      BY DEF Payment!Claimable, PaymentProofs!Claimable, Payment!PaymentIds,
             PaymentProofs!PaymentIds, Payment!HasEvent, PaymentProofs!HasEvent
    <3>2. ASSUME NEW p
          PROVE  Payment!RowLocked(p) <=> PaymentProofs!RowLocked(p)
      BY DEF Payment!RowLocked, PaymentProofs!RowLocked
    <3>3. {p \in Payment!Claimable : ~Payment!RowLocked(p)}
            = {p \in PaymentProofs!Claimable : ~PaymentProofs!RowLocked(p)}
      BY <3>1, <3>2
    <3>4. \A rows : Payment!Cardinality(rows) = PaymentProofs!Cardinality(rows)
      BY DEF Payment!Cardinality, PaymentProofs!Cardinality
    <3> QED
      BY <3>3, <3>4 DEF Payment!Claim, PaymentProofs!Claim, Payment!IdleRun, PaymentProofs!IdleRun,
                  Payment!NoPayment, PaymentProofs!NoPayment
  <2>2. Payment!EndClaim(w) => PaymentProofs!EndClaim(w)
    BY DEF Payment!EndClaim, PaymentProofs!EndClaim, Payment!IdleRun, PaymentProofs!IdleRun,
           Payment!NoPayment, PaymentProofs!NoPayment
  <2>3. (\E o \in Orders : Payment!LoadState(w, o)) =>
           (\E o \in Orders : PaymentProofs!LoadState(w, o))
    BY DEF Payment!LoadState, PaymentProofs!LoadState, Payment!DeriveOrderState,
           PaymentProofs!DeriveOrderState, Payment!IsLastSetter, PaymentProofs!IsLastSetter,
           Payment!SetsState, PaymentProofs!SetsState, Payment!StateSetBy,
           PaymentProofs!StateSetBy, Payment!NextOrder, PaymentProofs!NextOrder, Payment!IdleRun,
           PaymentProofs!IdleRun, Payment!NoPayment, PaymentProofs!NoPayment
  <2>4. Payment!LoadPayment(w) => PaymentProofs!LoadPayment(w)
    BY DEF Payment!LoadPayment, PaymentProofs!LoadPayment, Payment!IsLatestPayment,
           PaymentProofs!IsLatestPayment, Payment!PaymentIds, PaymentProofs!PaymentIds,
           Payment!NextOrder, PaymentProofs!NextOrder, Payment!IdleRun, PaymentProofs!IdleRun,
           Payment!NoPayment, PaymentProofs!NoPayment
  <2>5. Payment!LockRefund(w) => PaymentProofs!LockRefund(w)
    BY DEF Payment!LockRefund, PaymentProofs!LockRefund, Payment!RowLocked,
           PaymentProofs!RowLocked
  <2>6. Payment!CommitRefund(w) => PaymentProofs!CommitRefund(w)
    BY DEF Payment!CommitRefund, PaymentProofs!CommitRefund, Payment!SetStatus,
           PaymentProofs!SetStatus, Payment!UpdatePayment, PaymentProofs!UpdatePayment, Payment!LogEvent, PaymentProofs!LogEvent, Payment!NewEvent,
           PaymentProofs!NewEvent, Payment!NoPayment, PaymentProofs!NoPayment, Payment!NextOrder,
           PaymentProofs!NextOrder, Payment!IdleRun, PaymentProofs!IdleRun
  <2>7. Payment!RefundFails(w) => PaymentProofs!RefundFails(w)
    BY DEF Payment!RefundFails, PaymentProofs!RefundFails, Payment!NextOrder,
           PaymentProofs!NextOrder, Payment!IdleRun, PaymentProofs!IdleRun, Payment!NoPayment,
           PaymentProofs!NoPayment
  <2>8. Payment!Crash(w) => PaymentProofs!Crash(w)
    BY DEF Payment!Crash, PaymentProofs!Crash, Payment!IdleRun, PaymentProofs!IdleRun,
           Payment!NoPayment, PaymentProofs!NoPayment
  <2> QED
    BY <1>3, <2>1, <2>2, <2>3, <2>4, <2>5, <2>6, <2>7, <2>8 DEF Payment!RunStep, PaymentProofs!RunStep
<1> QED
  BY <1>1, <1>2, <1>3 DEF Payment!PaymentStep, PaymentProofs!PaymentStep, Payment!Capture,
                          PaymentProofs!Capture, Payment!PaymentIds, PaymentProofs!PaymentIds

LEMMA PaymentConstants == PaymentProofs!ConstantsAssumption
  BY SystemAssumption DEF Payment!ConstantsAssumption, PaymentProofs!ConstantsAssumption

\* The system runs the payments, and between their steps something else: the
\* commit of a checkout places its order with a total a checkout can come to.
THEOREM SystemRunsPayments == Spec => PaymentProofs!Spec
<1>1. Init => PaymentProofs!Init
  BY DEF Init, Payment!Init, PaymentProofs!Init, Payment!IdleCall, Payment!IdleRun,
         Payment!NoPayment, PaymentProofs!IdleCall, PaymentProofs!IdleRun, PaymentProofs!NoPayment
<1>2. ASSUME KeyInv, [Next]_vars
      PROVE  [PaymentProofs!Next]_paymentVars
  <2>1. ASSUME NEW r \in Requests, NEW o \in Orders, PlaceOrder(r, o)
        PROVE  PaymentProofs!Next
    <3>1. request[r].lines \in Lines
      BY <1>2 DEF KeyInv, CheckoutTypeOK, RequestType
    <3>2. TotalOf(request[r].lines) \in Totals
      BY <3>1, SystemAssumption
    <3>3. PaymentProofs!PlaceOrder(o, TotalOf(request[r].lines))
      BY <2>1 DEF PlaceOrder, Payment!PlaceOrder, PaymentProofs!PlaceOrder,
                  Payment!NewEvent, PaymentProofs!NewEvent,
                  Payment!NoPayment, PaymentProofs!NoPayment
    <3> QED
      BY <3>2, <3>3 DEF PaymentProofs!Next
  <2>2. CASE CheckoutStep /\ UNCHANGED paymentVars
    BY <2>2
  <2>3. CASE Payment!PaymentStep
    BY <2>3, SamePaymentStep DEF PaymentProofs!Next
  <2>4. CASE UNCHANGED vars
    BY <2>4 DEF vars, paymentVars
  <2> QED
    BY <1>2, <2>1, <2>2, <2>3, <2>4 DEF Next
<1>3. Spec => []KeyInv
  BY SystemRunsCheckouts, KeyInvariant, PTL
<1>4. [PaymentProofs!Next]_paymentVars => [PaymentProofs!Next]_PaymentProofs!vars
  BY DEF paymentVars, PaymentProofs!vars
<1> QED
  BY <1>1, <1>2, <1>3, <1>4, PTL DEF Spec, PaymentProofs!Spec
\* In the whole system, too, the event log is the source of truth, refunds have
\* their cause, successes name money the gateway took, a confirmed order is paid, and the runs
\* of the refund worker claim different payments.
THEOREM SystemKeepsPayments ==
    Spec => [](/\ PaymentProofs!TypeOK
               /\ PaymentProofs!StatusMatchesLog
               /\ PaymentProofs!RefundJustified
               /\ PaymentProofs!SuccessIsCaptured
               /\ PaymentProofs!ConfirmedIsPaid
               /\ PaymentProofs!ClaimsAreDisjoint)
<1>1. /\ PaymentProofs!Spec => []PaymentProofs!TypeOK
      /\ PaymentProofs!Spec => []PaymentProofs!StatusMatchesLog
      /\ PaymentProofs!Spec => []PaymentProofs!RefundJustified
  BY PaymentConstants, PaymentProofs!TypeCorrect, PaymentProofs!LogIsTruth,
     PaymentProofs!RefundsAreJustified
     DEF PaymentProofs!ConstantsAssumption
<1>2. /\ PaymentProofs!Spec => []PaymentProofs!SuccessIsCaptured
      /\ PaymentProofs!Spec => []PaymentProofs!ConfirmedIsPaid
      /\ PaymentProofs!Spec => []PaymentProofs!ClaimsAreDisjoint
  BY PaymentConstants, PaymentProofs!SuccessesAreCaptured, PaymentProofs!ConfirmedOrdersArePaid,
     PaymentProofs!ClaimsNeverOverlap
     DEF PaymentProofs!ConstantsAssumption
<1> QED
  BY <1>1, <1>2, SystemRunsPayments, PTL

-----------------------------------------------------------------------------
(* What was ordered is what is asked for                                   *)

\* An order has a history from its commit on, and its total is the sum of its
\* lines.
SnapshotOK ==
    /\ \A o \in Orders : log[o] # <<>> <=> IsPlaced(o)
    /\ \A o \in Orders : IsPlaced(o) => total[o] = TotalOf(orders[o].lines)

\* Nothing is logged or ordered at first.
LEMMA SnapshotInit == Init => SnapshotOK
  BY DEF Init, CheckoutInit, Payment!Init, SnapshotOK, IsPlaced, NoRow

\* The commit of a checkout writes the lines of a new order, their total and the
\* order's first events together.
LEMMA SnapshotPlace ==
    ASSUME CheckoutTypeOK, PaymentProofs!TypeOK, SnapshotOK,
           NEW r \in Requests, NEW o \in Orders, PlaceOrder(r, o)
    PROVE  SnapshotOK'
<1> DEFINE lines == request[r].lines
<1>1. request[r].key \in Keys
  BY DEF PlaceOrder, Commit, CheckoutTypeOK
<1>2. orders' = [orders EXCEPT ![o] = [key |-> request[r].key, lines |-> lines]]
  BY DEF PlaceOrder, Commit, WriteOrder
<1>3. /\ log' = [log EXCEPT ![o] = <<Payment!NewEvent("ORDER_REQUESTED", Payment!NoPayment),
                                     Payment!NewEvent("ORDER_VALIDATED", Payment!NoPayment)>>]
      /\ total' = [total EXCEPT ![o] = TotalOf(lines)]
  BY DEF PlaceOrder, Payment!PlaceOrder
<1> HIDE DEF lines
<1>4. /\ orders'[o].key = request[r].key /\ orders'[o].lines = lines
      /\ total'[o] = TotalOf(lines)
      /\ log'[o] # <<>>
      /\ \A other \in Orders : other # o =>
            /\ orders'[other] = orders[other]
            /\ total'[other] = total[other]
            /\ log'[other] = log[other]
  BY <1>2, <1>3 DEF CheckoutTypeOK, PaymentProofs!TypeOK
<1>5. (IsPlaced(o))'
  BY <1>1, <1>4, CheckoutAssumption DEF IsPlaced
<1>6. \A other \in Orders : other # o => ((IsPlaced(other))' <=> IsPlaced(other))
  BY <1>4 DEF IsPlaced
<1> QED
  BY <1>4, <1>5, <1>6 DEF SnapshotOK

\* The other steps of a checkout write no order, those of a payment begin no log
\* and empty none.
LEMMA SnapshotStep ==
    ASSUME CheckoutTypeOK, PaymentProofs!IInv, PaymentProofs!AmountsOK, SnapshotOK, [Next]_vars
    PROVE  SnapshotOK'
<1>1. PaymentProofs!TypeOK /\ PaymentProofs!CallOK /\ PaymentProofs!RunOK
  BY DEF PaymentProofs!IInv
<1>2. CASE \E r \in Requests, o \in Orders : PlaceOrder(r, o)
  BY <1>1, <1>2, SnapshotPlace
<1>3. CASE UNCHANGED <<orders, log, total>>
  BY <1>3 DEF SnapshotOK, IsPlaced
<1>4. CASE CheckoutStep /\ UNCHANGED paymentVars
  <2>1. UNCHANGED orders
    BY <1>4 DEF CheckoutStep, Submit, ReadKey, ReadCart, Abort, SyncCart, EditFood
  <2> QED
    BY <1>3, <1>4, <2>1 DEF paymentVars
<1>5. CASE Payment!PaymentStep /\ UNCHANGED checkoutVars
  <2>1. PaymentProofs!PaymentStep
    BY <1>5, SamePaymentStep
  <2>2. UNCHANGED total /\ \A o \in Orders : log[o] = <<>> => log'[o] = <<>>
    BY <2>1, PaymentConstants, PaymentProofs!PaymentStepAmounts
       DEF PaymentProofs!ConstantsAssumption
  <2>3. PaymentProofs!OneWrite
    BY <1>1, <2>1, PaymentConstants, PaymentProofs!StepKinds
       DEF PaymentProofs!ConstantsAssumption, PaymentProofs!Next
  <2>4. PaymentProofs!Grows
    BY <1>1, <2>3, PaymentConstants, PaymentProofs!StepGrows
       DEF PaymentProofs!ConstantsAssumption
  <2>5. ASSUME NEW o \in Orders, log[o] # <<>>
        PROVE  log'[o] # <<>>
    BY <1>1, <2>4, <2>5, PaymentConstants, PaymentProofs!LogsStayBegun
       DEF PaymentProofs!ConstantsAssumption
  <2>6. UNCHANGED orders
    BY <1>5 DEF checkoutVars
  <2> QED
    BY <2>2, <2>5, <2>6 DEF SnapshotOK, IsPlaced
<1>6. CASE UNCHANGED vars
  BY <1>3, <1>6 DEF vars, checkoutVars, paymentVars
<1> QED
  BY <1>2, <1>4, <1>5, <1>6 DEF Next

\* What the gateway is asked for is what the customer saw at checkout, however
\* often the menu is edited between the checkout's reads, its commit and the
\* payment; and only orders that exist have a history.
THEOREM PaymentsAskForTheSnapshot == Spec => []AmountIsSnapshot
<1>1. Spec => [](CheckoutTypeOK /\ PaymentProofs!IInv /\ PaymentProofs!AmountsOK)
  <2>1. /\ PaymentProofs!Spec => []PaymentProofs!IInv
        /\ PaymentProofs!Spec => []PaymentProofs!AmountsOK
    BY PaymentConstants, PaymentProofs!InductiveInvariant, PaymentProofs!AmountsAreTotals
       DEF PaymentProofs!ConstantsAssumption
  <2> QED
    BY <2>1, SystemRunsCheckouts, SystemRunsPayments, CheckoutTypes, PTL
<1>2. Spec => []SnapshotOK
  <2>1. /\ CheckoutTypeOK /\ PaymentProofs!IInv /\ PaymentProofs!AmountsOK
        /\ SnapshotOK /\ [Next]_vars
        => SnapshotOK'
    BY SnapshotStep
  <2> QED
    BY <1>1, <2>1, SnapshotInit, PTL DEF Spec
<1>3. PaymentProofs!IInv /\ PaymentProofs!AmountsOK /\ SnapshotOK => AmountIsSnapshot
  <2> SUFFICES ASSUME PaymentProofs!IInv, PaymentProofs!AmountsOK, SnapshotOK
               PROVE  AmountIsSnapshot
    OBVIOUS
  <2>1. ASSUME NEW p \in Payment!PaymentIds
        PROVE  payments[p].amount = TotalOf(orders[payments[p].order].lines)
    <3>1. p \in PaymentProofs!PaymentIds
      BY <2>1 DEF Payment!PaymentIds, PaymentProofs!PaymentIds
    <3>2. PaymentProofs!TypeOK
      BY DEF PaymentProofs!IInv
    <3>3. payments[p].order \in Orders
      BY <3>1, <3>2, PaymentConstants, PaymentProofs!PaymentsHaveOrders
         DEF PaymentProofs!ConstantsAssumption
    <3> QED
      BY <3>1, <3>3 DEF PaymentProofs!AmountsOK, SnapshotOK
  <2> QED
    BY <2>1 DEF AmountIsSnapshot, SnapshotOK
<1> QED
  BY <1>1, <1>2, <1>3, PTL
=============================================================================

---------------------------- MODULE OrderPayment ----------------------------
(***************************************************************************)
(* Payments, cancellation and refunds of placed orders.                    *)
(*                                                                         *)
(* Several requests to the backend and several runs of the refund worker   *)
(* are in flight at once, on one or more replicas.  Each works in a        *)
(* PostgreSQL transaction at READ COMMITTED: it reads what is committed    *)
(* when it reads, takes a row lock when it updates a payment, and all its  *)
(* writes become visible at its commit.  A step of this module is a read,  *)
(* the lock, or the commit of one transaction; between two of them any     *)
(* other request or run may take steps.                                    *)
(*                                                                         *)
(* Abstracted: the event log of an order is kept in commit order (the code *)
(* sorts by createdAt, which is set while the transaction holds its lock); *)
(* event payloads, providers and reasons; the order's items, of which only *)
(* the total is kept.                                                      *)
(***************************************************************************)
EXTENDS OrderDomain, FiniteSets

CONSTANTS
    Orders,          \* order ids
    NoOrder,         \* the absence of one
    Totals,          \* the totals a checkout can come to
    Calls,           \* slots for verify and cancel requests in flight
    Runs,            \* slots for runs of RefundRecoveryWorker in flight
    MaxPayments,     \* bound: payments ever initiated
    ClaimLimit,      \* the LIMIT of the worker's claim query
    StringsCompare   \* does crypto.timingSafeEqual compare two strings?

ASSUME ConstantsAssumption ==
    /\ NoOrder \notin Orders
    /\ Totals \subseteq Nat
    /\ MaxPayments \in Nat
    /\ ClaimLimit \in Nat \ {0}
    /\ StringsCompare \in BOOLEAN

VARIABLES
    log,        \* order_events: for each order its events, <<>> if it is not placed
    total,      \* for each placed order the sum over its order_items
    payments,   \* the payments table in order of creation; ids are positions
    captured,   \* the payments whose money the gateway has taken
    call,       \* the verify and cancel requests in flight
    run         \* the worker runs in flight

vars == <<log, total, payments, captured, call, run>>

PaymentStatus == {"INITIATED", "PROCESSING", "SUCCEEDED", "FAILED", "REFUNDED"}

\* providerPayment is the gateway's payment that settled the row (its
\* providerPaymentId): like the rows of payments, the gateway's payments are
\* known by the payment whose provider order they pay.
Payment == [order : Orders, amount : Nat, status : PaymentStatus, providerPayment : Nat]

\* The paymentId of an event that concerns no payment, and no payment's signature.
NoPayment == 0

Event == [type : OrderEventType, payment : Nat]

NewEvent(type, p) == [type |-> type, payment |-> p]

PaymentIds == 1..Len(payments)

\* orderEvent.create and payment.update of a transaction that commits.
LogEvent(o, type, p) == log' = [log EXCEPT ![o] = Append(@, NewEvent(type, p))]
UpdatePayment(p, status, paid) ==
    payments' = [payments EXCEPT ![p].status = status, ![p].providerPayment = paid]
SetStatus(p, status) == UpdatePayment(p, status, payments[p].providerPayment)

\* findFirst over the order's payments by createdAt, latest first.
IsLatestPayment(o, p) ==
    /\ p \in PaymentIds
    /\ payments[p].order = o
    /\ \A q \in PaymentIds : payments[q].order = o => q <= p

HasEvent(o, type) == \E i \in 1..Len(log[o]) : log[o][i].type = type

IdleCall == [pc |-> "idle", order |-> NoOrder, payment |-> NoPayment, paid |-> NoPayment]
IdleRun  == [pc |-> "idle", claimed |-> {}, todo |-> {}, order |-> NoOrder,
             payment |-> NoPayment]

\* Mutant: no transaction ever waits for another one's row lock.
NoRowLocks(p) == FALSE

\* A transaction that has not ended holds the row lock of payment p.
RowLocked(p) ==
    \/ \E c \in Calls : call[c].pc = "updated" /\ call[c].payment = p
    \/ \E w \in Runs : run[w].pc = "refunding" /\ run[w].payment = p
    \/ \E w \in Runs : run[w].pc = "claiming" /\ p \in run[w].claimed

Init ==
    /\ log = [o \in Orders |-> <<>>]
    /\ total = [o \in Orders |-> 0]
    /\ payments = <<>>
    /\ captured = {}
    /\ call = [c \in Calls |-> IdleCall]
    /\ run = [w \in Runs |-> IdleRun]

-----------------------------------------------------------------------------
(* The order appears: the commit of a checkout (module Checkout).          *)

PlaceOrder(o, amount) ==
    /\ log[o] = <<>>
    /\ log' = [log EXCEPT ![o] = <<NewEvent("ORDER_REQUESTED", NoPayment),
                                   NewEvent("ORDER_VALIDATED", NoPayment)>>]
    /\ total' = [total EXCEPT ![o] = amount]
    /\ UNCHANGED <<payments, captured, call, run>>

-----------------------------------------------------------------------------
(* PaymentService.initiatePayment                                          *)

NewPayment(o) ==
    [order |-> o, amount |-> total[o], status |-> "INITIATED", providerPayment |-> NoPayment]

\* The transaction reads only the order and its items, which never change, so
\* its reads and its commit are one step.  No order state is looked at.  If the
\* gateway refuses the order, or anything else throws, nothing is written.
InitiatePayment(o) ==
    /\ log[o] # <<>>
    /\ total[o] > 0
    /\ Len(payments) < MaxPayments
    /\ payments' = Append(payments, NewPayment(o))
    /\ LogEvent(o, "PAYMENT_INITIATED", Len(payments) + 1)
    /\ UNCHANGED <<total, captured, call, run>>

\* The customer pays: the gateway takes the money of the provider order that
\* was made for payment p, whatever has become of p in our tables.
Capture(p) ==
    /\ captured' = captured \cup {p}
    /\ UNCHANGED <<log, total, payments, call, run>>

-----------------------------------------------------------------------------
(* PaymentService.verifyPayment                                            *)

\* A request brings the signature the gateway made for the payment it says was
\* paid, or one the gateway did not make: paid is then NoPayment.

\* Mutant: the result of the comparison is not looked at.
AcceptAnySignature(paid) == StringsCompare

\* RazorpayService.verifySignature.  crypto.timingSafeEqual is given two
\* strings; if it does not take them it throws and the answer is false.
VerifySignature(paid) == StringsCompare /\ paid # NoPayment

\* Mutant: a payment that is no longer INITIATED can be verified again.
BeginVerifyAnyStatus(c, p, paid) ==
    /\ call[c].pc = "idle"
    /\ call' = [call EXCEPT ![c] = [pc |-> "verifying", order |-> payments[p].order,
                                    payment |-> p, paid |-> paid]]
    /\ UNCHANGED <<log, total, payments, captured, run>>

\* The request reads the payment.  A payment that has SUCCEEDED is answered at
\* once and any other status but INITIATED is an error: neither changes anything.
\* Which payment the gateway signed is the client's word: it is not compared with
\* the provider order that was made for p.
BeginVerify(c, p, paid) ==
    /\ call[c].pc = "idle"
    /\ payments[p].status = "INITIATED"
    /\ call' = [call EXCEPT ![c] = [pc |-> "verifying", order |-> payments[p].order,
                                    payment |-> p, paid |-> paid]]
    /\ UNCHANGED <<log, total, payments, captured, run>>

\* payment.update waits for the row lock; it does not look at the status again.
LockPayment(c) ==
    /\ call[c].pc = "verifying"
    /\ ~RowLocked(call[c].payment)
    /\ call' = [call EXCEPT ![c].pc = "updated"]
    /\ UNCHANGED <<log, total, payments, captured, run>>

\* Mutant: an invalid signature fails the payment but logs no event.
CommitVerifySilentFailure(c) ==
    LET o == call[c].order
        p == call[c].payment
    IN  /\ call[c].pc = "updated"
        /\ \/ /\ VerifySignature(call[c].paid)
              /\ UpdatePayment(p, "SUCCEEDED", call[c].paid)
              /\ LogEvent(o, "PAYMENT_SUCCEEDED", p)
           \/ ~VerifySignature(call[c].paid) /\ SetStatus(p, "FAILED") /\ UNCHANGED log
        /\ call' = [call EXCEPT ![c] = IdleCall]
        /\ UNCHANGED <<total, captured, run>>

\* The outcome of the signature check, which needs no stored state, and its
\* event become visible together.
CommitVerify(c) ==
    LET o == call[c].order
        p == call[c].payment
    IN  /\ call[c].pc = "updated"
        /\ \/ /\ VerifySignature(call[c].paid)
              /\ UpdatePayment(p, "SUCCEEDED", call[c].paid)
              /\ LogEvent(o, "PAYMENT_SUCCEEDED", p)
           \/ /\ ~VerifySignature(call[c].paid)
              /\ SetStatus(p, "FAILED")
              /\ LogEvent(o, "PAYMENT_FAILED", p)
        /\ call' = [call EXCEPT ![c] = IdleCall]
        /\ UNCHANGED <<total, captured, run>>

-----------------------------------------------------------------------------
(* OrderCancellationService.cancelOrder                                    *)

\* Load the events, derive the state and validate the transition.
BeginCancel(c, o) ==
    /\ call[c].pc = "idle"
    /\ log[o] # <<>>
    /\ IsValidTransition(DeriveOrderState(log[o]), "ORDER_CANCELLED")
    /\ call' = [call EXCEPT ![c] = [IdleCall EXCEPT !.pc = "cancelling", !.order = o]]
    /\ UNCHANGED <<log, total, payments, captured, run>>

CommitCancel(c) ==
    LET o == call[c].order
    IN  /\ call[c].pc = "cancelling"
        /\ LogEvent(o, "ORDER_CANCELLED", NoPayment)
        /\ call' = [call EXCEPT ![c] = IdleCall]
        /\ UNCHANGED <<total, payments, captured, run>>

\* A transaction of a request that fails, times out or dies with its replica
\* leaves nothing behind.
Rollback(c) ==
    /\ call[c].pc # "idle"
    /\ call' = [call EXCEPT ![c] = IdleCall]
    /\ UNCHANGED <<log, total, payments, captured, run>>

-----------------------------------------------------------------------------
(* RefundRecoveryWorker.run, started every 30 seconds on every replica     *)

\* The payments the claim query selects.
Claimable ==
    {p \in PaymentIds :
        /\ payments[p].status = "SUCCEEDED"
        /\ HasEvent(payments[p].order, "ORDER_CANCELLED")
        /\ ~ \E q \in PaymentIds : /\ payments[q].order = payments[p].order
                                   /\ payments[q].status = "REFUNDED"}

\* Mutant: the query takes one row less than its LIMIT.
ClaimOneFewer(w) ==
    /\ run[w].pc = "idle"
    /\ LET free == {p \in Claimable : ~RowLocked(p)}
       IN  \E rows \in (SUBSET free) \ {{}} :
              /\ Cardinality(rows) < ClaimLimit
              /\ rows = free \/ Cardinality(rows) = ClaimLimit - 1
              /\ run' = [run EXCEPT ![w] = [IdleRun EXCEPT !.pc = "claiming", !.claimed = rows]]
    /\ UNCHANGED <<log, total, payments, captured, call>>

\* FOR UPDATE SKIP LOCKED LIMIT: at most ClaimLimit rows, all of them if they fit.
\* A run that finds no row ends without having done anything.
Claim(w) ==
    /\ run[w].pc = "idle"
    /\ LET free == {p \in Claimable : ~RowLocked(p)}
       IN  \E rows \in (SUBSET free) \ {{}} :
              /\ Cardinality(rows) <= ClaimLimit
              /\ rows = free \/ Cardinality(rows) = ClaimLimit
              /\ run' = [run EXCEPT ![w] = [IdleRun EXCEPT !.pc = "claiming", !.claimed = rows]]
    /\ UNCHANGED <<log, total, payments, captured, call>>

\* Mutant: the run keeps the ids of the payments.
EndClaimKeepsPayments(w) ==
    /\ run[w].pc = "claiming"
    /\ run' = [run EXCEPT ![w] = [IdleRun EXCEPT !.pc = "looping", !.todo = run[w].claimed]]
    /\ UNCHANGED <<log, total, payments, captured, call>>

\* The claim transaction ends and its locks with it; the order ids stay in memory.
EndClaim(w) ==
    /\ run[w].pc = "claiming"
    /\ run' = [run EXCEPT ![w] = [IdleRun EXCEPT
                   !.pc = "looping",
                   !.todo = {payments[p].order : p \in run[w].claimed}]]
    /\ UNCHANGED <<log, total, payments, captured, call>>

\* The run goes on to the next order; after the last one it ends.
NextOrder(w, o) ==
    [run EXCEPT ![w] = IF run[w].todo = {o} THEN IdleRun
                       ELSE [IdleRun EXCEPT !.pc = "looping", !.todo = run[w].todo \ {o}]]

\* initiateRefund loads the events and derives the order's state.
LoadState(w, o) ==
    /\ run[w].pc = "looping"
    /\ o \in run[w].todo
    /\ run' = IF DeriveOrderState(log[o]) = "CANCELLED"
              THEN [run EXCEPT ![w].pc = "stateLoaded", ![w].order = o]
              ELSE NextOrder(w, o)
    /\ UNCHANGED <<log, total, payments, captured, call>>

\* Mutant: initiateRefund refunds the latest payment whatever its status is.
LoadPaymentAnyStatus(w) ==
    /\ run[w].pc = "stateLoaded"
    /\ \/ \E p \in PaymentIds :
             /\ IsLatestPayment(run[w].order, p)
             /\ run' = [run EXCEPT ![w].pc = "paymentLoaded", ![w].payment = p]
       \/ /\ ~ \E p \in PaymentIds : IsLatestPayment(run[w].order, p)
          /\ run' = NextOrder(w, run[w].order)
    /\ UNCHANGED <<log, total, payments, captured, call>>

\* It then reads the latest payment, and goes on only if that has SUCCEEDED.
LoadPayment(w) ==
    /\ run[w].pc = "stateLoaded"
    /\ \/ \E p \in PaymentIds :
             /\ IsLatestPayment(run[w].order, p)
             /\ payments[p].status = "SUCCEEDED"
             /\ run' = [run EXCEPT ![w].pc = "paymentLoaded", ![w].payment = p]
       \/ /\ ~ \E p \in PaymentIds : /\ IsLatestPayment(run[w].order, p)
                                     /\ payments[p].status = "SUCCEEDED"
          /\ run' = NextOrder(w, run[w].order)
    /\ UNCHANGED <<log, total, payments, captured, call>>

LockRefund(w) ==
    /\ run[w].pc = "paymentLoaded"
    /\ ~RowLocked(run[w].payment)
    /\ run' = [run EXCEPT ![w].pc = "refunding"]
    /\ UNCHANGED <<log, total, payments, captured, call>>

CommitRefund(w) ==
    LET o == run[w].order
        p == run[w].payment
    IN  /\ run[w].pc = "refunding"
        /\ SetStatus(p, "REFUNDED")
        /\ LogEvent(o, "PAYMENT_REFUNDED", p)
        /\ run' = NextOrder(w, run[w].order)
        /\ UNCHANGED <<total, captured, call>>

\* A refund that throws is logged and the loop goes on.
RefundFails(w) ==
    /\ run[w].pc \in {"stateLoaded", "paymentLoaded", "refunding"}
    /\ run' = NextOrder(w, run[w].order)
    /\ UNCHANGED <<log, total, payments, captured, call>>

\* The replica dies: what the run had claimed is forgotten.
Crash(w) ==
    /\ run[w].pc # "idle"
    /\ run' = [run EXCEPT ![w] = IdleRun]
    /\ UNCHANGED <<log, total, payments, captured, call>>

-----------------------------------------------------------------------------

CallStep(c) ==
    \/ \E p \in PaymentIds, paid \in captured \cup {NoPayment} : BeginVerify(c, p, paid)
    \/ LockPayment(c)
    \/ CommitVerify(c)
    \/ \E o \in Orders : BeginCancel(c, o)
    \/ CommitCancel(c)
    \/ Rollback(c)

RunStep(w) ==
    \/ Claim(w)
    \/ EndClaim(w)
    \/ \E o \in Orders : LoadState(w, o)
    \/ LoadPayment(w)
    \/ LockRefund(w)
    \/ CommitRefund(w)
    \/ RefundFails(w)
    \/ Crash(w)

\* Every step but the placing of an order.
PaymentStep ==
    \/ \E o \in Orders : InitiatePayment(o)
    \/ \E p \in PaymentIds : Capture(p)
    \/ \E c \in Calls : CallStep(c)
    \/ \E w \in Runs : RunStep(w)

Next ==
    \/ \E o \in Orders, amount \in Totals : PlaceOrder(o, amount)
    \/ PaymentStep

Spec == Init /\ [][Next]_vars

-----------------------------------------------------------------------------
(* Type                                                                    *)

CallType ==
    [pc : {"idle", "verifying", "updated", "cancelling"},
     order : Orders \cup {NoOrder}, payment : Nat, paid : Nat]

RunType ==
    [pc : {"idle", "claiming", "looping", "stateLoaded", "paymentLoaded", "refunding"},
     claimed : SUBSET Nat, todo : SUBSET Orders,
     order : Orders \cup {NoOrder}, payment : Nat]

\* The variables have their types, and ids that are held refer to rows.
TypeOK ==
    /\ log \in [Orders -> Seq(Event)]
    /\ total \in [Orders -> Nat]
    /\ payments \in Seq(Payment)
    /\ captured \subseteq PaymentIds
    /\ call \in [Calls -> CallType]
    /\ run \in [Runs -> RunType]

-----------------------------------------------------------------------------
(* Safety                                                                  *)

\* The status a payment has after an event that concerns it.
StatusSetBy ==
    [PAYMENT_INITIATED |-> "INITIATED",
     PAYMENT_SUCCEEDED |-> "SUCCEEDED",
     PAYMENT_FAILED    |-> "FAILED",
     PAYMENT_REFUNDED  |-> "REFUNDED"]

\* The last event of a log that concerns payment p sets this status.
LastEventSets(events, p, status) ==
    \E i \in 1..Len(events) :
        /\ events[i].payment = p
        /\ \A j \in 1..Len(events) : j > i => events[j].payment # p
        /\ events[i].type \in DOMAIN StatusSetBy
        /\ StatusSetBy[events[i].type] = status

\* The event log is the source of truth (schema.prisma): the status column of
\* every payment is the one set by the last event about it in its order's log,
\* whatever requests and refunds overlap.
StatusMatchesLog ==
    \A p \in PaymentIds : LastEventSets(log[payments[p].order], p, payments[p].status)

\* No refund without its cause: before a PAYMENT_REFUNDED event the log holds
\* the cancellation of the order and the success of that same payment.
RefundJustified ==
    \A o \in Orders : \A i \in 1..Len(log[o]) :
        log[o][i].type = "PAYMENT_REFUNDED" =>
            /\ \E j \in 1..Len(log[o]) :
                  j < i /\ log[o][j].type = "ORDER_CANCELLED"
            /\ \E j \in 1..Len(log[o]) :
                  /\ j < i
                  /\ log[o][j].type = "PAYMENT_SUCCEEDED"
                  /\ log[o][j].payment = log[o][i].payment

\* No success without money: a payment that was ever logged as succeeded is of
\* that order and names, through failures and refunds since, a payment the gateway
\* took (verifyPayment stores providerPaymentId with SUCCEEDED).  That it is the
\* money of this payment is not claimed: verifyPayment does not compare them.
SuccessIsCaptured ==
    \A o \in Orders : \A i \in 1..Len(log[o]) :
        log[o][i].type = "PAYMENT_SUCCEEDED" =>
            /\ log[o][i].payment \in PaymentIds
            /\ payments[log[o][i].payment].order = o
            /\ payments[log[o][i].payment].providerPayment \in captured

\* An order that reads CONFIRMED has a payment that is SUCCEEDED or was
\* refunded since: an overlapping verification cannot leave it without one.
ConfirmedIsPaid ==
    \A o \in Orders : DeriveOrderState(log[o]) = "CONFIRMED" =>
        \E p \in PaymentIds : /\ payments[p].order = o
                              /\ payments[p].status \in {"SUCCEEDED", "REFUNDED"}

\* While they claim, two runs never hold the same payment, and none holds one
\* that another transaction is updating.
ClaimsAreDisjoint ==
    \A w \in Runs : run[w].pc = "claiming" =>
        /\ \A v \in Runs \ {w} : run[v].pc = "claiming" => run[v].claimed \cap run[w].claimed = {}
        /\ \A c \in Calls : call[c].pc = "updated" => call[c].payment \notin run[w].claimed
        /\ \A v \in Runs : run[v].pc = "refunding" => run[v].payment \notin run[w].claimed

-----------------------------------------------------------------------------
(* What holds when one request and one run are in flight at a time         *)

\* The events of a log that refund payment p.
RefundsIn(events, p) ==
    {i \in 1..Len(events) : events[i].type = "PAYMENT_REFUNDED" /\ events[i].payment = p}

RefundEvents(p) == Cardinality(RefundsIn(log[payments[p].order], p))

Statuses == [p \in PaymentIds |-> payments[p].status]
Refunds  == [p \in PaymentIds |-> RefundEvents(p)]

Ledger == INSTANCE PaymentLedger WITH status <- Statuses, refunds <- Refunds

\* A payment is settled once and refunded at most once: the database and the
\* event log implement the ledger.  This needs requests not to overlap.
ImplementsLedger == Ledger!Spec

\* README.md:151 "No double refunds (event log + payment status prevent
\* reprocessing)": so it is of payments that keep the ledger.
NoDoubleRefund == \A p \in PaymentIds : RefundEvents(p) <= 1
=============================================================================

-------------------------- MODULE OrderPaymentProofs --------------------------
(***************************************************************************)
(* For every number of orders, payments, requests and worker runs: the     *)
(* types of OrderPayment and its safety invariants, by the inductive       *)
(* invariant IInv; the sums the gateway is asked for; the loop of          *)
(* deriveOrderState and its closed form; and where a payment that is       *)
(* settled or refunded twice comes from.                                   *)
(***************************************************************************)
EXTENDS OrderPayment, FilteringProofs, TLAPS

Succeeded(o, p) ==
    \E i \in 1..Len(log[o]) :
        log[o][i].type = "PAYMENT_SUCCEEDED" /\ log[o][i].payment = p

\* A request holds a payment of its order, and its signature, if the gateway made
\* it, is of a payment the gateway took.
CallOK ==
    \A c \in Calls :
        /\ call[c].pc \in {"verifying", "updated"} =>
              /\ call[c].payment \in PaymentIds
              /\ call[c].order = payments[call[c].payment].order
              /\ call[c].paid \in captured \cup {NoPayment}
        /\ call[c].pc = "cancelling" => call[c].order \in Orders

\* What a run read of an order still stands in the log when it refunds.
RunOK ==
    \A w \in Runs :
        /\ run[w].claimed \subseteq PaymentIds
        /\ run[w].pc \in {"stateLoaded", "paymentLoaded", "refunding"} =>
              /\ run[w].order \in Orders
              /\ HasEvent(run[w].order, "ORDER_CANCELLED")
        /\ run[w].pc \in {"paymentLoaded", "refunding"} =>
              /\ run[w].payment \in PaymentIds
              /\ payments[run[w].payment].order = run[w].order
              /\ Succeeded(run[w].order, run[w].payment)

\* An event of an order that names a payment names one of that order.
EventsOK ==
    \A o \in Orders : \A i \in 1..Len(log[o]) :
        log[o][i].payment # NoPayment =>
            /\ log[o][i].payment \in PaymentIds
            /\ payments[log[o][i].payment].order = o

IInv ==
    /\ TypeOK
    /\ CallOK
    /\ RunOK
    /\ EventsOK
    /\ StatusMatchesLog
    /\ RefundJustified
    /\ SuccessIsCaptured

-----------------------------------------------------------------------------
(* The two writes                                                          *)

\* Appending an event to one log keeps every log as it was and adds the event.
LEMMA LogEventFacts ==
    ASSUME log \in [Orders -> Seq(Event)], NEW o \in Orders,
           NEW type \in OrderEventType, NEW p \in Nat, LogEvent(o, type, p)
    PROVE  /\ log' \in [Orders -> Seq(Event)]
           /\ \A q \in Orders : q # o => log'[q] = log[q]
           /\ Len(log[o]) \in Nat
           /\ Len(log'[o]) = Len(log[o]) + 1
           /\ \A i \in 1..Len(log[o]) : log'[o][i] = log[o][i]
           /\ log'[o][Len(log[o]) + 1] = NewEvent(type, p)
<1>1. NewEvent(type, p) \in Event
  BY DEF NewEvent, Event
<1>2. log[o] \in Seq(Event)
  OBVIOUS
<1>3. log'[o] = Append(log[o], NewEvent(type, p))
  BY DEF LogEvent
<1> QED
  BY <1>1, <1>2, <1>3 DEF LogEvent

\* Appending an event moves none that was there.
LEMMA LogEventGrows ==
    ASSUME log \in [Orders -> Seq(Event)], NEW o \in Orders,
           NEW type \in OrderEventType, NEW p \in Nat, LogEvent(o, type, p)
    PROVE  /\ log' \in [Orders -> Seq(Event)]
           /\ \A q \in Orders : \A i \in 1..Len(log[q]) :
                 i \in 1..Len(log'[q]) /\ log'[q][i] = log[q][i]
<1>1. /\ log' \in [Orders -> Seq(Event)]
      /\ \A q \in Orders : q # o => log'[q] = log[q]
      /\ Len(log[o]) \in Nat
      /\ Len(log'[o]) = Len(log[o]) + 1
      /\ \A i \in 1..Len(log[o]) : log'[o][i] = log[o][i]
  BY LogEventFacts
<1>2. ASSUME NEW q \in Orders, NEW i \in 1..Len(log[q])
      PROVE  i \in 1..Len(log'[q]) /\ log'[q][i] = log[q][i]
  <2>1. CASE q = o
    BY <1>1, <2>1
  <2>2. CASE q # o
    BY <1>1, <2>2
  <2> QED
    BY <2>1, <2>2
<1> QED
  BY <1>1, <1>2

\* Updating one payment sets its status and the gateway's payment that settled it,
\* and changes nothing else about any payment.
LEMMA UpdatePaymentFacts ==
    ASSUME payments \in Seq(Payment), NEW p \in PaymentIds,
           NEW status \in PaymentStatus, NEW paid \in Nat, UpdatePayment(p, status, paid)
    PROVE  /\ payments' \in Seq(Payment)
           /\ Len(payments') = Len(payments)
           /\ PaymentIds' = PaymentIds
           /\ \A q \in PaymentIds : payments'[q].order = payments[q].order
           /\ \A q \in PaymentIds : payments'[q].amount = payments[q].amount
           /\ \A q \in PaymentIds : q # p => payments'[q] = payments[q]
           /\ payments'[p].status = status
           /\ payments'[p].providerPayment = paid
<1> DEFINE row == [payments[p] EXCEPT !.status = status, !.providerPayment = paid]
<1>1. payments[p] \in Payment
  BY DEF PaymentIds
<1>2. row \in Payment
  BY <1>1 DEF Payment
<1>3. payments' = [payments EXCEPT ![p] = row]
  BY <1>1 DEF UpdatePayment, PaymentIds, Payment
<1>4. /\ row.status = status
      /\ row.providerPayment = paid
      /\ row.order = payments[p].order
      /\ row.amount = payments[p].amount
  BY <1>1 DEF Payment
<1> HIDE DEF row
<1>5. payments' \in Seq(Payment) /\ Len(payments') = Len(payments)
  BY <1>2, <1>3 DEF PaymentIds
<1>6. \A q \in PaymentIds : payments'[q] = IF q = p THEN row ELSE payments[q]
  BY <1>3 DEF PaymentIds
<1> QED
  BY <1>4, <1>5, <1>6 DEF PaymentIds

-----------------------------------------------------------------------------
(* What a step can do to the log and the payments                          *)

NoWrite == UNCHANGED <<log, payments>>

Places(o) ==
    /\ log[o] = <<>>
    /\ log' = [log EXCEPT ![o] = <<NewEvent("ORDER_REQUESTED", NoPayment),
                                   NewEvent("ORDER_VALIDATED", NoPayment)>>]
    /\ UNCHANGED payments

Initiates(o) ==
    /\ payments' = Append(payments, NewPayment(o))
    /\ LogEvent(o, "PAYMENT_INITIATED", Len(payments) + 1)

\* The status of p and its event are written together, with what justifies them.
Settles(p, type) ==
    /\ \E paid \in Nat :
          /\ UpdatePayment(p, StatusSetBy[type], paid)
          /\ IF type = "PAYMENT_SUCCEEDED" THEN paid \in captured
             ELSE paid = payments[p].providerPayment
    /\ LogEvent(payments[p].order, type, p)
    /\ type = "PAYMENT_REFUNDED" => /\ HasEvent(payments[p].order, "ORDER_CANCELLED")
                                    /\ Succeeded(payments[p].order, p)

Cancels(o) == LogEvent(o, "ORDER_CANCELLED", NoPayment) /\ UNCHANGED payments

Outcomes == {"PAYMENT_SUCCEEDED", "PAYMENT_FAILED", "PAYMENT_REFUNDED"}

OneWrite ==
    \/ NoWrite
    \/ \E o \in Orders : Places(o)
    \/ \E o \in Orders : Initiates(o)
    \/ \E p \in PaymentIds, type \in Outcomes : Settles(p, type)
    \/ \E o \in Orders : Cancels(o)

\* A row holds the number of a gateway payment, or none.
LEMMA ProviderPaymentType ==
    ASSUME TypeOK, NEW p \in PaymentIds
    PROVE  payments[p].providerPayment \in Nat
<1>1. payments[p] \in Payment
  BY DEF TypeOK, PaymentIds
<1> QED
  BY <1>1 DEF Payment

\* The commit of a verification settles the payment its request holds.
LEMMA CommitVerifySettles ==
    ASSUME TypeOK, CallOK, NEW c \in Calls, CommitVerify(c)
    PROVE  /\ call[c].payment \in PaymentIds
           /\ \E type \in {"PAYMENT_SUCCEEDED", "PAYMENT_FAILED"} : Settles(call[c].payment, type)
<1> DEFINE p == call[c].payment
<1>1. p \in PaymentIds /\ call[c].order = payments[p].order
  BY DEF CommitVerify, CallOK
<1>2. CASE VerifySignature(call[c].paid)
  <2>1. call[c].paid \in captured /\ call[c].paid \in Nat
    <3>1. call[c].paid \in captured
      BY <1>2 DEF CommitVerify, CallOK, VerifySignature
    <3>2. captured \subseteq 1..Len(payments) /\ Len(payments) \in Nat
      BY DEF TypeOK, PaymentIds
    <3>3. call[c].paid \in 1..Len(payments)
      BY <3>1, <3>2
    <3> QED
      BY <3>1, <3>2, <3>3
  <2>2. Settles(p, "PAYMENT_SUCCEEDED")
    BY <1>1, <1>2, <2>1 DEF CommitVerify, Settles, StatusSetBy
  <2> QED
    BY <1>1, <2>2
<1>3. CASE ~VerifySignature(call[c].paid)
  <2>1. payments[p].providerPayment \in Nat
    BY <1>1, ProviderPaymentType
  <2>2. Settles(p, "PAYMENT_FAILED")
    BY <1>1, <1>3, <2>1 DEF CommitVerify, Settles, StatusSetBy, SetStatus
  <2> QED
    BY <1>1, <2>2
<1> QED
  BY <1>2, <1>3

\* The commit of a refund settles the payment its run holds.
LEMMA CommitRefundSettles ==
    ASSUME TypeOK, RunOK, NEW w \in Runs, CommitRefund(w)
    PROVE  /\ run[w].payment \in PaymentIds
           /\ Settles(run[w].payment, "PAYMENT_REFUNDED")
<1> DEFINE p == run[w].payment
<1>1. /\ p \in PaymentIds
      /\ payments[p].order = run[w].order
      /\ HasEvent(run[w].order, "ORDER_CANCELLED")
      /\ Succeeded(run[w].order, p)
  BY DEF CommitRefund, RunOK
<1>2. payments[p].providerPayment \in Nat
  BY <1>1, ProviderPaymentType
<1> QED
  BY <1>1, <1>2 DEF CommitRefund, Settles, StatusSetBy, SetStatus

\* What a settlement does to the payments.
LEMMA SettlesFacts ==
    ASSUME TypeOK, NEW p \in PaymentIds, NEW type \in Outcomes, Settles(p, type)
    PROVE  /\ PaymentIds' = PaymentIds
           /\ \A q \in PaymentIds : q # p => payments'[q] = payments[q]
           /\ payments'[p].status = StatusSetBy[type]
           /\ payments'[p].order = payments[p].order
<1>1. StatusSetBy[type] \in PaymentStatus /\ payments \in Seq(Payment)
  BY DEF Outcomes, StatusSetBy, PaymentStatus, TypeOK
<1>2. PICK paid \in Nat : UpdatePayment(p, StatusSetBy[type], paid)
  BY DEF Settles
<1> QED
  BY <1>1, <1>2, UpdatePaymentFacts

\* Every step of the system writes nothing, or is one of four kinds of write.
LEMMA StepKinds ==
    ASSUME TypeOK, CallOK, RunOK, [Next]_vars
    PROVE  OneWrite
<1>1. CASE \E o \in Orders, amount \in Totals : PlaceOrder(o, amount)
  BY <1>1 DEF PlaceOrder, Places, OneWrite
<1>2. CASE \E o \in Orders : InitiatePayment(o)
  BY <1>2 DEF InitiatePayment, Initiates, OneWrite
<1>3. CASE \E p \in PaymentIds : Capture(p)
  BY <1>3 DEF Capture, NoWrite, OneWrite
<1>4. ASSUME NEW c \in Calls, CallStep(c)
      PROVE  \/ NoWrite
             \/ \E p \in PaymentIds, type \in Outcomes : Settles(p, type)
             \/ \E o \in Orders : Cancels(o)
  <2>1. CASE \E p \in PaymentIds, paid \in captured \cup {NoPayment} : BeginVerify(c, p, paid)
    BY <2>1 DEF BeginVerify, NoWrite
  <2>2. CASE LockPayment(c)
    BY <2>2 DEF LockPayment, NoWrite
  <2>3. CASE CommitVerify(c)
    BY <2>3, CommitVerifySettles DEF Outcomes
  <2>4. CASE \E o \in Orders : BeginCancel(c, o)
    BY <2>4 DEF BeginCancel, NoWrite
  <2>5. CASE CommitCancel(c)
    BY <2>5 DEF CommitCancel, Cancels, CallOK
  <2>6. CASE Rollback(c)
    BY <2>6 DEF Rollback, NoWrite
  <2> QED
    BY <1>4, <2>1, <2>2, <2>3, <2>4, <2>5, <2>6 DEF CallStep
<1>5. ASSUME NEW w \in Runs, RunStep(w)
      PROVE  \/ NoWrite
             \/ \E p \in PaymentIds, type \in Outcomes : Settles(p, type)
  <2>1. CASE CommitRefund(w)
    BY <2>1, CommitRefundSettles DEF Outcomes
  <2>2. CASE \/ Claim(w) \/ EndClaim(w) \/ \E o \in Orders : LoadState(w, o)
             \/ LoadPayment(w) \/ LockRefund(w) \/ RefundFails(w) \/ Crash(w)
    BY <2>2 DEF Claim, EndClaim, LoadState, LoadPayment, LockRefund, RefundFails, Crash, NoWrite
  <2> QED
    BY <1>5, <2>1, <2>2 DEF RunStep
<1>6. CASE UNCHANGED vars
  BY <1>6 DEF vars, NoWrite, OneWrite
<1> QED
  BY <1>1, <1>2, <1>3, <1>4, <1>5, <1>6 DEF Next, PaymentStep, OneWrite

\* Events and payments that were there stay where they were.
Grows ==
    /\ log' \in [Orders -> Seq(Event)]
    /\ payments' \in Seq(Payment)
    /\ PaymentIds \subseteq PaymentIds'
    /\ \A p \in PaymentIds : payments'[p].order = payments[p].order
    /\ \A o \in Orders : \A i \in 1..Len(log[o]) :
          i \in 1..Len(log'[o]) /\ log'[o][i] = log[o][i]

\* Every write keeps the events and the payments that were there, at their places.
LEMMA StepGrows ==
    ASSUME TypeOK, OneWrite
    PROVE  Grows
<1>1. CASE NoWrite
  BY <1>1 DEF NoWrite, TypeOK, Grows, PaymentIds
<1>2. ASSUME NEW o \in Orders, Places(o)
      PROVE  Grows
  <2>1. /\ NewEvent("ORDER_REQUESTED", NoPayment) \in Event
        /\ NewEvent("ORDER_VALIDATED", NoPayment) \in Event
    BY DEF NewEvent, Event, OrderEventType, NoPayment
  <2>2. log' \in [Orders -> Seq(Event)]
    BY <1>2, <2>1 DEF Places, TypeOK
  <2>3. \A q \in Orders : q # o => log'[q] = log[q]
    BY <1>2 DEF Places, TypeOK
  <2>4. Len(log[o]) = 0
    BY <1>2 DEF Places
  <2> QED
    BY <1>2, <2>2, <2>3, <2>4 DEF Places, TypeOK, Grows, PaymentIds
<1>3. ASSUME NEW o \in Orders, Initiates(o)
      PROVE  Grows
  <2>1. NewPayment(o) \in Payment
    BY DEF TypeOK, Payment, PaymentStatus, NewPayment, NoPayment
  <2>2. /\ payments' \in Seq(Payment)
        /\ PaymentIds \subseteq PaymentIds'
        /\ \A p \in PaymentIds : payments'[p] = payments[p]
    BY <1>3, <2>1 DEF Initiates, TypeOK, PaymentIds
  <2>3. Len(payments) + 1 \in Nat /\ "PAYMENT_INITIATED" \in OrderEventType
    BY DEF TypeOK, OrderEventType
  <2>4. LogEvent(o, "PAYMENT_INITIATED", Len(payments) + 1) /\ log \in [Orders -> Seq(Event)]
    BY <1>3 DEF Initiates, TypeOK
  <2> QED
    BY <2>2, <2>3, <2>4, LogEventGrows DEF Grows, TypeOK, PaymentIds, Payment
<1>4. ASSUME NEW p \in PaymentIds, NEW type \in Outcomes, Settles(p, type)
      PROVE  Grows
  <2>0. payments[p] \in Payment
    BY DEF TypeOK, PaymentIds
  <2>1. payments[p].order \in Orders /\ p \in Nat
    BY <2>0 DEF PaymentIds, Payment
  <2>2. type \in OrderEventType /\ StatusSetBy[type] \in PaymentStatus
    BY DEF Outcomes, OrderEventType, StatusSetBy, PaymentStatus
  <2>3. /\ \E paid \in Nat : UpdatePayment(p, StatusSetBy[type], paid)
        /\ payments \in Seq(Payment)
        /\ LogEvent(payments[p].order, type, p) /\ log \in [Orders -> Seq(Event)]
    BY <1>4 DEF Settles, TypeOK
  <2>4. /\ payments' \in Seq(Payment)
        /\ PaymentIds' = PaymentIds
        /\ \A q \in PaymentIds : payments'[q].order = payments[q].order
    BY <2>2, <2>3, UpdatePaymentFacts
  <2> QED
    BY <2>1, <2>2, <2>3, <2>4, LogEventGrows DEF Grows
<1>5. ASSUME NEW o \in Orders, Cancels(o)
      PROVE  Grows
  <2>1. NoPayment \in Nat /\ "ORDER_CANCELLED" \in OrderEventType
    BY DEF OrderEventType, NoPayment
  <2>2. LogEvent(o, "ORDER_CANCELLED", NoPayment) /\ log \in [Orders -> Seq(Event)]
    BY <1>5 DEF Cancels, TypeOK
  <2>3. UNCHANGED payments
    BY <1>5 DEF Cancels
  <2> QED
    BY <2>1, <2>2, <2>3, LogEventGrows DEF Grows, TypeOK, PaymentIds
<1> QED
  BY <1>1, <1>2, <1>3, <1>4, <1>5 DEF OneWrite

-----------------------------------------------------------------------------
(* Types                                                                   *)

\* The invariant holds of empty tables.
LEMMA InitInvariant == Init => IInv
<1> SUFFICES ASSUME Init PROVE IInv
  OBVIOUS
<1>1. payments = <<>> /\ Len(payments) = 0 /\ PaymentIds = {}
  BY DEF Init, PaymentIds
<1>2. \A o \in Orders : log[o] = <<>> /\ Len(log[o]) = 0
  BY DEF Init
<1>3. TypeOK
  BY <1>1 DEF Init, TypeOK, IdleCall, IdleRun, CallType, RunType, NoPayment
<1>4. CallOK /\ RunOK
  BY <1>1 DEF Init, CallOK, RunOK, IdleCall, IdleRun
<1>5. EventsOK /\ StatusMatchesLog /\ RefundJustified /\ SuccessIsCaptured
  BY <1>1, <1>2 DEF EventsOK, StatusMatchesLog, RefundJustified, SuccessIsCaptured
<1> QED
  BY <1>3, <1>4, <1>5 DEF IInv

\* A step keeps the types; those of the log and the payments follow from Grows.
LEMMA TypeStep ==
    ASSUME TypeOK, CallOK, RunOK, [Next]_vars
    PROVE  TypeOK'
<1> USE DEF TypeOK
<1>1. Grows
  BY StepKinds, StepGrows
<1>2. log' \in [Orders -> Seq(Event)] /\ payments' \in Seq(Payment) /\ PaymentIds \subseteq PaymentIds'
  BY <1>1 DEF Grows
<1>3. \A p \in PaymentIds : p \in Nat /\ payments[p].order \in Orders
  <2>1. \A p \in PaymentIds : p \in Nat /\ payments[p] \in Payment
    BY DEF PaymentIds
  <2> QED
    BY <2>1 DEF Payment
<1> SUFFICES /\ total' \in [Orders -> Nat]
             /\ captured' \subseteq PaymentIds
             /\ call' \in [Calls -> CallType]
             /\ run' \in [Runs -> RunType]
  BY <1>2
<1>4. CASE \E o \in Orders, amount \in Totals : PlaceOrder(o, amount)
  BY <1>4, ConstantsAssumption DEF PlaceOrder
<1>5. CASE \E o \in Orders : InitiatePayment(o)
  BY <1>5 DEF InitiatePayment
<1>6. CASE \E p \in PaymentIds : Capture(p)
  BY <1>6 DEF Capture
<1>7. ASSUME NEW c \in Calls, CallStep(c)
      PROVE  /\ UNCHANGED <<total, captured, run>>
             /\ call' \in [Calls -> CallType]
  <2>0. call[c] \in CallType /\ IdleCall \in CallType
    BY DEF IdleCall, CallType, NoPayment
  <2>1. ASSUME NEW p \in PaymentIds, NEW paid \in captured \cup {NoPayment},
             BeginVerify(c, p, paid)
        PROVE  UNCHANGED <<total, captured, run>> /\ call' \in [Calls -> CallType]
    <3>1. paid \in Nat
      BY <1>3 DEF NoPayment
    <3> QED
      BY <1>3, <2>1, <3>1 DEF BeginVerify, CallType
  <2>2. CASE LockPayment(c)
    BY <2>0, <2>2 DEF LockPayment, CallType
  <2>3. CASE CommitVerify(c)
    BY <2>0, <2>3 DEF CommitVerify
  <2>4. ASSUME NEW o \in Orders, BeginCancel(c, o)
        PROVE  UNCHANGED <<total, captured, run>> /\ call' \in [Calls -> CallType]
    BY <2>0, <2>4 DEF BeginCancel, CallType, IdleCall
  <2>5. CASE CommitCancel(c)
    BY <2>0, <2>5 DEF CommitCancel
  <2>6. CASE Rollback(c)
    BY <2>0, <2>6 DEF Rollback
  <2> QED
    BY <1>7, <2>1, <2>2, <2>3, <2>4, <2>5, <2>6 DEF CallStep
<1>8. ASSUME NEW w \in Runs, RunStep(w)
      PROVE  /\ UNCHANGED <<total, captured, call>>
             /\ run' \in [Runs -> RunType]
  <2>0. run[w] \in RunType /\ IdleRun \in RunType
    BY DEF IdleRun, RunType, NoPayment
  <2>1. \A o : NextOrder(w, o) \in [Runs -> RunType]
    BY <2>0 DEF NextOrder, RunType, IdleRun
  <2>2. CASE Claim(w)
    <3>1. PICK rows \in SUBSET PaymentIds :
             run' = [run EXCEPT ![w] = [IdleRun EXCEPT !.pc = "claiming", !.claimed = rows]]
      BY <2>2 DEF Claim, Claimable
    <3>2. rows \in SUBSET Nat
      BY <1>3
    <3> QED
      BY <2>0, <2>2, <3>1, <3>2 DEF Claim, RunType, IdleRun
  <2>3. CASE EndClaim(w)
    <3>1. {payments[p].order : p \in run[w].claimed} \in SUBSET Orders
      BY <1>3 DEF RunOK
    <3> QED
      BY <2>0, <2>3, <3>1 DEF EndClaim, RunType, IdleRun
  <2>4. ASSUME NEW o \in Orders, LoadState(w, o)
        PROVE  UNCHANGED <<total, captured, call>> /\ run' \in [Runs -> RunType]
    BY <2>0, <2>1, <2>4 DEF LoadState, RunType
  <2>5. CASE LoadPayment(w)
    <3>1. CASE run' = NextOrder(w, run[w].order)
      BY <2>1, <2>5, <3>1 DEF LoadPayment
    <3>2. ASSUME NEW p \in PaymentIds,
                 run' = [run EXCEPT ![w].pc = "paymentLoaded", ![w].payment = p]
          PROVE  run' \in [Runs -> RunType]
      BY <1>3, <2>0, <3>2 DEF RunType
    <3> QED
      BY <2>5, <3>1, <3>2 DEF LoadPayment
  <2>6. CASE LockRefund(w)
    BY <2>0, <2>6 DEF LockRefund, RunType
  <2>7. CASE CommitRefund(w) \/ RefundFails(w)
    BY <2>1, <2>7 DEF CommitRefund, RefundFails
  <2>8. CASE Crash(w)
    BY <2>0, <2>8 DEF Crash
  <2> QED
    BY <1>8, <2>2, <2>3, <2>4, <2>5, <2>6, <2>7, <2>8 DEF RunStep
<1>9. CASE UNCHANGED vars
  BY <1>9 DEF vars
<1> QED
  BY <1>4, <1>5, <1>6, <1>7, <1>8, <1>9 DEF Next, PaymentStep

-----------------------------------------------------------------------------
(* What requests and runs hold                                             *)

\* What a request has read of its payment stays true while it waits: a payment never
\* changes its order, and money that was taken stays taken.
LEMMA CallOKStep ==
    ASSUME TypeOK, CallOK, RunOK, [Next]_vars
    PROVE  CallOK'
<1> DEFINE OK(c) ==
      /\ call[c].pc \in {"verifying", "updated"} =>
            /\ call[c].payment \in PaymentIds
            /\ call[c].order = payments[call[c].payment].order
            /\ call[c].paid \in captured \cup {NoPayment}
      /\ call[c].pc = "cancelling" => call[c].order \in Orders
<1>1. Grows
  BY StepKinds, StepGrows
<1>2. PaymentIds \subseteq PaymentIds' /\ \A p \in PaymentIds : payments'[p].order = payments[p].order
  BY <1>1 DEF Grows
<1>3. ASSUME captured \subseteq captured', NEW c \in Calls, call'[c] = call[c]
      PROVE  OK(c)'
  BY <1>2, <1>3 DEF CallOK
<1>4. CASE call' = call /\ captured \subseteq captured'
  BY <1>3, <1>4 DEF CallOK
<1>5. ASSUME NEW c \in Calls, CallStep(c)
      PROVE  CallOK'
  <2>1. UNCHANGED captured /\ \A d \in Calls : d # c => call'[d] = call[d]
    BY <1>5 DEF CallStep, BeginVerify, LockPayment, CommitVerify, BeginCancel, CommitCancel,
                Rollback, TypeOK
  <2> SUFFICES OK(c)'
    BY <1>3, <2>1 DEF CallOK
  <2>2. ASSUME NEW p \in PaymentIds, NEW paid \in captured \cup {NoPayment},
             BeginVerify(c, p, paid)
        PROVE  OK(c)'
    BY <1>2, <2>2 DEF BeginVerify, TypeOK
  <2>3. CASE LockPayment(c)
    BY <1>2, <2>1, <2>3 DEF LockPayment, CallOK, TypeOK
  <2>4. CASE CommitVerify(c) \/ CommitCancel(c) \/ Rollback(c)
    BY <2>4 DEF CommitVerify, CommitCancel, Rollback, IdleCall, TypeOK
  <2>5. ASSUME NEW o \in Orders, BeginCancel(c, o)
        PROVE  OK(c)'
    BY <2>5 DEF BeginCancel, IdleCall, TypeOK
  <2> QED
    BY <1>5, <2>2, <2>3, <2>4, <2>5 DEF CallStep
<1>6. CASE \E w \in Runs : RunStep(w)
  BY <1>4, <1>6 DEF RunStep, Claim, EndClaim, LoadState, LoadPayment, LockRefund, CommitRefund,
                    RefundFails, Crash
<1> QED
  BY <1>4, <1>5, <1>6 DEF Next, PaymentStep, PlaceOrder, InitiatePayment, Capture, vars

\* A derived state other than INIT was set by an event of the log.
LEMMA DerivedFromEvent ==
    ASSUME NEW events, DeriveOrderState(events) # "INIT"
    PROVE  \E i \in 1..Len(events) :
              /\ IsLastSetter(events, i)
              /\ DeriveOrderState(events) = StateSetBy[events[i].type]
BY DEF DeriveOrderState

\* An order that reads CANCELLED has the event in its log.
LEMMA CancelledHasEvent ==
    ASSUME NEW o \in Orders, DeriveOrderState(log[o]) = "CANCELLED"
    PROVE  HasEvent(o, "ORDER_CANCELLED")
<1>1. PICK i \in 1..Len(log[o]) :
         IsLastSetter(log[o], i) /\ "CANCELLED" = StateSetBy[log[o][i].type]
  BY DerivedFromEvent
<1>2. log[o][i].type = "ORDER_CANCELLED"
  BY <1>1 DEF IsLastSetter, SetsState, StateSetBy
<1> QED
  BY <1>2 DEF HasEvent

\* A payment whose status is SUCCEEDED has the event in its order's log.
LEMMA SucceededHasEvent ==
    ASSUME StatusMatchesLog, NEW p \in PaymentIds, payments[p].status = "SUCCEEDED"
    PROVE  Succeeded(payments[p].order, p)
<1>1. PICK i \in 1..Len(log[payments[p].order]) :
         /\ log[payments[p].order][i].payment = p
         /\ log[payments[p].order][i].type \in DOMAIN StatusSetBy
         /\ StatusSetBy[log[payments[p].order][i].type] = "SUCCEEDED"
  BY DEF StatusMatchesLog, LastEventSets
<1>2. log[payments[p].order][i].type = "PAYMENT_SUCCEEDED"
  BY <1>1 DEF StatusSetBy
<1> QED
  BY <1>1, <1>2 DEF Succeeded

\* What a run has read stays true while it goes on: events are never removed.
LEMMA RunOKStep ==
    ASSUME TypeOK, CallOK, RunOK, StatusMatchesLog, [Next]_vars
    PROVE  RunOK'
<1> DEFINE OK(w) ==
      /\ run[w].claimed \subseteq PaymentIds
      /\ run[w].pc \in {"stateLoaded", "paymentLoaded", "refunding"} =>
            /\ run[w].order \in Orders
            /\ HasEvent(run[w].order, "ORDER_CANCELLED")
      /\ run[w].pc \in {"paymentLoaded", "refunding"} =>
            /\ run[w].payment \in PaymentIds
            /\ payments[run[w].payment].order = run[w].order
            /\ Succeeded(run[w].order, run[w].payment)
<1>1. Grows
  BY StepKinds, StepGrows
<1>2. PaymentIds \subseteq PaymentIds' /\ \A p \in PaymentIds : payments'[p].order = payments[p].order
  BY <1>1 DEF Grows
<1>3. \A o \in Orders : /\ HasEvent(o, "ORDER_CANCELLED") => HasEvent(o, "ORDER_CANCELLED")'
                        /\ \A p \in PaymentIds : Succeeded(o, p) => Succeeded(o, p)'
  BY <1>1 DEF Grows, HasEvent, Succeeded
<1>4. ASSUME NEW w \in Runs, run'[w] = run[w]
      PROVE  OK(w)'
  BY <1>2, <1>3, <1>4 DEF RunOK
<1>5. CASE run' = run
  BY <1>4, <1>5 DEF RunOK
<1>6. ASSUME NEW w \in Runs, RunStep(w)
      PROVE  RunOK'
  <2>1. \A v \in Runs : v # w => run'[v] = run[v]
    BY <1>6 DEF RunStep, Claim, EndClaim, LoadState, LoadPayment, LockRefund, CommitRefund,
                RefundFails, Crash, NextOrder, TypeOK
  <2> SUFFICES OK(w)'
    BY <1>4, <2>1 DEF RunOK
  <2>2. ASSUME NEW o, run' = NextOrder(w, o)
        PROVE  OK(w)'
    BY <2>2 DEF NextOrder, IdleRun, TypeOK
  <2>3. CASE Claim(w)
    <3>1. PICK rows \in SUBSET PaymentIds :
             run' = [run EXCEPT ![w] = [IdleRun EXCEPT !.pc = "claiming", !.claimed = rows]]
      BY <2>3 DEF Claim, Claimable
    <3> QED
      BY <1>2, <3>1 DEF IdleRun, TypeOK
  <2>4. CASE EndClaim(w) \/ Crash(w)
    <3>1. run'[w].pc \in {"looping", "idle"} /\ run'[w].claimed = {}
      <4>1. CASE EndClaim(w)
        BY <4>1 DEF EndClaim, IdleRun, TypeOK
      <4>2. CASE Crash(w)
        BY <4>2 DEF Crash, IdleRun, TypeOK
      <4> QED
        BY <2>4, <4>1, <4>2
    <3> QED
      BY <3>1
  <2>5. ASSUME NEW o \in Orders, LoadState(w, o)
        PROVE  OK(w)'
    <3>1. CASE DeriveOrderState(log[o]) = "CANCELLED"
      <4>1. HasEvent(o, "ORDER_CANCELLED")'
        BY <1>3, <3>1, CancelledHasEvent
      <4>2. run' = [run EXCEPT ![w].pc = "stateLoaded", ![w].order = o]
        BY <2>5, <3>1 DEF LoadState
      <4>3. /\ run'[w].pc = "stateLoaded"
            /\ run'[w].order = o
            /\ run'[w].claimed = run[w].claimed
        BY <4>2 DEF TypeOK, RunType
      <4> QED
        BY <1>2, <4>1, <4>3 DEF RunOK
    <3>2. CASE DeriveOrderState(log[o]) # "CANCELLED"
      BY <2>2, <2>5, <3>2 DEF LoadState
    <3> QED
      BY <3>1, <3>2
  <2>6. CASE LoadPayment(w)
    <3>1. CASE run' = NextOrder(w, run[w].order)
      BY <2>2, <3>1
    <3>2. ASSUME NEW p \in PaymentIds, run[w].pc = "stateLoaded",
                 IsLatestPayment(run[w].order, p), payments[p].status = "SUCCEEDED",
                 run' = [run EXCEPT ![w].pc = "paymentLoaded", ![w].payment = p]
          PROVE  OK(w)'
      <4>1. run[w].order \in Orders /\ HasEvent(run[w].order, "ORDER_CANCELLED")
        BY <3>2 DEF RunOK
      <4>2. Succeeded(run[w].order, p) /\ payments[p].order = run[w].order
        BY <3>2, SucceededHasEvent DEF IsLatestPayment
      <4>3. /\ run'[w].pc = "paymentLoaded"
            /\ run'[w].payment = p
            /\ run'[w].order = run[w].order
            /\ run'[w].claimed = run[w].claimed
        BY <3>2 DEF TypeOK, RunType
      <4> QED
        BY <1>2, <1>3, <4>1, <4>2, <4>3 DEF RunOK
    <3> QED
      BY <2>6, <3>1, <3>2 DEF LoadPayment
  <2>7. CASE LockRefund(w)
    <3>1. /\ run[w].pc = "paymentLoaded"
          /\ run'[w].pc = "refunding"
          /\ run'[w].payment = run[w].payment
          /\ run'[w].order = run[w].order
          /\ run'[w].claimed = run[w].claimed
      BY <2>7 DEF LockRefund, TypeOK, RunType
    <3> QED
      BY <1>2, <1>3, <3>1 DEF RunOK
  <2>8. CASE CommitRefund(w) \/ RefundFails(w)
    BY <2>2, <2>8 DEF CommitRefund, RefundFails
  <2> QED
    BY <1>6, <2>3, <2>4, <2>5, <2>6, <2>7, <2>8 DEF RunStep
<1>7. CASE \E c \in Calls : CallStep(c)
  BY <1>5, <1>7 DEF CallStep, BeginVerify, LockPayment, CommitVerify, BeginCancel, CommitCancel,
                    Rollback
<1> QED
  BY <1>5, <1>6, <1>7 DEF Next, PaymentStep, PlaceOrder, InitiatePayment, Capture, vars

-----------------------------------------------------------------------------
(* The log                                                                 *)

\* A step adds to one order's log only events of that order's payments.
LEMMA EventsOKStep ==
    ASSUME TypeOK, EventsOK, OneWrite
    PROVE  EventsOK'
<1>1. Grows
  BY StepGrows
<1>2. \A q \in Orders : \A i \in 1..Len(log[q]) :
         /\ i \in 1..Len(log'[q])
         /\ log'[q][i] = log[q][i]
         /\ log[q][i].payment # NoPayment =>
               /\ log[q][i].payment \in PaymentIds'
               /\ payments'[log[q][i].payment].order = q
  BY <1>1 DEF Grows, EventsOK
<1>3. CASE NoWrite
  BY <1>2, <1>3 DEF NoWrite, EventsOK
<1>4. ASSUME NEW o \in Orders, Places(o)
      PROVE  EventsOK'
  <2>1. \A q \in Orders : q # o => log'[q] = log[q]
    BY <1>4 DEF Places, TypeOK
  <2>2. log'[o] = <<NewEvent("ORDER_REQUESTED", NoPayment), NewEvent("ORDER_VALIDATED", NoPayment)>>
    BY <1>4 DEF Places, TypeOK
  <2>3. \A i \in 1..Len(log'[o]) : log'[o][i].payment = NoPayment
    BY <2>2 DEF NewEvent
  <2> QED
    BY <1>2, <2>1, <2>3 DEF EventsOK
<1>5. ASSUME NEW o \in Orders, NEW type \in OrderEventType, NEW p \in Nat, LogEvent(o, type, p),
             p # NoPayment => p \in PaymentIds' /\ payments'[p].order = o
      PROVE  EventsOK'
  <2>1. /\ \A q \in Orders : q # o => log'[q] = log[q]
        /\ Len(log[o]) \in Nat
        /\ Len(log'[o]) = Len(log[o]) + 1
        /\ log'[o][Len(log[o]) + 1] = NewEvent(type, p)
    BY <1>5, LogEventFacts DEF TypeOK
  <2>2. ASSUME NEW q \in Orders, NEW i \in 1..Len(log'[q]), log'[q][i].payment # NoPayment
        PROVE  log'[q][i].payment \in PaymentIds' /\ payments'[log'[q][i].payment].order = q
    <3>1. CASE i \in 1..Len(log[q])
      BY <1>2, <2>2, <3>1
    <3>2. CASE q = o /\ i = Len(log[o]) + 1
      <4>1. log'[q][i].payment = p
        BY <2>1, <3>2 DEF NewEvent
      <4> QED
        BY <1>5, <2>2, <3>2, <4>1
    <3>3. CASE q # o
      <4>1. log'[q] = log[q]
        BY <2>1, <3>3
      <4> QED
        BY <3>1, <4>1
    <3>4. CASE q = o
      <4>1. i \in 1..(Len(log[o]) + 1)
        BY <2>1, <3>4
      <4>2. i \in 1..Len(log[o]) \/ i = Len(log[o]) + 1
        BY <2>1, <4>1
      <4> QED
        BY <3>1, <3>2, <3>4, <4>2
    <3> QED
      BY <3>3, <3>4
  <2> QED
    BY <2>2 DEF EventsOK
<1>6. ASSUME NEW o \in Orders, Initiates(o)
      PROVE  EventsOK'
  <2> DEFINE row == NewPayment(o)
  <2>1. Len(payments) + 1 \in PaymentIds' /\ payments'[Len(payments) + 1] = row
    BY <1>6 DEF Initiates, TypeOK, PaymentIds
  <2>2. payments'[Len(payments) + 1].order = o
    BY <2>1 DEF NewPayment
  <2> QED
    BY <1>5, <1>6, <2>1, <2>2 DEF Initiates, OrderEventType, TypeOK
<1>7. ASSUME NEW p \in PaymentIds, NEW type \in Outcomes, Settles(p, type)
      PROVE  EventsOK'
  <2>1. p \in Nat /\ payments[p] \in Payment
    BY DEF TypeOK, PaymentIds
  <2>2. payments[p].order \in Orders
    BY <2>1 DEF Payment
  <2>3. p \in PaymentIds' /\ payments'[p].order = payments[p].order
    BY <1>1 DEF Grows
  <2> QED
    BY <1>5, <1>7, <2>1, <2>2, <2>3 DEF Settles, Outcomes, OrderEventType
<1>8. ASSUME NEW o \in Orders, Cancels(o)
      PROVE  EventsOK'
  BY <1>5, <1>8 DEF Cancels, NoPayment, OrderEventType
<1> QED
  BY <1>3, <1>4, <1>6, <1>7, <1>8 DEF OneWrite

\* An event about another payment leaves the last event about p where it was.
LEMMA AppendOther ==
    ASSUME NEW events \in Seq(Event), NEW event \in Event, NEW p, event.payment # p,
           NEW status, LastEventSets(events, p, status)
    PROVE  LastEventSets(Append(events, event), p, status)
<1> DEFINE longer == Append(events, event)
<1>1. /\ Len(events) \in Nat
      /\ Len(longer) = Len(events) + 1
      /\ \A i \in 1..Len(events) : longer[i] = events[i]
      /\ longer[Len(events) + 1] = event
  OBVIOUS
<1> HIDE DEF longer
<1> QED
  BY <1>1 DEF LastEventSets

\* A new event about p is the last one about p.
LEMMA AppendAbout ==
    ASSUME NEW events \in Seq(Event), NEW event \in Event,
           event.type \in DOMAIN StatusSetBy
    PROVE  LastEventSets(Append(events, event), event.payment, StatusSetBy[event.type])
<1> DEFINE longer == Append(events, event)
<1>1. /\ Len(events) \in Nat
      /\ Len(longer) = Len(events) + 1
      /\ longer[Len(events) + 1] = event
  OBVIOUS
<1> HIDE DEF longer
<1> QED
  BY <1>1 DEF LastEventSets

\* The status column and the log change together: a write to a payment's status
\* comes with the event that sets it, and no other write concerns that payment.
LEMMA StatusMatchesLogStep ==
    ASSUME TypeOK, EventsOK, StatusMatchesLog, OneWrite
    PROVE  StatusMatchesLog'
<1> DEFINE Good(p) == LastEventSets(log'[payments'[p].order], p, payments'[p].status)
<1>1. log \in [Orders -> Seq(Event)] /\ payments \in Seq(Payment)
  BY DEF TypeOK
<1>2. ASSUME NEW p \in PaymentIds
      PROVE  /\ p \in Nat
             /\ p # NoPayment
             /\ payments[p].order \in Orders
             /\ log[payments[p].order] \in Seq(Event)
             /\ LastEventSets(log[payments[p].order], p, payments[p].status)
  <2>1. p \in Nat /\ p # NoPayment /\ payments[p] \in Payment
    BY <1>1 DEF PaymentIds, NoPayment
  <2>2. payments[p].order \in Orders
    BY <2>1 DEF Payment
  <2> QED
    BY <1>1, <2>1, <2>2 DEF StatusMatchesLog
<1>3. ASSUME NEW o \in Orders, NEW type \in OrderEventType, NEW q \in Nat, LogEvent(o, type, q)
      PROVE  /\ NewEvent(type, q) \in Event
             /\ log'[o] = Append(log[o], NewEvent(type, q))
             /\ \A x \in Orders : x # o => log'[x] = log[x]
             /\ \A p \in PaymentIds : p # q =>
                   LastEventSets(log'[payments[p].order], p, payments[p].status)
  <2>1. NewEvent(type, q) \in Event /\ NewEvent(type, q).payment = q
    BY DEF NewEvent, Event
  <2>2. /\ log'[o] = Append(log[o], NewEvent(type, q))
        /\ \A x \in Orders : x # o => log'[x] = log[x]
    BY <1>1, <1>3 DEF LogEvent
  <2>3. ASSUME NEW p \in PaymentIds, p # q
        PROVE  LastEventSets(log'[payments[p].order], p, payments[p].status)
    <3>1. CASE payments[p].order = o
      <4>1. LastEventSets(Append(log[payments[p].order], NewEvent(type, q)), p, payments[p].status)
        BY <1>2, <2>1, <2>3, AppendOther
      <4> QED
        BY <2>2, <3>1, <4>1
    <3>2. CASE payments[p].order # o
      BY <1>2, <2>2, <3>2
    <3> QED
      BY <3>1, <3>2
  <2> QED
    BY <2>1, <2>2, <2>3
<1>4. ASSUME NEW o \in Orders, NEW type \in DOMAIN StatusSetBy, NEW p \in Nat, LogEvent(o, type, p)
      PROVE  LastEventSets(log'[o], p, StatusSetBy[type])
  <2>1. /\ NewEvent(type, p) \in Event
        /\ NewEvent(type, p).payment = p
        /\ NewEvent(type, p).type = type
    BY DEF NewEvent, Event, StatusSetBy, OrderEventType
  <2>2. log[o] \in Seq(Event) /\ log'[o] = Append(log[o], NewEvent(type, p))
    BY <1>1, <1>4 DEF LogEvent
  <2> HIDE DEF NewEvent
  <2>3. LastEventSets(Append(log[o], NewEvent(type, p)), NewEvent(type, p).payment,
                      StatusSetBy[NewEvent(type, p).type])
    BY <2>1, <2>2, AppendAbout
  <2> QED
    BY <2>1, <2>2, <2>3
<1> SUFFICES \A p \in PaymentIds' : Good(p)
  BY DEF StatusMatchesLog
<1>5. CASE NoWrite
  BY <1>2, <1>5 DEF NoWrite, PaymentIds
<1>6. ASSUME NEW o \in Orders, Places(o), NEW p \in PaymentIds'
      PROVE  Good(p)
  <2>1. UNCHANGED payments /\ p \in PaymentIds
    BY <1>6 DEF Places, PaymentIds
  <2>2. \A x \in Orders : x # o => log'[x] = log[x]
    BY <1>1, <1>6 DEF Places
  <2>3. Len(log[o]) = 0
    BY <1>6 DEF Places
  <2>4. payments[p].order # o
    BY <1>2, <2>1, <2>3 DEF LastEventSets
  <2> QED
    BY <1>2, <2>1, <2>2, <2>4
<1>7. ASSUME NEW o \in Orders, Initiates(o), NEW p \in PaymentIds'
      PROVE  Good(p)
  <2> DEFINE new == Len(payments) + 1
             row == NewPayment(o)
  <2>1. /\ new \in Nat
        /\ p \in PaymentIds \/ p = new
        /\ payments'[new] = row
        /\ \A q \in PaymentIds : q # new /\ payments'[q] = payments[q]
    BY <1>1, <1>7 DEF Initiates, PaymentIds
  <2>2. /\ LogEvent(o, "PAYMENT_INITIATED", new)
        /\ "PAYMENT_INITIATED" \in OrderEventType
        /\ "PAYMENT_INITIATED" \in DOMAIN StatusSetBy
        /\ StatusSetBy["PAYMENT_INITIATED"] = "INITIATED"
    BY <1>7 DEF Initiates, OrderEventType, StatusSetBy
  <2>3. CASE p = new
    <3>1. payments'[p].order = o /\ payments'[p].status = "INITIATED"
      BY <2>1, <2>3 DEF NewPayment
    <3>2. LastEventSets(log'[o], new, "INITIATED")
      BY <1>4, <2>1, <2>2
    <3> QED
      BY <2>3, <3>1, <3>2
  <2>4. CASE p \in PaymentIds
    <3>1. LastEventSets(log'[payments[p].order], p, payments[p].status)
      BY <1>3, <2>1, <2>2, <2>4
    <3> QED
      BY <2>1, <2>4, <3>1
  <2> QED
    BY <2>1, <2>3, <2>4
<1>8. ASSUME NEW q \in PaymentIds, NEW type \in Outcomes, Settles(q, type), NEW p \in PaymentIds'
      PROVE  Good(p)
  <2>1. /\ type \in OrderEventType
        /\ type \in DOMAIN StatusSetBy
        /\ StatusSetBy[type] \in PaymentStatus
    BY DEF Outcomes, OrderEventType, StatusSetBy, PaymentStatus
  <2>2. /\ p \in PaymentIds
        /\ payments'[q].order = payments[q].order
        /\ \A x \in PaymentIds : x # q => payments'[x] = payments[x]
        /\ payments'[q].status = StatusSetBy[type]
    BY <1>1, <1>8, <2>1, UpdatePaymentFacts DEF Settles
  <2>3. LogEvent(payments[q].order, type, q) /\ payments[q].order \in Orders /\ q \in Nat
    BY <1>2, <1>8 DEF Settles
  <2>4. CASE p = q
    <3>1. LastEventSets(log'[payments[q].order], q, StatusSetBy[type])
      BY <1>4, <2>1, <2>3
    <3> QED
      BY <2>2, <2>4, <3>1
  <2>5. CASE p # q
    <3>1. LastEventSets(log'[payments[p].order], p, payments[p].status)
      BY <1>3, <2>1, <2>2, <2>3, <2>5
    <3> QED
      BY <2>2, <2>5, <3>1
  <2> QED
    BY <2>4, <2>5
<1>9. ASSUME NEW o \in Orders, Cancels(o), NEW p \in PaymentIds'
      PROVE  Good(p)
  <2>1. /\ LogEvent(o, "ORDER_CANCELLED", NoPayment)
        /\ "ORDER_CANCELLED" \in OrderEventType
        /\ NoPayment \in Nat
        /\ UNCHANGED payments
        /\ p \in PaymentIds
    BY <1>9 DEF Cancels, OrderEventType, NoPayment, PaymentIds
  <2>2. LastEventSets(log'[payments[p].order], p, payments[p].status)
    BY <1>2, <1>3, <2>1
  <2> QED
    BY <2>1, <2>2
<1> QED
  BY <1>5, <1>6, <1>7, <1>8, <1>9 DEF OneWrite

\* A refund is written only for a run that has read the cancellation and the
\* success it needs, and what it read is still there.
LEMMA RefundJustifiedStep ==
    ASSUME TypeOK, RefundJustified, OneWrite
    PROVE  RefundJustified'
<1>1. /\ log' \in [Orders -> Seq(Event)]
      /\ \A o \in Orders : \A i \in 1..Len(log[o]) :
            i \in 1..Len(log'[o]) /\ log'[o][i] = log[o][i]
  BY StepGrows DEF Grows
<1> DEFINE Good(o, i) ==
      log'[o][i].type = "PAYMENT_REFUNDED" =>
          /\ \E j \in 1..Len(log'[o]) : j < i /\ log'[o][j].type = "ORDER_CANCELLED"
          /\ \E j \in 1..Len(log'[o]) : /\ j < i
                                        /\ log'[o][j].type = "PAYMENT_SUCCEEDED"
                                        /\ log'[o][j].payment = log'[o][i].payment
<1>2. ASSUME NEW o \in Orders, NEW i \in 1..Len(log[o])
      PROVE  Good(o, i)
  <2> SUFFICES ASSUME log[o][i].type = "PAYMENT_REFUNDED"
               PROVE  Good(o, i)
    BY <1>1
  <2>1. PICK j \in 1..Len(log[o]) : j < i /\ log[o][j].type = "ORDER_CANCELLED"
    BY DEF RefundJustified
  <2>2. PICK k \in 1..Len(log[o]) : /\ k < i /\ log[o][k].type = "PAYMENT_SUCCEEDED"
                                    /\ log[o][k].payment = log[o][i].payment
    BY DEF RefundJustified
  <2>3. /\ j \in 1..Len(log'[o]) /\ log'[o][j] = log[o][j]
        /\ k \in 1..Len(log'[o]) /\ log'[o][k] = log[o][k] /\ log'[o][i] = log[o][i]
    BY <1>1
  <2> QED
    BY <2>1, <2>2, <2>3
<1>3. ASSUME NEW o \in Orders, log'[o] = log[o], NEW i \in 1..Len(log'[o])
      PROVE  Good(o, i)
  <2>1. i \in 1..Len(log[o])
    BY <1>3
  <2> HIDE DEF Good
  <2> QED
    BY <1>2, <2>1
<1> SUFFICES \A o \in Orders : \A i \in 1..Len(log'[o]) : Good(o, i)
  BY DEF RefundJustified
<1>4. CASE NoWrite
  BY <1>3, <1>4 DEF NoWrite
<1>5. ASSUME NEW o \in Orders, NEW type \in OrderEventType, NEW p \in Nat, LogEvent(o, type, p),
             type = "PAYMENT_REFUNDED" => HasEvent(o, "ORDER_CANCELLED") /\ Succeeded(o, p)
      PROVE  \A q \in Orders : \A i \in 1..Len(log'[q]) : Good(q, i)
  <2>1. /\ \A q \in Orders : q # o => log'[q] = log[q]
        /\ Len(log[o]) \in Nat
        /\ Len(log'[o]) = Len(log[o]) + 1
        /\ log'[o][Len(log[o]) + 1] = NewEvent(type, p)
    BY <1>5, LogEventFacts DEF TypeOK
  <2>2. /\ log'[o][Len(log[o]) + 1].type = type
        /\ log'[o][Len(log[o]) + 1].payment = p
    BY <2>1 DEF NewEvent
  <2>3. Good(o, Len(log[o]) + 1)
    <3> SUFFICES ASSUME type = "PAYMENT_REFUNDED"
                 PROVE  Good(o, Len(log[o]) + 1)
      BY <2>2
    <3>1. PICK j \in 1..Len(log[o]) : log[o][j].type = "ORDER_CANCELLED"
      BY <1>5 DEF HasEvent
    <3>2. PICK k \in 1..Len(log[o]) : log[o][k].type = "PAYMENT_SUCCEEDED" /\ log[o][k].payment = p
      BY <1>5 DEF Succeeded
    <3>3. /\ j \in 1..Len(log'[o]) /\ j < Len(log[o]) + 1 /\ log'[o][j] = log[o][j]
          /\ k \in 1..Len(log'[o]) /\ k < Len(log[o]) + 1 /\ log'[o][k] = log[o][k]
      BY <1>1, <2>1
    <3>4. log'[o][j].type = "ORDER_CANCELLED"
      BY <3>1, <3>3
    <3>5. log'[o][k].type = "PAYMENT_SUCCEEDED" /\ log'[o][k].payment = log'[o][Len(log[o]) + 1].payment
      BY <2>2, <3>2, <3>3
    <3> QED
      BY <3>3, <3>4, <3>5
  <2>4. \A i \in 1..Len(log'[o]) : i \in 1..Len(log[o]) \/ i = Len(log[o]) + 1
    BY <2>1
  <2> HIDE DEF Good
  <2> QED
    BY <1>2, <1>3, <2>1, <2>3, <2>4
<1>6. ASSUME NEW o \in Orders, Places(o)
      PROVE  \A q \in Orders : \A i \in 1..Len(log'[q]) : Good(q, i)
  <2>1. \A q \in Orders : q # o => log'[q] = log[q]
    BY <1>6 DEF Places, TypeOK
  <2>2. log'[o] = <<NewEvent("ORDER_REQUESTED", NoPayment), NewEvent("ORDER_VALIDATED", NoPayment)>>
    BY <1>6 DEF Places, TypeOK
  <2>3. \A i \in 1..Len(log'[o]) : log'[o][i].type # "PAYMENT_REFUNDED"
    BY <2>2 DEF NewEvent
  <2> QED
    BY <1>3, <2>1, <2>3
<1>7. ASSUME NEW o \in Orders, Initiates(o)
      PROVE  \A q \in Orders : \A i \in 1..Len(log'[q]) : Good(q, i)
  <2>1. /\ LogEvent(o, "PAYMENT_INITIATED", Len(payments) + 1)
        /\ "PAYMENT_INITIATED" \in OrderEventType
        /\ Len(payments) + 1 \in Nat
    BY <1>7 DEF Initiates, OrderEventType, TypeOK
  <2> QED
    BY <1>5, <2>1
<1>8. ASSUME NEW p \in PaymentIds, NEW type \in Outcomes, Settles(p, type)
      PROVE  \A q \in Orders : \A i \in 1..Len(log'[q]) : Good(q, i)
  <2>1. p \in Nat /\ payments[p] \in Payment /\ type \in OrderEventType
    BY DEF TypeOK, PaymentIds, Outcomes, OrderEventType
  <2>2. payments[p].order \in Orders
    BY <2>1 DEF Payment
  <2> QED
    BY <1>5, <1>8, <2>1, <2>2 DEF Settles
<1>9. ASSUME NEW o \in Orders, Cancels(o)
      PROVE  \A q \in Orders : \A i \in 1..Len(log'[q]) : Good(q, i)
  BY <1>5, <1>9 DEF Cancels, NoPayment, OrderEventType
<1> QED
  BY <1>4, <1>6, <1>7, <1>8, <1>9 DEF OneWrite

\* The gateway never gives back what it has taken on its own.
LEMMA CapturedGrows ==
    ASSUME [Next]_vars
    PROVE  captured \subseteq captured'
<1>1. CASE \E c \in Calls : CallStep(c)
  BY <1>1 DEF CallStep, BeginVerify, LockPayment, CommitVerify, BeginCancel, CommitCancel, Rollback
<1>2. CASE \E w \in Runs : RunStep(w)
  BY <1>2 DEF RunStep, Claim, EndClaim, LoadState, LoadPayment, LockRefund, CommitRefund,
              RefundFails, Crash
<1> QED
  BY <1>1, <1>2 DEF Next, PaymentStep, PlaceOrder, InitiatePayment, Capture, vars

\* A payment settled by money the gateway took stays so: only another success
\* writes another gateway payment to its row.
LEMMA MoneyStays ==
    ASSUME TypeOK, OneWrite, captured \subseteq captured',
           NEW p \in PaymentIds, payments[p].providerPayment \in captured
    PROVE  payments'[p].providerPayment \in captured'
<1>1. CASE UNCHANGED payments
  BY <1>1
<1>2. CASE \E o \in Orders : Initiates(o)
  <2>1. payments'[p] = payments[p]
    BY <1>2 DEF Initiates, TypeOK, PaymentIds
  <2> QED
    BY <2>1
<1>3. ASSUME NEW q \in PaymentIds, NEW type \in Outcomes, Settles(q, type)
      PROVE  payments'[p].providerPayment \in captured'
  <2>1. StatusSetBy[type] \in PaymentStatus /\ payments \in Seq(Payment)
    BY DEF Outcomes, StatusSetBy, PaymentStatus, TypeOK
  <2>2. PICK paid \in Nat :
           /\ UpdatePayment(q, StatusSetBy[type], paid)
           /\ paid \in captured \/ paid = payments[q].providerPayment
    BY <1>3 DEF Settles
  <2>3. /\ p # q => payments'[p] = payments[p]
        /\ payments'[q].providerPayment = paid
    BY <2>1, <2>2, UpdatePaymentFacts
  <2> QED
    BY <2>2, <2>3
<1> QED
  BY <1>1, <1>2, <1>3 DEF OneWrite, NoWrite, Places, Cancels

\* A success is logged only for a request whose signature the gateway made for a
\* payment it took, and that payment goes with it into the row.
LEMMA SuccessIsCapturedStep ==
    ASSUME TypeOK, SuccessIsCaptured, OneWrite, captured \subseteq captured'
    PROVE  SuccessIsCaptured'
<1>1. /\ log' \in [Orders -> Seq(Event)]
      /\ PaymentIds \subseteq PaymentIds'
      /\ \A p \in PaymentIds : payments'[p].order = payments[p].order
      /\ \A o \in Orders : \A i \in 1..Len(log[o]) :
            i \in 1..Len(log'[o]) /\ log'[o][i] = log[o][i]
  BY StepGrows DEF Grows
<1> DEFINE Paid(o, p) == /\ p \in PaymentIds'
                         /\ payments'[p].order = o
                         /\ payments'[p].providerPayment \in captured'
           Good(o, i) == log'[o][i].type = "PAYMENT_SUCCEEDED" => Paid(o, log'[o][i].payment)
<1>2. ASSUME NEW o \in Orders, NEW i \in 1..Len(log[o])
      PROVE  Good(o, i)
  <2> SUFFICES ASSUME log[o][i].type = "PAYMENT_SUCCEEDED"
               PROVE  Paid(o, log[o][i].payment)
    BY <1>1
  <2>1. /\ log[o][i].payment \in PaymentIds
        /\ payments[log[o][i].payment].order = o
        /\ payments[log[o][i].payment].providerPayment \in captured
    BY DEF SuccessIsCaptured
  <2> QED
    BY <1>1, <2>1, MoneyStays
<1>3. ASSUME NEW o \in Orders, log'[o] = log[o], NEW i \in 1..Len(log'[o])
      PROVE  Good(o, i)
  <2>1. i \in 1..Len(log[o])
    BY <1>3
  <2> HIDE DEF Good
  <2> QED
    BY <1>2, <2>1
<1> SUFFICES \A o \in Orders : \A i \in 1..Len(log'[o]) : Good(o, i)
  BY DEF SuccessIsCaptured
<1>5. CASE NoWrite
  BY <1>3, <1>5 DEF NoWrite
<1>6. ASSUME NEW o \in Orders, NEW type \in OrderEventType, NEW p \in Nat, LogEvent(o, type, p),
             type = "PAYMENT_SUCCEEDED" => Paid(o, p)
      PROVE  \A q \in Orders : \A i \in 1..Len(log'[q]) : Good(q, i)
  <2>1. /\ \A q \in Orders : q # o => log'[q] = log[q]
        /\ Len(log[o]) \in Nat
        /\ Len(log'[o]) = Len(log[o]) + 1
        /\ log'[o][Len(log[o]) + 1] = NewEvent(type, p)
    BY <1>6, LogEventFacts DEF TypeOK
  <2>2. /\ log'[o][Len(log[o]) + 1].type = type
        /\ log'[o][Len(log[o]) + 1].payment = p
    BY <2>1 DEF NewEvent
  <2>3. Good(o, Len(log[o]) + 1)
    BY <1>6, <2>2
  <2>4. \A i \in 1..Len(log'[o]) : i \in 1..Len(log[o]) \/ i = Len(log[o]) + 1
    BY <2>1
  <2> HIDE DEF Good
  <2> QED
    BY <1>2, <1>3, <2>1, <2>3, <2>4
<1>7. ASSUME NEW o \in Orders, Places(o)
      PROVE  \A q \in Orders : \A i \in 1..Len(log'[q]) : Good(q, i)
  <2>1. \A q \in Orders : q # o => log'[q] = log[q]
    BY <1>7 DEF Places, TypeOK
  <2>2. log'[o] = <<NewEvent("ORDER_REQUESTED", NoPayment), NewEvent("ORDER_VALIDATED", NoPayment)>>
    BY <1>7 DEF Places, TypeOK
  <2>3. \A i \in 1..Len(log'[o]) : log'[o][i].type # "PAYMENT_SUCCEEDED"
    BY <2>2 DEF NewEvent
  <2> QED
    BY <1>3, <2>1, <2>3
<1>8. ASSUME NEW o \in Orders, Initiates(o)
      PROVE  \A q \in Orders : \A i \in 1..Len(log'[q]) : Good(q, i)
  <2>1. /\ LogEvent(o, "PAYMENT_INITIATED", Len(payments) + 1)
        /\ "PAYMENT_INITIATED" \in OrderEventType
        /\ Len(payments) + 1 \in Nat
    BY <1>8 DEF Initiates, OrderEventType, TypeOK
  <2> QED
    BY <1>6, <2>1
<1>9. ASSUME NEW p \in PaymentIds, NEW type \in Outcomes, Settles(p, type)
      PROVE  \A q \in Orders : \A i \in 1..Len(log'[q]) : Good(q, i)
  <2>1. p \in Nat /\ payments[p] \in Payment /\ type \in OrderEventType
    BY DEF TypeOK, PaymentIds, Outcomes, OrderEventType
  <2>2. payments[p].order \in Orders
    BY <2>1 DEF Payment
  <2>3. ASSUME type = "PAYMENT_SUCCEEDED"
        PROVE  Paid(payments[p].order, p)
    <3>1. StatusSetBy[type] \in PaymentStatus /\ payments \in Seq(Payment)
      BY DEF Outcomes, StatusSetBy, PaymentStatus, TypeOK
    <3>2. PICK paid \in Nat : UpdatePayment(p, StatusSetBy[type], paid) /\ paid \in captured
      BY <1>9, <2>3 DEF Settles
    <3>3. payments'[p].providerPayment = paid
      BY <3>1, <3>2, UpdatePaymentFacts
    <3> QED
      BY <1>1, <3>2, <3>3
  <2> QED
    BY <1>6, <1>9, <2>1, <2>2, <2>3 DEF Settles
<1>10. ASSUME NEW o \in Orders, Cancels(o)
       PROVE  \A q \in Orders : \A i \in 1..Len(log'[q]) : Good(q, i)
  BY <1>6, <1>10 DEF Cancels, NoPayment, OrderEventType
<1> QED
  BY <1>5, <1>7, <1>8, <1>9, <1>10 DEF OneWrite

-----------------------------------------------------------------------------
(* Row locks                                                               *)

\* A run claims only rows that no transaction holds, and a transaction that
\* updates a payment waits until no claim holds its row.
LEMMA ClaimsAreDisjointStep ==
    ASSUME TypeOK, ClaimsAreDisjoint, [Next]_vars
    PROVE  ClaimsAreDisjoint'
<1>1. CASE UNCHANGED <<call, run>>
  BY <1>1 DEF ClaimsAreDisjoint
<1>2. ASSUME NEW c \in Calls, CallStep(c)
      PROVE  ClaimsAreDisjoint'
  <2>1. UNCHANGED run /\ \A d \in Calls : d # c => call'[d] = call[d]
    BY <1>2 DEF CallStep, BeginVerify, LockPayment, CommitVerify, BeginCancel, CommitCancel,
                Rollback, TypeOK
  <2>2. CASE call'[c].pc # "updated"
    BY <2>1, <2>2 DEF ClaimsAreDisjoint
  <2>3. CASE LockPayment(c)
    <3>1. call'[c].payment = call[c].payment /\ ~RowLocked(call[c].payment)
      BY <2>3 DEF LockPayment, TypeOK, CallType
    <3> QED
      BY <2>1, <3>1 DEF ClaimsAreDisjoint, RowLocked
  <2>4. CASE ~LockPayment(c)
    <3>1. CASE \E p \in PaymentIds, paid \in captured \cup {NoPayment} : BeginVerify(c, p, paid)
      BY <2>2, <3>1 DEF BeginVerify, TypeOK
    <3>2. CASE \E o \in Orders : BeginCancel(c, o)
      BY <2>2, <3>2 DEF BeginCancel, IdleCall, TypeOK
    <3>3. CASE CommitVerify(c) \/ CommitCancel(c) \/ Rollback(c)
      <4>1. call'[c] = IdleCall
        BY <3>3 DEF CommitVerify, CommitCancel, Rollback, TypeOK
      <4> QED
        BY <2>2, <4>1 DEF IdleCall
    <3> QED
      BY <1>2, <2>4, <3>1, <3>2, <3>3 DEF CallStep
  <2> QED
    BY <2>3, <2>4
<1>3. ASSUME NEW w \in Runs, RunStep(w)
      PROVE  ClaimsAreDisjoint'
  <2>1. UNCHANGED call /\ \A v \in Runs : v # w => run'[v] = run[v]
    BY <1>3 DEF RunStep, Claim, EndClaim, LoadState, LoadPayment, LockRefund, CommitRefund,
                RefundFails, Crash, NextOrder, TypeOK
  <2>2. CASE run'[w].pc \notin {"claiming", "refunding"}
    BY <2>1, <2>2 DEF ClaimsAreDisjoint
  <2>3. CASE Claim(w)
    <3>1. /\ run'[w].pc = "claiming"
          /\ \A p \in run'[w].claimed : ~RowLocked(p)
      BY <2>3 DEF Claim, IdleRun, TypeOK
    <3> QED
      BY <2>1, <3>1 DEF ClaimsAreDisjoint, RowLocked
  <2>4. CASE LockRefund(w)
    <3>1. /\ run'[w].pc = "refunding"
          /\ run'[w].payment = run[w].payment
          /\ ~RowLocked(run[w].payment)
      BY <2>4 DEF LockRefund, TypeOK, RunType
    <3> QED
      BY <2>1, <3>1 DEF ClaimsAreDisjoint, RowLocked
  <2>5. CASE EndClaim(w) \/ Crash(w)
    <3>1. CASE EndClaim(w)
      BY <2>2, <3>1 DEF EndClaim, IdleRun, TypeOK
    <3>2. CASE Crash(w)
      BY <2>2, <3>2 DEF Crash, IdleRun, TypeOK
    <3> QED
      BY <2>5, <3>1, <3>2
  <2>6. ASSUME NEW o, run' = NextOrder(w, o)
        PROVE  ClaimsAreDisjoint'
    BY <2>2, <2>6 DEF NextOrder, IdleRun, TypeOK
  <2>7. CASE \E o \in Orders : LoadState(w, o)
    BY <2>2, <2>6, <2>7 DEF LoadState, TypeOK, RunType
  <2>8. CASE LoadPayment(w)
    BY <2>2, <2>6, <2>8 DEF LoadPayment, TypeOK, RunType
  <2>9. CASE CommitRefund(w) \/ RefundFails(w)
    BY <2>6, <2>9 DEF CommitRefund, RefundFails
  <2> QED
    BY <1>3, <2>3, <2>4, <2>5, <2>7, <2>8, <2>9 DEF RunStep
<1> QED
  BY <1>1, <1>2, <1>3 DEF Next, PaymentStep, PlaceOrder, InitiatePayment, Capture, vars

-----------------------------------------------------------------------------
(* The theorems                                                            *)

\* The invariant is inductive.
THEOREM InductiveInvariant == Spec => []IInv
<1>1. Init => IInv
  BY InitInvariant
<1>2. IInv /\ [Next]_vars => IInv'
  <2> SUFFICES ASSUME IInv, [Next]_vars PROVE IInv'
    OBVIOUS
  <2>1. /\ TypeOK /\ CallOK /\ RunOK /\ EventsOK
        /\ StatusMatchesLog /\ RefundJustified /\ SuccessIsCaptured
    BY DEF IInv
  <2>2. OneWrite /\ captured \subseteq captured'
    BY <2>1, StepKinds, CapturedGrows
  <2>3. TypeOK' /\ CallOK' /\ RunOK'
    BY <2>1, TypeStep, CallOKStep, RunOKStep
  <2>4. EventsOK' /\ StatusMatchesLog'
    BY <2>1, <2>2, EventsOKStep, StatusMatchesLogStep
  <2>5. RefundJustified' /\ SuccessIsCaptured'
    BY <2>1, <2>2, RefundJustifiedStep, SuccessIsCapturedStep
  <2> QED
    BY <2>3, <2>4, <2>5 DEF IInv
<1> QED
  BY <1>1, <1>2, PTL DEF Spec

\* The tables, the requests and the runs have their types, and the gateway has
\* taken money only for payments there are.
THEOREM TypeCorrect == Spec => []TypeOK
<1>1. IInv => TypeOK
  BY DEF IInv
<1> QED
  BY <1>1, InductiveInvariant, PTL

\* The event log is the source of truth for the status of every payment.
THEOREM LogIsTruth == Spec => []StatusMatchesLog
<1>1. IInv => StatusMatchesLog
  BY DEF IInv
<1> QED
  BY <1>1, InductiveInvariant, PTL

\* Every refund has its causes before it: the cancellation of the order and the
\* success of the payment that is refunded.
THEOREM RefundsAreJustified == Spec => []RefundJustified
<1>1. IInv => RefundJustified
  BY DEF IInv
<1> QED
  BY <1>1, InductiveInvariant, PTL

\* No payment succeeds without a payment the gateway took, and through failures
\* and refunds since its row names one.
THEOREM SuccessesAreCaptured == Spec => []SuccessIsCaptured
<1>1. IInv => SuccessIsCaptured
  BY DEF IInv
<1> QED
  BY <1>1, InductiveInvariant, PTL

\* An order that reads CONFIRMED has a payment that is, or was, SUCCEEDED.
THEOREM ConfirmedOrdersArePaid == Spec => []ConfirmedIsPaid
<1>1. ASSUME IInv, NEW o \in Orders, DeriveOrderState(log[o]) = "CONFIRMED"
      PROVE  \E p \in PaymentIds : /\ payments[p].order = o
                                   /\ payments[p].status \in {"SUCCEEDED", "REFUNDED"}
  <2>1. PICK i \in 1..Len(log[o]) :
           IsLastSetter(log[o], i) /\ "CONFIRMED" = StateSetBy[log[o][i].type]
    BY <1>1, DerivedFromEvent
  <2>2. log[o][i].type = "PAYMENT_SUCCEEDED"
    BY <2>1 DEF IsLastSetter, SetsState, StateSetBy
  <2> DEFINE p == log[o][i].payment
  <2>3. p \in PaymentIds /\ payments[p].order = o
    BY <1>1, <2>2 DEF IInv, TypeOK, SuccessIsCaptured
  <2>4. PICK k \in 1..Len(log[o]) :
           /\ \A j \in 1..Len(log[o]) : j > k => log[o][j].payment # p
           /\ log[o][k].type \in DOMAIN StatusSetBy
           /\ StatusSetBy[log[o][k].type] = payments[p].status
    BY <1>1, <2>3 DEF IInv, StatusMatchesLog, LastEventSets
  <2>5. k = i \/ k > i
    BY <2>4
  <2>6. CASE k = i
    BY <2>2, <2>3, <2>4, <2>6 DEF StatusSetBy
  <2>7. CASE k > i
    <3>1. ~SetsState(log[o][k])
      BY <2>1, <2>7 DEF IsLastSetter
    <3>2. log[o][k].type = "PAYMENT_REFUNDED"
      BY <2>4, <3>1 DEF SetsState, StateSetBy, StatusSetBy
    <3> QED
      BY <2>3, <2>4, <3>2 DEF StatusSetBy
  <2> QED
    BY <2>5, <2>6, <2>7
<1>2. IInv => ConfirmedIsPaid
  BY <1>1 DEF ConfirmedIsPaid
<1> QED
  BY <1>2, InductiveInvariant, PTL

\* FOR UPDATE SKIP LOCKED: two runs never claim the same payment, and no run
\* claims one that is being updated.
THEOREM ClaimsNeverOverlap == Spec => []ClaimsAreDisjoint
<1>1. Init => ClaimsAreDisjoint
  BY DEF Init, ClaimsAreDisjoint, IdleRun
<1>2. TypeOK /\ ClaimsAreDisjoint /\ [Next]_vars => ClaimsAreDisjoint'
  BY ClaimsAreDisjointStep
<1> QED
  BY <1>1, <1>2, TypeCorrect, PTL DEF Spec

-----------------------------------------------------------------------------
(* What a payment asks for                                                 *)

\* Only orders that exist are paid or cancelled, and a payment asks for the
\* order's total.
AmountsOK ==
    /\ \A p \in PaymentIds :
          /\ log[payments[p].order] # <<>>
          /\ payments[p].amount = total[payments[p].order]
    /\ \A c \in Calls : call[c].pc = "cancelling" => log[call[c].order] # <<>>

\* A payment is of an order.
LEMMA PaymentsHaveOrders ==
    ASSUME TypeOK, NEW p \in PaymentIds
    PROVE  payments[p].order \in Orders
<1>1. payments[p] \in Payment
  BY DEF TypeOK, PaymentIds
<1> QED
  BY <1>1 DEF Payment

\* A log that has begun does not become empty again.
LEMMA LogsStayBegun ==
    ASSUME TypeOK, Grows, NEW o \in Orders, log[o] # <<>>
    PROVE  log'[o] # <<>>
<1>1. log[o] \in Seq(Event) /\ Len(log[o]) # 0
  BY DEF TypeOK
<1>2. 1 \in 1..Len(log[o])
  BY <1>1
<1>3. 1 \in 1..Len(log'[o])
  BY <1>2 DEF Grows
<1> QED
  BY <1>3

\* A step that is not the placing of an order changes no total and begins no log;
\* it keeps what every payment asks for, or adds one that asks for the total.
LEMMA PaymentStepAmounts ==
    ASSUME IInv, AmountsOK, PaymentStep
    PROVE  /\ UNCHANGED total
           /\ \A o \in Orders : log[o] = <<>> => log'[o] = <<>>
           /\ \/ /\ PaymentIds' = PaymentIds
                 /\ \A p \in PaymentIds : payments'[p].amount = payments[p].amount
              \/ \E o \in Orders : InitiatePayment(o)
<1> USE DEF IInv
<1>1. CASE \E o \in Orders : InitiatePayment(o)
  <2>1. PICK o \in Orders : InitiatePayment(o)
    BY <1>1
  <2>2. LogEvent(o, "PAYMENT_INITIATED", Len(payments) + 1) /\ log[o] # <<>> /\ UNCHANGED total
    BY <2>1 DEF InitiatePayment
  <2>3. \A q \in Orders : q # o => log'[q] = log[q]
    BY <2>2 DEF LogEvent, TypeOK
  <2> QED
    BY <1>1, <2>2, <2>3
<1>2. ASSUME NEW o \in Orders, log[o] # <<>>, NEW type, NEW p, LogEvent(o, type, p)
      PROVE  \A q \in Orders : log[q] = <<>> => log'[q] = <<>>
  BY <1>2 DEF LogEvent, TypeOK
<1>3. ASSUME NEW p \in PaymentIds, NEW status \in PaymentStatus, NEW paid \in Nat,
             UpdatePayment(p, status, paid)
      PROVE  /\ PaymentIds' = PaymentIds
             /\ \A q \in PaymentIds : payments'[q].amount = payments[q].amount
  BY <1>3, UpdatePaymentFacts DEF TypeOK
<1>4. ASSUME UNCHANGED <<log, total, payments>>
      PROVE  /\ UNCHANGED total
             /\ \A o \in Orders : log[o] = <<>> => log'[o] = <<>>
             /\ PaymentIds' = PaymentIds
             /\ \A p \in PaymentIds : payments'[p].amount = payments[p].amount
  BY <1>4 DEF PaymentIds
<1>5. \A p \in PaymentIds : payments[p].order \in Orders
  BY PaymentsHaveOrders
<1>6. ASSUME NEW c \in Calls, CommitVerify(c)
      PROVE  /\ UNCHANGED total
             /\ \A o \in Orders : log[o] = <<>> => log'[o] = <<>>
             /\ PaymentIds' = PaymentIds
             /\ \A p \in PaymentIds : payments'[p].amount = payments[p].amount
  <2>1. /\ call[c].payment \in PaymentIds
        /\ call[c].order \in Orders /\ log[call[c].order] # <<>>
    BY <1>5, <1>6 DEF CommitVerify, CallOK, AmountsOK
  <2>2. /\ UNCHANGED total
        /\ \E status \in PaymentStatus, paid \in Nat : UpdatePayment(call[c].payment, status, paid)
        /\ \E type : LogEvent(call[c].order, type, call[c].payment)
    BY <1>6, <2>1, ProviderPaymentType DEF CommitVerify, SetStatus, PaymentStatus, TypeOK, CallType
  <2> QED
    BY <1>2, <1>3, <2>1, <2>2
<1>7. ASSUME NEW c \in Calls, CommitCancel(c)
      PROVE  /\ UNCHANGED total
             /\ \A o \in Orders : log[o] = <<>> => log'[o] = <<>>
             /\ PaymentIds' = PaymentIds
             /\ \A p \in PaymentIds : payments'[p].amount = payments[p].amount
  <2>1. /\ call[c].order \in Orders /\ log[call[c].order] # <<>>
        /\ LogEvent(call[c].order, "ORDER_CANCELLED", NoPayment)
        /\ UNCHANGED <<total, payments>>
    BY <1>7 DEF CommitCancel, CallOK, AmountsOK
  <2> QED
    BY <1>2, <2>1 DEF PaymentIds
<1>8. ASSUME NEW w \in Runs, CommitRefund(w)
      PROVE  /\ UNCHANGED total
             /\ \A o \in Orders : log[o] = <<>> => log'[o] = <<>>
             /\ PaymentIds' = PaymentIds
             /\ \A p \in PaymentIds : payments'[p].amount = payments[p].amount
  <2>1. /\ run[w].payment \in PaymentIds
        /\ run[w].order \in Orders /\ log[run[w].order] # <<>>
    BY <1>5, <1>8 DEF CommitRefund, RunOK, AmountsOK
  <2>2. /\ UNCHANGED total
        /\ \E paid \in Nat : UpdatePayment(run[w].payment, "REFUNDED", paid)
        /\ "REFUNDED" \in PaymentStatus
        /\ LogEvent(run[w].order, "PAYMENT_REFUNDED", run[w].payment)
    BY <1>8, <2>1, ProviderPaymentType DEF CommitRefund, SetStatus, PaymentStatus
  <2> QED
    BY <1>2, <1>3, <2>1, <2>2
<1>9. ASSUME NEW c \in Calls, CallStep(c), ~CommitVerify(c), ~CommitCancel(c)
      PROVE  UNCHANGED <<log, total, payments>>
  BY <1>9 DEF CallStep, BeginVerify, LockPayment, BeginCancel, Rollback
<1>10. ASSUME NEW w \in Runs, RunStep(w), ~CommitRefund(w)
       PROVE  UNCHANGED <<log, total, payments>>
  BY <1>10 DEF RunStep, Claim, EndClaim, LoadState, LoadPayment, LockRefund, RefundFails, Crash
<1>11. CASE \E p \in PaymentIds : Capture(p)
  BY <1>4, <1>11 DEF Capture
<1> QED
  BY <1>1, <1>4, <1>6, <1>7, <1>8, <1>9, <1>10, <1>11 DEF PaymentStep

\* A new order has no payment yet, and what is paid keeps its total.
LEMMA AmountsOKStep ==
    ASSUME IInv, AmountsOK, [Next]_vars
    PROVE  AmountsOK'
<1> USE DEF IInv
<1>1. Grows
  BY StepKinds, StepGrows
<1>2. \A p \in PaymentIds : payments[p].order \in Orders
  BY PaymentsHaveOrders
<1>3. \A o \in Orders : log[o] # <<>> => log'[o] # <<>>
  BY <1>1, LogsStayBegun
<1>4. \A c \in Calls : call'[c].pc = "cancelling" => log'[call'[c].order] # <<>>
  <2>1. ASSUME NEW c \in Calls, call'[c].pc = "cancelling"
        PROVE  call'[c].order \in Orders /\ log[call'[c].order] # <<>>
    <3>1. CASE call'[c] = call[c]
      BY <2>1, <3>1 DEF CallOK, AmountsOK
    <3>2. ASSUME NEW d \in Calls, CallStep(d), d # c
          PROVE  call'[c] = call[c]
      BY <3>2 DEF CallStep, BeginVerify, LockPayment, CommitVerify, BeginCancel, CommitCancel,
                  Rollback, TypeOK
    <3>3. CASE CallStep(c)
      <4>1. ASSUME NEW p \in PaymentIds, NEW paid \in captured \cup {NoPayment},
             BeginVerify(c, p, paid)
            PROVE  FALSE
        BY <2>1, <4>1 DEF BeginVerify, TypeOK
      <4>2. ASSUME NEW o \in Orders, BeginCancel(c, o)
            PROVE  call'[c].order \in Orders /\ log[call'[c].order] # <<>>
        BY <4>2 DEF BeginCancel, IdleCall, TypeOK
      <4>3. ASSUME LockPayment(c)
            PROVE  FALSE
        <5>1. call[c] \in CallType /\ call'[c] = [call[c] EXCEPT !.pc = "updated"]
          BY <4>3 DEF LockPayment, TypeOK
        <5> QED
          BY <2>1, <5>1 DEF CallType
      <4>4. ASSUME CommitVerify(c) \/ CommitCancel(c) \/ Rollback(c)
            PROVE  FALSE
        <5>1. call'[c] = IdleCall
          BY <4>4 DEF CommitVerify, CommitCancel, Rollback, TypeOK
        <5> QED
          BY <2>1, <5>1 DEF IdleCall
      <4> QED
        BY <3>3, <4>1, <4>2, <4>3, <4>4 DEF CallStep
    <3>4. CASE UNCHANGED call
      BY <3>1, <3>4
    <3>5. UNCHANGED call \/ \E d \in Calls : CallStep(d)
      BY DEF Next, PaymentStep, PlaceOrder, InitiatePayment, Capture, vars,
             RunStep, Claim, EndClaim, LoadState, LoadPayment, LockRefund, CommitRefund,
             RefundFails, Crash
    <3> QED
      BY <3>1, <3>2, <3>3, <3>4, <3>5
  <2> QED
    BY <1>3, <2>1
<1>5. ASSUME NEW o \in Orders, NEW amount \in Totals, PlaceOrder(o, amount)
      PROVE  AmountsOK'
  <2>1. /\ UNCHANGED payments
        /\ \A q \in Orders : q # o => total'[q] = total[q]
        /\ log[o] = <<>>
    BY <1>5 DEF PlaceOrder, TypeOK
  <2>2. \A p \in PaymentIds : payments[p].order # o
    BY <2>1 DEF AmountsOK
  <2> QED
    BY <1>2, <1>3, <1>4, <2>1, <2>2 DEF AmountsOK, PaymentIds
<1>6. ASSUME NEW o \in Orders, InitiatePayment(o)
      PROVE  AmountsOK'
  <2>1. /\ payments' = Append(payments, NewPayment(o))
        /\ log[o] # <<>>
        /\ UNCHANGED total
    BY <1>6 DEF InitiatePayment
  <2>2. /\ NewPayment(o) \in Payment
        /\ NewPayment(o).order = o
        /\ NewPayment(o).amount = total[o]
    BY DEF TypeOK, Payment, PaymentStatus, NewPayment, NoPayment
  <2>3. \A p \in PaymentIds' :
           \/ p \in PaymentIds /\ payments'[p] = payments[p]
           \/ payments'[p] = NewPayment(o)
    BY <2>1, <2>2 DEF PaymentIds, TypeOK
  <2>4. \A p \in PaymentIds' : /\ log'[payments'[p].order] # <<>>
                               /\ payments'[p].amount = total'[payments'[p].order]
    <3>1. ASSUME NEW p \in PaymentIds, payments'[p] = payments[p]
          PROVE  /\ log'[payments'[p].order] # <<>>
                 /\ payments'[p].amount = total'[payments'[p].order]
      BY <1>2, <1>3, <2>1, <3>1 DEF AmountsOK
    <3>2. log'[o] # <<>> /\ total' = total
      BY <1>3, <2>1
    <3> QED
      BY <2>2, <2>3, <3>1, <3>2
  <2> QED
    BY <1>4, <2>4 DEF AmountsOK
<1>7. ASSUME UNCHANGED total, PaymentIds' = PaymentIds,
             \A p \in PaymentIds : payments'[p].amount = payments[p].amount
      PROVE  AmountsOK'
  <2>1. \A p \in PaymentIds : payments'[p].order = payments[p].order
    BY <1>1 DEF Grows
  <2> QED
    BY <1>2, <1>3, <1>4, <1>7, <2>1 DEF AmountsOK
<1>8. CASE PaymentStep
  BY <1>6, <1>7, <1>8, PaymentStepAmounts
<1>9. CASE UNCHANGED vars
  BY <1>9, <1>7 DEF vars, PaymentIds
<1> QED
  BY <1>5, <1>8, <1>9 DEF Next

\* Whatever is placed, paid, cancelled and refunded meanwhile, a payment asks for
\* the total its order was placed with, and only orders that exist are paid.
THEOREM AmountsAreTotals == Spec => []AmountsOK
<1>1. Init => AmountsOK
  BY DEF Init, AmountsOK, PaymentIds, IdleCall
<1>2. AmountsOK /\ IInv /\ [Next]_vars => AmountsOK'
  BY AmountsOKStep
<1> QED
  BY <1>1, <1>2, InductiveInvariant, PTL DEF Spec

-----------------------------------------------------------------------------
(* The loop of deriveOrderState                                            *)

\* The state that the first n events leave an order in.
LeavesState(events, n, state) ==
    \/ state = "INIT" /\ \A i \in 1..n : ~SetsState(events[i])
    \/ \E i \in 1..n :
          /\ SetsState(events[i])
          /\ \A j \in 1..n : j > i => ~SetsState(events[j])
          /\ state = StateSetBy[events[i].type]

\* There is one such state.
LEMMA OneStateIsLeft ==
    ASSUME NEW events, NEW n \in Nat, NEW s, NEW t,
           LeavesState(events, n, s), LeavesState(events, n, t)
    PROVE  s = t
<1>1. ASSUME NEW i \in 1..n, NEW j \in 1..n, SetsState(events[i]), SetsState(events[j]),
             \A k \in 1..n : k > i => ~SetsState(events[k]),
             \A k \in 1..n : k > j => ~SetsState(events[k])
      PROVE  i = j
  BY <1>1
<1> QED
  BY <1>1 DEF LeavesState

\* One turn of the loop.
LEMMA TurnOfTheLoop ==
    ASSUME NEW events, NEW n \in Nat, NEW state, LeavesState(events, n, state)
    PROVE  LeavesState(events, n + 1, AfterEvent(state, events[n + 1]))
<1> DEFINE event == events[n + 1]
<1>1. CASE SetsState(event)
  <2>1. AfterEvent(state, event) = StateSetBy[event.type]
    BY <1>1 DEF SetsState, StateSetBy, AfterEvent
  <2>2. n + 1 \in 1..(n + 1) /\ \A j \in 1..(n + 1) : ~(j > n + 1)
    OBVIOUS
  <2> QED
    BY <1>1, <2>1, <2>2 DEF LeavesState
<1>2. CASE ~SetsState(event)
  <2>1. AfterEvent(state, event) = state
    BY <1>2 DEF SetsState, StateSetBy, AfterEvent
  <2>2. \A j \in 1..(n + 1) : j \in 1..n \/ j = n + 1
    OBVIOUS
  <2>3. \A j \in 1..n : j \in 1..(n + 1)
    OBVIOUS
  <2>4. CASE state = "INIT" /\ \A i \in 1..n : ~SetsState(events[i])
    BY <1>2, <2>1, <2>2, <2>4 DEF LeavesState
  <2>5. ASSUME NEW i \in 1..n, SetsState(events[i]),
               \A j \in 1..n : j > i => ~SetsState(events[j]),
               state = StateSetBy[events[i].type]
        PROVE  LeavesState(events, n + 1, AfterEvent(state, event))
    <3>1. \A j \in 1..(n + 1) : j > i => ~SetsState(events[j])
      BY <1>2, <2>2, <2>5
    <3> QED
      BY <2>1, <2>3, <2>5, <3>1 DEF LeavesState
  <2> QED
    BY <2>4, <2>5 DEF LeavesState
<1> QED
  BY <1>1, <1>2

\* Some state is left: a least n without one would be one turn after another.
LEMMA SomeStateIsLeft ==
    ASSUME NEW events, NEW n \in Nat
    PROVE  \E state : LeavesState(events, n, state)
<1> DEFINE Stuck == {k \in Nat : ~ \E state : LeavesState(events, k, state)}
<1>1. LeavesState(events, 0, "INIT")
  BY DEF LeavesState
<1>2. ASSUME Stuck # {}
      PROVE  FALSE
  <2>1. PICK k \in Stuck : \A j \in Stuck : k <= j
    <3>1. Stuck \in SUBSET Nat
      OBVIOUS
    <3> QED
      BY <1>2, <3>1, Least
  <2>2. k \in Nat \ {0}
    BY <1>1, <2>1
  <2>3. k - 1 \in Nat /\ k - 1 \notin Stuck /\ (k - 1) + 1 = k
    BY <2>1, <2>2
  <2>4. PICK state : LeavesState(events, k - 1, state)
    BY <2>3
  <2>5. \E left : LeavesState(events, k, left)
    BY <2>3, <2>4, TurnOfTheLoop
  <2> QED
    BY <2>1, <2>5
<1> QED
  BY <1>2

\* deriveOrderState is the closed form of its loop, for every log.
THEOREM DeriveIsLoop ==
    ASSUME NEW events, Len(events) \in Nat
    PROVE  DeriveOrderState(events) = LoopDeriveOrderState(events)
<1> DEFINE N == Len(events)
           Turn(f) == [i \in 0..N |-> IF i = 0 THEN "INIT" ELSE AfterEvent(f[i - 1], events[i])]
           left == [i \in 0..N |-> CHOOSE state : LeavesState(events, i, state)]
           after == CHOOSE f : f = Turn(f)
<1>1. \A i \in 0..N : LeavesState(events, i, left[i])
  BY SomeStateIsLeft
<1>2. left = Turn(left)
  <2>1. left[0] = "INIT"
    BY <1>1, OneStateIsLeft DEF LeavesState
  <2>2. ASSUME NEW i \in 1..N
        PROVE  left[i] = AfterEvent(left[i - 1], events[i])
    <3>1. i - 1 \in 0..N /\ i \in 0..N /\ (i - 1) + 1 = i /\ i - 1 \in Nat /\ i \in Nat
      OBVIOUS
    <3>2. LeavesState(events, i, AfterEvent(left[i - 1], events[i]))
      BY <1>1, <3>1, TurnOfTheLoop
    <3> QED
      BY <1>1, <3>1, <3>2, OneStateIsLeft
  <2>3. left = [i \in 0..N |-> left[i]]
    OBVIOUS
  <2> HIDE DEF left
  <2>4. \A i \in 0..N : left[i] = IF i = 0 THEN "INIT" ELSE AfterEvent(left[i - 1], events[i])
    <3>1. \A i \in 0..N : i = 0 \/ i \in 1..N
      OBVIOUS
    <3> QED
      BY <2>1, <2>2, <3>1
  <2> QED
    BY <2>3, <2>4
<1> HIDE DEF left
<1>3. after = Turn(after)
  BY <1>2
<1>4. LoopDeriveOrderState(events) = after[N]
  BY DEF LoopDeriveOrderState
<1> HIDE DEF after
<1>5. after[0] = "INIT" /\ \A i \in 1..N : after[i] = AfterEvent(after[i - 1], events[i])
  BY <1>3
<1>6. LeavesState(events, N, after[N])
  <2> DEFINE Wrong == {k \in Nat : k <= N /\ ~LeavesState(events, k, after[k])}
  <2>1. ASSUME Wrong # {}
        PROVE  FALSE
    <3>1. PICK k \in Wrong : \A j \in Wrong : k <= j
      <4>1. Wrong \in SUBSET Nat
        OBVIOUS
      <4> HIDE DEF Wrong
      <4> QED
        BY <2>1, <4>1, Least
    <3>2. k # 0
      BY <1>5, <3>1 DEF LeavesState
    <3>3. /\ k - 1 \in Nat /\ k - 1 <= N /\ k - 1 \notin Wrong
          /\ (k - 1) + 1 = k /\ k \in 1..N
      BY <3>1, <3>2
    <3>4. LeavesState(events, k - 1, after[k - 1])
      BY <3>3
    <3>5. LeavesState(events, k, AfterEvent(after[k - 1], events[k]))
      BY <3>3, <3>4, TurnOfTheLoop
    <3> QED
      BY <1>5, <3>1, <3>3, <3>5
  <2> QED
    BY <2>1
<1>7. DeriveOrderState(events) = after[N]
  <2>1. CASE \E i \in 1..N : IsLastSetter(events, i)
    <3> DEFINE last == CHOOSE i \in 1..N : IsLastSetter(events, i)
    <3>1. last \in 1..N /\ IsLastSetter(events, last)
      BY <2>1
    <3>2. DeriveOrderState(events) = StateSetBy[events[last].type]
      BY <2>1 DEF DeriveOrderState
    <3> HIDE DEF last
    <3>3. LeavesState(events, N, StateSetBy[events[last].type])
      BY <3>1 DEF LeavesState, IsLastSetter
    <3> QED
      BY <1>6, <3>2, <3>3, OneStateIsLeft
  <2>2. CASE ~ \E i \in 1..N : IsLastSetter(events, i)
    <3>1. DeriveOrderState(events) = "INIT"
      BY <2>2 DEF DeriveOrderState
    <3>2. ~ \E i \in 1..N : /\ SetsState(events[i])
                           /\ \A j \in 1..N : j > i => ~SetsState(events[j])
      BY <2>2 DEF IsLastSetter
    <3> QED
      BY <1>6, <3>1, <3>2 DEF LeavesState
  <2> QED
    BY <2>1, <2>2
<1> QED
  BY <1>4, <1>7

-----------------------------------------------------------------------------
(* Where a second refund comes from                                        *)

\* The requests and the runs that have read payment p and have yet to write to it.
CallsOn(p) == {c \in Calls : call[c].pc \in {"verifying", "updated"} /\ call[c].payment = p}
RunsOn(p)  == {w \in Runs : run[w].pc \in {"paymentLoaded", "refunding"} /\ run[w].payment = p}

\* Two requests, or two runs, have p at once: nothing in the code excludes it.
Shared(p) ==
    \/ \E c, d \in CallsOn(p) : c # d
    \/ \E v, w \in RunsOn(p) : v # w

\* What they have read of p is still so.
ReadsOf(p) ==
    /\ CallsOn(p) # {} => payments[p].status = "INITIATED"
    /\ RunsOn(p) # {} => payments[p].status = "SUCCEEDED"

\* p has been refunded once if its status says so, and else never.
RefundedOnce(p) ==
    p \in PaymentIds =>
        RefundEvents(p) = IF payments[p].status = "REFUNDED" THEN 1 ELSE 0

\* p is settled, or refunded after its success, or stays as it is.
StatusMoves(p) ==
    p \in PaymentIds =>
        \/ payments'[p].status = payments[p].status
        \/ payments[p].status = "INITIATED" /\ payments'[p].status \in {"SUCCEEDED", "FAILED"}
        \/ payments[p].status = "SUCCEEDED" /\ payments'[p].status = "REFUNDED"

\* The status that a request or a run has read before it writes this event.
ReadBefore(type) == IF type = "PAYMENT_REFUNDED" THEN "SUCCEEDED" ELSE "INITIATED"

\* What a step writes, with what is known of p if it is p that it writes to.
LEMMA WritesOn ==
    ASSUME IInv, NEW p, ReadsOf(p), [Next]_vars
    PROVE  \/ NoWrite
           \/ \E o \in Orders : Places(o) \/ Initiates(o) \/ Cancels(o)
           \/ \E q \in PaymentIds, type \in Outcomes :
                 Settles(q, type) /\ (q = p => payments[p].status = ReadBefore(type))
<1> USE DEF IInv
<1>1. CASE \E c \in Calls : CommitVerify(c)
  <2>1. PICK c \in Calls : CommitVerify(c)
    BY <1>1
  <2>2. PICK type \in {"PAYMENT_SUCCEEDED", "PAYMENT_FAILED"} : Settles(call[c].payment, type)
    BY <2>1, CommitVerifySettles
  <2>3. call[c].payment = p => payments[p].status = "INITIATED"
    BY <2>1 DEF CommitVerify, ReadsOf, CallsOn
  <2> QED
    BY <2>1, <2>2, <2>3, CommitVerifySettles DEF Outcomes, ReadBefore
<1>2. CASE \E w \in Runs : CommitRefund(w)
  <2>1. PICK w \in Runs : CommitRefund(w)
    BY <1>2
  <2>2. Settles(run[w].payment, "PAYMENT_REFUNDED") /\ run[w].payment \in PaymentIds
    BY <2>1, CommitRefundSettles
  <2>3. run[w].payment = p => payments[p].status = "SUCCEEDED"
    BY <2>1 DEF CommitRefund, ReadsOf, RunsOn
  <2> QED
    BY <2>2, <2>3 DEF Outcomes, ReadBefore
<1>3. CASE \E o \in Orders, amount \in Totals : PlaceOrder(o, amount)
  BY <1>3 DEF PlaceOrder, Places
<1>4. CASE \E o \in Orders : InitiatePayment(o)
  BY <1>4 DEF InitiatePayment, Initiates
<1>5. CASE \E c \in Calls : CommitCancel(c)
  BY <1>5 DEF CommitCancel, Cancels, CallOK
<1>6. ASSUME NEW c \in Calls, CallStep(c), ~CommitVerify(c), ~CommitCancel(c)
      PROVE  NoWrite
  BY <1>6 DEF CallStep, BeginVerify, LockPayment, BeginCancel, Rollback, NoWrite
<1>7. ASSUME NEW w \in Runs, RunStep(w), ~CommitRefund(w)
      PROVE  NoWrite
  BY <1>7 DEF RunStep, Claim, EndClaim, LoadState, LoadPayment, LockRefund, RefundFails, Crash,
              NoWrite
<1>8. CASE (\E q \in PaymentIds : Capture(q)) \/ UNCHANGED vars
  BY <1>8 DEF Capture, vars, NoWrite
<1> QED
  BY <1>1, <1>2, <1>3, <1>4, <1>5, <1>6, <1>7, <1>8 DEF Next, PaymentStep

\* What a request holds after a step it held before, or has just read.
LEMMA CallReads ==
    ASSUME TypeOK, [Next]_vars, NEW c \in Calls, call'[c].pc \in {"verifying", "updated"}
    PROVE  \/ /\ call[c].pc \in {"verifying", "updated"}
              /\ call'[c].payment = call[c].payment
           \/ /\ call'[c].payment \in PaymentIds
              /\ payments[call'[c].payment].status = "INITIATED"
              /\ UNCHANGED payments
<1>1. CASE call'[c] = call[c]
  BY <1>1
<1>2. ASSUME NEW d \in Calls, CallStep(d), d # c
      PROVE  call'[c] = call[c]
  BY <1>2 DEF CallStep, BeginVerify, LockPayment, CommitVerify, BeginCancel, CommitCancel,
              Rollback, TypeOK
<1>3. CASE CallStep(c)
  <2>1. ASSUME NEW p \in PaymentIds, NEW paid \in captured \cup {NoPayment},
             BeginVerify(c, p, paid)
        PROVE  /\ call'[c].payment = p
               /\ payments[p].status = "INITIATED"
               /\ UNCHANGED payments
    BY <2>1 DEF BeginVerify, TypeOK
  <2>2. ASSUME LockPayment(c)
        PROVE  call[c].pc = "verifying" /\ call'[c].payment = call[c].payment
    <3>1. call[c] \in CallType /\ call'[c] = [call[c] EXCEPT !.pc = "updated"]
      BY <2>2 DEF LockPayment, TypeOK
    <3> QED
      BY <2>2, <3>1 DEF LockPayment, CallType
  <2>3. ASSUME CommitVerify(c) \/ CommitCancel(c) \/ Rollback(c)
        PROVE  FALSE
    <3>1. call'[c] = IdleCall
      BY <2>3 DEF CommitVerify, CommitCancel, Rollback, TypeOK
    <3> QED
      BY <3>1 DEF IdleCall
  <2>4. ASSUME NEW o \in Orders, BeginCancel(c, o)
        PROVE  FALSE
    BY <2>4 DEF BeginCancel, IdleCall, TypeOK
  <2> QED
    BY <1>3, <2>1, <2>2, <2>3, <2>4 DEF CallStep
<1>4. UNCHANGED call \/ \E d \in Calls : CallStep(d)
  BY DEF Next, PaymentStep, PlaceOrder, InitiatePayment, Capture, vars,
         RunStep, Claim, EndClaim, LoadState, LoadPayment, LockRefund, CommitRefund,
         RefundFails, Crash
<1> QED
  BY <1>1, <1>2, <1>3, <1>4

\* And so it is with a run.
LEMMA RunReads ==
    ASSUME TypeOK, [Next]_vars, NEW w \in Runs, run'[w].pc \in {"paymentLoaded", "refunding"}
    PROVE  \/ /\ run[w].pc \in {"paymentLoaded", "refunding"}
              /\ run'[w].payment = run[w].payment
           \/ /\ run'[w].payment \in PaymentIds
              /\ payments[run'[w].payment].status = "SUCCEEDED"
              /\ UNCHANGED payments
<1>1. CASE run'[w] = run[w]
  BY <1>1
<1>2. ASSUME NEW v \in Runs, RunStep(v), v # w
      PROVE  run'[w] = run[w]
  BY <1>2 DEF RunStep, Claim, EndClaim, LoadState, LoadPayment, LockRefund, CommitRefund,
              RefundFails, Crash, NextOrder, TypeOK
<1>3. CASE RunStep(w)
  <2>1. ASSUME NEW o, run' = NextOrder(w, o)
        PROVE  FALSE
    BY <2>1 DEF NextOrder, IdleRun, TypeOK
  <2>2. ASSUME Claim(w) \/ EndClaim(w) \/ Crash(w)
        PROVE  FALSE
    <3>1. CASE Claim(w)
      BY <3>1 DEF Claim, IdleRun, TypeOK
    <3>2. CASE EndClaim(w)
      BY <3>2 DEF EndClaim, IdleRun, TypeOK
    <3>3. CASE Crash(w)
      BY <3>3 DEF Crash, IdleRun, TypeOK
    <3> QED
      BY <2>2, <3>1, <3>2, <3>3
  <2>3. ASSUME NEW o \in Orders, LoadState(w, o)
        PROVE  FALSE
    <3>1. CASE run' = [run EXCEPT ![w].pc = "stateLoaded", ![w].order = o]
      <4>1. run'[w].pc = "stateLoaded"
        BY <3>1 DEF TypeOK, RunType
      <4> QED
        BY <4>1
    <3> QED
      BY <2>1, <2>3, <3>1 DEF LoadState
  <2>4. ASSUME LoadPayment(w), run' # NextOrder(w, run[w].order)
        PROVE  /\ run'[w].payment \in PaymentIds
               /\ payments[run'[w].payment].status = "SUCCEEDED"
               /\ UNCHANGED payments
    <3>1. PICK p \in PaymentIds :
             /\ payments[p].status = "SUCCEEDED"
             /\ run' = [run EXCEPT ![w].pc = "paymentLoaded", ![w].payment = p]
      BY <2>4 DEF LoadPayment
    <3>2. run'[w].payment = p
      BY <3>1 DEF TypeOK, RunType
    <3> QED
      BY <2>4, <3>1, <3>2 DEF LoadPayment
  <2>5. ASSUME LockRefund(w)
        PROVE  run[w].pc = "paymentLoaded" /\ run'[w].payment = run[w].payment
    BY <2>5 DEF LockRefund, TypeOK, RunType
  <2> QED
    BY <1>3, <2>1, <2>2, <2>3, <2>4, <2>5 DEF RunStep, CommitRefund, RefundFails
<1>4. UNCHANGED run \/ \E v \in Runs : RunStep(v)
  BY DEF Next, PaymentStep, PlaceOrder, InitiatePayment, Capture, vars,
         CallStep, BeginVerify, LockPayment, CommitVerify, BeginCancel, CommitCancel, Rollback
<1> QED
  BY <1>1, <1>2, <1>3, <1>4

\* Only a commit about a payment changes its status.
LEMMA StatusKept ==
    ASSUME IInv, [Next]_vars, NEW p \in PaymentIds,
           \A c \in Calls : CommitVerify(c) => call[c].payment # p,
           \A w \in Runs : CommitRefund(w) => run[w].payment # p
    PROVE  payments'[p].status = payments[p].status
<1> USE DEF IInv
<1>1. ASSUME NEW q \in PaymentIds, q # p, NEW type \in Outcomes, Settles(q, type)
      PROVE  payments'[p] = payments[p]
  BY <1>1, SettlesFacts
<1>2. CASE \E c \in Calls : CommitVerify(c)
  BY <1>1, <1>2, CommitVerifySettles DEF Outcomes
<1>3. CASE \E w \in Runs : CommitRefund(w)
  BY <1>1, <1>3, CommitRefundSettles DEF Outcomes
<1>4. CASE \E o \in Orders : InitiatePayment(o)
  <2>1. PICK o \in Orders : payments' = Append(payments, NewPayment(o))
    BY <1>4 DEF InitiatePayment
  <2>2. payments'[p] = payments[p]
    BY <2>1 DEF TypeOK, PaymentIds
  <2> QED
    BY <2>2
<1>5. CASE UNCHANGED payments
  BY <1>5
<1>6. \/ UNCHANGED payments
      \/ \E o \in Orders : InitiatePayment(o)
      \/ \E c \in Calls : CommitVerify(c)
      \/ \E w \in Runs : CommitRefund(w)
  BY DEF Next, PaymentStep, PlaceOrder, Capture, vars,
         CallStep, BeginVerify, LockPayment, BeginCancel, CommitCancel, Rollback,
         RunStep, Claim, EndClaim, LoadState, LoadPayment, LockRefund, RefundFails, Crash
<1> QED
  BY <1>2, <1>3, <1>4, <1>5, <1>6

\* While p is not shared, nobody changes what a request or a run has read of it.
LEMMA ReadsOfStep ==
    ASSUME IInv, NEW p, ReadsOf(p), ~Shared(p), [Next]_vars
    PROVE  ReadsOf(p)'
<1>1. TypeOK /\ CallOK /\ RunOK
  BY DEF IInv
<1>2. ASSUME NEW c \in Calls, call'[c].pc \in {"verifying", "updated"}, call'[c].payment = p
      PROVE  payments'[p].status = "INITIATED"
  <2>1. CASE call[c].pc \in {"verifying", "updated"} /\ call[c].payment = p
    <3>1. c \in CallsOn(p) /\ p \in PaymentIds /\ payments[p].status = "INITIATED"
      BY <1>1, <2>1 DEF CallOK, ReadsOf, CallsOn
    <3>2. ASSUME NEW d \in Calls, CommitVerify(d), call[d].payment = p
          PROVE  FALSE
      <4>1. call'[d] = IdleCall /\ d \in CallsOn(p)
        BY <1>1, <3>2 DEF CommitVerify, TypeOK, CallsOn
      <4>2. d = c
        BY <3>1, <4>1 DEF Shared
      <4> QED
        BY <1>2, <4>1, <4>2 DEF IdleCall
    <3>3. ASSUME NEW w \in Runs, CommitRefund(w), run[w].payment = p
          PROVE  FALSE
      BY <3>1, <3>3 DEF CommitRefund, ReadsOf, RunsOn
    <3>4. payments'[p].status = payments[p].status
      BY <3>1, <3>2, <3>3, StatusKept
    <3> QED
      BY <3>1, <3>4
  <2> QED
    BY <1>1, <1>2, <2>1, CallReads
<1>3. ASSUME NEW w \in Runs, run'[w].pc \in {"paymentLoaded", "refunding"}, run'[w].payment = p
      PROVE  payments'[p].status = "SUCCEEDED"
  <2>1. CASE run[w].pc \in {"paymentLoaded", "refunding"} /\ run[w].payment = p
    <3>1. w \in RunsOn(p) /\ p \in PaymentIds /\ payments[p].status = "SUCCEEDED"
      BY <1>1, <2>1 DEF RunOK, ReadsOf, RunsOn
    <3>2. ASSUME NEW v \in Runs, CommitRefund(v), run[v].payment = p
          PROVE  FALSE
      <4>1. v \in RunsOn(p) /\ run' = NextOrder(v, run[v].order)
        BY <3>2 DEF CommitRefund, RunsOn
      <4>2. v = w
        BY <3>1, <4>1 DEF Shared
      <4>3. run'[v].pc \in {"idle", "looping"}
        BY <1>1, <4>1 DEF NextOrder, IdleRun, TypeOK
      <4> QED
        BY <1>3, <4>2, <4>3
    <3>3. ASSUME NEW c \in Calls, CommitVerify(c), call[c].payment = p
          PROVE  FALSE
      BY <3>1, <3>3 DEF CommitVerify, ReadsOf, CallsOn
    <3>4. payments'[p].status = payments[p].status
      BY <3>1, <3>2, <3>3, StatusKept
    <3> QED
      BY <3>1, <3>4
  <2> QED
    BY <1>1, <1>3, <2>1, RunReads
<1> QED
  BY <1>2, <1>3 DEF ReadsOf, CallsOn, RunsOn

\* An event appended to a log is counted for its payment if it is a refund.
LEMMA RefundsAfter ==
    ASSUME TypeOK, NEW o \in Orders, NEW type \in OrderEventType, NEW q \in Nat,
           LogEvent(o, type, q), NEW x \in Orders, NEW p
    PROVE  /\ x # o \/ type # "PAYMENT_REFUNDED" \/ q # p =>
                 RefundsIn(log'[x], p) = RefundsIn(log[x], p)
           /\ x = o /\ type = "PAYMENT_REFUNDED" /\ q = p =>
                 RefundsIn(log'[x], p) = RefundsIn(log[x], p) \cup {Len(log[x]) + 1}
<1>1. /\ \A y \in Orders : y # o => log'[y] = log[y]
      /\ Len(log[o]) \in Nat
      /\ Len(log'[o]) = Len(log[o]) + 1
      /\ \A i \in 1..Len(log[o]) : log'[o][i] = log[o][i]
      /\ log'[o][Len(log[o]) + 1] = NewEvent(type, q)
  BY LogEventFacts DEF TypeOK
<1>2. CASE x # o
  BY <1>1, <1>2
<1>3. CASE x = o
  <2>1. \A i : i \in 1..Len(log'[o]) <=> i \in 1..Len(log[o]) \/ i = Len(log[o]) + 1
    BY <1>1
  <2>2. NewEvent(type, q).type = type /\ NewEvent(type, q).payment = q
    BY DEF NewEvent
  <2>3. ~(Len(log[o]) + 1 \in 1..Len(log[o]))
    BY <1>1
  <2>4. \A i : i \in RefundsIn(log'[o], p) <=>
               \/ i \in RefundsIn(log[o], p)
               \/ i = Len(log[o]) + 1 /\ type = "PAYMENT_REFUNDED" /\ q = p
    BY <1>1, <2>1, <2>2, <2>3 DEF RefundsIn
  <2> QED
    BY <1>3, <2>4
<1> QED
  BY <1>2, <1>3

\* So an event that is no refund changes no count,
LEMMA RefundsKept ==
    ASSUME TypeOK, NEW o \in Orders, NEW type \in OrderEventType, NEW q \in Nat,
           LogEvent(o, type, q), type # "PAYMENT_REFUNDED"
    PROVE  \A x \in Orders : \A p : RefundsIn(log'[x], p) = RefundsIn(log[x], p)
<1>1. ASSUME NEW x \in Orders, NEW p
      PROVE  RefundsIn(log'[x], p) = RefundsIn(log[x], p)
  BY RefundsAfter
<1> QED
  BY <1>1

\* and a refund one of its payment.
LEMMA RefundsAdded ==
    ASSUME TypeOK, NEW o \in Orders, NEW q \in Nat, LogEvent(o, "PAYMENT_REFUNDED", q)
    PROVE  /\ RefundsIn(log'[o], q) = RefundsIn(log[o], q) \cup {Len(log[o]) + 1}
           /\ \A x \in Orders : \A p : p # q => RefundsIn(log'[x], p) = RefundsIn(log[x], p)
<1>1. "PAYMENT_REFUNDED" \in OrderEventType
  BY DEF OrderEventType
<1>2. RefundsIn(log'[o], q) = RefundsIn(log[o], q) \cup {Len(log[o]) + 1}
  BY <1>1, RefundsAfter
<1>3. ASSUME NEW x \in Orders, NEW p, p # q
      PROVE  RefundsIn(log'[x], p) = RefundsIn(log[x], p)
  BY <1>1, <1>3, RefundsAfter
<1> QED
  BY <1>2, <1>3

\* An event about one payment counts for no other.
LEMMA RefundsElsewhere ==
    ASSUME TypeOK, NEW o \in Orders, NEW type \in OrderEventType, NEW q \in Nat,
           LogEvent(o, type, q), NEW x \in Orders, NEW p, q # p
    PROVE  RefundsIn(log'[x], p) = RefundsIn(log[x], p)
  BY RefundsAfter

\* The count of one more refund.
LEMMA OneMoreRefund ==
    ASSUME TypeOK, NEW x \in Orders, NEW p
    PROVE  /\ Cardinality(RefundsIn(log[x], p) \cup {Len(log[x]) + 1})
                = Cardinality(RefundsIn(log[x], p)) + 1
<1>1. Len(log[x]) \in Nat
  BY DEF TypeOK
<1>2. IsFiniteSet(1..Len(log[x]))
  BY <1>1, FS_Interval
<1>3. RefundsIn(log[x], p) \in SUBSET (1..Len(log[x]))
  BY DEF RefundsIn
<1>4. IsFiniteSet(RefundsIn(log[x], p))
  BY <1>2, <1>3, FS_Subset
<1>5. Len(log[x]) + 1 \notin RefundsIn(log[x], p)
  BY <1>1, <1>3
<1> QED
  BY <1>4, <1>5, FS_AddElement

\* A settlement or a refund that has read p as it still is moves its status as it should.
LEMMA StatusMovesStep ==
    ASSUME IInv, NEW p, ReadsOf(p), [Next]_vars
    PROVE  StatusMoves(p)
<1> SUFFICES ASSUME p \in PaymentIds
             PROVE  \/ payments'[p] = payments[p]
                    \/ /\ payments[p].status = "INITIATED"
                       /\ payments'[p].status \in {"SUCCEEDED", "FAILED"}
                    \/ payments[p].status = "SUCCEEDED" /\ payments'[p].status = "REFUNDED"
  BY DEF StatusMoves
<1>1. CASE UNCHANGED payments
  BY <1>1
<1>2. ASSUME NEW o \in Orders, Initiates(o)
      PROVE  payments'[p] = payments[p]
  BY <1>2 DEF Initiates, IInv, TypeOK, PaymentIds
<1>3. ASSUME NEW q \in PaymentIds, NEW type \in Outcomes, Settles(q, type),
             q = p => payments[p].status = ReadBefore(type)
      PROVE  \/ payments'[p] = payments[p]
             \/ /\ payments[p].status = "INITIATED"
                /\ payments'[p].status \in {"SUCCEEDED", "FAILED"}
             \/ payments[p].status = "SUCCEEDED" /\ payments'[p].status = "REFUNDED"
  <2>1. /\ q # p => payments'[p] = payments[p]
        /\ payments'[q].status = StatusSetBy[type]
    BY <1>3, SettlesFacts DEF IInv
  <2> QED
    BY <1>3, <2>1 DEF ReadBefore, StatusSetBy, Outcomes
<1> QED
  BY <1>1, <1>2, <1>3, WritesOn DEF NoWrite, Places, Cancels

\* Such a refund is the first one of p.
LEMMA RefundedOnceStep ==
    ASSUME IInv, NEW p, ReadsOf(p), RefundedOnce(p), [Next]_vars
    PROVE  RefundedOnce(p)'
<1>1. /\ TypeOK /\ EventsOK /\ StatusMatchesLog
      /\ \A q \in PaymentIds : q \in Nat /\ payments[q].order \in Orders
  BY PaymentsHaveOrders DEF IInv, PaymentIds
<1>2. ASSUME p \in PaymentIds, payments'[p] = payments[p],
             RefundsIn(log'[payments[p].order], p) = RefundsIn(log[payments[p].order], p)
      PROVE  RefundedOnce(p)'
  BY <1>2 DEF RefundedOnce, RefundEvents
<1>3. CASE NoWrite
  <2>1. PaymentIds' = PaymentIds
    BY <1>3 DEF NoWrite, PaymentIds
  <2> QED
    BY <1>2, <1>3, <2>1 DEF NoWrite, RefundedOnce
<1>4. ASSUME NEW o \in Orders, Places(o)
      PROVE  RefundedOnce(p)'
  <2>1. \A q \in PaymentIds : payments[q].order # o
    BY <1>1, <1>4 DEF Places, StatusMatchesLog, LastEventSets
  <2>2. /\ \A x \in Orders : x # o => log'[x] = log[x]
        /\ UNCHANGED payments /\ PaymentIds' = PaymentIds
    BY <1>1, <1>4 DEF Places, TypeOK, PaymentIds
  <2> QED
    BY <1>1, <1>2, <2>1, <2>2 DEF RefundedOnce
<1>5. ASSUME NEW o \in Orders, Cancels(o)
      PROVE  RefundedOnce(p)'
  <2>1. "ORDER_CANCELLED" \in OrderEventType /\ NoPayment \in Nat
    BY DEF OrderEventType, NoPayment
  <2>2. \A x \in Orders : \A q : RefundsIn(log'[x], q) = RefundsIn(log[x], q)
    BY <1>1, <1>5, <2>1, RefundsKept DEF Cancels
  <2>3. UNCHANGED payments /\ PaymentIds' = PaymentIds
    BY <1>5 DEF Cancels, PaymentIds
  <2> QED
    BY <1>1, <1>2, <2>2, <2>3 DEF RefundedOnce
<1>6. ASSUME NEW o \in Orders, Initiates(o)
      PROVE  RefundedOnce(p)'
  <2> DEFINE n == Len(payments) + 1
  <2>1. /\ n \in Nat /\ n # NoPayment /\ n \notin PaymentIds
        /\ \A q \in PaymentIds' : q \in PaymentIds \/ q = n
        /\ \A q \in PaymentIds : payments'[q] = payments[q]
        /\ payments'[n] = NewPayment(o)
        /\ LogEvent(o, "PAYMENT_INITIATED", n)
    BY <1>1, <1>6 DEF Initiates, TypeOK, PaymentIds, NoPayment
  <2> HIDE DEF n
  <2>2. \A x \in Orders : \A q : RefundsIn(log'[x], q) = RefundsIn(log[x], q)
    BY <1>1, <2>1, RefundsKept DEF OrderEventType
  <2>3. CASE p \in PaymentIds
    BY <1>1, <1>2, <2>1, <2>2, <2>3
  <2>4. CASE p = n
    <3>1. payments'[p].order = o /\ payments'[p].status = "INITIATED"
      BY <2>1, <2>4 DEF NewPayment
    <3>2. RefundsIn(log[o], p) = {}
      <4>1. \A i \in 1..Len(log[o]) : log[o][i].payment # n
        BY <1>1, <2>1 DEF EventsOK
      <4> QED
        BY <2>4, <4>1 DEF RefundsIn
    <3>3. RefundsIn(log'[payments'[p].order], p) = {}
      BY <2>2, <3>1, <3>2
    <3> QED
      BY <3>1, <3>3, FS_EmptySet DEF RefundedOnce, RefundEvents
  <2> QED
    BY <2>1, <2>3, <2>4 DEF RefundedOnce
<1>7. ASSUME NEW q \in PaymentIds, NEW type \in Outcomes, Settles(q, type),
             q = p => payments[p].status = ReadBefore(type)
      PROVE  RefundedOnce(p)'
  <2>1. /\ PaymentIds' = PaymentIds
        /\ q # p /\ p \in PaymentIds => payments'[p] = payments[p]
        /\ payments'[q].status = StatusSetBy[type]
        /\ payments'[q].order = payments[q].order
    BY <1>1, <1>7, SettlesFacts
  <2>2. LogEvent(payments[q].order, type, q) /\ type \in OrderEventType
    BY <1>7 DEF Settles, Outcomes, OrderEventType
  <2>3. CASE q # p
    <3>1. ASSUME p \in PaymentIds
          PROVE  RefundsIn(log'[payments[p].order], p) = RefundsIn(log[payments[p].order], p)
      <4>1. payments[p].order \in Orders /\ payments[q].order \in Orders /\ q \in Nat
        BY <1>1, <3>1
      <4> QED
        BY <1>1, <2>2, <2>3, <4>1, RefundsElsewhere
    <3> QED
      BY <1>2, <2>1, <2>3, <3>1 DEF RefundedOnce
  <2>4. CASE q = p /\ type # "PAYMENT_REFUNDED"
    <3>1. RefundsIn(log'[payments[p].order], p) = RefundsIn(log[payments[p].order], p)
      BY <1>1, <2>2, <2>4, RefundsKept
    <3>2. payments[p].status = "INITIATED" /\ payments'[p].status # "REFUNDED"
      BY <1>7, <2>1, <2>4 DEF ReadBefore, Outcomes, StatusSetBy
    <3> QED
      BY <2>1, <2>4, <3>1, <3>2 DEF RefundedOnce, RefundEvents
  <2>5. CASE q = p /\ type = "PAYMENT_REFUNDED"
    <3> DEFINE x == payments[p].order
    <3>1. RefundsIn(log'[x], p) = RefundsIn(log[x], p) \cup {Len(log[x]) + 1} /\ x \in Orders
      BY <1>1, <2>2, <2>5, RefundsAdded
    <3>2. Cardinality(RefundsIn(log'[x], p)) = Cardinality(RefundsIn(log[x], p)) + 1
      BY <1>1, <3>1, OneMoreRefund
    <3>3. payments[p].status = "SUCCEEDED" /\ payments'[p].status = "REFUNDED"
      BY <1>7, <2>1, <2>5 DEF ReadBefore, StatusSetBy
    <3>4. Cardinality(RefundsIn(log[x], p)) = 0
      BY <2>5, <3>3 DEF RefundedOnce, RefundEvents
    <3> QED
      BY <2>1, <2>5, <3>2, <3>3, <3>4 DEF RefundedOnce, RefundEvents
  <2> QED
    BY <2>3, <2>4, <2>5
<1> QED
  BY <1>3, <1>4, <1>5, <1>6, <1>7, WritesOn

\* What is read of a payment goes stale only if two requests, or two runs, have it
\* at once.
LEMMA ReadsStayFresh ==
    ASSUME NEW p
    PROVE  Spec => <>Shared(p) \/ []ReadsOf(p)
<1>1. Init => ReadsOf(p)
  BY DEF Init, ReadsOf, CallsOn, RunsOn, IdleCall, IdleRun
<1>2. IInv /\ ReadsOf(p) /\ ~Shared(p) /\ [Next]_vars => ReadsOf(p)'
  BY ReadsOfStep
<1> QED
  BY <1>1, <1>2, InductiveInvariant, PTL DEF Spec

\* However requests, runs, captures and crashes overlap elsewhere, a payment is
\* settled once, and refunded only after its success, unless at some time two requests,
\* or two runs, had read it and not yet written to it: that overlap, which nothing
\* in the code excludes, is the only way to a payment that moves back.
THEOREM OnlySharingMovesBack ==
    ASSUME NEW p
    PROVE  Spec => <>Shared(p) \/ [][StatusMoves(p)]_vars
<1>1. IInv /\ ReadsOf(p) /\ [Next]_vars => StatusMoves(p)
  BY StatusMovesStep
<1> QED
  BY <1>1, ReadsStayFresh, InductiveInvariant, PTL DEF Spec

\* README.md:151 "No double refunds" fails in that one way: a payment that is
\* refunded twice was shared, whatever becomes of the others.
THEOREM OnlySharingRefundsTwice ==
    ASSUME NEW p
    PROVE  Spec => <>Shared(p) \/ [](p \in PaymentIds => RefundEvents(p) <= 1)
<1>1. Init => RefundedOnce(p)
  BY DEF Init, RefundedOnce, PaymentIds
<1>2. IInv /\ ReadsOf(p) /\ RefundedOnce(p) /\ [Next]_vars => RefundedOnce(p)'
  BY RefundedOnceStep
<1>3. RefundedOnce(p) => (p \in PaymentIds => RefundEvents(p) <= 1)
  BY DEF RefundedOnce
<1> QED
  BY <1>1, <1>2, <1>3, ReadsStayFresh, InductiveInvariant, PTL DEF Spec
=============================================================================

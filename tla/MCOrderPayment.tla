--------------------------- MODULE MCOrderPayment ---------------------------
(***************************************************************************)
(* OrderPayment for TLC: the symmetry of its slots, the fairness of its    *)
(* scheduler, and the properties that are only model-checked.              *)
(***************************************************************************)
EXTENDS OrderPayment, SequencesExt

\* Slots and order ids are interchangeable.
SlotSymmetry == Permutations(Calls) \cup Permutations(Runs)

-----------------------------------------------------------------------------
(* What happens in the end                                                 *)

\* The run is through with order o: it has refunded it, or found nothing to refund.
Serves(w, o) ==
    \/ run[w].order = o /\ CommitRefund(w)
    \/ run[w].order = o /\ LoadPayment(w) /\ run'[w].pc # "paymentLoaded"
    \/ LoadState(w, o) /\ run'[w].order # o

\* The worker's timer fires on every replica, and a run comes to its end, if only
\* by a failure or a crash; but of the runs that claim an order again and again
\* some get through with it.  A request ends, if only by its time-out.
WorkerFairness ==
    /\ \A w \in Runs :
          /\ SF_vars(Claim(w))
          /\ WF_vars(run[w].pc # "idle" /\ RunStep(w))
          /\ \A o \in Orders :
                []<>(o \in {payments[p].order : p \in run[w].claimed}) => []<><<Serves(w, o)>>_vars
    /\ \A c \in Calls : WF_vars(CommitVerify(c) \/ CommitCancel(c) \/ LockPayment(c) \/ Rollback(c))

FairSpec == Spec /\ WorkerFairness

\* Late in the day: every order has a payment that succeeded and was cancelled,
\* while it was being verified, or before it was paid (terminal_states shows that
\* the code lets it be paid).
CancelledThenPaid == <<"ORDER_CANCELLED", "PAYMENT_INITIATED", "PAYMENT_SUCCEEDED">>
PaidThenCancelled == <<"PAYMENT_INITIATED", "PAYMENT_SUCCEEDED", "ORDER_CANCELLED">>

CancelledInit ==
    LET ids == SetToSeq(Orders)
        Begun == <<NewEvent("ORDER_REQUESTED", NoPayment), NewEvent("ORDER_VALIDATED", NoPayment)>>
        Then(o, types) ==
            [i \in 1..3 |-> NewEvent(types[i], IF types[i] = "ORDER_CANCELLED" THEN NoPayment
                                               ELSE CHOOSE p \in DOMAIN ids : ids[p] = o)]
    IN  /\ \E types \in [Orders -> {CancelledThenPaid, PaidThenCancelled}] :
              log = [o \in Orders |-> Begun \o Then(o, types[o])]
        /\ total \in [Orders -> Totals]
        /\ payments = [p \in DOMAIN ids |->
              [NewPayment(ids[p]) EXCEPT !.status = "SUCCEEDED", !.providerPayment = p]]
        /\ captured = DOMAIN ids
        /\ call = [c \in Calls |-> IdleCall]
        /\ run = [w \in Runs |-> IdleRun]

CancelledSpec == CancelledInit /\ [][Next]_vars /\ WorkerFairness

\* initiateRefund and the claim query both pick the latest payment of o.
Refundable(o) ==
    /\ DeriveOrderState(log[o]) = "CANCELLED"
    /\ \E p \in Claimable : IsLatestPayment(o, p)

\* Rows the claim query selects again and again: initiateRefund does nothing
\* for their orders.
StuckRows == {p \in Claimable : ~Refundable(payments[p].order)}

\* The query's LIMIT leaves room for a row of a refundable order.
ClaimHasRoom == Cardinality(StuckRows) < ClaimLimit

\* An order that is cancelled while its latest payment has succeeded, with no
\* other payment refunded, does not stay so: through crashes of the worker and
\* locks it has to skip, the refund is made (or the customer pays again), unless
\* stuck rows come to fill the claim.
RefundableIsRefunded ==
    \A o \in Orders : (Refundable(o) /\ ClaimHasRoom) ~> ~(Refundable(o) /\ ClaimHasRoom)

-----------------------------------------------------------------------------
(* What the documentation says and the code does not do                    *)

\* order-transitions.ts:32,34 "terminal": no event leads out of CONFIRMED or
\* CANCELLED.
TerminalStatesAreFinal ==
    [][\A o \in Orders :
          DeriveOrderState(log[o]) \in {"CONFIRMED", "CANCELLED"} =>
              DeriveOrderState(log'[o]) = DeriveOrderState(log[o])]_vars

\* README.md:152 "Eventually consistent (worker retries on timeout)": a payment
\* that has succeeded for an order with a cancellation is refunded in the end.
CancelledPaymentIsRefunded ==
    \A p \in 1..MaxPayments :
        (/\ p \in PaymentIds
         /\ payments[p].status = "SUCCEEDED"
         /\ HasEvent(payments[p].order, "ORDER_CANCELLED"))
            ~> (p \in PaymentIds /\ payments[p].status = "REFUNDED")

\* CLEAN_PAYMENT_ARCHITECTURE.md: a verification with the signature the gateway
\* made leads to PaymentStatus.SUCCEEDED.
GenuineSignatureSucceeds ==
    [][\A c \in Calls :
          CommitVerify(c) /\ call[c].paid # NoPayment =>
              payments'[call[c].payment].status = "SUCCEEDED"]_vars
=============================================================================

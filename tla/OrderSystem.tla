----------------------------- MODULE OrderSystem -----------------------------
(***************************************************************************)
(* Checkout and OrderPayment together, on one database: the commit of a    *)
(* checkout is the moment its order can be paid.                           *)
(***************************************************************************)
EXTENDS Checkout, Sequences

CONSTANTS Totals, Calls, Runs, MaxPayments, ClaimLimit, StringsCompare

VARIABLES log, total, payments, captured, call, run

Payment == INSTANCE OrderPayment WITH NoOrder <- None

\* Totals holds whatever a checkout can come to.
ASSUME SystemAssumption ==
    /\ Payment!ConstantsAssumption
    /\ \A lines \in Lines : TotalOf(lines) \in Totals

paymentVars == <<log, total, payments, captured, call, run>>

Init == CheckoutInit /\ Payment!Init

\* Mutant: the total is computed from the prices at the time of the commit.
PlaceOrderAtNewPrice(r, o) ==
    /\ Commit(r, o)
    /\ Payment!PlaceOrder(o, TotalOf(Restrict(price, DOMAIN request[r].lines)))

\* One transaction writes the order, its items, its key and its first events.
PlaceOrder(r, o) ==
    /\ Commit(r, o)
    /\ Payment!PlaceOrder(o, TotalOf(request[r].lines))

Next ==
    \/ \E r \in Requests, o \in Orders : PlaceOrder(r, o)
    \/ CheckoutStep /\ UNCHANGED paymentVars
    \/ Payment!PaymentStep /\ UNCHANGED checkoutVars

vars == <<checkoutVars, paymentVars>>

Spec == Init /\ [][Next]_vars

-----------------------------------------------------------------------------

\* What the gateway is asked for is what the customer saw at checkout, even if
\* an administrator changes prices between the reads of the checkout, its commit
\* and the payment; and only orders that exist have a history.
AmountIsSnapshot ==
    /\ \A p \in Payment!PaymentIds :
          payments[p].amount = TotalOf(orders[payments[p].order].lines)
    /\ \A o \in Orders : log[o] # <<>> <=> IsPlaced(o)
=============================================================================

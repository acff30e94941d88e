---------------------------- MODULE PaymentLedger ----------------------------
(***************************************************************************)
(* What customers are promised about money, with no requests, locks or     *)
(* logs: a payment is opened, settled once as succeeded or failed, and a   *)
(* success may be returned, at most once.                                  *)
(***************************************************************************)
EXTENDS Naturals, Sequences

VARIABLES
    status,    \* the status of each payment, in order of creation
    refunds    \* how many times each one was returned to the customer

\* The books may be opened with payments in them.
Init ==
    /\ refunds = [p \in DOMAIN status |-> IF status[p] = "REFUNDED" THEN 1 ELSE 0]
    /\ \A p \in DOMAIN status : status[p] \in {"INITIATED", "SUCCEEDED", "FAILED", "REFUNDED"}

Open ==
    /\ status' = Append(status, "INITIATED")
    /\ refunds' = Append(refunds, 0)

Settle(p) ==
    /\ status[p] = "INITIATED"
    /\ \E outcome \in {"SUCCEEDED", "FAILED"} : status' = [status EXCEPT ![p] = outcome]
    /\ UNCHANGED refunds

Refund(p) ==
    /\ status[p] = "SUCCEEDED"
    /\ status' = [status EXCEPT ![p] = "REFUNDED"]
    /\ refunds' = [refunds EXCEPT ![p] = @ + 1]

Next == Open \/ \E p \in 1..Len(status) : Settle(p) \/ Refund(p)

Spec == Init /\ [][Next]_<<status, refunds>>
=============================================================================

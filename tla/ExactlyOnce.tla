----------------------------- MODULE ExactlyOnce -----------------------------
(***************************************************************************)
(* What an idempotency key promises: however often a checkout is sent with *)
(* the same key, one order comes of it, and every answer names that order. *)
(***************************************************************************)
CONSTANTS Keys, Orders

VARIABLES
    outcome,    \* for each key the orders that came of it
    answered    \* for each key the orders its senders were told of

Init ==
    /\ outcome = [k \in Keys |-> {}]
    /\ answered = [k \in Keys |-> {}]

Answer(k, o) ==
    \/ answered' = [answered EXCEPT ![k] = @ \cup {o}]
    \/ UNCHANGED answered

Decide(k, o) ==
    /\ outcome[k] = {}
    /\ \A other \in Keys : o \notin outcome[other]
    /\ outcome' = [outcome EXCEPT ![k] = {o}]
    /\ Answer(k, o)

Repeat(k, o) ==
    /\ o \in outcome[k]
    /\ Answer(k, o)
    /\ UNCHANGED outcome

Next == \E k \in Keys, o \in Orders : Decide(k, o) \/ Repeat(k, o)

Spec == Init /\ [][Next]_<<outcome, answered>>
=============================================================================

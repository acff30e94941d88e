----------------------------- MODULE OrderDomain -----------------------------
(***************************************************************************)
(* The order's state machine: apps/backend/src/modules/order/domain.  An   *)
(* order has no stored state; it is computed from the log of its events,   *)
(* and a table says which event may follow which state.                    *)
(***************************************************************************)
EXTENDS Integers, Sequences

OrderState ==
    {"INIT", "REQUESTED", "VALIDATED", "PAYMENT_IN_PROGRESS",
     "CONFIRMED", "CANCELLED", "FAILED"}

OrderEventType ==
    {"ORDER_REQUESTED", "ORDER_VALIDATED", "PAYMENT_INITIATED",
     "PAYMENT_SUCCEEDED", "PAYMENT_FAILED", "PAYMENT_REFUNDED",
     "ORDER_CONFIRMED", "ORDER_CANCELLED"}

\* The events deriveOrderState has a case for, and the state each one sets.
\* PAYMENT_REFUNDED and ORDER_CONFIRMED take its default case.
StateSetBy ==
    [ORDER_REQUESTED   |-> "REQUESTED",
     ORDER_VALIDATED   |-> "VALIDATED",
     PAYMENT_INITIATED |-> "PAYMENT_IN_PROGRESS",
     PAYMENT_SUCCEEDED |-> "CONFIRMED",
     PAYMENT_FAILED    |-> "FAILED",
     ORDER_CANCELLED   |-> "CANCELLED"]

SetsState(event) == event.type \in DOMAIN StateSetBy

\* Event i of the log is the last one that sets the state.
IsLastSetter(events, i) ==
    /\ SetsState(events[i])
    /\ \A j \in 1..Len(events) : j > i => ~SetsState(events[j])

\* The body of the loop of deriveOrderState: its switch over the event's type.
AfterEvent(state, event) ==
    CASE event.type = "ORDER_REQUESTED"   -> "REQUESTED"
      [] event.type = "ORDER_VALIDATED"   -> "VALIDATED"
      [] event.type = "PAYMENT_INITIATED" -> "PAYMENT_IN_PROGRESS"
      [] event.type = "PAYMENT_SUCCEEDED" -> "CONFIRMED"
      [] event.type = "PAYMENT_FAILED"    -> "FAILED"
      [] event.type = "ORDER_CANCELLED"   -> "CANCELLED"
      [] OTHER                            -> state

\* The loop itself, over the whole log.
LoopDeriveOrderState(events) ==
    LET after[i \in 0..Len(events)] ==
            IF i = 0 THEN "INIT" ELSE AfterEvent(after[i - 1], events[i])
    IN  after[Len(events)]

\* The loop in closed form: the last event that sets the state decides.  The two
\* agree on every log (theorem DeriveIsLoop).
DeriveOrderState(events) ==
    IF \E i \in 1..Len(events) : IsLastSetter(events, i)
    THEN StateSetBy[events[CHOOSE i \in 1..Len(events) : IsLastSetter(events, i)].type]
    ELSE "INIT"

ALLOWED_TRANSITIONS ==
    [INIT                |-> {"ORDER_REQUESTED"},
     REQUESTED           |-> {"ORDER_VALIDATED", "ORDER_CANCELLED"},
     VALIDATED           |-> {"PAYMENT_INITIATED", "ORDER_CANCELLED"},
     PAYMENT_IN_PROGRESS |-> {"PAYMENT_SUCCEEDED", "PAYMENT_FAILED"},
     FAILED              |-> {"PAYMENT_INITIATED", "ORDER_CANCELLED"},
     CONFIRMED           |-> {},
     CANCELLED           |-> {}]

\* assertValidTransition does not throw.
IsValidTransition(state, type) ==
    IF type = "PAYMENT_REFUNDED"
    THEN state = "CANCELLED"
    ELSE type \in ALLOWED_TRANSITIONS[state]
=============================================================================

--------------------------- MODULE MCCartPipeline ---------------------------
(***************************************************************************)
(* CartPipeline for TLC: the fairness of the consumer, and what the        *)
(* documentation says of it.                                               *)
(***************************************************************************)
EXTENDS CartPipeline, TLC

\* A consumer that has a message goes on with it, and does not die at the same
\* step for ever.  A message that is due stays due until it is delivered.
ConsumerFairness ==
    \A w \in Workers :
        /\ WF_vars(Deliver(w))
        /\ SF_vars(ReadRedisCart(w))
        /\ SF_vars(WriteCart(w) \/ HandlerFails(w))
        /\ SF_vars(ClearCartInDatabase(w) \/ HandlerFails(w))
        /\ SF_vars(MarkEventProcessed(w))
        /\ SF_vars(ResolveOffset(w))
        /\ SF_vars(CommitOffsets(w))

FairSpec == Spec /\ ConsumerFairness

\* Every event that was sent is handled and committed in the end, one way or the
\* other.
EventsAreHandled == \A i \in 1..MaxWrites : Len(topic) >= i ~> committed >= i

\* README.md:244 "Even if events are out of order -> data stays correct".
OutOfOrderStaysCorrect ==
    Drained /\ redis # NoCart /\ db.version >= owed => db.items = redis.items

\* README.md:295 "DB Failure / Delay", 297 "Worker retries in next batch cycle":
\* a change that was sent reaches the database.
FailedSyncIsRetried ==
    \A i \in 1..MaxWrites : Len(topic) >= i ~> (Len(topic) >= i /\ db.version >= topic[i].version)
=============================================================================

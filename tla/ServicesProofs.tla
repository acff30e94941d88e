--------------------------- MODULE ServicesProofs ---------------------------
(***************************************************************************)
(* For any constants: the safety properties of the cart sync, the rate     *)
(* limiter, the API gateway and the three implementations of the cart's    *)
(* changes, and of all services side by side.                              *)
(***************************************************************************)
EXTENDS AccountsProofs, FoodCatalogueProofs, FilteringProofs, MCServices,
        FiniteSetTheorems, TLAPS

-----------------------------------------------------------------------------
(* The cart sync                                                           *)

\* The steps of a run that hold a cart that is still to be written, and those after
\* the rows are written.
Holding == {"read", "clearing", "versioned"}
Written == {"written", "unchanged", "ended"}

\* What a run may rely on as long as nothing met it: the cart it holds is the cart of
\* Redis, and a run that succeeded has written it.  The key may have expired since.
RunOK ==
    /\ sync.pc \in {"idle", "started"} \union Holding \union Written
    /\ sync.pc \in {"written", "unchanged"} => sync.success = TRUE
    /\ ~disturbed /\ sync.pc \in Holding /\ redisCart.lines # "none"
          => sync.cart.change = redisCart.change
    /\ ~disturbed /\ sync.pc \in Written /\ sync.success = TRUE /\ redisCart.lines # "none"
          => dbChange = redisCart.change

SyncInv == RunOK /\ MarkOutlivesFailure

-----------------------------------------------------------------------------
\* There is no cart at first.
LEMMA SyncInitInvariant == SyncInit => SyncInv
BY DEF SyncInit, SyncInv, RunOK, MarkOutlivesFailure, NoRun, NoKeyCart, Holding, Written

\* A read gives the cart of Redis, or hides it, or there is none.
LEMMA ReadsTheCart ==
    ASSUME NEW read \in Reads, ~Hidden(read), redisCart.lines # "none"
    PROVE  read = redisCart
BY DEF Reads, Hidden, NoKeyCart

\* One step keeps the invariant.
LEMMA SyncStepInvariant ==
    ASSUME SyncInv, [SyncNext]_syncVars
    PROVE  SyncInv'
<1> USE DEF SyncInv, RunOK, MarkOutlivesFailure, Holding, Written
<1>1. CASE ChangeCartKey
  BY <1>1 DEF ChangeCartKey
<1>2. CASE MarkDirty
  BY <1>2 DEF MarkDirty
<1>3. CASE KeyExpires
  BY <1>3 DEF KeyExpires
<1>4. CASE StartSync
  BY <1>4 DEF StartSync, NoRun
<1>5. CASE ReadCartKey
  <2>1. PICK read \in Reads :
          /\ disturbed' = (disturbed \/ Hidden(read))
          /\ CASE read.lines = "none" -> Run("ended", read, NoVersion, TRUE)
               [] read.lines = "empty" -> Run("clearing", read, NoVersion, FALSE)
               [] OTHER -> Run("read", read, NoVersion, FALSE)
    BY <1>5 DEF ReadCartKey
  <2>2. UNCHANGED <<redisCart, dirty, unmarked, dbChange>>
    BY <1>5 DEF ReadCartKey
  <2>3. ~disturbed' /\ redisCart.lines # "none" => read = redisCart
    BY <2>1, ReadsTheCart
  <2>4. CASE read.lines = "none"
    <3>1. Run("ended", read, NoVersion, TRUE)
      BY <2>1, <2>4
    <3> QED
      BY <2>1, <2>2, <2>3, <2>4, <3>1 DEF Run
  <2>5. CASE read.lines = "empty"
    <3>1. Run("clearing", read, NoVersion, FALSE)
      BY <2>1, <2>5
    <3> QED
      BY <2>1, <2>2, <2>3, <3>1 DEF Run
  <2>6. CASE read.lines \notin {"none", "empty"}
    <3>1. Run("read", read, NoVersion, FALSE)
      BY <2>1, <2>6
    <3> QED
      BY <2>1, <2>2, <2>3, <3>1 DEF Run
  <2> QED
    BY <2>4, <2>5, <2>6
<1>6. CASE ReadVersion
  <2>1. PICK read \in Reads :
          /\ disturbed' = (disturbed \/ Hidden(read))
          /\ IF VersionOf(read) = NoVersion
             THEN Run("ended", sync.cart, NoVersion, FALSE)
             ELSE Run("versioned", sync.cart, VersionOf(read), FALSE)
    BY <1>6 DEF ReadVersion
  <2>2. sync.pc = "read" /\ UNCHANGED <<redisCart, dirty, unmarked, dbChange>>
    BY <1>6 DEF ReadVersion
  <2>3. CASE VersionOf(read) = NoVersion
    <3>1. Run("ended", sync.cart, NoVersion, FALSE)
      BY <2>1, <2>3
    <3> QED
      BY <2>1, <2>2, <3>1 DEF Run
  <2>4. CASE VersionOf(read) # NoVersion
    <3>1. Run("versioned", sync.cart, VersionOf(read), FALSE)
      BY <2>1, <2>4
    <3> QED
      BY <2>1, <2>2, <3>1 DEF Run
  <2> QED
    BY <2>3, <2>4
<1>7. CASE WriteRows
  BY <1>7 DEF WriteRows, Run
<1>8. CASE ReadVersionAgain
  BY <1>8 DEF ReadVersionAgain, Run
<1>9. CASE RemoveMarkSafely
  BY <1>9 DEF RemoveMarkSafely, RemoveMark
<1>10. CASE EndSync
  BY <1>10 DEF EndSync, RemoveMark, NoRun
<1>11. CASE UNCHANGED syncVars
  BY <1>11 DEF syncVars
<1> QED
  BY <1>1, <1>2, <1>3, <1>4, <1>5, <1>6, <1>7, <1>8, <1>9, <1>10, <1>11 DEF SyncNext

-----------------------------------------------------------------------------
\* A cart whose mark is gone is in the database, unless a change or an error of Redis
\* met the run that removed it: failed transactions, carts that are not valid and
\* versions that cannot be read leave the mark (cart-sync.service.ts:31-125).
THEOREM MarksOutliveFailures == SyncSpec => []MarkOutlivesFailure
<1>1. SyncInit => SyncInv
  BY SyncInitInvariant
<1>2. SyncInv /\ [SyncNext]_syncVars => SyncInv'
  BY SyncStepInvariant
<1>3. SyncInv => MarkOutlivesFailure
  BY DEF SyncInv
<1> QED
  BY <1>1, <1>2, <1>3, PTL DEF SyncSpec

-----------------------------------------------------------------------------
(* The API gateway                                                         *)

CallType == [stage : {"idle", "sent", "answered", "back"}, method : Methods,
             resource : Resources]

EffectType == [did : {"nothing", "done", "threw"}, status : {0, 200, 400, 403, 404, 409, 500}]

\* What an answer on its way to the gateway says of what the backend did.
AnswerOK ==
    \/ /\ effect.did = "done" /\ effect.status = 200
       /\ \/ reply \in [status : {200, 201}, body : {"data"}]
          \/ reply = [status |-> 304, body |-> "empty"]
    \/ /\ effect.did = "done" /\ effect.status = 400
       /\ reply = [status |-> 400, body |-> "error"]
    \/ /\ effect.did = "threw" /\ effect.status \in {400, 403, 404, 409, 500}
       /\ reply = [status |-> effect.status, body |-> "error"]
    \/ /\ effect.status = 500 \/ effect = Nothing
       /\ reply = [status |-> 0, body |-> "none"]

\* What an answer on its way to the page says.
ReplyOK ==
    \/ effect.did = "done" /\ effect.status = 200 /\ reply.status \in {200, 500}
    \/ /\ effect.did = "done" => effect.status \in {400, 500}
       /\ effect.status \in {400, 403, 404, 409, 500} /\ reply.status = effect.status
    \/ effect = Nothing /\ reply.status \in {404, 429, 500}

GatewayInv ==
    /\ call \in CallType /\ cached \subseteq Resources
    /\ effect \in EffectType
    /\ call.stage # "idle" => shown = NotShown
    /\ call.stage = "sent" => effect = Nothing
    /\ call.stage = "answered" => AnswerOK
    /\ call.stage = "back" => ReplyOK
    /\ ErrorsStayErrors

LEMMA NoCallIsACall == NoCall \in CallType /\ NoCall.stage = "idle"
<1>1. (CHOOSE r \in Resources : TRUE) \in Resources
  BY RoutedAssumption
<1> QED
  BY <1>1 DEF NoCall, CallType, Methods

LEMMA GatewayInitInvariant == GatewayInit => GatewayInv
BY NoCallIsACall DEF GatewayInit, GatewayInv, ErrorsStayErrors, NotShown, Nothing, EffectType

\* While a call is under way the page was told nothing.
LEMMA NothingShown ==
    ASSUME shown = NotShown
    PROVE  ErrorsStayErrors
BY DEF ErrorsStayErrors, NotShown

LEMMA GatewayStepInvariant ==
    ASSUME GatewayInv, [GatewayNext]_gatewayVars
    PROVE  GatewayInv'
<1> USE NoCallIsACall
<1>1. ASSUME NEW method \in Methods, NEW resource \in Resources, SendCall(method, resource)
      PROVE  GatewayInv'
  <2>1. call' \in CallType /\ call'.stage = "sent"
    BY <1>1 DEF SendCall, CallType
  <2>2. shown' = NotShown /\ effect' = Nothing /\ cached' = cached
    BY <1>1 DEF SendCall
  <2> QED
    BY <2>1, <2>2 DEF GatewayInv, ErrorsStayErrors, NotShown, Nothing, EffectType
<1>2. CASE Throttle \/ RouteMissing
  <2>1. /\ call' \in CallType /\ call'.stage = "back" /\ effect' = Nothing /\ shown' = NotShown
        /\ cached' = cached /\ reply'.status \in {404, 429}
    BY <1>2 DEF Throttle, RouteMissing, Answer, GatewayInv, CallType
  <2> QED
    BY <2>1 DEF GatewayInv, ReplyOK, ErrorsStayErrors, NotShown, Nothing, EffectType
<1>3. CASE BackendServes
  <2>1. /\ call' \in CallType /\ call'.stage = "answered"
        /\ effect' = [did |-> "done", status |-> 200]
        /\ shown' = NotShown /\ cached' = cached
        /\ \/ reply' \in [status : {200, 201}, body : {"data"}]
           \/ reply' = [status |-> 304, body |-> "empty"]
    BY <1>3 DEF BackendServes, Answer, GatewayInv, CallType
  <2> QED
    BY <2>1 DEF GatewayInv, AnswerOK, ErrorsStayErrors, NotShown, EffectType
<1>4. ASSUME NEW exception \in Exceptions, BackendThrows(exception)
      PROVE  GatewayInv'
  <2>1. /\ FilterStatus(exception) \in {400, 403, 404, 409, 500}
        /\ exception.code \in CommitUnknown => FilterStatus(exception) = 400
    BY DEF FilterStatus, Exceptions, PrismaCodes, CommitUnknown
  <2>2. /\ call' \in CallType /\ call'.stage = "answered"
        /\ shown' = NotShown /\ cached' = cached
        /\ effect' \in [did : {"threw", "done"}, status : {400, 403, 404, 409, 500}]
        /\ effect'.did = "done" => effect'.status = 400
        /\ reply' = [status |-> effect'.status, body |-> "error"]
    BY <1>4, <2>1 DEF BackendThrows, Answer, GatewayInv, CallType
  <2> QED
    BY <2>2 DEF GatewayInv, AnswerOK, ErrorsStayErrors, NotShown, EffectType
<1>5. CASE BackendGone
  <2>1. /\ call' \in CallType /\ call'.stage = "answered"
        /\ shown' = NotShown /\ cached' = cached
        /\ reply' = [status |-> 0, body |-> "none"]
    BY <1>5 DEF BackendGone, Answer, GatewayInv, CallType
  <2>2. effect' \in EffectType /\ (effect'.status = 500 \/ effect' = Nothing)
    <3>1. CASE call.stage = "sent"
      BY <1>5, <3>1 DEF BackendGone, GatewayInv
    <3>2. CASE call.stage = "answered"
      BY <1>5, <3>2 DEF BackendGone, GatewayInv, EffectType
    <3> QED
      BY <1>5, <3>1, <3>2 DEF BackendGone
  <2> QED
    BY <2>1, <2>2 DEF GatewayInv, AnswerOK, ErrorsStayErrors, NotShown, EffectType
<1>6. CASE Relay
  <2>1. /\ call' \in CallType /\ call'.stage = "back" /\ effect' = effect
        /\ shown' = NotShown /\ cached' = cached
        /\ reply'.status = Proxied(reply).status
    BY <1>6 DEF Relay, Answer, GatewayInv, CallType
  <2>2. ReplyOK'
    BY <1>6, <2>1 DEF Relay, GatewayInv, AnswerOK, ReplyOK, Proxied, Successful, EffectType, Nothing
  <2> QED
    BY <2>1, <2>2 DEF GatewayInv, ErrorsStayErrors, NotShown
<1>7. CASE ShowReply
  <2>1. /\ call' = NoCall /\ effect' = effect /\ cached' \subseteq Resources
    BY <1>7 DEF ShowReply, GatewayInv, CallType
  <2>2. shown' = IF Successful(reply.status)
                 THEN [type |-> "OK", status |-> reply.status]
                 ELSE [type |-> ErrorType(reply.status), status |-> reply.status]
    BY <1>7 DEF ShowReply
  <2>3. ReplyOK
    BY <1>7 DEF ShowReply, GatewayInv
  <2>4. ErrorsStayErrors'
    BY <2>1, <2>2, <2>3
       DEF GatewayInv, ReplyOK, ErrorsStayErrors, ErrorType, Successful, EffectType, Nothing
  <2> QED
    BY <2>1, <2>4 DEF GatewayInv
<1>8. CASE CallTimesOut
  <2>1. /\ call' = NoCall /\ effect' = effect /\ cached' = cached
        /\ shown' = [type |-> "NETWORK_ERROR", status |-> 0]
    BY <1>8 DEF CallTimesOut
  <2> QED
    BY <2>1 DEF GatewayInv, ErrorsStayErrors, EffectType
<1>9. CASE UNCHANGED gatewayVars
  BY <1>9 DEF GatewayInv, AnswerOK, ReplyOK, ErrorsStayErrors, gatewayVars
<1> QED
  BY <1>1, <1>2, <1>3, <1>4, <1>5, <1>6, <1>7, <1>8, <1>9 DEF GatewayNext

\* A page is told of success only when the backend did the call, and of 403, 404 and
\* 409 only when it did not, whatever is lost, throttled or answered from a cache on
\* the way (exception.filter.ts:31-70, proxy.service.ts:13-42, httpClient.js:98-230).
THEOREM ErrorsAreReported == GatewaySpec => []ErrorsStayErrors
<1>1. GatewayInit => GatewayInv
  BY GatewayInitInvariant
<1>2. GatewayInv /\ [GatewayNext]_gatewayVars => GatewayInv'
  BY GatewayStepInvariant
<1>3. GatewayInv => ErrorsStayErrors
  BY DEF GatewayInv
<1> QED
  BY <1>1, <1>2, <1>3, PTL DEF GatewaySpec

-----------------------------------------------------------------------------
(* The rate limiter                                                        *)

\* A sequence without its first m elements.
Without1st(log, m) == [n \in 1..(Len(log) - m) |-> log[m + n]]

\* The times of a log never fall, and none is to come.
LogOK(log) ==
    /\ log \in Seq(Nat)
    /\ \A i \in 1..Len(log) : log[i] <= now
    /\ \A i, j \in 1..Len(log) : i <= j => log[i] <= log[j]

\* Of all requests let through, only old ones are forgotten.
Recalls(times, log) ==
    \E m \in 0..Len(log) :
        times = Without1st(log, m) /\ \A i \in 1..m : log[i] <= now - WindowMs

InWindow(log, end) == {i \in DOMAIN log : end - WindowMs < log[i] /\ log[i] <= end}

LimiterInv ==
    /\ now \in 0..MaxNow
    /\ DOMAIN timestamps \subseteq Addresses
    /\ \A a \in DOMAIN timestamps : timestamps[a] # <<>>
    /\ DOMAIN admitted = Addresses
    /\ \A a \in Addresses : LogOK(admitted[a]) /\ Recalls(TimesOf(a), admitted[a])
    /\ AtMostMaxInAnyWindow

LEMMA TailsAreSequences ==
    ASSUME NEW log \in Seq(Nat), NEW m \in 0..Len(log), NEW time \in Nat
    PROVE  /\ Without1st(log, m) \in Seq(Nat) /\ Len(Without1st(log, m)) = Len(log) - m
           /\ Append(Without1st(log, m), time) = Without1st(Append(log, time), m)
<1>1. Len(log) \in Nat /\ Len(log) - m \in Nat /\ \A n \in 1..(Len(log) - m) : m + n \in 1..Len(log)
  OBVIOUS
<1>2. Without1st(log, m) \in [1..(Len(log) - m) -> Nat]
  <2>1. \A n \in 1..(Len(log) - m) : log[m + n] \in Nat
    BY <1>1
  <2> QED
    BY <2>1 DEF Without1st
<1>3. Without1st(log, m) \in Seq(Nat) /\ Len(Without1st(log, m)) = Len(log) - m
  <2> DEFINE tail == Without1st(log, m)
             len == Len(log) - m
  <2>1. len \in Nat /\ tail \in [1..len -> Nat]
    BY <1>1, <1>2
  <2> HIDE DEF tail, len
  <2>2. tail \in Seq(Nat) /\ Len(tail) = len
    BY <2>1
  <2> QED
    BY <2>2 DEF tail, len
<1> DEFINE left == Append(Without1st(log, m), time)
           right == Without1st(Append(log, time), m)
<1>4. /\ Append(log, time) \in Seq(Nat) /\ Len(Append(log, time)) = Len(log) + 1
      /\ \A i \in 1..Len(log) : Append(log, time)[i] = log[i]
      /\ Append(log, time)[Len(log) + 1] = time
  OBVIOUS
<1>5. left \in [1..((Len(log) - m) + 1) -> Nat]
  <2> DEFINE tail == Without1st(log, m)
  <2> HIDE DEF tail
  <2>1. tail \in Seq(Nat) /\ Len(tail) = Len(log) - m
    BY <1>3 DEF tail
  <2>2. Append(tail, time) \in Seq(Nat) /\ Len(Append(tail, time)) = Len(tail) + 1
    BY <2>1
  <2>3. left \in Seq(Nat) /\ Len(left) = (Len(log) - m) + 1
    BY <2>1, <2>2 DEF tail
  <2> HIDE DEF left
  <2> QED
    BY <1>1, <2>3
<1>6. right = [n \in 1..((Len(log) - m) + 1) |-> Append(log, time)[m + n]]
  <2>1. Len(Append(log, time)) - m = (Len(log) - m) + 1
    BY <1>1, <1>4
  <2> QED
    BY <2>1 DEF Without1st
<1>7. ASSUME NEW n \in 1..((Len(log) - m) + 1)
      PROVE  left[n] = right[n]
  <2>1. CASE n \in 1..(Len(log) - m)
    <3>1. left[n] = Without1st(log, m)[n]
      BY <1>1, <1>3, <2>1
    <3>2. Without1st(log, m)[n] = log[m + n]
      BY <2>1 DEF Without1st
    <3>3. right[n] = log[m + n]
      BY <1>1, <1>4, <1>6, <2>1
    <3> QED
      BY <3>1, <3>2, <3>3
  <2>2. CASE n = (Len(log) - m) + 1
    <3>1. left[n] = time
      BY <1>1, <1>3, <2>2
    <3>2. m + n = Len(log) + 1
      BY <1>1, <2>2
    <3> QED
      BY <1>4, <1>6, <3>1, <3>2
  <2>3. n \in 1..(Len(log) - m) \/ n = (Len(log) - m) + 1
    BY <1>1
  <2> QED
    BY <2>1, <2>2, <2>3
<1> HIDE DEF left, right
<1>8. left = right
  BY <1>5, <1>6, <1>7
<1> QED
  BY <1>3, <1>8 DEF left, right

\* The recent ones of the times that are remembered are exactly those of the log.
LEMMA RecentIsExact ==
    ASSUME now \in Nat, NEW log, LogOK(log), NEW times, Recalls(times, log)
    PROVE  \E m \in 0..Len(log) :
              /\ Recent(times) = Without1st(log, m)
              /\ \A i \in 1..m : log[i] <= now - WindowMs
              /\ \A i \in (m + 1)..Len(log) : log[i] > now - WindowMs
<1> DEFINE limit == now - WindowMs
<1>1. limit \in Int /\ Len(log) \in Nat /\ \A i \in 1..Len(log) : log[i] \in Nat
  BY LimiterAssumption DEF LogOK
<1>2. PICK k \in 0..Len(log) : times = Without1st(log, k) /\ \A i \in 1..k : log[i] <= limit
  BY DEF Recalls
<1> DEFINE len == Len(log) - k
<1>3. /\ len \in Nat /\ DOMAIN times = 1..len
      /\ \A i \in 1..len : times[i] = log[k + i] /\ k + i \in 1..Len(log)
  BY <1>1, <1>2 DEF Without1st
<1>4. \A i \in 1..len : times[i] \in Int
  BY <1>1, <1>3
<1>10. \A i, j \in 1..len : i <= j => times[i] <= times[j]
  <2> SUFFICES ASSUME NEW i \in 1..len, NEW j \in 1..len, i <= j
               PROVE  times[i] <= times[j]
    OBVIOUS
  <2>1. k + i <= k + j
    BY <1>1
  <2>2. log[k + i] <= log[k + j]
    BY <1>3, <2>1 DEF LogOK
  <2> QED
    BY <1>3, <2>2
<1> HIDE DEF limit, len
<1>11. len \in Nat /\ limit \in Int /\ DOMAIN times = 1..len
  BY <1>1, <1>3
<1>5. PICK m \in 0..len :
         /\ \A i \in 1..m : times[i] <= limit
         /\ \A i \in (m + 1)..len : times[i] > limit
         /\ Above(times, limit) = Rest(times, len, m)
  BY <1>4, <1>10, <1>11, FilteringSorted
<1>6. k + m \in 0..Len(log) /\ Len(log) - (k + m) = len - m /\ k \in Nat /\ m \in Nat
  BY <1>1 DEF len
<1>7. Recent(times) = Without1st(log, k + m)
  <2>1. \A n \in 1..(len - m) : m + n \in 1..len /\ k + (m + n) = (k + m) + n
    BY <1>3, <1>6
  <2>2. \A n \in 1..(len - m) : times[m + n] = log[(k + m) + n]
    BY <1>3, <2>1
  <2> QED
    BY <1>5, <1>6, <2>2 DEF Recent, Above, Rest, Without1st, limit
<1>8. \A i \in 1..(k + m) : log[i] <= limit
  <2> SUFFICES ASSUME NEW i \in 1..(k + m), ~(i <= k)
               PROVE  log[i] <= limit
    BY <1>1, <1>2, <1>6
  <2>1. i - k \in 1..m /\ i - k \in 1..len /\ k + (i - k) = i
    BY <1>3, <1>6
  <2> QED
    BY <1>3, <1>5, <2>1
<1>9. \A i \in ((k + m) + 1)..Len(log) : log[i] > limit
  <2> SUFFICES ASSUME NEW i \in ((k + m) + 1)..Len(log)
               PROVE  log[i] > limit
    OBVIOUS
  <2>1. i - k \in (m + 1)..len /\ i - k \in 1..len /\ k + (i - k) = i
    BY <1>1, <1>6 DEF len
  <2> QED
    BY <1>3, <1>5, <2>1
<1> QED
  BY <1>6, <1>7, <1>8, <1>9 DEF limit

\* What is forgotten in a cleanup was old.
LEMMA RecentRecalls ==
    ASSUME now \in Nat, NEW log, LogOK(log), NEW times, Recalls(times, log)
    PROVE  Recalls(Recent(times), log)
BY RecentIsExact DEF Recalls

\* What is remembered has the types of what was let through.
LEMMA RecalledTimes ==
    ASSUME NEW log, LogOK(log), NEW times, Recalls(times, log)
    PROVE  times \in Seq(Nat) /\ \A i \in DOMAIN times : times[i] \in Nat /\ times[i] <= now
<1>1. PICK m \in 0..Len(log) : times = Without1st(log, m)
  BY DEF Recalls
<1>2. Len(log) \in Nat /\ Len(log) - m \in Nat
      /\ \A n \in 1..(Len(log) - m) : m + n \in 1..Len(log)
      /\ \A i \in 1..Len(log) : log[i] \in Nat
  BY DEF LogOK
<1>3. times \in [1..(Len(log) - m) -> Nat]
  BY <1>1, <1>2 DEF Without1st
<1>4. times \in Seq(Nat)
  BY <1>2, <1>3
<1>5. \A i \in DOMAIN times : times[i] <= now
  BY <1>1, <1>2 DEF Without1st, LogOK
<1> QED
  BY <1>3, <1>4, <1>5

LEMMA LimiterInitInvariant == LimiterInit => LimiterInv
<1> SUFFICES ASSUME LimiterInit
             PROVE  LimiterInv
  OBVIOUS
<1>1. /\ now = 0 /\ DOMAIN timestamps = {} /\ DOMAIN admitted = Addresses
      /\ \A a \in Addresses : admitted[a] = <<>> /\ TimesOf(a) = <<>>
  BY DEF LimiterInit, TimesOf
<1>2. LogOK(<<>>) /\ Recalls(<<>>, <<>>)
  <2>1. Without1st(<<>>, 0) = <<>>
    BY DEF Without1st
  <2> QED
    BY <2>1 DEF LogOK, Recalls
<1>3. AtMostMaxInAnyWindow
  <2> SUFFICES ASSUME NEW a \in Addresses, NEW end \in 0..now
               PROVE  Cardinality(InWindow(admitted[a], end)) <= MaxRequests
    BY DEF AtMostMaxInAnyWindow, InWindow
  <2>1. InWindow(admitted[a], end) = {}
    BY <1>1 DEF InWindow
  <2> QED
    BY <2>1, FS_EmptySet, LimiterAssumption
<1> QED
  BY <1>1, <1>2, <1>3, LimiterAssumption DEF LimiterInv

\* A request that is let through is remembered, with all that count with it.
LEMMA RequestKeeps ==
    ASSUME LimiterInv, NEW a \in Addresses, Request(a)
    PROVE  LimiterInv'
<1> DEFINE log == admitted[a]
           times == Recent(TimesOf(a))
           map == [b \in DOMAIN timestamps \union {a} |->
                     IF b = a THEN Append(times, now) ELSE timestamps[b]]
           mapped(b) == IF b \in DOMAIN map THEN map[b] ELSE <<>>
<1>1. now \in Nat /\ LogOK(log) /\ Recalls(TimesOf(a), log) /\ Len(log) \in Nat /\ log \in Seq(Nat)
  BY LimiterAssumption DEF LimiterInv, LogOK
<1>2. /\ Len(times) < MaxRequests
      /\ timestamps' \in {map, CleanedUp(map)}
      /\ admitted' = [admitted EXCEPT ![a] = Append(@, now)]
      /\ now' = now
  BY DEF Request
<1>3. PICK m \in 0..Len(log) :
         /\ times = Without1st(log, m)
         /\ \A i \in 1..m : log[i] <= now - WindowMs
         /\ \A i \in (m + 1)..Len(log) : log[i] > now - WindowMs
  BY <1>1, RecentIsExact
<1>4. /\ admitted'[a] = Append(log, now) /\ DOMAIN admitted' = Addresses
      /\ \A b \in Addresses \ {a} : admitted'[b] = admitted[b]
  BY <1>2 DEF LimiterInv
<1>5. LogOK(Append(log, now)) /\ Len(Append(log, now)) = Len(log) + 1
      /\ \A i \in 1..Len(log) : Append(log, now)[i] = log[i]
      /\ Append(log, now)[Len(log) + 1] = now
  <2> DEFINE grown == Append(log, now)
  <2> HIDE DEF log
  <2>1. /\ grown \in Seq(Nat) /\ Len(grown) = Len(log) + 1
        /\ \A i \in 1..Len(log) : grown[i] = log[i] /\ grown[i] <= now
        /\ grown[Len(log) + 1] = now
    BY <1>1 DEF LogOK
  <2> HIDE DEF grown
  <2>2. \A i \in 1..Len(grown) : i \in 1..Len(log) \/ i = Len(log) + 1
    BY <1>1, <2>1
  <2>3. \A i \in 1..Len(grown) : grown[i] <= now
    BY <1>1, <2>1, <2>2
  <2>4. \A i, j \in 1..Len(grown) : i <= j => grown[i] <= grown[j]
    <3> SUFFICES ASSUME NEW i \in 1..Len(grown), NEW j \in 1..Len(grown), i <= j
                 PROVE  grown[i] <= grown[j]
      OBVIOUS
    <3>1. CASE j \in 1..Len(log)
      <4>1. i \in 1..Len(log)
        BY <3>1
      <4> QED
        BY <1>1, <2>1, <3>1, <4>1 DEF LogOK
    <3>2. CASE j = Len(log) + 1
      BY <2>1, <2>3, <3>2
    <3> QED
      BY <2>2, <3>1, <3>2
  <2>5. LogOK(grown)
    BY <2>1, <2>3, <2>4 DEF LogOK
  <2> QED
    BY <2>1, <2>5 DEF grown
<1>6. Recalls(Append(times, now), Append(log, now))
  <2>1. m \in 0..Len(Append(log, now)) /\ \A i \in 1..m : Append(log, now)[i] <= now - WindowMs
    BY <1>1, <1>3, <1>5
  <2>2. Append(times, now) = Without1st(Append(log, now), m)
    BY <1>1, <1>3, TailsAreSequences
  <2> HIDE DEF times, log
  <2> QED
    BY <2>1, <2>2 DEF Recalls
<1>11. times \in Seq(Nat) /\ Len(times) = Len(log) - m
  BY <1>1, <1>3, TailsAreSequences
<1> HIDE DEF log, times
<1>7. /\ DOMAIN map \subseteq Addresses
      /\ \A b \in Addresses : LogOK(admitted'[b]) /\ Recalls(mapped(b), admitted'[b])
      /\ \A b \in DOMAIN map : map[b] # <<>>
  <2>1. Append(times, now) # <<>>
    <3> DEFINE grown == Append(times, now)
    <3>1. Len(grown) = Len(times) + 1 /\ Len(times) \in Nat
      BY <1>1, <1>11
    <3> HIDE DEF grown
    <3>2. Len(grown) # 0
      BY <3>1
    <3>3. Len(<<>>) = 0
      OBVIOUS
    <3>4. grown # <<>>
      BY <3>2, <3>3
    <3> QED
      BY <3>4 DEF grown
  <2>2. ASSUME NEW b \in Addresses
        PROVE  LogOK(admitted'[b]) /\ Recalls(mapped(b), admitted'[b])
    <3>1. CASE b = a
      BY <1>4, <1>5, <1>6, <3>1
    <3>2. CASE b # a
      <4>1. mapped(b) = TimesOf(b) /\ admitted'[b] = admitted[b]
        BY <1>4, <3>2 DEF TimesOf
      <4> QED
        BY <4>1 DEF LimiterInv
    <3> QED
      BY <3>1, <3>2
  <2> QED
    BY <2>1, <2>2 DEF LimiterInv
<1>8. /\ DOMAIN timestamps' \subseteq Addresses
      /\ \A b \in DOMAIN timestamps' : timestamps'[b] # <<>>
      /\ \A b \in Addresses : Recalls(TimesOf(b)', admitted'[b])
  <2>1. CASE timestamps' = map
    BY <1>7, <2>1 DEF TimesOf
  <2>2. CASE timestamps' = CleanedUp(map)
    <3> HIDE DEF map
    <3>1. /\ DOMAIN timestamps' = {b \in DOMAIN map : Recent(map[b]) # <<>>}
          /\ \A b \in DOMAIN timestamps' : timestamps'[b] = Recent(map[b])
      BY <2>2 DEF CleanedUp
    <3>2. ASSUME NEW b \in Addresses
          PROVE  Recalls(TimesOf(b)', admitted'[b])
      <4>1. CASE b \in DOMAIN map
        <5>1. Recalls(Recent(map[b]), admitted'[b])
          BY <1>1, <1>7, <4>1, RecentRecalls
        <5>2. TimesOf(b)' = Recent(map[b])
          BY <3>1, <4>1 DEF TimesOf
        <5> QED
          BY <5>1, <5>2
      <4>2. CASE b \notin DOMAIN map
        <5>1. TimesOf(b)' = <<>>
          BY <3>1, <4>2 DEF TimesOf
        <5> QED
          BY <1>7, <4>2, <5>1
      <4> QED
        BY <4>1, <4>2
    <3> QED
      BY <1>7, <3>1, <3>2
  <2> QED
    BY <1>2, <2>1, <2>2
<1>9. \A b \in Addresses : (LogOK(admitted[b]))' /\ Recalls(TimesOf(b), admitted[b])'
  <2>1. \A b \in Addresses : (LogOK(admitted[b]))'
    BY <1>2, <1>7 DEF LogOK
  <2>2. \A b \in Addresses : Recalls(TimesOf(b), admitted[b])'
    BY <1>2, <1>8 DEF Recalls
  <2> QED
    BY <2>1, <2>2
<1>10. AtMostMaxInAnyWindow'
  <2> SUFFICES ASSUME NEW b \in Addresses, NEW end \in 0..now
               PROVE  Cardinality(InWindow(admitted'[b], end)) <= MaxRequests
    BY <1>2 DEF AtMostMaxInAnyWindow, InWindow
  <2>0. Cardinality(InWindow(admitted[b], end)) <= MaxRequests
    BY DEF LimiterInv, AtMostMaxInAnyWindow, InWindow
  <2>1. CASE b # a
    BY <1>4, <2>0, <2>1
  <2>2. CASE b = a /\ end < now
    <3>1. \A i : i \in InWindow(admitted'[b], end) <=> i \in InWindow(admitted[b], end)
      <4> DEFINE grown == Append(log, now)
      <4>1. admitted'[b] = grown /\ admitted[b] = log
        BY <1>4, <2>2 DEF log
      <4>2. /\ DOMAIN log = 1..Len(log) /\ DOMAIN grown = 1..(Len(log) + 1)
            /\ \A i \in 1..Len(log) : grown[i] = log[i]
            /\ grown[Len(log) + 1] = now
        BY <1>1, <1>5
      <4> HIDE DEF grown
      <4>3. \A i : i \in InWindow(grown, end) <=> i \in InWindow(log, end)
        BY <1>1, <2>2, <4>2 DEF InWindow
      <4> QED
        BY <4>1, <4>3
    <3>2. InWindow(admitted'[b], end) = InWindow(admitted[b], end)
      BY <3>1
    <3> QED
      BY <2>0, <3>2
  <2>3. CASE b = a /\ end = now
    <3>1. \A i : i \in InWindow(Append(log, now), now) <=> i \in (m + 1)..(Len(log) + 1)
      BY <1>1, <1>3, <1>5, LimiterAssumption DEF InWindow, LogOK
    <3>2. InWindow(Append(log, now), now) = (m + 1)..(Len(log) + 1)
      BY <3>1
    <3>3. Cardinality((m + 1)..(Len(log) + 1)) = (Len(log) + 1) - m
      <4>1. m + 1 \in Int /\ Len(log) + 1 \in Int /\ ~(m + 1 > Len(log) + 1) /\ m \in Int
        BY <1>1
      <4> QED
        BY <4>1, FS_Interval
    <3>4. Len(log) + 1 - m = Len(times) + 1
      BY <1>1, <1>11
    <3>5. Cardinality(InWindow(Append(log, now), now)) = Len(times) + 1
      BY <3>2, <3>3, <3>4
    <3>6. Len(times) \in Nat
      BY <1>11
    <3>7. Cardinality(InWindow(admitted'[b], end)) = Len(times) + 1
      BY <1>4, <2>3, <3>5
    <3> QED
      BY <1>2, <3>6, <3>7, LimiterAssumption
  <2> QED
    BY <1>1, <2>1, <2>2, <2>3
<1> QED
  BY <1>2, <1>4, <1>8, <1>9, <1>10 DEF LimiterInv

\* As time passes, windows lose requests.
LEMMA TimePassingKeeps ==
    ASSUME LimiterInv, TimePasses
    PROVE  LimiterInv'
<1>1. now \in Nat /\ now' = now + 1 /\ now' \in 0..MaxNow /\ UNCHANGED <<timestamps, admitted>>
  BY LimiterAssumption DEF LimiterInv, TimePasses
<1>2. \A a \in Addresses : LogOK(admitted[a])' /\ Recalls(TimesOf(a), admitted[a])'
  <2> SUFFICES ASSUME NEW a \in Addresses
               PROVE  LogOK(admitted[a])' /\ Recalls(TimesOf(a), admitted[a])'
    OBVIOUS
  <2>1. LogOK(admitted[a]) /\ Recalls(TimesOf(a), admitted[a]) /\ TimesOf(a)' = TimesOf(a)
    BY <1>1 DEF LimiterInv, TimesOf
  <2>2. LogOK(admitted[a])'
    BY <1>1, <2>1 DEF LogOK
  <2>3. PICK m \in 0..Len(admitted[a]) :
           /\ TimesOf(a) = Without1st(admitted[a], m)
           /\ \A i \in 1..m : admitted[a][i] <= now - WindowMs
    BY <2>1 DEF Recalls
  <2>4. \A i \in 1..m : admitted[a][i] \in Nat
    BY <2>1 DEF LogOK
  <2>5. \A i \in 1..m : admitted[a][i] <= (now + 1) - WindowMs
    BY <1>1, <2>3, <2>4, LimiterAssumption
  <2>6. Recalls(TimesOf(a), admitted[a])'
    BY <1>1, <2>1, <2>3, <2>5 DEF Recalls, Without1st
  <2> QED
    BY <2>2, <2>6
<1>3. AtMostMaxInAnyWindow'
  <2> SUFFICES ASSUME NEW a \in Addresses, NEW end \in 0..(now + 1)
               PROVE  Cardinality(InWindow(admitted[a], end)) <= MaxRequests
    BY <1>1 DEF AtMostMaxInAnyWindow, InWindow
  <2> DEFINE log == admitted[a]
  <2>1. \A e \in 0..now : Cardinality(InWindow(log, e)) <= MaxRequests
    BY DEF LimiterInv, AtMostMaxInAnyWindow, InWindow
  <2>2. LogOK(log)
    BY DEF LimiterInv
  <2> HIDE DEF log
  <2>3. CASE end \in 0..now
    BY <2>1, <2>3 DEF log
  <2>4. CASE end = now + 1
    <3>1. \A i \in InWindow(log, now + 1) : i \in InWindow(log, now)
      BY <1>1, <2>2, LimiterAssumption DEF InWindow, LogOK
    <3>2. InWindow(log, now + 1) \in SUBSET InWindow(log, now)
      BY <3>1
    <3>3. InWindow(log, now) \in SUBSET (1..Len(log)) /\ Len(log) \in Nat
      BY <2>2 DEF InWindow, LogOK
    <3>4. IsFiniteSet(InWindow(log, now))
      <4>1. IsFiniteSet(1..Len(log))
        BY <3>3, FS_Interval
      <4> QED
        BY <3>3, <4>1, FS_Subset
    <3>5. Cardinality(InWindow(log, now + 1)) <= Cardinality(InWindow(log, now))
          /\ IsFiniteSet(InWindow(log, now + 1))
      BY <3>2, <3>4, FS_Subset
    <3>6. Cardinality(InWindow(log, now)) <= MaxRequests
      BY <1>1, <2>1
    <3>7. Cardinality(InWindow(log, now + 1)) \in Nat /\ Cardinality(InWindow(log, now)) \in Nat
      BY <3>4, <3>5, FS_CardinalityType
    <3> QED
      BY <2>4, <3>5, <3>6, <3>7, LimiterAssumption DEF log
  <2> QED
    BY <1>1, <2>3, <2>4
<1> QED
  BY <1>1, <1>2, <1>3 DEF LimiterInv

LEMMA LimiterStepInvariant ==
    ASSUME LimiterInv, [LimiterNext]_limiterVars
    PROVE  LimiterInv'
<1>1. CASE UNCHANGED limiterVars
  BY <1>1 DEF LimiterInv, LogOK, Recalls, TimesOf, AtMostMaxInAnyWindow, limiterVars
<1> QED
  BY <1>1, RequestKeeps, TimePassingKeeps DEF LimiterNext

LEMMA LimiterInvMeans ==
    ASSUME LimiterInv
    PROVE  LimiterTypeOK /\ AtMostMaxInAnyWindow
<1>1. ASSUME NEW a \in DOMAIN timestamps, NEW i \in DOMAIN timestamps[a]
      PROVE  timestamps[a][i] \in 0..now
  <2>1. LogOK(admitted[a]) /\ Recalls(timestamps[a], admitted[a])
    BY DEF LimiterInv, TimesOf
  <2> QED
    BY <2>1, RecalledTimes DEF LimiterInv
<1> QED
  BY <1>1 DEF LimiterInv, LimiterTypeOK

\* No window, wherever it starts, has more requests of an address than the limit,
\* whatever the limiter forgets and whenever it does
\* (rate-limit.middleware.ts:19-64).
THEOREM WindowsAreLimited == LimiterSpec => []AtMostMaxInAnyWindow
<1>1. LimiterInit => LimiterInv
  BY LimiterInitInvariant
<1>2. LimiterInv /\ [LimiterNext]_limiterVars => LimiterInv'
  BY LimiterStepInvariant
<1>3. LimiterInv => AtMostMaxInAnyWindow
  BY LimiterInvMeans
<1> QED
  BY <1>1, <1>2, <1>3, PTL DEF LimiterSpec

-----------------------------------------------------------------------------
(* The changes of a cart                                                   *)

LineType == [foodId : Dishes, quantity : 1..MaxCount]

\* One line for each food.
OneLinePerDish(lines) ==
    \A i, j \in DOMAIN lines : lines[i].foodId = lines[j].foodId => i = j
CartOK(lines) == lines \in Seq(LineType) /\ OneLinePerDish(lines)

ContractInv ==
    /\ CartOK(cartLines) /\ redisValue.items = cartLines
    /\ redisValue.form \in {"none", "array", "object"}
    /\ cartLines # <<>> => redisValue.form = "array"

LEMMA NoLinesAreACart == CartOK(<<>>)
BY DEF CartOK, OneLinePerDish

\* Another quantity for a line, wherever it is.
LEMMA RewrittenIsACart ==
    ASSUME NEW lines, CartOK(lines), NEW dish, NEW count \in 1..MaxCount
    PROVE  CartOK(Rewritten(lines, dish, count))
<1> DEFINE first == First(lines, dish)
           after == [lines EXCEPT ![first].quantity = count]
<1>1. /\ Len(lines) \in Nat /\ DOMAIN lines = 1..Len(lines)
      /\ \A i \in 1..Len(lines) : lines[i] \in LineType
  BY DEF CartOK
<1>2. \A i \in 1..Len(lines) : /\ [lines[i] EXCEPT !.quantity = count] \in LineType
                               /\ [lines[i] EXCEPT !.quantity = count].foodId = lines[i].foodId
  BY <1>1 DEF LineType
<1>3. /\ after \in [1..Len(lines) -> LineType]
      /\ \A i \in 1..Len(lines) : after[i].foodId = lines[i].foodId
  <2> HIDE DEF first
  <2> QED
    BY <1>1, <1>2
<1>4. after \in Seq(LineType) /\ DOMAIN after = DOMAIN lines
  BY <1>1, <1>3
<1> HIDE DEF after
<1>5. OneLinePerDish(after)
  BY <1>1, <1>3, <1>4 DEF CartOK, OneLinePerDish
<1> QED
  BY <1>4, <1>5 DEF CartOK, Rewritten, after

\* A line for a food that had none.
LEMMA AppendedIsACart ==
    ASSUME NEW lines, CartOK(lines), NEW dish \in Dishes, ~Has(lines, dish),
           NEW count \in 1..MaxCount
    PROVE  CartOK(Append(lines, Line(dish, count)))
<1> DEFINE line == Line(dish, count)
           after == Append(lines, line)
<1>1. line \in LineType /\ line.foodId = dish
  BY DEF Line, LineType
<1> HIDE DEF line
<1>2. /\ lines \in Seq(LineType) /\ Len(lines) \in Nat /\ DOMAIN lines = 1..Len(lines)
  BY DEF CartOK
<1>3. /\ after \in Seq(LineType) /\ DOMAIN after = 1..(Len(lines) + 1)
      /\ \A i \in 1..Len(lines) : after[i] = lines[i]
      /\ after[Len(lines) + 1] = line
  BY <1>1, <1>2
<1> HIDE DEF after
<1>4. \A i \in 1..Len(lines) : lines[i].foodId # dish
  BY <1>2 DEF Has
<1>5. OneLinePerDish(after)
  <2> SUFFICES ASSUME NEW i \in 1..(Len(lines) + 1), NEW j \in 1..(Len(lines) + 1),
                      after[i].foodId = after[j].foodId
               PROVE  i = j
    BY <1>3 DEF OneLinePerDish
  <2>1. i \in 1..Len(lines) \/ i = Len(lines) + 1
    BY <1>2
  <2>2. j \in 1..Len(lines) \/ j = Len(lines) + 1
    BY <1>2
  <2>3. CASE i \in 1..Len(lines) /\ j \in 1..Len(lines)
    BY <1>2, <1>3, <2>3 DEF CartOK, OneLinePerDish
  <2> QED
    BY <1>1, <1>3, <1>4, <2>1, <2>2, <2>3
<1> QED
  BY <1>3, <1>5 DEF CartOK, after, line

\* The lines of the other foods.
LEMMA WithoutIsACart ==
    ASSUME NEW lines, CartOK(lines), NEW dish
    PROVE  CartOK(Without(lines, dish))
<1> DEFINE kept == {i \in DOMAIN lines : lines[i].foodId # dish}
           after == AtPositions(lines, kept)
<1>1. /\ lines \in Seq(LineType) /\ Len(lines) \in Nat /\ DOMAIN lines = 1..Len(lines)
      /\ kept \in SUBSET (1..Len(lines))
  BY DEF CartOK
<1> HIDE DEF kept
<1>2. after \in Seq(LineType)
  BY <1>1, AtPositionsIsSeq
<1>3. /\ DOMAIN after = 1..Cardinality(kept)
      /\ \A n \in 1..Cardinality(kept) : \E i \in kept : Rank(kept, i) = n /\ after[n] = lines[i]
  BY <1>1, AtPositionsKeeps
<1> HIDE DEF after
<1>4. OneLinePerDish(after)
  <2> SUFFICES ASSUME NEW n \in 1..Cardinality(kept), NEW o \in 1..Cardinality(kept),
                      after[n].foodId = after[o].foodId
               PROVE  n = o
    BY <1>3 DEF OneLinePerDish
  <2>1. PICK i \in kept : Rank(kept, i) = n /\ after[n] = lines[i]
    BY <1>3
  <2>2. PICK j \in kept : Rank(kept, j) = o /\ after[o] = lines[j]
    BY <1>3
  <2>3. i = j
    BY <1>1, <2>1, <2>2 DEF CartOK, OneLinePerDish
  <2> QED
    BY <2>1, <2>2, <2>3
<1> QED
  BY <1>2, <1>4 DEF CartOK, Without, after, kept

\* Of a cart, cutting out the first line of a food and keeping those of the others is
\* the same.
LEMMA SplicedIsWithout ==
    ASSUME NEW lines, CartOK(lines), NEW dish, Has(lines, dish)
    PROVE  Spliced(lines, dish) = Without(lines, dish)
<1> DEFINE first == First(lines, dish)
<1>1. lines \in Seq(LineType) /\ Len(lines) \in Nat /\ DOMAIN lines = 1..Len(lines)
  BY DEF CartOK
<1>2. PICK i \in DOMAIN lines : lines[i].foodId = dish
  BY DEF Has
<1>3. first \in DOMAIN lines /\ lines[first].foodId = dish
  <2>1. \A j \in 1..(i - 1) : lines[j].foodId # dish
    BY <1>1, <1>2 DEF CartOK, OneLinePerDish
  <2> QED
    BY <1>2, <2>1 DEF First
<1> HIDE DEF first
<1>4. DOMAIN lines \ {first} = {j \in DOMAIN lines : lines[j].foodId # dish}
  BY <1>3 DEF CartOK, OneLinePerDish
<1> QED
  BY <1>4 DEF Spliced, Without, first

\* Rows that come back in another order.
LEMMA ReorderedIsACart ==
    ASSUME NEW items, CartOK(items), NEW lines \in OrdersOf(Range(items))
    PROVE  CartOK(lines)
<1> DEFINE rows == Range(items)
<1>1. /\ DOMAIN items = 1..Len(items) /\ Len(items) \in Nat
      /\ \A i \in 1..Len(items) : items[i] \in LineType
      /\ rows = {items[i] : i \in DOMAIN items}
  BY DEF CartOK, Range
<1>2. IsFiniteSet(rows) /\ Cardinality(rows) \in Nat
  <2>1. items \in Surjection(1..Len(items), rows)
    <3>1. items \in [1..Len(items) -> rows]
      <4>1. items = [i \in 1..Len(items) |-> items[i]]
        BY <1>1 DEF CartOK
      <4> QED
        BY <1>1, <4>1
    <3> QED
      BY <1>1, <3>1 DEF Surjection
  <2>2. IsFiniteSet(1..Len(items))
    BY <1>1, FS_Interval
  <2> QED
    BY <2>1, <2>2, FS_Surjection, FS_CardinalityType
<1> HIDE DEF rows
<1>3. lines \in [1..Cardinality(rows) -> rows] /\ {lines[n] : n \in DOMAIN lines} = rows
  BY DEF OrdersOf, Range, rows
<1>4. /\ lines \in [1..Cardinality(rows) -> LineType] /\ DOMAIN lines = 1..Cardinality(rows)
      /\ rows \subseteq LineType
  BY <1>1, <1>3
<1>5. lines \in Seq(LineType)
  BY <1>2, <1>4
<1>6. \A n, o \in 1..Cardinality(rows) : lines[n] = lines[o] => n = o
  <2>1. lines \in Surjection(1..Cardinality(rows), rows)
    BY <1>3, <1>4 DEF Surjection
  <2>2. IsFiniteSet(1..Cardinality(rows)) /\ Cardinality(1..Cardinality(rows)) = Cardinality(rows)
    BY <1>2, FS_Interval
  <2>3. lines \in Injection(1..Cardinality(rows), rows)
    BY <2>1, <2>2, FS_Surjection
  <2> QED
    BY <2>3, <1>4 DEF Injection, IsInjective
<1>7. \A r, q \in rows : r.foodId = q.foodId => r = q
  BY <1>1 DEF CartOK, OneLinePerDish
<1>8. OneLinePerDish(lines)
  BY <1>3, <1>4, <1>6, <1>7 DEF OneLinePerDish
<1> QED
  BY <1>5, <1>8 DEF CartOK

LEMMA ContractInitInvariant == ContractInit => ContractInv
BY NoLinesAreACart DEF ContractInit, ContractInv, NoKey

\* Both implementations come to the same cart, or both leave theirs alone.
LEMMA SameChangeKeeps ==
    ASSUME ContractInv, NEW lines, CartOK(lines),
           \/ Change({lines}, {Array(lines)})
           \/ Change({lines}, {Encoded(lines)})
           \/ Change({}, {})
    PROVE  ContractInv'
<1>1. CASE Change({}, {})
  <2>1. cartLines' = cartLines /\ redisValue' = redisValue
    BY <1>1 DEF Change
  <2> QED
    BY <2>1 DEF ContractInv, CartOK, OneLinePerDish
<1>2. CASE Change({lines}, {Array(lines)}) \/ Change({lines}, {Encoded(lines)})
  <2>1. cartLines' = lines /\ redisValue' \in {Array(lines), Encoded(lines)}
    BY <1>2 DEF Change
  <2>2. /\ redisValue'.items = lines /\ redisValue'.form \in {"array", "object"}
        /\ lines # <<>> => redisValue'.form = "array"
    BY <2>1 DEF Array, Encoded
  <2> QED
    BY <2>1, <2>2 DEF ContractInv, CartOK, OneLinePerDish
<1> QED
  BY <1>1, <1>2

LEMMA ContractStepInvariant ==
    ASSUME ContractInv, [ContractNext]_contractVars
    PROVE  ContractInv'
<1>1. CartOK(cartLines) /\ redisValue.items = cartLines /\ (redisValue = NoKey => cartLines = <<>>)
  BY DEF ContractInv, NoKey
<1>2. \A dish : Has(cartLines, dish) => redisValue # NoKey
  BY <1>1 DEF Has
<1>3. CASE ClearDishes
  BY <1>3, NoLinesAreACart, SameChangeKeeps DEF ClearDishes
<1>4. CASE ThroughDatabase
  <2>1. PICK lines \in OrdersOf(Range(cartLines)) : Change({lines}, {Array(lines)})
    BY <1>1, <1>4 DEF ThroughDatabase, RowsOf
  <2> QED
    BY <1>1, <2>1, ReorderedIsACart, SameChangeKeeps
<1>5. ASSUME NEW dish \in Dishes, RemoveDish(dish)
      PROVE  ContractInv'
  <2>1. CASE Has(cartLines, dish)
    <3>1. Change({Without(cartLines, dish)}, {Encoded(Without(cartLines, dish))})
      BY <1>1, <1>2, <1>5, <2>1, SplicedIsWithout DEF RemoveDish, ServiceRemove, LuaRemove
    <3> QED
      BY <1>1, <3>1, WithoutIsACart, SameChangeKeeps
  <2>2. CASE ~Has(cartLines, dish)
    <3>1. Change({}, {})
      BY <1>1, <1>5, <2>2 DEF RemoveDish, ServiceRemove, LuaRemove
    <3> QED
      BY <1>1, <3>1, SameChangeKeeps
  <2> QED
    BY <2>1, <2>2
<1>6. ASSUME NEW dish \in Dishes, NEW count \in Addable, AddDish(dish, count)
      PROVE  ContractInv'
  <2>1. count \in 1..MaxCount
    BY DEF Addable
  <2>2. CASE Has(cartLines, dish)
    <3> DEFINE after == Rewritten(cartLines, dish, Quantity(cartLines, dish) + count)
    <3>1. Quantity(cartLines, dish) + count \in 1..MaxCount
      <4>1. Quantity(cartLines, dish) \in 1..MaxCount
        <5> DEFINE line == CHOOSE l \in Range(cartLines) : l.foodId = dish
        <5>1. \E l \in Range(cartLines) : l.foodId = dish
          BY <2>2 DEF Has, Range
        <5>2. line \in Range(cartLines)
          BY <5>1
        <5>3. Range(cartLines) \subseteq LineType
          BY <1>1 DEF CartOK, Range
        <5> QED
          BY <5>2, <5>3 DEF Quantity, LineType
      <4>2. Quantity(cartLines, dish) + count <= MaxCount
        BY <1>6, <2>2 DEF AddDish
      <4> QED
        BY <2>1, <4>1, <4>2, CountAssumption
    <3>2. Change({after}, {Encoded(after)})
      BY <1>1, <1>6, <2>2 DEF AddDish, ServiceAdd, LuaAdd
    <3> QED
      BY <1>1, <3>1, <3>2, RewrittenIsACart, SameChangeKeeps
  <2>3. CASE ~Has(cartLines, dish)
    <3> DEFINE after == Append(cartLines, Line(dish, count))
    <3>1. Change({after}, {Encoded(after)})
      BY <1>1, <1>6, <2>3 DEF AddDish, ServiceAdd, LuaAdd
    <3> QED
      BY <1>1, <2>1, <2>3, <3>1, AppendedIsACart, SameChangeKeeps
  <2> QED
    BY <2>2, <2>3
<1>7. ASSUME NEW dish \in Dishes, NEW count \in Updatable, UpdateDish(dish, count)
      PROVE  ContractInv'
  <2>1. CASE ~Has(cartLines, dish)
    <3>1. Change({}, {})
      BY <1>1, <1>7, <2>1 DEF UpdateDish, ServiceUpdate, LuaUpdate
    <3> QED
      BY <1>1, <3>1, SameChangeKeeps
  <2>2. CASE Has(cartLines, dish) /\ count = 0
    <3>1. Spliced(cartLines, dish) = Without(cartLines, dish)
      BY <1>1, <2>2, SplicedIsWithout
    <3>2. count <= 0 /\ redisValue # NoKey /\ Has(redisValue.items, dish)
      BY <1>1, <1>2, <2>2
    <3>3. Change({Without(cartLines, dish)}, {Encoded(Without(cartLines, dish))})
      BY <1>1, <1>7, <2>2, <3>1, <3>2 DEF UpdateDish, ServiceUpdate, LuaUpdate
    <3> QED
      BY <1>1, <3>3, WithoutIsACart, SameChangeKeeps
  <2>3. CASE Has(cartLines, dish) /\ count # 0
    <3> DEFINE after == Rewritten(cartLines, dish, count)
    <3>1. count \in 1..MaxCount /\ ~(count <= 0)
      BY <1>7, <2>3, CountAssumption DEF Updatable
    <3>2. Change({after}, {Encoded(after)})
      BY <1>1, <1>2, <1>7, <2>3, <3>1 DEF UpdateDish, ServiceUpdate, LuaUpdate
    <3> QED
      BY <1>1, <3>1, <3>2, RewrittenIsACart, SameChangeKeeps
  <2> QED
    BY <2>1, <2>2, <2>3
<1>8. CASE UNCHANGED contractVars
  BY <1>8 DEF ContractInv, CartOK, OneLinePerDish, contractVars
<1> QED
  BY <1>3, <1>4, <1>5, <1>6, <1>7, <1>8 DEF ContractNext

\* On a cart the functions return what the service does, or nothing.
LEMMA FunctionsAgree ==
    ASSUME NEW lines, CartOK(lines), NEW dish, NEW count
    PROVE  /\ RemoveItemFromCart(lines, dish) = ServiceRemove(lines, dish)
           /\ AddItemToCart(lines, dish, count) \subseteq ServiceAdd(lines, dish, count)
           /\ UpdateItemInCart(lines, dish, count) \subseteq ServiceUpdate(lines, dish, count)
<1>1. RemoveItemFromCart(lines, dish) = ServiceRemove(lines, dish)
  BY SplicedIsWithout DEF RemoveItemFromCart, ServiceRemove
<1>2. AddItemToCart(lines, dish, count) \subseteq ServiceAdd(lines, dish, count)
  BY DEF AddItemToCart, ServiceAdd
<1>3. UpdateItemInCart(lines, dish, count) \subseteq ServiceUpdate(lines, dish, count)
  BY DEF UpdateItemInCart, ServiceUpdate
<1> QED
  BY <1>1, <1>2, <1>3

LEMMA ContractInvMeans ==
    ASSUME ContractInv
    PROVE  ContractTypeOK /\ CartOpsAgree
<1>1. \A i \in DOMAIN cartLines : cartLines[i].quantity > 0
  <2>1. \A i \in DOMAIN cartLines : cartLines[i] \in LineType
    BY DEF ContractInv, CartOK
  <2> QED
    BY <2>1, CountAssumption DEF LineType
<1>2. ContractTypeOK
  BY DEF ContractInv, CartOK, LineType, ContractTypeOK
<1>3. CartOK(cartLines) /\ redisValue.items = cartLines
  BY DEF ContractInv
<1>4. cartLines # <<>> => ValidateRedisCart(redisValue)
  BY <1>1 DEF ContractInv, ValidateRedisCart
<1> QED
  BY <1>2, <1>3, <1>4, FunctionsAgree DEF CartOK, OneLinePerDish, CartOpsAgree

\* However many changes are made and in whatever order, the service and the scripts
\* hold the same lines, one for each food, the validator takes what the scripts wrote,
\* and the functions do the same or throw (cart.service.ts:117-288,
\* cart-add.lua:26-53, cart-update.lua:28-56, cart-remove.lua:24-44,
\* mutations.ts:11-84, types.ts:25-67).
THEOREM ImplementationsAgree == ContractSpec => []CartOpsAgree
<1>1. ContractInit => ContractInv
  BY ContractInitInvariant
<1>2. ContractInv /\ [ContractNext]_contractVars => ContractInv'
  BY ContractStepInvariant
<1>3. ContractInv => CartOpsAgree
  BY ContractInvMeans
<1> QED
  BY <1>1, <1>2, <1>3, PTL DEF ContractSpec

-----------------------------------------------------------------------------
(* All services                                                            *)

\* The carts a run of the sync holds are carts Redis had.
KeyType == [change : 0..MaxChanges, updatedAt : 0..MaxClock,
            lines : {"none", "some", "empty", "invalid"}]
RunType == [pc : {"idle", "started"} \union Holding \union Written, cart : KeyType,
            before : Int, success : BOOLEAN]

SyncTypes ==
    /\ redisCart \in KeyType /\ sync \in RunType /\ dbChange \in 0..MaxChanges
    /\ dirty \in BOOLEAN /\ unmarked \in BOOLEAN /\ disturbed \in BOOLEAN

LEMMA FirstKeysHaveTypes == NoKeyCart \in KeyType /\ NoRun \in RunType /\ NoVersion \in Int
<1>1. 0 \in 0..MaxChanges /\ 0 \in 0..MaxClock
  BY SyncAssumption
<1>2. NoKeyCart \in KeyType
  BY <1>1 DEF NoKeyCart, KeyType
<1> QED
  BY <1>2 DEF NoRun, NoVersion, RunType

LEMMA SyncTypesInit == SyncInit => SyncTypes
<1>1. 0 \in 0..MaxChanges
  BY SyncAssumption
<1> QED
  BY <1>1, FirstKeysHaveTypes DEF SyncInit, SyncTypes

\* A step of the run that ends it or takes it on with a cart it may hold.
LEMMA RunsAreTyped ==
    ASSUME NEW pc \in {"read", "clearing", "versioned", "written", "unchanged", "ended"},
           NEW cart \in KeyType, NEW before \in Int, NEW success \in BOOLEAN,
           Run(pc, cart, before, success)
    PROVE  sync' \in RunType
BY DEF Run, RunType, Holding, Written

LEMMA SyncTypesStep ==
    ASSUME SyncTypes, [SyncNext]_syncVars
    PROVE  SyncTypes'
<1> USE FirstKeysHaveTypes DEF SyncTypes
<1>1. /\ \A read \in Reads : read \in KeyType /\ VersionOf(read) \in Int
      /\ sync.cart \in KeyType /\ sync.before \in Int /\ sync.success \in BOOLEAN
      /\ sync.cart.change \in 0..MaxChanges
  BY DEF Reads, VersionOf, KeyType, RunType
<1>2. CASE ChangeCartKey
  <2>1. PICK at \in redisCart.updatedAt..MaxClock, lines \in {"some", "empty", "invalid"} :
          redisCart' = [change |-> redisCart.change + 1, updatedAt |-> at, lines |-> lines]
    BY <1>2 DEF ChangeCartKey
  <2>2. redisCart.change + 1 \in 0..MaxChanges /\ at \in 0..MaxClock
    BY <1>2, SyncAssumption DEF ChangeCartKey, KeyType
  <2>3. redisCart' \in KeyType
    BY <2>1, <2>2 DEF KeyType
  <2> QED
    BY <1>2, <2>3 DEF ChangeCartKey
<1>3. CASE MarkDirty \/ KeyExpires
  <2>1. redisCart' \in KeyType
    BY <1>3 DEF MarkDirty, KeyExpires, KeyType
  <2> QED
    BY <1>3, <2>1 DEF MarkDirty, KeyExpires
<1>4. CASE StartSync
  <2>1. sync' \in RunType
    BY <1>4 DEF StartSync, RunType
  <2> QED
    BY <1>4, <2>1 DEF StartSync
<1>5. CASE ReadCartKey
  <2>1. sync' \in RunType /\ disturbed' \in BOOLEAN
    BY <1>1, <1>5, RunsAreTyped DEF ReadCartKey, Hidden
  <2> QED
    BY <1>5, <2>1 DEF ReadCartKey
<1>6. CASE ReadVersion
  <2>1. sync' \in RunType /\ disturbed' \in BOOLEAN
    BY <1>1, <1>6, RunsAreTyped DEF ReadVersion, Hidden
  <2> QED
    BY <1>6, <2>1 DEF ReadVersion
<1>7. CASE WriteRows
  <2>1. sync' \in RunType /\ dbChange' \in 0..MaxChanges
    BY <1>1, <1>7, RunsAreTyped DEF WriteRows
  <2> QED
    BY <1>7, <2>1 DEF WriteRows
<1>8. CASE ReadVersionAgain
  <2>1. sync' \in RunType
    BY <1>1, <1>8, RunsAreTyped DEF ReadVersionAgain
  <2> QED
    BY <1>8, <2>1 DEF ReadVersionAgain
<1>9. CASE RemoveMarkSafely
  <2>1. sync' \in RunType
    BY <1>9 DEF RemoveMarkSafely, RunType, Written
  <2> QED
    BY <1>9, <2>1 DEF RemoveMarkSafely, RemoveMark
<1>10. CASE EndSync
  BY <1>10 DEF EndSync, RemoveMark
<1>11. CASE UNCHANGED syncVars
  BY <1>11 DEF syncVars
<1> QED
  BY <1>2, <1>3, <1>4, <1>5, <1>6, <1>7, <1>8, <1>9, <1>10, <1>11 DEF SyncNext

LEMMA FoodInvMeans ==
    ASSUME FoodInv
    PROVE  FoodTypeOK
BY PricesAssumption DEF FoodInv, TableInv, PagesInv, SavesInv, SaveType, Food, FoodTypeOK

\* Each service keeps its invariant by its own steps, and stays as it is by those of
\* the others.
ServicesInv ==
    /\ AccountInv /\ FoodInv /\ LimiterInv /\ GatewayInv /\ ContractInv
    /\ SyncInv /\ SyncTypes

LEMMA ServicesStepInvariant ==
    ASSUME ServicesInv, [Next]_<<focus, servicesVars>>
    PROVE  ServicesInv'
<1>1. /\ [AccountNext]_accountVars /\ [FoodNext]_foodVars /\ [LimiterNext]_limiterVars
      /\ [GatewayNext]_gatewayVars /\ [ContractNext]_contractVars /\ [SyncNext]_syncVars
  BY DEF Next, servicesVars
<1> QED
  BY <1>1, AccountStepInvariant, FoodStepInvariant, LimiterStepInvariant,
     GatewayStepInvariant, ContractStepInvariant, SyncStepInvariant, SyncTypesStep
     DEF ServicesInv

\* All services are well formed.
THEOREM ServicesInvariant == ServicesSpec => []ServicesInv
<1>1. Init => ServicesInv
  BY AccountInitInvariant, FoodInitInvariant, LimiterInitInvariant, GatewayInitInvariant,
     ContractInitInvariant, SyncInitInvariant, SyncTypesInit DEF Init, ServicesInv
<1>2. ServicesInv /\ [Next]_<<focus, servicesVars>> => ServicesInv'
  BY ServicesStepInvariant
<1> QED
  BY <1>1, <1>2, PTL DEF ServicesSpec

\* The state of the services keeps its types.
THEOREM ServicesTypes == ServicesSpec => []ServicesTypeOK
<1>1. ServicesInv => ServicesTypeOK
  <2> SUFFICES ASSUME ServicesInv
               PROVE  ServicesTypeOK
    OBVIOUS
  <2>1. GatewayTypeOK
    BY DEF ServicesInv, GatewayInv, GatewayTypeOK, CallType, EffectType
  <2>2. SyncTypeOK
    BY DEF ServicesInv, SyncTypes, SyncTypeOK, KeyType, RunType, Holding, Written
  <2> QED
    BY <2>1, <2>2, FoodInvMeans, LimiterInvMeans, ContractInvMeans
       DEF ServicesInv, AccountInv, ServicesTypeOK
<1> QED
  BY <1>1, ServicesInvariant, PTL
=============================================================================

--------------------------- MODULE FrontendProofs ---------------------------
(***************************************************************************)
(* For any tabs, calls, foods, orders and bounds: the safety properties of *)
(* the browser's machines, first of each on its own and then of all side   *)
(* by side.                                                                *)
(***************************************************************************)
EXTENDS MCFrontend, FilteringProofs, FiniteSetTheorems, TLAPS

-----------------------------------------------------------------------------
(* The session of a tab                                                    *)

AuthSlice == [user : {"undefined", "null", "loaded"}, isAuthenticated : BOOLEAN,
              loading : BOOLEAN]
TokenPair == [access : Token, refresh : Token]
ServerTokens == [granted : Token, access : SUBSET Token, refresh : SUBSET Token]

LEMMA SessionTypesAre ==
    SessionTypeOK <=>
        /\ stored \in TokenPair /\ auth \in AuthSlice /\ tokens \in ServerTokens
        /\ isRefreshing \in BOOLEAN /\ loginLoading \in BOOLEAN
        /\ failedQueue \subseteq Calls /\ calls \in [Calls -> Call]
BY DEF SessionTypeOK, TokenPair, AuthSlice, ServerTokens

Refreshers == InState("refreshing") \union InState("refreshed")

\* A refresh is under way exactly when isRefreshing says so, and there is one.
RefresherOK ==
    /\ isRefreshing <=> Refreshers # {}
    /\ \A c, d \in Refreshers : c = d

\* A call that has refreshed is marked, and only calls that are not marked refresh.
RetryOK ==
    \A c \in Calls : /\ calls[c].refreshes <= 1
                     /\ ~calls[c].retry => calls[c].refreshes = 0

SessionInv ==
    SessionTypeOK /\ RefresherOK /\ NoCallIsStranded /\ RetryOK /\ LoadingHasACall

LEMMA SessionInitInvariant == SessionInit => SessionInv
<1> SUFFICES ASSUME SessionInit
             PROVE  SessionInv
  OBVIOUS
<1> USE DEF SessionInit
<1>1. FreeCall \in Call
  BY MaxGrantsAssumption DEF FreeCall, Call, Kind, Token, NoToken
<1>2. SessionTypeOK
  <2>1. stored \in TokenPair
    BY MaxGrantsAssumption DEF Token, NoToken, Empty, TokenPair, AuthSlice, ServerTokens
  <2>2. tokens \in ServerTokens
    BY MaxGrantsAssumption DEF Token, NoToken, ServerTokens
  <2>3. calls \in [Calls -> Call]
    BY <1>1
  <2> QED
    BY <2>1, <2>2, <2>3 DEF SessionTypeOK, TokenPair, AuthSlice, ServerTokens
<1>3. RefresherOK /\ NoCallIsStranded
  BY DEF RefresherOK, Refreshers, NoCallIsStranded, InState, FreeCall
<1>4. RetryOK /\ LoadingHasACall
  BY DEF RetryOK, LoadingHasACall, FreeCall, Empty
<1> QED
  BY <1>2, <1>3, <1>4 DEF SessionInv

\* A call is sent, or answered by the server: nothing of the tab changes but that
\* call, and the spinner of a login that starts.
CallMoves(c, new) ==
    /\ new \in Call /\ new.pc # "free"
    /\ calls' = [calls EXCEPT ![c] = new]
    /\ calls[c].pc = "free" \/ new.kind = calls[c].kind
    /\ new.pc = "queued" <=> calls[c].pc = "queued"
    /\ new.pc \in {"refreshing", "refreshed"} <=> calls[c].pc \in {"refreshing", "refreshed"}
    /\ new.refreshes <= 1 /\ (~new.retry => new.refreshes = 0)
    /\ UNCHANGED <<stored, isRefreshing, failedQueue>>
    /\ tokens' \in ServerTokens
    /\ \/ UNCHANGED <<auth, loginLoading>>
       \/ /\ new.kind = "login" /\ loginLoading' = TRUE
          /\ auth' = [auth EXCEPT !.loading = TRUE]

LEMMA CallMovesKeeps ==
    ASSUME SessionInv, NEW c \in Calls, NEW new, CallMoves(c, new)
    PROVE  SessionInv'
<1>1. /\ calls \in [Calls -> Call] /\ calls' \in [Calls -> Call]
      /\ calls'[c] = new
      /\ \A d \in Calls : d # c => calls'[d] = calls[d]
  BY DEF SessionInv, CallMoves, SessionTypeOK
<1>2. UNCHANGED <<stored, isRefreshing, failedQueue>>
  BY DEF CallMoves
<1>3. SessionTypeOK'
  BY <1>1, <1>2 DEF SessionInv, CallMoves, SessionTypeOK, TokenPair, AuthSlice, ServerTokens
<1>4. Refreshers' = Refreshers /\ InState("queued")' = InState("queued")
  BY <1>1 DEF Refreshers, InState, CallMoves
<1>5. RefresherOK' /\ NoCallIsStranded'
  BY <1>2, <1>4 DEF SessionInv, RefresherOK, NoCallIsStranded
<1>6. RetryOK'
  BY <1>1 DEF SessionInv, RetryOK, CallMoves
<1>7. LoadingHasACall'
  BY <1>1 DEF SessionInv, LoadingHasACall, SessionTypeOK, CallMoves
<1> QED
  BY <1>3, <1>5, <1>6, <1>7 DEF SessionInv

\* A step of the user or the server that only moves one call.
LEMMA MovesOfOneCall ==
    ASSUME SessionInv, NEW c \in Calls,
           \/ CallApi(c) \/ SubmitLogin(c) \/ SubmitLogout(c) \/ ServerStep(c)
    PROVE  SessionInv'
<1> USE DEF SessionInv, SessionTypeOK, RetryOK, TokenPair, AuthSlice, ServerTokens
<1>1. /\ calls \in [Calls -> Call] /\ calls[c] \in Call
      /\ NoToken \in Token /\ stored.access \in Token
  BY MaxGrantsAssumption DEF Token, NoToken
<1>2. ASSUME NEW kind \in Kind
      PROVE  /\ NewCall(kind, stored.access) \in Call
             /\ NewCall(kind, stored.access).pc = "sent"
             /\ NewCall(kind, stored.access).kind = kind
             /\ NewCall(kind, stored.access).refreshes = 0
             /\ NewCall(kind, stored.access).answer = "none"
  <2> DEFINE call == [FreeCall EXCEPT !.kind = kind]
  <2>1. FreeCall \in Call /\ FreeCall.refreshes = 0
    BY <1>1 DEF FreeCall, Call, Kind
  <2>2. call \in Call /\ call.refreshes = 0 /\ call.kind = kind
    BY <2>1 DEF Call
  <2>3. NewCall(kind, stored.access) = Sent(call, stored.access)
    BY DEF NewCall
  <2> HIDE DEF call
  <2> QED
    BY <1>1, <2>2, <2>3 DEF Sent, Call
<1>3. CASE CallApi(c)
  <2>1. CallMoves(c, NewCall("api", stored.access))
    BY <1>1, <1>2, <1>3 DEF CallMoves, CallApi, Kind
  <2> QED
    BY <2>1, CallMovesKeeps
<1>4. CASE SubmitLogin(c)
  <2>1. CallMoves(c, NewCall("login", stored.access))
    <3> DEFINE new == NewCall("login", stored.access)
    <3>1. /\ new \in Call /\ new.pc = "sent" /\ new.kind = "login"
          /\ new.refreshes = 0 /\ new.answer = "none"
      BY <1>2 DEF Kind
    <3> HIDE DEF new
    <3>2. /\ calls[c].pc = "free"
          /\ calls' = [calls EXCEPT ![c] = new]
          /\ loginLoading' = TRUE /\ auth' = [auth EXCEPT !.loading = TRUE]
          /\ UNCHANGED <<stored, isRefreshing, failedQueue, tokens>>
      BY <1>4 DEF SubmitLogin, new
    <3>3. CallMoves(c, new)
      BY <1>1, <3>1, <3>2 DEF CallMoves
    <3> QED
      BY <3>3 DEF new
  <2> QED
    BY <2>1, CallMovesKeeps
<1>5. CASE SubmitLogout(c)
  <2>1. CallMoves(c, NewCall("logout", stored.access))
    BY <1>1, <1>2, <1>5 DEF CallMoves, SubmitLogout, Kind
  <2> QED
    BY <2>1, CallMovesKeeps
<1>6. ASSUME tokens.granted < MaxGrants, tokens' = Grant
      PROVE  /\ tokens' \in ServerTokens
             /\ tokens'.granted \in Token
  BY <1>6, MaxGrantsAssumption DEF Grant, Token, NoToken, ServerTokens
<1>7. ASSUME NEW answer \in {"ok", "unauthorized", "failed"}, NEW token \in Token,
             calls[c].pc = "sent", Answered(c, answer, token),
             UNCHANGED <<stored, auth, isRefreshing, failedQueue, loginLoading>>,
             tokens' \in ServerTokens
      PROVE  SessionInv'
  <2> DEFINE new == [calls[c] EXCEPT !.pc = "answered", !.answer = answer, !.token = token]
  <2>1. /\ new \in Call /\ new.pc = "answered" /\ new.kind = calls[c].kind
        /\ new.answer = answer /\ new.token = token
        /\ new.retry = calls[c].retry /\ new.refreshes = calls[c].refreshes
    BY <1>1 DEF Call
  <2>2. calls' = [calls EXCEPT ![c] = new]
    BY <1>7, <1>1 DEF Answered
  <2> HIDE DEF new
  <2>3. CallMoves(c, new)
    BY <1>1, <1>7, <2>1, <2>2 DEF CallMoves
  <2> QED
    BY <2>3, CallMovesKeeps
<1>8. CASE ServerAccepts(c)
  BY <1>1, <1>6, <1>7, <1>8 DEF ServerAccepts, Call
<1>9. CASE ServerRefuses(c)
  BY <1>1, <1>7, <1>9 DEF ServerRefuses, Call
<1>10. CASE CallFails(c)
  BY <1>1, <1>7, <1>10 DEF CallFails, Call
<1>11. ASSUME NEW new, new \in Call, new.pc = "refreshed", new.kind = calls[c].kind,
              new.retry = calls[c].retry, new.refreshes = calls[c].refreshes,
              calls[c].pc = "refreshing", calls' = [calls EXCEPT ![c] = new],
              UNCHANGED <<stored, auth, isRefreshing, failedQueue, loginLoading>>,
              tokens' \in ServerTokens
       PROVE  SessionInv'
  <2>1. CallMoves(c, new)
    BY <1>1, <1>11 DEF CallMoves
  <2> QED
    BY <2>1, CallMovesKeeps
<1>12. CASE ServerRefreshes(c)
  <2> DEFINE new == [calls[c] EXCEPT !.pc = "refreshed", !.answer = "ok",
                                     !.token = tokens'.granted]
  <2>1. /\ new \in Call /\ new.pc = "refreshed" /\ new.kind = calls[c].kind
        /\ new.retry = calls[c].retry /\ new.refreshes = calls[c].refreshes
    BY <1>1, <1>6, <1>12 DEF Call, ServerRefreshes
  <2>2. calls' = [calls EXCEPT ![c] = new]
    BY <1>12, <1>1 DEF ServerRefreshes
  <2> HIDE DEF new
  <2> QED
    BY <1>6, <1>11, <1>12, <2>1, <2>2 DEF ServerRefreshes
<1>13. CASE RefreshFails(c)
  <2> DEFINE new == [calls[c] EXCEPT !.pc = "refreshed", !.answer = "failed"]
  <2>1. /\ new \in Call /\ new.pc = "refreshed" /\ new.kind = calls[c].kind
        /\ new.retry = calls[c].retry /\ new.refreshes = calls[c].refreshes
        /\ new.answer = "failed"
    BY <1>1 DEF Call
  <2>2. calls' = [calls EXCEPT ![c] = new]
    BY <1>13, <1>1 DEF RefreshFails
  <2> HIDE DEF new
  <2> QED
    BY <1>11, <1>13, <2>1, <2>2 DEF RefreshFails
<1> QED
  BY <1>3, <1>4, <1>5, <1>8, <1>9, <1>10, <1>12, <1>13 DEF ServerStep

LEMMA FreeCallIsACall ==
    /\ FreeCall \in Call
    /\ FreeCall.pc = "free" /\ FreeCall.refreshes = 0 /\ FreeCall.answer = "none"
BY MaxGrantsAssumption DEF FreeCall, Call, Kind, Token, NoToken

\* Calls that settle leave the others as they are.
LEMMA FreeLeavesOthers ==
    ASSUME SessionTypeOK, NEW cs \in SUBSET Calls, calls' = Free(cs)
    PROVE  /\ calls' \in [Calls -> Call]
           /\ \A d \in cs : calls'[d] = FreeCall
           /\ \A d \in Calls \ cs : calls'[d] = calls[d]
BY FreeCallIsACall DEF SessionTypeOK, Free

\* An answer is handled: its call settles, and it is the page's affair what becomes of
\* the tokens and of the spinners.
LEMMA AnswerHandled ==
    ASSUME SessionInv, NEW c \in Calls, calls[c].pc = "answered", calls' = Free({c}),
           UNCHANGED <<isRefreshing, failedQueue, tokens>>,
           stored' \in TokenPair,
           auth' \in AuthSlice,
           loginLoading' \in BOOLEAN,
           auth'.loading =>
              auth.loading /\ ~(calls[c].kind \in {"login", "profile"}),
           loginLoading' => loginLoading /\ calls[c].kind # "login"
    PROVE  SessionInv'
<1>1. /\ calls' \in [Calls -> Call]
      /\ calls'[c] = FreeCall
      /\ \A d \in Calls : d # c => calls'[d] = calls[d]
  BY FreeLeavesOthers DEF SessionInv
<1>2. SessionTypeOK'
  BY <1>1 DEF SessionInv, SessionTypeOK, TokenPair, AuthSlice, ServerTokens
<1>3. Refreshers' = Refreshers /\ InState("queued")' = InState("queued")
  BY <1>1, FreeCallIsACall DEF Refreshers, InState
<1>4. RefresherOK' /\ NoCallIsStranded'
  BY <1>3 DEF SessionInv, RefresherOK, NoCallIsStranded
<1>5. RetryOK'
  <2>1. calls'[c].refreshes <= 1 /\ calls'[c].refreshes = 0
    BY <1>1, FreeCallIsACall
  <2> QED
    BY <1>1, <2>1 DEF SessionInv, RetryOK
<1>6. LoadingHasACall'
  BY <1>1 DEF SessionInv, LoadingHasACall
<1> QED
  BY <1>2, <1>4, <1>5, <1>6 DEF SessionInv

LEMMA SettlingStepsKeep ==
    ASSUME SessionInv, NEW c \in Calls,
           HandleSuccess(c) \/ HandleFailure(c) \/ NothingToRefresh(c)
    PROVE  SessionInv'
<1>1. /\ calls[c] \in Call /\ Empty \in TokenPair
      /\ Empty.access = NoToken
      /\ stored \in TokenPair
      /\ auth \in AuthSlice
      /\ loginLoading \in BOOLEAN
  BY MaxGrantsAssumption DEF SessionInv, SessionTypeOK, Empty, Token, NoToken, TokenPair, AuthSlice, ServerTokens
<1>2. calls[c].kind \in Kind /\ calls[c].token \in Token
  BY <1>1 DEF Call
<1>3. CASE HandleSuccess(c)
  <2>1. /\ calls[c].pc = "answered" /\ calls[c].answer = "ok" /\ calls' = Free({c})
        /\ UNCHANGED <<isRefreshing, failedQueue, tokens>>
    BY <1>3 DEF HandleSuccess
  <2>2. CASE calls[c].kind = "api" /\ UNCHANGED <<stored, auth, loginLoading>>
    BY <1>1, <2>1, <2>2, AnswerHandled DEF SessionInv
  <2>3. CASE /\ calls[c].kind = "profile"
             /\ auth' = [auth EXCEPT !.user = "loaded", !.loading = FALSE]
             /\ UNCHANGED <<stored, loginLoading>>
    <3>1. auth' \in AuthSlice /\ auth'.loading = FALSE
      BY <1>1, <2>3 DEF AuthSlice
    <3> QED
      BY <1>1, <2>1, <2>3, <3>1, AnswerHandled
  <2>4. CASE /\ calls[c].kind = "login"
             /\ stored' = [access |-> calls[c].token, refresh |-> calls[c].token]
             /\ auth' = [user |-> "loaded", isAuthenticated |-> TRUE, loading |-> FALSE]
             /\ loginLoading' = FALSE
    <3>1. auth' \in AuthSlice /\ auth'.loading = FALSE /\ stored' \in TokenPair
      BY <1>2, <2>4 DEF AuthSlice, TokenPair
    <3> QED
      BY <2>1, <2>4, <3>1, AnswerHandled
  <2> QED
    BY <1>3, <2>2, <2>3, <2>4 DEF HandleSuccess
<1>4. ASSUME NEW a, a \in AuthSlice
      PROVE  /\ SignedOut(a) \in AuthSlice
             /\ SignedOut(a).loading = a.loading
  BY <1>4 DEF SignedOut, AuthSlice
<1>5. ASSUME NEW a, a \in AuthSlice,
             NEW kinds
      PROVE  /\ Rejected(a, kinds) \in AuthSlice
             /\ Rejected(a, kinds).loading => a.loading /\ kinds \cap {"login", "profile"} = {}
  BY <1>5 DEF Rejected, Thunks, AuthSlice
<1>6. loginLoading' = LoginPending(loginLoading, {calls[c].kind})
        => /\ loginLoading' \in BOOLEAN
           /\ loginLoading' => loginLoading /\ calls[c].kind # "login"
  BY DEF LoginPending
<1>7. CASE HandleFailure(c)
  <2>1. /\ calls[c].pc = "answered" /\ calls' = Free({c})
        /\ UNCHANGED <<isRefreshing, failedQueue, tokens>>
        /\ loginLoading' = LoginPending(loginLoading, {calls[c].kind})
    BY <1>7 DEF HandleFailure
  <2>2. CASE /\ calls[c].kind = "logout"
             /\ stored' = Empty
             /\ auth' = [SignedOut(auth) EXCEPT !.loading = FALSE]
    <3>1. auth' \in AuthSlice /\ auth'.loading = FALSE
      <4>1. SignedOut(auth) \in AuthSlice
        BY <1>1, <1>4
      <4> QED
        BY <2>2, <4>1 DEF AuthSlice
    <3> QED
      BY <1>1, <1>6, <2>1, <2>2, <3>1, AnswerHandled
  <2>3. CASE auth' = Rejected(auth, {calls[c].kind}) /\ UNCHANGED stored
    <3>1. /\ auth' \in AuthSlice
          /\ auth'.loading => auth.loading /\ ~(calls[c].kind \in {"login", "profile"})
      BY <1>1, <1>5, <2>3
    <3> QED
      BY <1>1, <1>6, <2>1, <2>3, <3>1, AnswerHandled
  <2> QED
    BY <1>7, <2>2, <2>3 DEF HandleFailure
<1>8. CASE NothingToRefresh(c)
  <2>1. /\ calls[c].pc = "answered" /\ calls' = Free({c})
        /\ UNCHANGED <<isRefreshing, failedQueue, tokens>>
        /\ loginLoading' = LoginPending(loginLoading, {calls[c].kind})
        /\ stored' = Empty
        /\ auth' = Rejected(SignedOut(auth), {calls[c].kind})
    BY <1>8 DEF NothingToRefresh, MayRetry, AuthLogout
  <2>2. /\ auth' \in AuthSlice
        /\ auth'.loading => auth.loading /\ ~(calls[c].kind \in {"login", "profile"})
    <3>1. SignedOut(auth) \in AuthSlice /\ SignedOut(auth).loading = auth.loading
      BY <1>1, <1>4
    <3> QED
      BY <1>5, <2>1, <3>1
  <2> QED
    BY <1>1, <1>6, <2>1, <2>2, AnswerHandled
<1> QED
  BY <1>3, <1>7, <1>8

\* A 401 waits for the refresh under way, or starts one.
LEMMA JoinQueueKeeps ==
    ASSUME SessionInv, NEW c \in Calls, JoinQueue(c)
    PROVE  SessionInv'
<1>1. /\ calls \in [Calls -> Call] /\ calls[c] \in Call
      /\ calls[c].pc = "answered" /\ calls[c].answer = "unauthorized" /\ isRefreshing
      /\ calls' = [calls EXCEPT ![c].pc = "queued"]
      /\ failedQueue' = failedQueue \union {c}
      /\ UNCHANGED <<stored, auth, isRefreshing, loginLoading, tokens>>
  BY DEF SessionInv, SessionTypeOK, JoinQueue, MayRetry
<1>2. /\ calls'[c] \in Call /\ calls'[c].pc = "queued"
      /\ calls'[c].kind = calls[c].kind /\ calls'[c].answer = "unauthorized"
      /\ calls'[c].retry = calls[c].retry /\ calls'[c].refreshes = calls[c].refreshes
      /\ \A d \in Calls : d # c => calls'[d] = calls[d]
      /\ calls' \in [Calls -> Call]
  BY <1>1 DEF Call
<1>3. SessionTypeOK'
  BY <1>1, <1>2 DEF SessionInv, SessionTypeOK
<1>4. Refreshers' = Refreshers /\ InState("queued")' = InState("queued") \union {c}
  BY <1>1, <1>2 DEF Refreshers, InState
<1>5. RefresherOK' /\ NoCallIsStranded'
  BY <1>1, <1>4 DEF SessionInv, RefresherOK, NoCallIsStranded
<1>6. RetryOK'
  BY <1>2 DEF SessionInv, RetryOK
<1>7. LoadingHasACall'
  BY <1>1, <1>2 DEF SessionInv, LoadingHasACall
<1> QED
  BY <1>3, <1>5, <1>6, <1>7 DEF SessionInv

LEMMA StartRefreshKeeps ==
    ASSUME SessionInv, NEW c \in Calls, StartRefresh(c)
    PROVE  SessionInv'
<1>1. /\ calls \in [Calls -> Call] /\ calls[c] \in Call /\ stored \in TokenPair
      /\ calls[c].pc = "answered" /\ calls[c].answer = "unauthorized"
      /\ ~calls[c].retry /\ ~isRefreshing /\ isRefreshing' = TRUE
      /\ calls' = [calls EXCEPT ![c] = Refreshing(calls[c], stored.refresh)]
      /\ UNCHANGED <<stored, auth, failedQueue, loginLoading, tokens>>
  BY DEF SessionInv, SessionTypeOK, StartRefresh, MayRetry, TokenPair
<1>2. calls[c].refreshes = 0
  BY <1>1 DEF SessionInv, RetryOK
<1>3. /\ calls'[c] \in Call /\ calls'[c].pc = "refreshing"
      /\ calls'[c].kind = calls[c].kind /\ calls'[c].answer = "unauthorized"
      /\ calls'[c].retry = TRUE /\ calls'[c].refreshes = 1
      /\ \A d \in Calls : d # c => calls'[d] = calls[d]
      /\ calls' \in [Calls -> Call]
  <2>1. stored.refresh \in Token
    BY <1>1 DEF TokenPair
  <2> DEFINE new == Refreshing(calls[c], stored.refresh)
  <2>2. new = [calls[c] EXCEPT !.pc = "refreshing", !.retry = TRUE,
                               !.token = stored.refresh, !.refreshes = 1]
    BY <1>2 DEF Refreshing
  <2> HIDE DEF new
  <2>3. /\ new \in Call /\ new.pc = "refreshing" /\ new.kind = calls[c].kind
        /\ new.answer = "unauthorized" /\ new.retry = TRUE /\ new.refreshes = 1
    <3> DEFINE marked == [calls[c] EXCEPT !.pc = "refreshing", !.retry = TRUE]
    <3>1. /\ marked \in Call /\ marked.pc = "refreshing" /\ marked.retry = TRUE
          /\ marked.kind = calls[c].kind /\ marked.answer = "unauthorized"
      BY <1>1 DEF Call
    <3> DEFINE timed == [marked EXCEPT !.token = stored.refresh]
    <3>2. new = [timed EXCEPT !.refreshes = 1]
      BY <2>2
    <3> HIDE DEF marked
    <3>3. /\ timed \in Call /\ timed.pc = "refreshing" /\ timed.retry = TRUE
          /\ timed.kind = calls[c].kind /\ timed.answer = "unauthorized"
      BY <2>1, <3>1 DEF Call
    <3> HIDE DEF timed
    <3>4. 1 \in 0..2
      OBVIOUS
    <3> QED
      BY <3>2, <3>3, <3>4 DEF Call
  <2> QED
    BY <1>1, <2>3 DEF new
<1>4. SessionTypeOK'
  BY <1>1, <1>3 DEF SessionInv, SessionTypeOK
<1>5. Refreshers = {} /\ InState("queued") = {} /\ failedQueue = {}
  BY <1>1 DEF SessionInv, RefresherOK, NoCallIsStranded
<1>6. Refreshers' = {c} /\ InState("queued")' = {}
  BY <1>1, <1>3, <1>5 DEF Refreshers, InState
<1>7. RefresherOK' /\ NoCallIsStranded'
  BY <1>1, <1>5, <1>6 DEF RefresherOK, NoCallIsStranded
<1>8. RetryOK'
  BY <1>3 DEF SessionInv, RetryOK
<1>9. LoadingHasACall'
  BY <1>1, <1>3 DEF SessionInv, LoadingHasACall
<1> QED
  BY <1>4, <1>7, <1>8, <1>9 DEF SessionInv

\* The call that refreshed is the only one, and the queue holds those that wait.
LEMMA TheRefresher ==
    ASSUME SessionInv, NEW c \in Calls, calls[c].pc = "refreshed"
    PROVE  /\ Refreshers = {c} /\ InState("queued") = failedQueue
           /\ failedQueue \subseteq Calls
           /\ \A d \in Calls : calls[d].pc \in {"refreshing", "refreshed"} => d = c
           /\ \A d \in Calls : calls[d].pc = "queued" => d \in failedQueue
BY DEF SessionInv, SessionTypeOK, RefresherOK, NoCallIsStranded, Refreshers, InState

\* ProfileLoader turns at most one free call into a request of the profile.
LEMMA LoadProfileKeepsCalls ==
    ASSUME NEW cs \in [Calls -> Call], NEW token \in Token
    PROVE  /\ LoadProfile(cs, token) \in [Calls -> Call]
           /\ \A d \in Calls :
                 \/ LoadProfile(cs, token)[d] = cs[d]
                 \/ /\ cs[d].pc = "free"
                    /\ LoadProfile(cs, token)[d].pc = "sent"
                    /\ LoadProfile(cs, token)[d].kind = "profile"
                    /\ LoadProfile(cs, token)[d].answer = "none"
                    /\ LoadProfile(cs, token)[d].refreshes = 0
           /\ (LoadProfile(cs, token) # cs \/ \E d \in Calls : cs[d].pc = "free")
                 => \E d \in Calls : /\ LoadProfile(cs, token)[d].pc = "sent"
                                     /\ LoadProfile(cs, token)[d].kind = "profile"
<1>1. CASE \E d \in Calls : cs[d].pc = "free"
  <2> DEFINE d0 == CHOOSE d \in Calls : cs[d].pc = "free"
             new == NewCall("profile", token)
  <2>1. d0 \in Calls /\ cs[d0].pc = "free"
    BY <1>1
  <2>2. /\ new \in Call /\ new.pc = "sent" /\ new.kind = "profile"
        /\ new.answer = "none" /\ new.refreshes = 0
    <3> DEFINE call == [FreeCall EXCEPT !.kind = "profile"]
    <3>1. call \in Call /\ call.refreshes = 0 /\ call.kind = "profile"
      BY FreeCallIsACall DEF Call, Kind
    <3>2. new = Sent(call, token)
      BY DEF NewCall
    <3> HIDE DEF call, new
    <3> QED
      BY <3>1, <3>2 DEF Sent, Call
  <2>3. LoadProfile(cs, token) = [cs EXCEPT ![d0] = new]
    BY <1>1 DEF LoadProfile
  <2> HIDE DEF d0, new
  <2> QED
    BY <2>1, <2>2, <2>3
<1>2. CASE ~\E d \in Calls : cs[d].pc = "free"
  BY <1>2 DEF LoadProfile
<1> QED
  BY <1>1, <1>2

\* The refresh succeeds: the queue is sent again, and the profile may be loaded.
LEMMA FinishRefreshKeeps ==
    ASSUME SessionInv, NEW c \in Calls, FinishRefresh(c)
    PROVE  SessionInv'
<1> DEFINE token == calls[c].token
           resent == Resend(c, token)
<1>1. /\ calls \in [Calls -> Call] /\ calls[c] \in Call /\ token \in Token
      /\ calls[c].pc = "refreshed" /\ calls[c].answer = "ok"
      /\ auth \in AuthSlice
  BY DEF SessionInv, SessionTypeOK, FinishRefresh, Call, AuthSlice
<1>2. /\ stored' = [access |-> token, refresh |-> token]
      /\ calls' = LoadProfile(resent, token) \/ calls' = resent
      /\ auth' = IF calls' # resent THEN [auth EXCEPT !.loading = TRUE] ELSE auth
      /\ failedQueue' = {} /\ isRefreshing' = FALSE
      /\ UNCHANGED <<loginLoading, tokens>>
  BY DEF FinishRefresh
<1>3. /\ Refreshers = {c} /\ InState("queued") = failedQueue
      /\ failedQueue \subseteq Calls
      /\ \A d \in Calls : calls[d].pc \in {"refreshing", "refreshed"} => d = c
      /\ \A d \in Calls : calls[d].pc = "queued" => d \in failedQueue
  BY <1>1, TheRefresher
<1>4. ASSUME NEW call \in Call
      PROVE  /\ Sent(call, token) \in Call /\ Sent(call, token).pc = "sent"
             /\ Sent(call, token).answer = "none" /\ Sent(call, token).kind = call.kind
             /\ Sent(call, token).retry = call.retry
             /\ Sent(call, token).refreshes = call.refreshes
  BY <1>1 DEF Sent, Call
<1>5. /\ resent \in [Calls -> Call]
      /\ \A d \in Calls :
            /\ d \in failedQueue \union {c} =>
                  /\ resent[d].pc = "sent" /\ resent[d].answer = "none"
                  /\ resent[d].kind = calls[d].kind /\ resent[d].retry = calls[d].retry
                  /\ resent[d].refreshes = calls[d].refreshes
            /\ d \notin failedQueue \union {c} => resent[d] = calls[d]
  BY <1>1, <1>4 DEF Resend
<1> HIDE DEF token, resent
<1>6. /\ calls' \in [Calls -> Call]
      /\ \A d \in Calls :
            \/ calls'[d] = resent[d]
            \/ /\ resent[d].pc = "free" /\ calls'[d].pc = "sent"
               /\ calls'[d].kind = "profile" /\ calls'[d].answer = "none"
               /\ calls'[d].refreshes = 0
      /\ calls' # resent => \E d \in Calls : calls'[d].pc = "sent" /\ calls'[d].kind = "profile"
  BY <1>1, <1>2, <1>5, LoadProfileKeepsCalls
<1>7. SessionTypeOK'
  <2>1. stored' \in TokenPair
    BY <1>1, <1>2 DEF TokenPair
  <2>2. auth' \in AuthSlice
    BY <1>1, <1>2 DEF AuthSlice
  <2> QED
    BY <1>2, <1>6, <2>1, <2>2, SessionTypesAre DEF SessionInv, SessionTypeOK, TokenPair, AuthSlice
<1>8. \A d \in Calls : calls'[d].pc \notin {"refreshing", "refreshed", "queued"}
  BY <1>3, <1>5, <1>6
<1>9. RefresherOK' /\ NoCallIsStranded'
  BY <1>2, <1>8 DEF RefresherOK, NoCallIsStranded, Refreshers, InState
<1>10. RetryOK'
  <2> SUFFICES ASSUME NEW d \in Calls
               PROVE  /\ calls'[d].refreshes <= 1
                      /\ ~calls'[d].retry => calls'[d].refreshes = 0
    BY DEF RetryOK
  <2>1. CASE calls'[d].refreshes = 0
    BY <2>1
  <2>2. CASE /\ calls'[d].refreshes = calls[d].refreshes
             /\ calls'[d].retry = calls[d].retry
    BY <2>2 DEF SessionInv, RetryOK
  <2> QED
    BY <1>5, <1>6, <2>1, <2>2
<1>11. LoadingHasACall'
  <2>1. \A d \in Calls : calls[d].pc # "free" =>
           calls'[d].pc # "free" /\ calls'[d].kind = calls[d].kind
    BY <1>3, <1>5, <1>6
  <2> QED
    BY <1>2, <1>6, <2>1 DEF SessionInv, LoadingHasACall
<1> QED
  BY <1>7, <1>9, <1>10, <1>11 DEF SessionInv

\* The refresh fails: whoever waited fails with it, and the tab is signed out.
LEMMA AbandonRefreshKeeps ==
    ASSUME SessionInv, NEW c \in Calls, AbandonRefresh(c)
    PROVE  SessionInv'
<1> DEFINE kinds == {calls[d].kind : d \in Settled(c)}
<1>1. /\ calls[c].pc = "refreshed" /\ stored' = Empty
      /\ auth' = Rejected(SignedOut(auth), kinds)
      /\ loginLoading' = LoginPending(loginLoading, kinds)
      /\ calls' = Free(Settled(c)) /\ failedQueue' = failedQueue \ Settled(c)
      /\ isRefreshing' = FALSE /\ UNCHANGED tokens
  BY DEF AbandonRefresh, AuthLogout
<1>2. /\ Settled(c) \in SUBSET Calls /\ c \in Settled(c)
      /\ \A d \in Calls : calls[d].pc \in {"refreshing", "refreshed", "queued"} => d \in Settled(c)
      /\ failedQueue \ Settled(c) = {}
  BY <1>1, TheRefresher DEF Settled
<1>3. /\ calls' \in [Calls -> Call]
      /\ \A d \in Settled(c) : calls'[d] = FreeCall
      /\ \A d \in Calls \ Settled(c) : calls'[d] = calls[d]
  BY <1>1, <1>2, FreeLeavesOthers DEF SessionInv
<1>4. /\ auth' \in AuthSlice
      /\ auth'.loading => auth.loading /\ kinds \cap {"login", "profile"} = {}
  BY <1>1 DEF SessionInv, SessionTypeOK, AuthSlice, SignedOut, Rejected, Thunks
<1>5. SessionTypeOK'
  <2>1. stored' \in TokenPair
    BY <1>1, MaxGrantsAssumption DEF TokenPair, Empty, Token, NoToken
  <2>2. loginLoading' \in BOOLEAN
    BY <1>1 DEF LoginPending
  <2>3. failedQueue' \subseteq Calls /\ tokens' \in ServerTokens
    BY <1>1, <1>2 DEF SessionInv, SessionTypeOK, ServerTokens
  <2> QED
    BY <1>1, <1>3, <1>4, <2>1, <2>2, <2>3
       DEF SessionTypeOK, TokenPair, AuthSlice, ServerTokens
<1>6. \A d \in Calls : calls'[d].pc \notin {"refreshing", "refreshed", "queued"}
  BY <1>2, <1>3, FreeCallIsACall
<1>7. RefresherOK' /\ NoCallIsStranded'
  BY <1>1, <1>2, <1>6 DEF RefresherOK, NoCallIsStranded, Refreshers, InState
<1>8. RetryOK'
  <2> SUFFICES ASSUME NEW d \in Calls
               PROVE  /\ calls'[d].refreshes <= 1
                      /\ ~calls'[d].retry => calls'[d].refreshes = 0
    BY DEF RetryOK
  <2>1. CASE d \in Settled(c)
    <3>1. calls'[d].refreshes = 0
      BY <1>3, <2>1, FreeCallIsACall
    <3> QED
      BY <3>1
  <2>2. CASE d \notin Settled(c)
    BY <1>3, <2>2 DEF SessionInv, RetryOK
  <2> QED
    BY <2>1, <2>2
<1>9. LoadingHasACall'
  <2>1. ASSUME NEW d \in Calls, calls[d].pc # "free", calls[d].kind \notin kinds
        PROVE  calls'[d] = calls[d]
    BY <1>3, <2>1
  <2>2. auth'.loading => \E d \in Calls : calls'[d].pc # "free"
                                            /\ calls'[d].kind \in {"login", "profile"}
    BY <1>4, <2>1 DEF SessionInv, LoadingHasACall
  <2>3. loginLoading' => loginLoading /\ "login" \notin kinds
    BY <1>1 DEF LoginPending
  <2>4. loginLoading' => \E d \in Calls : calls'[d].pc # "free"
                                            /\ calls'[d].kind \in {"login"}
    BY <2>1, <2>3 DEF SessionInv, LoadingHasACall
  <2> QED
    BY <2>2, <2>4 DEF LoadingHasACall
<1> QED
  BY <1>5, <1>7, <1>8, <1>9 DEF SessionInv

\* A reload keeps the stored tokens and nothing else.
LEMMA ReloadKeeps ==
    ASSUME SessionInv, Reload
    PROVE  SessionInv'
<1> DEFINE none == [c \in Calls |-> FreeCall]
           authenticated == stored.access # NoToken
<1>1. /\ none \in [Calls -> Call] /\ stored.access \in Token
      /\ \A d \in Calls : none[d] = FreeCall
  BY FreeCallIsACall DEF SessionInv, SessionTypeOK
<1>2. /\ calls' = IF authenticated THEN LoadProfile(none, stored.access) ELSE none
      /\ auth' = [user |-> "undefined", isAuthenticated |-> authenticated,
                  loading |-> authenticated]
      /\ isRefreshing' = FALSE /\ failedQueue' = {} /\ loginLoading' = FALSE
      /\ UNCHANGED <<stored, tokens>>
  BY DEF Reload
<1>3. authenticated => \E d \in Calls : none[d].pc = "free"
  BY <1>1, CallsAssumption, FreeCallIsACall
<1> HIDE DEF none
<1>4. /\ calls' \in [Calls -> Call]
      /\ \A d \in Calls : /\ calls'[d].pc \in {"free", "sent"}
                          /\ calls'[d].answer = "none" /\ calls'[d].refreshes = 0
      /\ authenticated => \E d \in Calls : calls'[d].pc = "sent" /\ calls'[d].kind = "profile"
  <2>1. CASE authenticated
    <3> HIDE DEF authenticated
    <3>1. calls' = LoadProfile(none, stored.access)
      BY <1>2, <2>1
    <3> QED
      BY <1>1, <1>3, <2>1, <3>1, FreeCallIsACall, LoadProfileKeepsCalls
  <2>2. CASE ~authenticated
    BY <1>1, <1>2, <2>2, FreeCallIsACall
  <2> QED
    BY <2>1, <2>2
<1>5. SessionTypeOK'
  <2>1. auth' \in AuthSlice
    BY <1>2 DEF AuthSlice
  <2> QED
    BY <1>2, <1>4, <2>1 DEF SessionInv, SessionTypeOK, AuthSlice
<1>6. RefresherOK' /\ NoCallIsStranded'
  BY <1>2, <1>4 DEF RefresherOK, NoCallIsStranded, Refreshers, InState
<1>7. RetryOK'
  BY <1>4 DEF RetryOK
<1>8. LoadingHasACall'
  BY <1>2, <1>4 DEF LoadingHasACall
<1> QED
  BY <1>5, <1>6, <1>7, <1>8 DEF SessionInv

\* Steps that touch no call.
LEMMA QuietStepsKeep ==
    ASSUME SessionInv,
           \/ ClickLogout
           \/ \E k \in 1..MaxGrants : AccessExpires(k) \/ RefreshExpires(k)
           \/ OtherTabSignsOut \/ OtherTabStores
           \/ UNCHANGED sessionVars
    PROVE  SessionInv'
<1>1. UNCHANGED <<isRefreshing, failedQueue, calls, loginLoading>>
  BY DEF ClickLogout, AccessExpires, RefreshExpires, OtherTabSignsOut, OtherTabStores,
         sessionVars
<1>2. /\ stored' \in TokenPair /\ auth' \in AuthSlice /\ tokens' \in ServerTokens
      /\ auth'.loading = auth.loading
  <2>1. stored \in TokenPair /\ auth \in AuthSlice /\ tokens \in ServerTokens
    BY SessionTypesAre DEF SessionInv
  <2>7. Empty \in TokenPair
    BY MaxGrantsAssumption DEF Empty, TokenPair, Token, NoToken
  <2>2. CASE ClickLogout
    <3>1. SignedOut(auth) \in AuthSlice /\ SignedOut(auth).loading = auth.loading
      BY <2>1 DEF SignedOut, AuthSlice
    <3> QED
      BY <2>1, <2>7, <2>2, <3>1 DEF ClickLogout
  <2>3. CASE \E k \in 1..MaxGrants : AccessExpires(k) \/ RefreshExpires(k)
    BY <2>1, <2>3 DEF AccessExpires, RefreshExpires, ServerTokens
  <2>4. CASE OtherTabSignsOut
    BY <2>1, <2>7, <2>4 DEF OtherTabSignsOut
  <2>5. CASE OtherTabStores
    <3>1. tokens' \in ServerTokens /\ tokens'.granted \in Token
      BY <2>1, <2>5, MaxGrantsAssumption DEF OtherTabStores, Grant, ServerTokens, Token, NoToken
    <3>2. stored' \in TokenPair
      BY <2>5, <3>1 DEF OtherTabStores, TokenPair
    <3> QED
      BY <2>1, <2>5, <3>1, <3>2 DEF OtherTabStores
  <2>6. CASE UNCHANGED sessionVars
    BY <2>1, <2>6 DEF sessionVars
  <2> QED
    BY <2>2, <2>3, <2>4, <2>5, <2>6
<1>3. SessionTypeOK'
  BY <1>1, <1>2 DEF SessionInv, SessionTypeOK, TokenPair, AuthSlice, ServerTokens
<1>4. RefresherOK' /\ NoCallIsStranded' /\ RetryOK'
  BY <1>1 DEF SessionInv, RefresherOK, NoCallIsStranded, RetryOK, Refreshers, InState
<1>5. LoadingHasACall'
  BY <1>1, <1>2 DEF SessionInv, LoadingHasACall
<1> QED
  BY <1>3, <1>4, <1>5 DEF SessionInv

LEMMA SessionStepInvariant ==
    ASSUME SessionInv, [SessionNext]_sessionVars
    PROVE  SessionInv'
<1>1. CASE UserStep
  BY <1>1, MovesOfOneCall, QuietStepsKeep, ReloadKeeps DEF UserStep
<1>2. ASSUME NEW c \in Calls, ServerStep(c)
      PROVE  SessionInv'
  BY <1>2, MovesOfOneCall
<1>3. ASSUME NEW c \in Calls, ClientStep(c)
      PROVE  SessionInv'
  BY <1>3, SettlingStepsKeep, JoinQueueKeeps, StartRefreshKeeps, FinishRefreshKeeps,
     AbandonRefreshKeeps DEF ClientStep
<1>4. CASE \/ \E k \in 1..MaxGrants : AccessExpires(k) \/ RefreshExpires(k)
           \/ OtherTabSignsOut \/ OtherTabStores
           \/ UNCHANGED sessionVars
  BY <1>4, QuietStepsKeep
<1> QED
  BY <1>1, <1>2, <1>3, <1>4 DEF SessionNext

\* What the invariant says of refreshes and queues.
LEMMA SessionInvMeans ==
    ASSUME SessionInv
    PROVE  /\ SessionTypeOK /\ RefreshIsSingleFlight /\ NoCallIsStranded
           /\ OneRefreshPerCall /\ LoadingHasACall
<1>1. RefreshIsSingleFlight
  <2>1. CASE isRefreshing
    <3>1. PICK c : Refreshers = {c}
      BY <2>1 DEF SessionInv, RefresherOK
    <3>2. Cardinality(Refreshers) = 1
      BY <3>1, FS_Singleton
    <3> QED
      BY <2>1, <3>2 DEF RefreshIsSingleFlight, Refreshers
  <2>2. CASE ~isRefreshing
    <3>1. Refreshers = {}
      BY <2>2 DEF SessionInv, RefresherOK
    <3>2. Cardinality(Refreshers) = 0
      BY <3>1, FS_EmptySet
    <3> QED
      BY <2>2, <3>2 DEF RefreshIsSingleFlight, Refreshers
  <2> QED
    BY <2>1, <2>2
<1>2. OneRefreshPerCall
  BY DEF SessionInv, RetryOK, OneRefreshPerCall
<1> QED
  BY <1>1, <1>2 DEF SessionInv

\* The session is well formed, however calls, answers, refreshes, sign-outs and
\* reloads interleave.
THEOREM SessionInvariant == SessionSpec => []SessionInv
<1>1. SessionInit => SessionInv
  BY SessionInitInvariant
<1>2. SessionInv /\ [SessionNext]_sessionVars => SessionInv'
  BY SessionStepInvariant
<1> QED
  BY <1>1, <1>2, PTL DEF SessionSpec

\* Two refreshes never run at the same time in a tab (httpClient.js:34, 109-125).
THEOREM RefreshesAreSingle == SessionSpec => []RefreshIsSingleFlight
BY SessionInvariant, SessionInvMeans, PTL

\* Every call that waits is in the queue of a refresh that runs
\* (httpClient.js:110-121, 168-170 and 177-178).
THEOREM CallsAreNotStranded == SessionSpec => []NoCallIsStranded
BY SessionInvariant, SessionInvMeans, PTL

\* A call refreshes at most once (httpClient.js:109, 124).
THEOREM CallsRefreshOnce == SessionSpec => []OneRefreshPerCall
BY SessionInvariant, SessionInvMeans, PTL

-----------------------------------------------------------------------------
(* The menu page                                                           *)

MenuInv == MenuTypeOK /\ MenuSpinnerHasAFetch

LEMMA MenuInitInvariant == MenuInit => MenuInv
<1> SUFFICES ASSUME MenuInit
             PROVE  MenuInv
  OBVIOUS
<1>1. slice \in [items : List, loading : BOOLEAN, error : BOOLEAN] /\ ~slice.loading
  BY DEF MenuInit, InitialSlice, List
<1>2. menuFetches \in [MenuFetches -> [pc : {"free", "asked", "read"}, list : List]]
  BY DEF MenuInit, NoMenuFetch, List
<1> QED
  BY <1>1, <1>2 DEF MenuInit, MenuInv, MenuTypeOK, MenuSpinnerHasAFetch

\* A thunk that is dispatched gives the spinner its request.
LEMMA FetchItemsKeeps ==
    ASSUME MenuInv, NEW f \in MenuFetches, FetchItems(f),
           serverMenu' \in List, menuOpen' \in BOOLEAN,
           selected' \in Categories \union {"All"}
    PROVE  MenuInv'
<1>1. /\ menuFetches' \in [MenuFetches -> [pc : {"free", "asked", "read"}, list : List]]
      /\ menuFetches'[f].pc = "asked"
  BY DEF MenuInv, MenuTypeOK, FetchItems
<1>2. slice' \in [items : List, loading : BOOLEAN, error : BOOLEAN]
  BY DEF MenuInv, MenuTypeOK, FetchItems
<1> QED
  BY <1>1, <1>2 DEF MenuInv, MenuTypeOK, MenuSpinnerHasAFetch

\* A thunk that settles takes the spinner away, whoever else still waits.
LEMMA SettledFetchKeeps ==
    ASSUME MenuInv, NEW f \in MenuFetches, MenuLoaded(f) \/ MenuNotLoaded(f)
    PROVE  MenuInv'
<1>1. menuFetches[f].list \in List /\ NoMenuFetch \in [pc : {"free", "asked", "read"}, list : List]
  BY DEF MenuInv, MenuTypeOK, NoMenuFetch, List
<1>2. slice' \in [items : List, loading : BOOLEAN, error : BOOLEAN] /\ slice'.loading = FALSE
  BY <1>1 DEF MenuInv, MenuTypeOK, MenuLoaded, MenuNotLoaded
<1>3. /\ menuFetches' \in [MenuFetches -> [pc : {"free", "asked", "read"}, list : List]]
      /\ UNCHANGED <<serverMenu, menuOpen, selected>>
  BY <1>1 DEF MenuInv, MenuTypeOK, MenuLoaded, MenuNotLoaded
<1> QED
  BY <1>2, <1>3 DEF MenuInv, MenuTypeOK, MenuSpinnerHasAFetch

LEMMA MenuStepInvariant ==
    ASSUME MenuInv, [MenuNext]_menuVars
    PROVE  MenuInv'
<1>1. ASSUME NEW f \in MenuFetches, OpenMenu(f) \/ Retry(f)
      PROVE  MenuInv'
  BY <1>1, FetchItemsKeeps DEF OpenMenu, Retry, MenuInv, MenuTypeOK
<1>2. ASSUME NEW f \in MenuFetches, MenuRead(f)
      PROVE  MenuInv'
  <2>1. /\ menuFetches' \in [MenuFetches -> [pc : {"free", "asked", "read"}, list : List]]
        /\ \A g \in MenuFetches : menuFetches'[g].pc = "free" => menuFetches[g].pc = "free"
    BY <1>2 DEF MenuInv, MenuTypeOK, MenuRead
  <2> QED
    BY <1>2, <2>1 DEF MenuInv, MenuTypeOK, MenuSpinnerHasAFetch, MenuRead
<1>3. ASSUME NEW f \in MenuFetches, MenuLoaded(f) \/ MenuNotLoaded(f)
      PROVE  MenuInv'
  BY <1>3, SettledFetchKeeps
<1>4. CASE LeaveMenu \/ MenuChanges
  BY <1>4 DEF MenuInv, MenuTypeOK, MenuSpinnerHasAFetch, LeaveMenu, MenuChanges
<1>5. ASSUME NEW category \in Categories \union {"All"}, ChooseCategory(category)
      PROVE  MenuInv'
  BY <1>5 DEF MenuInv, MenuTypeOK, MenuSpinnerHasAFetch, ChooseCategory
<1>6. CASE UNCHANGED menuVars
  BY <1>6 DEF MenuInv, MenuTypeOK, MenuSpinnerHasAFetch, menuVars
<1> QED
  BY <1>1, <1>2, <1>3, <1>4, <1>5, <1>6 DEF MenuNext, ViewAll

\* The menu's spinner has a request behind it, however pages are left and requests of
\* theirs settle late (menuSlice.js:94-106).
THEOREM MenuInvariant == MenuSpec => []MenuInv
<1>1. MenuInit => MenuInv
  BY MenuInitInvariant
<1>2. MenuInv /\ [MenuNext]_menuVars => MenuInv'
  BY MenuStepInvariant
<1> QED
  BY <1>1, <1>2, PTL DEF MenuSpec

-----------------------------------------------------------------------------
(* The orders page                                                         *)

FetchType == [pc : {"free", "asked", "read"}, filter : Filters, page : Page,
              status : StatusSet \union {"none"}]
PutType == [pc : {"free", "asked", "done", "orphaned"}, status : StatusSet, view : View]

\* The page has one interval, that of the view it shows, and none when it is left.
OneTimer == timers = IF boardOpen THEN {view} ELSE {}

BoardTypes ==
    /\ serverStatus \in StatusSet /\ view \in View /\ boardOpen \in BOOLEAN
    /\ row \in StatusSet \union {"none"} /\ timers \subseteq View
    /\ fetches \in [Fetches -> FetchType] /\ put \in PutType
    /\ boardLoading \in BOOLEAN /\ upsets \in 0..MaxUpsets

\* A page that was left has nothing under way but an update nobody waits for.
NothingWhenLeft ==
    ~boardOpen => /\ row = "none" /\ put.pc \in {"free", "orphaned"}
                  /\ \A f \in Fetches : fetches[f].pc = "free"

BoardInv == BoardTypes /\ OneTimer /\ NothingWhenLeft

LEMMA FirstsHaveTypes ==
    /\ "PENDING" \in StatusSet /\ FirstView \in View
    /\ NoFetch \in FetchType /\ NoPut \in PutType
<1>1. "PENDING" \in StatusSet
  <2>1. Status[1] = "PENDING"
    BY DEF Status
  <2>2. 1 \in 1..LastStatus
    BY BoardAssumption
  <2> QED
    BY <2>1, <2>2 DEF StatusSet
<1>2. "All" \in Filters /\ 1 \in Page
  BY BoardAssumption DEF Page
<1> QED
  BY <1>1, <1>2 DEF FirstView, View, NoFetch, NoPut, FetchType, PutType

LEMMA NoneIsNoStatus == NextStatus("none") = {}
<1>1. \A j \in 1..(LastStatus - 1) : j \in {1, 2, 3} /\ Status[j] # "none"
  BY BoardAssumption DEF Status
<1> QED
  BY <1>1 DEF NextStatus

LEMMA BoardInitInvariant == BoardInit => BoardInv
<1> SUFFICES ASSUME BoardInit
             PROVE  BoardInv
  OBVIOUS
<1>1. fetches \in [Fetches -> FetchType] /\ upsets \in 0..MaxUpsets
  BY FirstsHaveTypes, BoardAssumption DEF BoardInit
<1> QED
  BY <1>1, FirstsHaveTypes DEF BoardInit, BoardInv, BoardTypes, OneTimer, NothingWhenLeft, NoFetch, NoPut

\* A request of a view is a request.
LEMMA AskingIsTyped ==
    ASSUME NEW fs \in [Fetches -> FetchType], NEW f \in Fetches, NEW v \in View
    PROVE  Asking(fs, f, v) \in [Fetches -> FetchType]
<1> DEFINE new == [NoFetch EXCEPT !.pc = "asked", !.filter = v.filter, !.page = v.page]
<1>1. v.filter \in Filters /\ v.page \in Page
  BY DEF View
<1>2. new \in FetchType
  BY <1>1, FirstsHaveTypes DEF FetchType
<1> HIDE DEF new
<1>3. [fs EXCEPT ![f] = new] \in [Fetches -> FetchType]
  BY <1>2
<1> QED
  BY <1>3 DEF Asking, new

\* A new view of an open page: a request and an interval of its own.
LEMMA ShowingViewKeeps ==
    ASSUME BoardInv, boardOpen, NEW v \in View, NEW f \in Fetches, ShowView(v, f),
           fetches' = Asking(fetches, f, view'),
           row' \in StatusSet \union {"none"},
           UNCHANGED <<serverStatus, boardOpen, put, upsets>>
    PROVE  BoardInv'
<1>1. fetches' \in [Fetches -> FetchType]
  BY AskingIsTyped DEF BoardInv, BoardTypes, ShowView
<1> QED
  BY <1>1 DEF BoardInv, BoardTypes, OneTimer, NothingWhenLeft, ShowView, Timers

\* Another request of a page that stays as it is.
LEMMA AskingAgainKeeps ==
    ASSUME BoardInv, NEW v \in View, NEW f \in Fetches,
           fetches' = Asking(fetches, f, v), boardLoading' = TRUE,
           put' \in PutType, upsets' \in 0..MaxUpsets, boardOpen,
           UNCHANGED <<serverStatus, view, boardOpen, row, timers>>
    PROVE  BoardInv'
<1>1. fetches' \in [Fetches -> FetchType]
  BY AskingIsTyped DEF BoardInv, BoardTypes
<1> QED
  BY <1>1 DEF BoardInv, BoardTypes, OneTimer, NothingWhenLeft

LEMMA BoardStepInvariant ==
    ASSUME BoardInv, [BoardNext]_boardVars
    PROVE  BoardInv'
<1> USE FirstsHaveTypes
<1>1. /\ serverStatus \in StatusSet /\ view \in View /\ boardOpen \in BOOLEAN
      /\ row \in StatusSet \union {"none"} /\ timers \subseteq View
      /\ fetches \in [Fetches -> FetchType] /\ put \in PutType
      /\ boardLoading \in BOOLEAN /\ upsets \in 0..MaxUpsets
  BY DEF BoardInv, BoardTypes
<1>2. Upset => upsets' \in 0..MaxUpsets
  BY <1>1, BoardAssumption DEF Upset
<1>3. ASSUME NEW f \in Fetches, NEW filter \in Filters, ChooseFilter(filter, f)
      PROVE  BoardInv'
  <2>1. [filter |-> filter, page |-> 1] \in View
    BY BoardAssumption DEF View, Page
  <2> QED
    BY <1>1, <1>3, <2>1, ShowingViewKeeps DEF ChooseFilter
<1>4. ASSUME NEW f \in Fetches, NEW page_ \in Page, ChoosePage(page_, f)
      PROVE  BoardInv'
  <2>1. [view EXCEPT !.page = page_] \in View
    BY <1>1 DEF View
  <2> QED
    BY <1>1, <1>4, <2>1, ShowingViewKeeps DEF ChoosePage
<1>5. ASSUME NEW f \in Fetches, NEW v \in View, Poll(v, f)
      PROVE  BoardInv'
  <2>1. boardOpen
    BY <1>5 DEF BoardInv, OneTimer, Poll
  <2> QED
    BY <1>1, <1>5, <2>1, AskingAgainKeeps DEF Poll
<1>6. ASSUME NEW f \in Fetches, Refresh(f)
      PROVE  BoardInv'
  BY <1>1, <1>2, <1>6, AskingAgainKeeps DEF Refresh
<1>7. ASSUME NEW f \in Fetches, ListRead(f)
      PROVE  BoardInv'
  <2>1. Listed(serverStatus, fetches[f].filter) \in StatusSet \union {"none"}
    BY <1>1 DEF Listed
  <2>2. fetches' \in [Fetches -> FetchType]
    BY <1>1, <1>7, <2>1 DEF ListRead, FetchType
  <2> QED
    BY <1>1, <1>7, <2>2 DEF BoardInv, BoardTypes, OneTimer, NothingWhenLeft, ListRead
<1>8. ASSUME NEW f \in Fetches, ListShown(f)
      PROVE  BoardInv'
  <2>1. fetches[f].page \in Page /\ fetches[f].status \in StatusSet \union {"none"}
    BY <1>1 DEF FetchType
  <2>2. CASE fetches[f].page = view.page
    <3>1. fetches' \in [Fetches -> FetchType]
      BY <1>1, <1>8, <2>2 DEF ListShown
    <3> QED
      BY <1>1, <1>8, <2>1, <2>2, <3>1 DEF BoardInv, BoardTypes, OneTimer, NothingWhenLeft, ListShown
  <2>3. CASE fetches[f].page # view.page
    <3>1. [view EXCEPT !.page = fetches[f].page] \in View
      BY <1>1, <2>1 DEF View
    <3>2. boardOpen
      BY <1>8 DEF BoardInv, NothingWhenLeft, ListShown
    <3> QED
      BY <1>1, <1>8, <2>1, <2>3, <3>1, <3>2, ShowingViewKeeps DEF ListShown
  <2> QED
    BY <2>2, <2>3
<1>9. ASSUME NEW f \in Fetches, ListFails(f)
      PROVE  BoardInv'
  <2>1. fetches' \in [Fetches -> FetchType]
    BY <1>1, <1>9 DEF ListFails
  <2> QED
    BY <1>1, <1>2, <1>9, <2>1 DEF BoardInv, BoardTypes, OneTimer, NothingWhenLeft, ListFails
<1>10. ASSUME NEW f \in Fetches, UpdateFails(f)
       PROVE  BoardInv'
  <2>1. put.view \in View /\ boardOpen
    BY <1>1, <1>10 DEF PutType, BoardInv, NothingWhenLeft, UpdateFails
  <2> QED
    BY <1>1, <1>2, <1>10, <2>1, AskingAgainKeeps DEF UpdateFails
<1>11. ASSUME NEW f \in Fetches, OpenBoard(f)
       PROVE  BoardInv'
  <2>1. fetches' \in [Fetches -> FetchType]
    BY <1>1, <1>11, AskingIsTyped DEF OpenBoard
  <2> QED
    BY <1>1, <1>11, <2>1 DEF BoardInv, BoardTypes, OneTimer, NothingWhenLeft, OpenBoard
<1>13. ASSUME NEW status \in StatusSet, UpdateStatus(status) \/ OthersUpdate(status)
       PROVE  BoardInv'
  <2>1. CASE UpdateStatus(status)
    <3>1. put' \in PutType
      BY <1>1, <2>1 DEF UpdateStatus, PutType
    <3>2. boardOpen
      BY <2>1, NoneIsNoStatus DEF UpdateStatus, BoardInv, NothingWhenLeft
    <3> QED
      BY <1>1, <2>1, <3>1, <3>2 DEF BoardInv, BoardTypes, OneTimer, NothingWhenLeft, UpdateStatus
  <2>2. CASE OthersUpdate(status)
    BY <1>1, <2>2 DEF BoardInv, BoardTypes, OneTimer, NothingWhenLeft, OthersUpdate
  <2> QED
    BY <1>13, <2>1, <2>2
<1>14. CASE ServiceUpdates \/ ShowUpdate \/ OrphanUpdates
  <2>1. /\ put' \in PutType /\ serverStatus' \in StatusSet
        /\ row' \in StatusSet \union {"none"}
        /\ UNCHANGED <<view, boardOpen, timers, fetches, boardLoading, upsets>>
    BY <1>1, <1>14 DEF ServiceUpdates, ShowUpdate, OrphanUpdates, PutType
  <2>2. ~boardOpen => row' = "none" /\ put'.pc = "free"
    BY <1>14 DEF BoardInv, NothingWhenLeft, ServiceUpdates, ShowUpdate, OrphanUpdates, NoPut
  <2> QED
    BY <1>1, <2>1, <2>2 DEF BoardInv, BoardTypes, OneTimer, NothingWhenLeft
<1>15. CASE LeaveBoard
  <2>1. put' \in PutType /\ fetches' \in [Fetches -> FetchType]
    BY <1>1, <1>15 DEF LeaveBoard, PutType
  <2>2. put'.pc \in {"free", "orphaned"} /\ \A f \in Fetches : fetches'[f].pc = "free"
    BY <1>1, <1>15 DEF LeaveBoard, PutType, NoPut, NoFetch
  <2>3. BoardTypes'
    BY <1>1, <1>2, <1>15, <2>1 DEF BoardTypes, LeaveBoard
  <2> QED
    BY <1>15, <2>2, <2>3 DEF BoardInv, OneTimer, NothingWhenLeft, LeaveBoard
<1>16. CASE UNCHANGED boardVars
  BY <1>1, <1>16 DEF BoardInv, BoardTypes, OneTimer, NothingWhenLeft, boardVars
<1> QED
  BY <1>3, <1>4, <1>5, <1>6, <1>7, <1>8, <1>9, <1>10, <1>11, <1>13, <1>14, <1>15, <1>16
     DEF BoardNext

\* The orders page is well formed, and however filters, pages and late answers
\* interleave it never has two intervals (useOrdersManagement.js:33-116).
THEOREM BoardInvariant == BoardSpec => []BoardInv
<1>1. BoardInit => BoardInv
  BY BoardInitInvariant
<1>2. BoardInv /\ [BoardNext]_boardVars => BoardInv'
  BY BoardStepInvariant
<1> QED
  BY <1>1, <1>2, PTL DEF BoardSpec

-----------------------------------------------------------------------------
(* The customer's pages                                                    *)

Lines == Seq(Line)
OrderType == [pc : {"free", "sent"}, tab : Tabs, live : BOOLEAN]
ConfirmationType == [status : {"none", "loading", "shown", "error"},
                     shows : {"nothing", "own", "old"}, asked : SUBSET {"own", "old"}]

StoreTypes ==
    /\ cartItems \in [Tabs -> Lines] /\ storedCart \in Lines
    /\ page \in [Tabs -> CustomerPage] /\ form \in [Tabs -> Form]
    /\ ordering \in [Tabs -> BOOLEAN]
    /\ orders \in [Orders -> OrderType]
    /\ confirmation \in [Tabs -> ConfirmationType]

\* A checkout page loads exactly while it waits for an order, and for one only.
WaitedFor(o) == orders[o].pc = "sent" /\ orders[o].live
VisitsOK ==
    /\ \A o \in Orders : WaitedFor(o) => ordering[orders[o].tab]
    /\ \A t \in Tabs : ordering[t] => \E o \in Orders : WaitedFor(o) /\ orders[o].tab = t
    /\ \A o, p \in Orders :
          WaitedFor(o) /\ WaitedFor(p) /\ orders[o].tab = orders[p].tab => o = p

StoreInv ==
    StoreTypes /\ VisitsOK /\ ConfirmationSpinnerHasARequest

LEMMA StoreConstantsHaveTypes ==
    /\ NoOrder \in OrderType /\ NoOrder.pc = "free"
    /\ NoConfirmation \in ConfirmationType /\ FirstConfirmation \in ConfirmationType
    /\ NoConfirmation.status = "none" /\ FirstConfirmation.asked = {"own"}
    /\ \A c \in ConfirmationType : Aged(c) \in ConfirmationType /\ Aged(c).asked # {}
<1>1. (CHOOSE t \in Tabs : TRUE) \in Tabs
  BY StoreAssumption
<1>2. NoOrder \in OrderType /\ NoOrder.pc = "free"
  BY <1>1 DEF NoOrder, OrderType
<1>3. ASSUME NEW c \in ConfirmationType
      PROVE  Aged(c) \in ConfirmationType /\ Aged(c).asked # {}
  BY DEF Aged, ConfirmationType
<1> QED
  BY <1>2, <1>3 DEF NoConfirmation, FirstConfirmation, ConfirmationType

LEMMA StoreInitInvariant == StoreInit => StoreInv
<1> SUFFICES ASSUME StoreInit
             PROVE  StoreInv
  OBVIOUS
<1>1. <<>> \in Lines
  BY DEF Lines
<1>2. StoreTypes
  BY <1>1, StoreConstantsHaveTypes DEF StoreInit, StoreTypes, CustomerPage, Form
<1>3. VisitsOK
  BY StoreConstantsHaveTypes DEF StoreInit, VisitsOK, WaitedFor
<1>4. ConfirmationSpinnerHasARequest
  BY StoreConstantsHaveTypes DEF StoreInit, ConfirmationSpinnerHasARequest
<1> QED
  BY <1>2, <1>3, <1>4 DEF StoreInv

\* The reducers make carts out of carts.
LEMMA RemovedIsACart ==
    ASSUME NEW items \in Lines, NEW key
    PROVE  Removed(items, key) \in Lines
<1>1. {i \in DOMAIN items : KeyOf(items[i].food) # key} \in SUBSET DOMAIN items
  OBVIOUS
<1> QED
  BY <1>1, AtPositionsIsSeq DEF Removed, Lines

LEMMA RequantifiedIsACart ==
    ASSUME NEW items \in Lines, NEW key, NEW quantity \in 1..MaxQuantity
    PROVE  Requantified(items, key, quantity) \in Lines
<1> DEFINE first == FirstLine(items, key)
           after == [items EXCEPT ![first].quantity = quantity]
<1>1. /\ Len(items) \in Nat /\ DOMAIN items = 1..Len(items)
      /\ \A i \in 1..Len(items) : items[i] \in Line
  BY DEF Lines
<1>2. \A i \in 1..Len(items) : [items[i] EXCEPT !.quantity = quantity] \in Line
  BY <1>1 DEF Line
<1>4. after \in [1..Len(items) -> Line]
  <2> HIDE DEF first
  <2> QED
    BY <1>1, <1>2
<1>3. after \in Lines
  BY <1>1, <1>4 DEF Lines
<1> QED
  BY <1>3 DEF Requantified

LEMMA AddedIsACart ==
    ASSUME NEW items \in Lines, NEW food \in Foods,
           \A i \in DOMAIN items : items[i].quantity < MaxQuantity
    PROVE  Added(items, food) \in Lines
<1> DEFINE first == FirstLine(items, KeyOf(food))
           after == [items EXCEPT ![first].quantity = @ + 1]
<1>1. /\ Len(items) \in Nat /\ DOMAIN items = 1..Len(items)
      /\ \A i \in 1..Len(items) : items[i] \in Line
  BY DEF Lines
<1>2. \A i \in 1..Len(items) : [items[i] EXCEPT !.quantity = @ + 1] \in Line
  <2> SUFFICES ASSUME NEW i \in 1..Len(items)
               PROVE  [items[i] EXCEPT !.quantity = @ + 1] \in Line
    OBVIOUS
  <2>1. items[i] \in Line /\ items[i].quantity + 1 \in 1..MaxQuantity
    BY <1>1, StoreAssumption DEF Line
  <2> QED
    BY <2>1 DEF Line
<1>5. after \in [1..Len(items) -> Line]
  <2> HIDE DEF first
  <2> QED
    BY <1>1, <1>2
<1>3. after \in Lines
  BY <1>1, <1>5 DEF Lines
<1>4. Append(items, [food |-> food, quantity |-> 1]) \in Lines
  BY StoreAssumption DEF Lines, Line
<1> QED
  BY <1>3, <1>4 DEF Added

\* A changed cart is stored.
LEMMA ChangeCartKeeps ==
    ASSUME StoreInv, NEW t \in Tabs, NEW items \in Lines, ChangeCart(t, items)
    PROVE  StoreInv'
<1>1. StoreTypes'
  BY DEF StoreInv, StoreTypes, ChangeCart
<1>2. VisitsOK' /\ ConfirmationSpinnerHasARequest'
  BY DEF StoreInv, VisitsOK, WaitedFor, ConfirmationSpinnerHasARequest, ChangeCart
<1> QED
  BY <1>1, <1>2 DEF StoreInv

\* Steps of the cart and menu pages.
LEMMA CartStepsKeep ==
    ASSUME StoreInv, NEW t \in Tabs,
           \/ \E food \in Foods : AddToStoredCart(t, food)
           \/ \E i \in DOMAIN cartItems[t] :
                 \/ \E quantity \in 0..MaxQuantity : ChangeQuantity(t, i, quantity)
                 \/ RemoveItem(t, i)
           \/ ClearStoredCart(t)
    PROVE  StoreInv'
<1>1. cartItems[t] \in Lines
  BY DEF StoreInv, StoreTypes
<1>2. ASSUME NEW food \in Foods, AddToStoredCart(t, food)
      PROVE  StoreInv'
  BY <1>1, <1>2, AddedIsACart, ChangeCartKeeps DEF AddToStoredCart
<1>3. ASSUME NEW i \in DOMAIN cartItems[t], NEW quantity \in 0..MaxQuantity,
             ChangeQuantity(t, i, quantity)
      PROVE  StoreInv'
  <2> DEFINE key == KeyOf(cartItems[t][i].food)
             items == IF quantity < 1 THEN Removed(cartItems[t], key)
                                      ELSE Requantified(cartItems[t], key, quantity)
  <2>1. items \in Lines
    BY <1>1, RemovedIsACart, RequantifiedIsACart, StoreAssumption
  <2>2. ChangeCart(t, items)
    BY <1>3 DEF ChangeQuantity
  <2> QED
    BY <2>1, <2>2, ChangeCartKeeps
<1>4. ASSUME NEW i \in DOMAIN cartItems[t], RemoveItem(t, i)
      PROVE  StoreInv'
  BY <1>1, <1>4, RemovedIsACart, ChangeCartKeeps DEF RemoveItem
<1>5. CASE ClearStoredCart(t)
  <2>1. <<>> \in Lines
    BY DEF Lines
  <2> QED
    BY <1>5, <2>1, ChangeCartKeeps DEF ClearStoredCart
<1> QED
  BY <1>2, <1>3, <1>4, <1>5

\* A tab that goes elsewhere or is loaded again waits for no order; one that is loaded
\* has the stored cart.
LEMMA LeavingKeeps ==
    ASSUME StoreInv, NEW t \in Tabs,
           LoadTab(t) \/ \E p \in CustomerPage : GoTo(t, p)
    PROVE  StoreInv'
<1>1. /\ ordering' = [ordering EXCEPT ![t] = FALSE]
      /\ form' = [form EXCEPT ![t] = "incomplete"]
      /\ UNCHANGED storedCart
      /\ cartItems' \in {cartItems, [cartItems EXCEPT ![t] = storedCart]}
  BY DEF LoadTab, GoTo
<1>2. \A o \in Orders :
         /\ orders'[o] \in OrderType
         /\ orders[o].tab = t => orders'[o].pc = "free" \/ orders'[o].live = FALSE
         /\ orders[o].tab # t => orders'[o] = orders[o]
  <2>1. \A o \in Orders : [orders[o] EXCEPT !.live = FALSE] \in OrderType
                            /\ [orders[o] EXCEPT !.live = FALSE].live = FALSE
    BY DEF StoreInv, StoreTypes, OrderType
  <2>2. CASE LoadTab(t)
    BY <2>2, StoreConstantsHaveTypes DEF StoreInv, StoreTypes, LoadTab
  <2>3. CASE \E p \in CustomerPage : GoTo(t, p)
    BY <2>1, <2>3 DEF StoreInv, StoreTypes, GoTo, Unheard
  <2> QED
    BY <2>2, <2>3
<1>3. /\ page' \in [Tabs -> CustomerPage]
      /\ \E c \in {NoConfirmation, FirstConfirmation} :
            confirmation' = [confirmation EXCEPT ![t] = c]
      /\ DOMAIN orders' = Orders
  BY DEF StoreInv, StoreTypes, LoadTab, GoTo, Landing, CustomerPage, Unheard
<1>4. StoreTypes'
  <2>1. orders' \in [Orders -> OrderType]
    <3>1. orders' = [o \in Orders |-> orders'[o]]
      BY DEF LoadTab, GoTo, Unheard
    <3> QED
      BY <1>2, <3>1
  <2>2. cartItems' \in [Tabs -> Lines] /\ form' \in [Tabs -> Form] /\ ordering' \in [Tabs -> BOOLEAN]
    BY <1>1 DEF StoreInv, StoreTypes, Form
  <2>3. confirmation' \in [Tabs -> ConfirmationType]
    BY <1>3, StoreConstantsHaveTypes DEF StoreInv, StoreTypes
  <2> QED
    BY <1>1, <1>3, <2>1, <2>2, <2>3 DEF StoreInv, StoreTypes
<1>5. VisitsOK'
  BY <1>1, <1>2 DEF StoreInv, StoreTypes, VisitsOK, WaitedFor
<1>6. ConfirmationSpinnerHasARequest'
  BY <1>3, StoreConstantsHaveTypes DEF StoreInv, StoreTypes, ConfirmationSpinnerHasARequest
<1> QED
  BY <1>4, <1>5, <1>6 DEF StoreInv

\* An order is sent by a page that waits for none.
LEMMA PlacingKeeps ==
    ASSUME StoreInv, NEW t \in Tabs, NEW o \in Orders, PlaceOrder(t, o)
    PROVE  StoreInv'
<1>1. StoreTypes'
  BY DEF StoreInv, StoreTypes, OrderType, PlaceOrder
<1>2. /\ orders'[o].tab = t /\ \A p \in Orders \ {o} : orders'[p] = orders[p]
      /\ ordering'[t] /\ \A u \in Tabs \ {t} : ordering'[u] = ordering[u]
      /\ orders'[o].pc = "sent" /\ orders'[o].live
  BY DEF StoreInv, StoreTypes, PlaceOrder
<1>3. \A p \in Orders \ {o} : orders[p].tab \in Tabs /\ (WaitedFor(p) => orders[p].tab # t)
  BY DEF StoreInv, StoreTypes, OrderType, VisitsOK, PlaceOrder
<1>4. ~WaitedFor(o)
  BY DEF WaitedFor, PlaceOrder
<1>5. VisitsOK'
  BY <1>2, <1>3, <1>4 DEF StoreInv, VisitsOK, WaitedFor
<1>6. ConfirmationSpinnerHasARequest'
  BY DEF StoreInv, ConfirmationSpinnerHasARequest, PlaceOrder
<1> QED
  BY <1>1, <1>5, <1>6 DEF StoreInv

\* An accepted order empties the cart, the stored one too, and is what the
\* confirmation asks for.
LEMMA AcceptingKeeps ==
    ASSUME StoreInv, NEW o \in Orders, OrderAccepted(o)
    PROVE  StoreInv'
<1> DEFINE t == orders[o].tab
<1>1. t \in Tabs /\ <<>> \in Lines
  BY DEF StoreInv, StoreTypes, OrderType, Lines
<1>2. /\ cartItems' = [cartItems EXCEPT ![t] = <<>>] /\ storedCart' = <<>>
      /\ ordering' = [ordering EXCEPT ![t] = FALSE]
      /\ form' = [form EXCEPT ![t] = "incomplete"]
      /\ orders' = [Unheard(t) EXCEPT ![o] = NoOrder]
  BY DEF OrderAccepted
<1>3. /\ orders' \in [Orders -> OrderType]
      /\ \A q \in Orders :
            /\ orders[q].tab = t => orders'[q].pc = "free" \/ orders'[q].live = FALSE
            /\ orders[q].tab # t => orders'[q] = orders[q]
  <2>1. \A q \in Orders : [orders[q] EXCEPT !.live = FALSE] \in OrderType
                            /\ [orders[q] EXCEPT !.live = FALSE].live = FALSE
    BY DEF StoreInv, StoreTypes, OrderType
  <2>2. /\ Unheard(t) \in [Orders -> OrderType]
        /\ \A q \in Orders :
              /\ orders[q].tab = t => Unheard(t)[q].live = FALSE
              /\ orders[q].tab # t => Unheard(t)[q] = orders[q]
    BY <2>1 DEF StoreInv, StoreTypes, Unheard
  <2> HIDE DEF t
  <2> QED
    BY <1>2, <2>2, StoreConstantsHaveTypes DEF t
<1>4. PICK p \in {"confirmation"} \union (IF page[t] = "checkout" THEN {"cart"} ELSE {}) :
         /\ page' = [page EXCEPT ![t] = p]
         /\ confirmation' = [confirmation EXCEPT ![t] =
                               IF p = "cart" THEN NoConfirmation
                               ELSE IF page[t] = "confirmation" THEN Aged(@)
                               ELSE FirstConfirmation]
  BY DEF OrderAccepted
<1> HIDE DEF t
<1>5. PICK c \in ConfirmationType :
         /\ confirmation' = [confirmation EXCEPT ![t] = c]
         /\ c.status = "loading" => c.asked # {}
  <2>1. confirmation[t] \in ConfirmationType
    BY <1>1 DEF StoreInv, StoreTypes
  <2> QED
    BY <1>4, <2>1, StoreConstantsHaveTypes
<1>6. StoreTypes'
  <2>1. /\ cartItems' \in [Tabs -> Lines] /\ form' \in [Tabs -> Form]
        /\ ordering' \in [Tabs -> BOOLEAN] /\ page' \in [Tabs -> CustomerPage]
    BY <1>1, <1>2, <1>4 DEF StoreInv, StoreTypes, Form, CustomerPage
  <2>2. confirmation' \in [Tabs -> ConfirmationType]
    BY <1>5 DEF StoreInv, StoreTypes
  <2> QED
    BY <1>1, <1>2, <1>3, <2>1, <2>2 DEF StoreTypes
<1>7. VisitsOK'
  BY <1>2, <1>3 DEF StoreInv, StoreTypes, VisitsOK, WaitedFor
<1>8. ConfirmationSpinnerHasARequest'
  BY <1>5 DEF StoreInv, StoreTypes, ConfirmationSpinnerHasARequest
<1> QED
  BY <1>6, <1>7, <1>8 DEF StoreInv

\* The only order a page waits for fails, and the page loads no more; or an order
\* nobody waits for does.
LEMMA FailingKeeps ==
    ASSUME StoreInv, NEW o \in Orders, OrderFails(o)
    PROVE  StoreInv'
<1>1. orders[o].tab \in Tabs /\ orders' = [orders EXCEPT ![o] = NoOrder]
      /\ UNCHANGED <<cartItems, storedCart, page, form, confirmation>>
      /\ ordering' = IF orders[o].live THEN [ordering EXCEPT ![orders[o].tab] = FALSE]
                                       ELSE ordering
  BY DEF StoreInv, StoreTypes, OrderType, OrderFails
<1>2. StoreTypes'
  BY <1>1, StoreConstantsHaveTypes DEF StoreInv, StoreTypes
<1>3. /\ orders'[o].pc = "free" /\ \A p \in Orders \ {o} : orders'[p] = orders[p]
      /\ orders[o].pc = "sent"
  BY <1>1, StoreConstantsHaveTypes DEF StoreInv, StoreTypes, OrderFails
<1>4. VisitsOK'
  <2>1. CASE orders[o].live
    <3>1. \A p \in Orders \ {o} : WaitedFor(p) => orders[p].tab # orders[o].tab
      BY <1>3, <2>1 DEF StoreInv, VisitsOK, WaitedFor
    <3>2. \A u \in Tabs : ordering'[u] = (u # orders[o].tab /\ ordering[u])
      BY <1>1, <2>1 DEF StoreInv, StoreTypes
    <3>3. \A p \in Orders : orders[p].tab \in Tabs
      BY DEF StoreInv, StoreTypes, OrderType
    <3>4. \A p \in Orders : orders'[p].pc = "sent" /\ orders'[p].live
                              => p # o /\ WaitedFor(p) /\ orders'[p] = orders[p]
      BY <1>3 DEF WaitedFor
    <3>5. \A p \in Orders : orders'[p].pc = "sent" /\ orders'[p].live => ordering'[orders'[p].tab]
      <4> SUFFICES ASSUME NEW p \in Orders, orders'[p].pc = "sent", orders'[p].live
                   PROVE  ordering'[orders'[p].tab]
        OBVIOUS
      <4>1. p # o /\ WaitedFor(p) /\ orders'[p] = orders[p] /\ orders[p].tab \in Tabs
        BY <3>3, <3>4
      <4>2. orders[p].tab # orders[o].tab /\ ordering[orders[p].tab]
        BY <3>1, <4>1 DEF StoreInv, VisitsOK
      <4> QED
        BY <3>2, <4>1, <4>2
    <3>6. \A t \in Tabs : ordering'[t] =>
             \E p \in Orders : orders'[p].pc = "sent" /\ orders'[p].live /\ orders'[p].tab = t
      <4> SUFFICES ASSUME NEW t \in Tabs, ordering'[t]
                   PROVE  \E p \in Orders : orders'[p].pc = "sent" /\ orders'[p].live
                                               /\ orders'[p].tab = t
        OBVIOUS
      <4>1. t # orders[o].tab /\ ordering[t]
        BY <3>2
      <4>2. PICK p \in Orders : WaitedFor(p) /\ orders[p].tab = t
        BY <4>1 DEF StoreInv, VisitsOK
      <4> QED
        BY <1>3, <4>1, <4>2 DEF WaitedFor
    <3>7. \A p, q \in Orders :
             /\ orders'[p].pc = "sent" /\ orders'[p].live
             /\ orders'[q].pc = "sent" /\ orders'[q].live
             /\ orders'[p].tab = orders'[q].tab
             => p = q
      BY <3>4 DEF StoreInv, VisitsOK
    <3> QED
      BY <3>5, <3>6, <3>7 DEF VisitsOK, WaitedFor
  <2>2. CASE ~orders[o].live
    BY <1>1, <1>3, <2>2 DEF StoreInv, VisitsOK, WaitedFor
  <2> QED
    BY <2>1, <2>2
<1>5. ConfirmationSpinnerHasARequest'
  BY <1>1 DEF StoreInv, ConfirmationSpinnerHasARequest
<1> QED
  BY <1>2, <1>4, <1>5 DEF StoreInv

\* Any answer takes the spinner of the confirmation away.
LEMMA AnswersKeep ==
    ASSUME StoreInv, NEW t \in Tabs, NEW which \in {"own", "old"},
           OrderShown(t, which) \/ OrderNotFound(t, which)
    PROVE  StoreInv'
<1>1. confirmation[t] \in ConfirmationType
  BY DEF StoreInv, StoreTypes
<1>2. PICK c \in ConfirmationType :
         confirmation' = [confirmation EXCEPT ![t] = c] /\ c.status # "loading"
  <2>1. CASE OrderShown(t, which)
    <3> DEFINE c == [status |-> "shown", shows |-> which, asked |-> confirmation[t].asked \ {which}]
    <3>1. c \in ConfirmationType /\ c.status # "loading"
      BY <1>1 DEF ConfirmationType
    <3>2. confirmation' = [confirmation EXCEPT ![t] = c]
      BY <2>1 DEF OrderShown
    <3> QED
      BY <3>1, <3>2
  <2>2. CASE OrderNotFound(t, which)
    <3> DEFINE c == [confirmation[t] EXCEPT !.status = "error", !.asked = @ \ {which}]
    <3>1. c \in ConfirmationType /\ c.status # "loading"
      BY <1>1 DEF ConfirmationType
    <3>2. confirmation' = [confirmation EXCEPT ![t] = c]
      BY <1>1, <2>2 DEF OrderNotFound, StoreInv, StoreTypes, ConfirmationType
    <3> QED
      BY <3>1, <3>2
  <2> QED
    BY <2>1, <2>2
<1>3. UNCHANGED <<cartItems, storedCart, page, form, ordering, orders>>
  BY DEF OrderShown, OrderNotFound
<1>4. StoreTypes' /\ ConfirmationSpinnerHasARequest'
  BY <1>2, <1>3 DEF StoreInv, StoreTypes, ConfirmationSpinnerHasARequest
<1>5. VisitsOK'
  BY <1>3 DEF StoreInv, VisitsOK, WaitedFor
<1> QED
  BY <1>4, <1>5 DEF StoreInv

LEMMA StoreStepInvariant ==
    ASSUME StoreInv, [StoreNext]_storeVars
    PROVE  StoreInv'
<1>1. ASSUME NEW t \in Tabs, NEW filled \in Form, FillForm(t, filled)
      PROVE  StoreInv'
  BY <1>1 DEF StoreInv, StoreTypes, VisitsOK, WaitedFor, ConfirmationSpinnerHasARequest,
              FillForm
<1>2. CASE UNCHANGED storeVars
  BY <1>2 DEF StoreInv, StoreTypes, VisitsOK, WaitedFor, ConfirmationSpinnerHasARequest,
              storeVars
<1> QED
  BY <1>1, <1>2, CartStepsKeep, LeavingKeeps, PlacingKeeps, AcceptingKeeps, FailingKeeps,
     AnswersKeep DEF StoreNext

\* What the invariant says of visits.
LEMMA StoreInvMeans ==
    ASSUME StoreInv
    PROVE  StoreTypeOK /\ OneOrderPerVisit /\ ConfirmationSpinnerHasARequest
<1>1. StoreTypeOK
  BY DEF StoreInv, StoreTypes, StoreTypeOK, Lines, OrderType, ConfirmationType
<1>2. OneOrderPerVisit
  <2> SUFFICES ASSUME NEW t \in Tabs
               PROVE  Cardinality({o \in Orders : orders[o].pc = "sent" /\ orders[o].tab = t
                                                    /\ orders[o].live})
                        = IF ordering[t] THEN 1 ELSE 0
    BY DEF OneOrderPerVisit
  <2> DEFINE waited == {o \in Orders : orders[o].pc = "sent" /\ orders[o].tab = t
                                         /\ orders[o].live}
  <2>1. CASE ordering[t]
    <3>1. PICK o \in Orders : WaitedFor(o) /\ orders[o].tab = t
      BY <2>1 DEF StoreInv, VisitsOK
    <3>2. waited = {o}
      BY <3>1 DEF StoreInv, VisitsOK, WaitedFor
    <3> QED
      BY <2>1, <3>2, FS_Singleton
  <2>2. CASE ~ordering[t]
    <3>1. waited = {}
      BY <2>2 DEF StoreInv, VisitsOK, WaitedFor
    <3> QED
      BY <2>2, <3>1, FS_EmptySet
  <2> QED
    BY <2>1, <2>2
<1> QED
  BY <1>1, <1>2 DEF StoreInv

\* The customer's pages are well formed in every tab, however carts, visits, orders and
\* late answers interleave.
THEOREM StoreInvariant == StoreSpec => []StoreInv
<1>1. StoreInit => StoreInv
  BY StoreInitInvariant
<1>2. StoreInv /\ [StoreNext]_storeVars => StoreInv'
  BY StoreStepInvariant
<1> QED
  BY <1>1, <1>2, PTL DEF StoreSpec

\* One visit to the checkout page has one order under way at most, and loads exactly
\* as long (useCheckout.js:46-74).
THEOREM VisitsOrderOnce == StoreSpec => []OneOrderPerVisit
BY StoreInvariant, StoreInvMeans, PTL

-----------------------------------------------------------------------------
(* The browser                                                             *)

\* Each machine keeps its invariant by its own steps, and stays as it is by those of
\* the others.
FrontendInv == SessionInv /\ BoardInv /\ StoreInv /\ MenuInv

LEMMA FrontendStepInvariant ==
    ASSUME FrontendInv, [Next]_vars
    PROVE  FrontendInv'
<1>1. /\ [SessionNext]_sessionVars /\ [BoardNext]_boardVars
      /\ [StoreNext]_storeVars /\ [MenuNext]_menuVars
  BY DEF Next, vars
<1> QED
  BY <1>1, SessionStepInvariant, BoardStepInvariant, StoreStepInvariant, MenuStepInvariant
     DEF FrontendInv

\* All machines of the browser are well formed.
THEOREM FrontendInvariant == FrontendSpec => []FrontendInv
<1>1. Init => FrontendInv
  BY SessionInitInvariant, BoardInitInvariant, StoreInitInvariant, MenuInitInvariant
     DEF Init, FrontendInv
<1>2. FrontendInv /\ [Next]_vars => FrontendInv'
  BY FrontendStepInvariant
<1> QED
  BY <1>1, <1>2, PTL DEF FrontendSpec

LEMMA FrontendInvMeans ==
    ASSUME FrontendInv
    PROVE  /\ FrontendTypeOK /\ SpinnersHaveRequests
           /\ RefreshIsSingleFlight /\ NoCallIsStranded /\ OneRefreshPerCall
           /\ OneOrderPerVisit
<1>1. BoardTypeOK
  BY DEF FrontendInv, BoardInv, BoardTypes, BoardTypeOK, FetchType, PutType
<1> QED
  BY <1>1, SessionInvMeans, StoreInvMeans
     DEF FrontendInv, MenuInv, FrontendTypeOK, SpinnersHaveRequests

\* The state of the browser keeps its types.
THEOREM FrontendTypes == FrontendSpec => []FrontendTypeOK
BY FrontendInvariant, FrontendInvMeans, PTL

\* Behind every spinner of the browser there is a request (authSlice.js:102-133,
\* menuSlice.js:94-106, useOrderConfirmation.js:22-48).
THEOREM SpinnersAreServed == FrontendSpec => []SpinnersHaveRequests
BY FrontendInvariant, FrontendInvMeans, PTL
=============================================================================

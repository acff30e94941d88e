---------------------------- MODULE TokenSession ----------------------------
(***************************************************************************)
(* The session of one browser tab: the interceptors of httpClient.js with  *)
(* their refresh queue, the two tokens in localStorage, the auth slice,    *)
(* ProfileLoader, the login form, and the token endpoints they talk to.    *)
(* localStorage is shared with the other tabs, which sign in and out as    *)
(* they like; no tab listens to the storage event, so this one finds the   *)
(* tokens changed or gone when it next reads them.                         *)
(*                                                                         *)
(* Access token k and refresh token k are the pair of the k-th grant; 0 is *)
(* no token.  A call is one request of the page, from the moment axios     *)
(* sends it until its promise settles; several are under way at once and   *)
(* their answers arrive in any order.                                      *)
(***************************************************************************)
EXTENDS Integers, FiniteSets

CONSTANTS
    Calls,          \* the requests the tab can have under way
    MaxGrants       \* bound on the token pairs the server hands out

ASSUME MaxGrantsAssumption == MaxGrants \in Nat
ASSUME CallsAssumption == Calls # {}

VARIABLES
    stored,         \* localStorage, of all tabs: [access, refresh]
    auth,           \* the auth slice: [user, isAuthenticated, loading]
    isRefreshing,   \* a refresh of the access token is under way
    failedQueue,    \* the calls that wait for it
    calls,          \* what each call is doing
    loginLoading,   \* the login page waits for its login
    tokens          \* the server's side: [granted, access, refresh]

sessionVars ==
    <<stored, auth, isRefreshing, failedQueue, calls, loginLoading, tokens>>

NoToken == 0
Token == NoToken..MaxGrants
Kind == {"api", "profile", "login", "logout"}

Call == [pc : {"free", "sent", "answered", "queued", "refreshing", "refreshed"},
         kind : Kind, retry : BOOLEAN, refreshes : 0..2, token : Token,
         answer : {"none", "ok", "unauthorized", "failed"}]

FreeCall == [pc |-> "free", kind |-> "api", retry |-> FALSE, refreshes |-> 0,
             token |-> NoToken, answer |-> "none"]

InState(pc) == {c \in Calls : calls[c].pc = pc}

\* The request interceptor: a request carries whatever access token is stored
\* when it is sent.
Sent(call, token) == [call EXCEPT !.pc = "sent", !.token = token, !.answer = "none"]

NewCall(kind, token) == Sent([FreeCall EXCEPT !.kind = kind], token)

-----------------------------------------------------------------------------
\* The auth slice.

SignedOut(a) == [a EXCEPT !.user = "null", !.isAuthenticated = FALSE]
Thunks == {"login", "profile"}

\* Mutant: fetchUserProfile.rejected leaves loading on.
RejectedLoads(a, kinds) == IF "login" \in kinds THEN [a EXCEPT !.loading = FALSE] ELSE a

\* loginUser and fetchUserProfile settled without success: loading goes off.
Rejected(a, kinds) == IF kinds \cap Thunks # {} THEN [a EXCEPT !.loading = FALSE] ELSE a

LoginPending(loading, kinds) == loading /\ "login" \notin kinds

Empty == [access |-> NoToken, refresh |-> NoToken]

\* What the page does with the tokens when a call cannot be authenticated: the
\* event auth:logout reaches AuthListener, whose logout() signs out in the store
\* and, through the persistence middleware, empties localStorage.
AuthLogout(a) == SignedOut(a)

\* ProfileLoader: with a free call, the profile is fetched again.
LoadProfile(cs, token) ==
    IF \E c \in Calls : cs[c].pc = "free"
    THEN [cs EXCEPT ![CHOOSE c \in Calls : cs[c].pc = "free"] = NewCall("profile", token)]
    ELSE cs

-----------------------------------------------------------------------------
SessionInit ==
    /\ stored = Empty
    /\ auth = [user |-> "undefined", isAuthenticated |-> FALSE, loading |-> FALSE]
    /\ isRefreshing = FALSE
    /\ failedQueue = {}
    /\ calls = [c \in Calls |-> FreeCall]
    /\ loginLoading = FALSE
    /\ tokens = [granted |-> 0, access |-> {}, refresh |-> {}]

\* A page of the application asks the API for something.
CallApi(c) ==
    /\ calls[c].pc = "free"
    /\ calls' = [calls EXCEPT ![c] = NewCall("api", stored.access)]
    /\ UNCHANGED <<stored, auth, isRefreshing, failedQueue, loginLoading, tokens>>

\* handleSubmit of the login page; its button is disabled while it loads.
SubmitLogin(c) ==
    /\ calls[c].pc = "free"
    /\ ~loginLoading
    /\ calls' = [calls EXCEPT ![c] = NewCall("login", stored.access)]
    /\ loginLoading' = TRUE
    /\ auth' = [auth EXCEPT !.loading = TRUE]
    /\ UNCHANGED <<stored, isRefreshing, failedQueue, tokens>>

\* logoutUser of useAuth: the call comes first, the credentials go when it ends.
SubmitLogout(c) ==
    /\ calls[c].pc = "free"
    /\ auth.isAuthenticated
    /\ calls' = [calls EXCEPT ![c] = NewCall("logout", stored.access)]
    /\ UNCHANGED <<stored, auth, isRefreshing, failedQueue, loginLoading, tokens>>

\* The logout button of the admin pages: at once, whatever is under way.
ClickLogout ==
    /\ auth.isAuthenticated
    /\ auth' = SignedOut(auth)
    /\ stored' = Empty
    /\ UNCHANGED <<isRefreshing, failedQueue, calls, loginLoading, tokens>>

\* The tab is reloaded: calls and queue are gone, the slice starts from the
\* stored token, and ProfileLoader fetches the profile if there is one.
Reload ==
    /\ LET authenticated == stored.access # NoToken
           none == [c \in Calls |-> FreeCall]
       IN  /\ calls' = IF authenticated THEN LoadProfile(none, stored.access) ELSE none
           /\ auth' = [user |-> "undefined", isAuthenticated |-> authenticated,
                       loading |-> authenticated]
    /\ isRefreshing' = FALSE
    /\ failedQueue' = {}
    /\ loginLoading' = FALSE
    /\ UNCHANGED <<stored, tokens>>

-----------------------------------------------------------------------------
\* The server.

\* A new pair, signed by generateTokens.
Grant == [granted |-> tokens.granted + 1,
          access  |-> tokens.access \union {tokens.granted + 1},
          refresh |-> tokens.refresh \union {tokens.granted + 1}]

Answered(c, answer, token) ==
    calls' = [calls EXCEPT ![c].pc = "answered", ![c].answer = answer, ![c].token = token]

ServerAccepts(c) ==
    /\ calls[c].pc = "sent"
    /\ \/ /\ calls[c].kind \in {"api", "profile"}
          /\ calls[c].token \in tokens.access
          /\ Answered(c, "ok", calls[c].token)
          /\ UNCHANGED tokens
       \/ /\ calls[c].kind = "login"
          /\ tokens.granted < MaxGrants
          /\ tokens' = Grant
          /\ Answered(c, "ok", tokens'.granted)
    /\ UNCHANGED <<stored, auth, isRefreshing, failedQueue, loginLoading>>

\* 401: no live access token, or credentials that do not match.
ServerRefuses(c) ==
    /\ calls[c].pc = "sent"
    /\ \/ calls[c].kind \in {"api", "profile"} /\ calls[c].token \notin tokens.access
       \/ calls[c].kind = "login"
    /\ Answered(c, "unauthorized", calls[c].token)
    /\ UNCHANGED <<stored, auth, isRefreshing, failedQueue, loginLoading, tokens>>

\* No answer, or an answer other than success and 401; logout always ends here,
\* for the backend has no such route.
CallFails(c) ==
    /\ calls[c].pc = "sent"
    /\ Answered(c, "failed", calls[c].token)
    /\ UNCHANGED <<stored, auth, isRefreshing, failedQueue, loginLoading, tokens>>

ServerRefreshes(c) ==
    /\ calls[c].pc = "refreshing"
    /\ calls[c].token \in tokens.refresh
    /\ tokens.granted < MaxGrants
    /\ tokens' = Grant
    /\ calls' = [calls EXCEPT ![c].pc = "refreshed", ![c].answer = "ok",
                              ![c].token = tokens'.granted]
    /\ UNCHANGED <<stored, auth, isRefreshing, failedQueue, loginLoading>>

RefreshFails(c) ==
    /\ calls[c].pc = "refreshing"
    /\ calls' = [calls EXCEPT ![c].pc = "refreshed", ![c].answer = "failed"]
    /\ UNCHANGED <<stored, auth, isRefreshing, failedQueue, loginLoading, tokens>>

AccessExpires(k) ==
    /\ k \in tokens.access
    /\ tokens' = [tokens EXCEPT !.access = @ \ {k}]
    /\ UNCHANGED <<stored, auth, isRefreshing, failedQueue, calls, loginLoading>>

RefreshExpires(k) ==
    /\ k \in tokens.refresh
    /\ tokens' = [tokens EXCEPT !.refresh = @ \ {k}]
    /\ UNCHANGED <<stored, auth, isRefreshing, failedQueue, calls, loginLoading>>

-----------------------------------------------------------------------------
\* The other tabs.

\* One of them signs out, or gives up a refresh of its own: its persistence
\* middleware empties the storage all tabs share.
OtherTabSignsOut ==
    /\ stored # Empty
    /\ stored' = Empty
    /\ UNCHANGED <<auth, isRefreshing, failedQueue, calls, loginLoading, tokens>>

\* One of them is granted a pair, by a sign-in or a refresh, and stores it.
OtherTabStores ==
    /\ tokens.granted < MaxGrants
    /\ tokens' = Grant
    /\ stored' = [access |-> tokens'.granted, refresh |-> tokens'.granted]
    /\ UNCHANGED <<auth, isRefreshing, failedQueue, calls, loginLoading>>

-----------------------------------------------------------------------------
\* The response interceptor and the thunks behind it.

Free(cs) == [c \in Calls |-> IF c \in cs THEN FreeCall ELSE calls[c]]

\* The answer is a success.
HandleSuccess(c) ==
    /\ calls[c].pc = "answered" /\ calls[c].answer = "ok"
    /\ calls' = Free({c})
    /\ \/ /\ calls[c].kind = "api"
          /\ UNCHANGED <<stored, auth, loginLoading>>
       \/ /\ calls[c].kind = "profile"
          /\ auth' = [auth EXCEPT !.user = "loaded", !.loading = FALSE]
          /\ UNCHANGED <<stored, loginLoading>>
       \* The role is 'ADMIN' or 'USER', never the 'admin' useLogin asks for: the
       \* form says that access is denied, signed in or not.
       \/ /\ calls[c].kind = "login"
          /\ stored' = [access |-> calls[c].token, refresh |-> calls[c].token]
          /\ auth' = [user |-> "loaded", isAuthenticated |-> TRUE, loading |-> FALSE]
          /\ loginLoading' = FALSE
    /\ UNCHANGED <<isRefreshing, failedQueue, tokens>>

\* Any failure but a 401 that may be retried.
Final(call) ==
    \/ call.answer = "failed"
    \/ call.answer = "unauthorized" /\ call.retry

HandleFailure(c) ==
    /\ calls[c].pc = "answered" /\ Final(calls[c])
    /\ calls' = Free({c})
    /\ IF calls[c].kind = "logout"
       THEN /\ stored' = Empty
            /\ auth' = [SignedOut(auth) EXCEPT !.loading = FALSE]
       ELSE /\ auth' = Rejected(auth, {calls[c].kind})
            /\ UNCHANGED stored
    /\ loginLoading' = LoginPending(loginLoading, {calls[c].kind})
    /\ UNCHANGED <<isRefreshing, failedQueue, tokens>>

MayRetry(c) ==
    /\ calls[c].pc = "answered"
    /\ calls[c].answer = "unauthorized"
    /\ ~calls[c].retry

\* A 401 while another call refreshes: wait in the queue.
JoinQueue(c) ==
    /\ MayRetry(c)
    /\ isRefreshing
    /\ calls' = [calls EXCEPT ![c].pc = "queued"]
    /\ failedQueue' = failedQueue \union {c}
    /\ UNCHANGED <<stored, auth, isRefreshing, loginLoading, tokens>>

\* Mutant: originalRequest._retry is not set.
RefreshingAgain(call, token) ==
    [call EXCEPT !.pc = "refreshing", !.token = token,
                 !.refreshes = IF @ < 2 THEN @ + 1 ELSE @]

\* The call that is about to refresh, marked so that it does so once.
Refreshing(call, token) ==
    [call EXCEPT !.pc = "refreshing", !.retry = TRUE, !.token = token,
                 !.refreshes = IF @ < 2 THEN @ + 1 ELSE @]

\* Mutant: isRefreshing is not looked at, each 401 refreshes for itself.
StartRefreshUnchecked(c) ==
    /\ MayRetry(c)
    /\ stored.refresh # NoToken
    /\ isRefreshing' = TRUE
    /\ calls' = [calls EXCEPT ![c] = Refreshing(calls[c], stored.refresh)]
    /\ UNCHANGED <<stored, auth, failedQueue, loginLoading, tokens>>

StartRefresh(c) ==
    /\ MayRetry(c)
    /\ ~isRefreshing
    /\ stored.refresh # NoToken
    /\ isRefreshing' = TRUE
    /\ calls' = [calls EXCEPT ![c] = Refreshing(calls[c], stored.refresh)]
    /\ UNCHANGED <<stored, auth, failedQueue, loginLoading, tokens>>

\* There is nothing to refresh with: the tab is signed out and the call fails.
NothingToRefresh(c) ==
    /\ MayRetry(c)
    /\ ~isRefreshing
    /\ stored.refresh = NoToken
    /\ stored' = Empty
    /\ auth' = Rejected(AuthLogout(auth), {calls[c].kind})
    /\ calls' = Free({c})
    /\ loginLoading' = LoginPending(loginLoading, {calls[c].kind})
    /\ UNCHANGED <<isRefreshing, failedQueue, tokens>>

\* Mutant: only the call that refreshed is sent again.
ResendOne(c, token) == [calls EXCEPT ![c] = Sent(calls[c], token)]

\* processQueue with a token: every waiting call, and the one that refreshed,
\* is sent again with it.
Resend(c, token) ==
    [d \in Calls |-> IF d \in failedQueue \union {c} THEN Sent(calls[d], token)
                                                     ELSE calls[d]]

\* The event auth:tokenRefreshed makes ProfileLoader fetch the profile again.
FinishRefresh(c) ==
    /\ calls[c].pc = "refreshed" /\ calls[c].answer = "ok"
    /\ stored' = [access |-> calls[c].token, refresh |-> calls[c].token]
    /\ LET resent == Resend(c, calls[c].token)
       IN  IF auth.isAuthenticated
           THEN calls' = LoadProfile(resent, calls[c].token)
           ELSE calls' = resent
    /\ auth' = IF calls' # Resend(c, calls[c].token) THEN [auth EXCEPT !.loading = TRUE]
                                                     ELSE auth
    /\ failedQueue' = {}
    /\ isRefreshing' = FALSE
    /\ UNCHANGED <<loginLoading, tokens>>

\* Mutant: the failure path does not call processQueue.
SettledOne(c) == {c}

\* processQueue with an error: every waiting call fails with the one that
\* refreshed, and the tab is signed out.
Settled(c) == failedQueue \union {c}

AbandonRefresh(c) ==
    /\ calls[c].pc = "refreshed" /\ calls[c].answer = "failed"
    /\ stored' = Empty
    /\ LET kinds == {calls[d].kind : d \in Settled(c)}
       IN  /\ auth' = Rejected(AuthLogout(auth), kinds)
           /\ loginLoading' = LoginPending(loginLoading, kinds)
    /\ calls' = Free(Settled(c))
    /\ failedQueue' = failedQueue \ Settled(c)
    /\ isRefreshing' = FALSE
    /\ UNCHANGED tokens

-----------------------------------------------------------------------------
UserStep ==
    \/ \E c \in Calls : CallApi(c) \/ SubmitLogin(c) \/ SubmitLogout(c)
    \/ ClickLogout
    \/ Reload

ServerStep(c) ==
    \/ ServerAccepts(c) \/ ServerRefuses(c) \/ CallFails(c)
    \/ ServerRefreshes(c) \/ RefreshFails(c)

ClientStep(c) ==
    \/ HandleSuccess(c) \/ HandleFailure(c) \/ JoinQueue(c) \/ StartRefresh(c)
    \/ NothingToRefresh(c) \/ FinishRefresh(c) \/ AbandonRefresh(c)

SessionNext ==
    \/ UserStep
    \/ \E c \in Calls : ServerStep(c) \/ ClientStep(c)
    \/ \E k \in 1..MaxGrants : AccessExpires(k) \/ RefreshExpires(k)
    \/ OtherTabSignsOut \/ OtherTabStores

SessionSpec == SessionInit /\ [][SessionNext]_sessionVars

\* Every request is answered or fails in the end (httpClient has a timeout of 30
\* seconds; the refresh call has none and relies on the browser's), and the event
\* loop runs the handler of an answer that has arrived.
SessionFairness ==
    \A c \in Calls : WF_sessionVars(ServerStep(c)) /\ WF_sessionVars(ClientStep(c))

-----------------------------------------------------------------------------
\* The types of the session's state.
SessionTypeOK ==
    /\ stored \in [access : Token, refresh : Token]
    /\ auth \in [user : {"undefined", "null", "loaded"}, isAuthenticated : BOOLEAN,
                 loading : BOOLEAN]
    /\ isRefreshing \in BOOLEAN
    /\ failedQueue \subseteq Calls
    /\ calls \in [Calls -> Call]
    /\ loginLoading \in BOOLEAN
    /\ tokens \in [granted : Token, access : SUBSET Token, refresh : SUBSET Token]

\* However the answers interleave and whatever other tabs do to the tokens, the tab
\* never has two refreshes under way, and isRefreshing says whether it has one
\* (httpClient.js:34, 109-125).
RefreshIsSingleFlight ==
    Cardinality(InState("refreshing") \union InState("refreshed"))
        = IF isRefreshing THEN 1 ELSE 0

\* No call is left waiting for a refresh that nobody runs: the queue holds exactly
\* the waiting calls, and only while a refresh is under way (httpClient.js:110-121,
\* 168-170 and 177-178).
NoCallIsStranded ==
    /\ failedQueue = InState("queued")
    /\ failedQueue # {} => isRefreshing

\* A call whose token is refused again after its own refresh gives up; it does not
\* refresh for ever (httpClient.js:109, 124).
OneRefreshPerCall == \A c \in Calls : calls[c].refreshes <= 1

\* A spinner always has a call behind it (authSlice.js:92-148, useLogin.js:51-76).
LoadingHasACall ==
    LET Busy(kinds) == \E c \in Calls : calls[c].pc # "free" /\ calls[c].kind \in kinds
    IN  /\ auth.loading => Busy({"login", "profile"})
        /\ loginLoading => Busy({"login"})

\* Every call a page makes settles, queued or not, whichever tokens expire or are
\* taken away by another tab meanwhile; a reload settles all of them, and may give
\* the slot to the profile (httpClient.js:109-188).
CallsSettle ==
    \A c \in Calls : calls[c].pc # "free" /\ calls[c].kind # "profile"
                        ~> calls[c].pc = "free" \/ calls[c].kind = "profile"
=============================================================================

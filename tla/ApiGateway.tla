------------------------------ MODULE ApiGateway ------------------------------
(***************************************************************************)
(* One call on its way from a page through the API gateway to the backend  *)
(* and back: the proxy of the gateway, the exception filter of the         *)
(* backend, and what httpClient makes of the answer.  401 is left out: it  *)
(* is TokenSession's.  Calls of one page share the browser's cache.        *)
(***************************************************************************)
EXTENDS Integers, FiniteSets

CONSTANTS
    Resources,      \* what the calls are about
    Routed          \* those whose first path segment the gateway routes

ASSUME RoutedAssumption == Resources # {} /\ Routed \subseteq Resources

VARIABLES
    call,           \* [stage, method, resource]
    effect,         \* history: what the backend did: [did, status]
    reply,          \* the answer on its way: [status, body]
    cached,         \* the resources the browser holds, with their ETags
    shown           \* what the page was told: [type, status]

gatewayVars == <<call, effect, reply, cached, shown>>

Methods == {"GET", "POST"}
NoCall == [stage |-> "idle", method |-> "GET", resource |-> CHOOSE r \in Resources : TRUE]
Nothing == [did |-> "nothing", status |-> 0]
NoReply == [status |-> 0, body |-> "none"]
NotShown == [type |-> "none", status |-> 0]

\* What a handler throws: an HttpException has a status, an error of Prisma, of the
\* network or of the code may have a code.  P1017 stands for the codes that say nothing
\* of the commit: the connection to the database, or its time, is gone.
CommitUnknown == {"P1017"}
PrismaCodes == {"P2002", "P2025"} \union CommitUnknown
Exceptions ==
    [status : {400, 403, 404, 409}, code : {"none"}]
        \union [status : {0}, code : PrismaCodes \union {"ECONNREFUSED", "none"}]

\* GlobalExceptionFilter.
FilterStatus(exception) ==
    CASE exception.status # 0 -> exception.status
      [] exception.code = "P2002" -> 409
      [] exception.code \in PrismaCodes \ {"P2002"} -> 400
      [] OTHER -> 500

Successful(status) == status \in 200..299

\* Mutant: the catch returns the body of the error.
ProxiedAnyhow(answer) == [status |-> 200, body |-> answer.body]

\* ProxyService and ProxyController: every success becomes 200, an error keeps the
\* statusCode of its body; a body without one, and no answer, become 500.
Proxied(answer) ==
    IF Successful(answer.status) THEN [status |-> 200, body |-> answer.body]
    ELSE IF answer.body = "error" THEN answer
    ELSE [status |-> 500, body |-> "error"]

\* The response interceptor of httpClient.
ErrorType(status) ==
    CASE status = 400 -> "BAD_REQUEST"
      [] status = 403 -> "FORBIDDEN"
      [] status = 404 -> "NOT_FOUND"
      [] status = 408 -> "TIMEOUT"
      [] status \in {500, 502, 503, 504} -> "SERVER_ERROR"
      [] OTHER -> "API_ERROR"

-----------------------------------------------------------------------------
GatewayInit ==
    /\ call = NoCall
    /\ effect = Nothing
    /\ reply = NoReply
    /\ cached = {}
    /\ shown = NotShown

SendCall(method, resource) ==
    /\ call.stage = "idle"
    /\ call' = [stage |-> "sent", method |-> method, resource |-> resource]
    /\ effect' = Nothing /\ reply' = NoReply /\ shown' = NotShown
    /\ UNCHANGED cached

Answer(stage, status, body) ==
    /\ call' = [call EXCEPT !.stage = stage]
    /\ reply' = [status |-> status, body |-> body]
    /\ UNCHANGED <<cached, shown>>

\* The guard in front of the proxy counts requests by client address; when it says
\* so, the gateway answers itself.
Throttle ==
    /\ call.stage = "sent"
    /\ Answer("back", 429, "error")
    /\ UNCHANGED effect

\* A path that has no route.
RouteMissing ==
    /\ call.stage = "sent"
    /\ call.resource \notin Routed
    /\ Answer("back", 404, "error")
    /\ UNCHANGED effect

\* The handler succeeds.  The proxy passes If-None-Match on: what the browser holds
\* and has not changed is answered with 304 and no body.
BackendServes ==
    /\ call.stage = "sent"
    /\ call.resource \in Routed
    /\ effect' = [did |-> "done", status |-> 200]
    /\ \/ Answer("answered", IF call.method = "POST" THEN 201 ELSE 200, "data")
       \/ /\ call.method = "GET" /\ call.resource \in cached
          /\ Answer("answered", 304, "empty")

BackendThrows(exception) ==
    /\ call.stage = "sent"
    /\ call.resource \in Routed
    /\ \E did \in IF exception.code \in CommitUnknown THEN {"threw", "done"} ELSE {"threw"} :
          effect' = [did |-> did, status |-> FilterStatus(exception)]
    /\ Answer("answered", FilterStatus(exception), "error")

\* The backend is down, or goes down before it answers.
BackendGone ==
    /\ call.stage \in {"sent", "answered"}
    /\ call.resource \in Routed
    /\ Answer("answered", 0, "none")
    /\ effect' = IF call.stage = "sent" THEN effect ELSE [effect EXCEPT !.status = 500]

Relay ==
    /\ call.stage = "answered"
    /\ Answer("back", Proxied(reply).status, Proxied(reply).body)
    /\ UNCHANGED effect

ShowReply ==
    /\ call.stage = "back"
    /\ call' = NoCall
    /\ shown' = IF Successful(reply.status)
                THEN [type |-> "OK", status |-> reply.status]
                ELSE [type |-> ErrorType(reply.status), status |-> reply.status]
    /\ cached' = IF Successful(reply.status) /\ call.method = "GET"
                 THEN cached \union {call.resource} ELSE cached
    /\ UNCHANGED <<effect, reply>>

\* No answer within 30 seconds, or no connection.
CallTimesOut ==
    /\ call.stage \in {"sent", "answered", "back"}
    /\ call' = NoCall
    /\ shown' = [type |-> "NETWORK_ERROR", status |-> 0]
    /\ UNCHANGED <<effect, reply, cached>>

GatewayNext ==
    \/ Throttle \/ RouteMissing \/ BackendServes \/ BackendGone
    \/ Relay \/ ShowReply \/ CallTimesOut
    \/ \E method \in Methods, resource \in Resources : SendCall(method, resource)
    \/ \E exception \in Exceptions : BackendThrows(exception)

GatewaySpec == GatewayInit /\ [][GatewayNext]_gatewayVars

-----------------------------------------------------------------------------
\* The types of a call.
GatewayTypeOK ==
    /\ call.stage \in {"idle", "sent", "answered", "back"}
    /\ call.method \in Methods /\ call.resource \in Resources
    /\ effect.did \in {"nothing", "done", "threw"}
    /\ cached \subseteq Resources

\* A page that is told a call succeeded can rely on it, one that is told that it was
\* forbidden, not found or in conflict can rely on nothing having been done, and a
\* refusal that gets through has the status the backend gave it.  A server or network
\* error leaves both open, and so does 400, which the filter also makes of a commit
\* that nobody knows of (exception.filter.ts:31-70, proxy.service.ts:13-42,
\* proxy.controller.ts:81-103, httpClient.js:98-230).
ErrorsStayErrors ==
    /\ shown.type = "OK" => effect.did = "done"
    /\ shown.type \in {"FORBIDDEN", "NOT_FOUND", "API_ERROR"} => effect.did # "done"
    /\ effect.status >= 400 => shown.type \in {"none", "NETWORK_ERROR"}
                                  \/ shown.status = effect.status
=============================================================================

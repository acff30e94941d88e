----------------------------- MODULE RateLimiter -----------------------------
(***************************************************************************)
(* RateLimitMiddleware: a sliding window per address, kept in memory.      *)
(***************************************************************************)
EXTENDS Integers, Sequences, FiniteSets, Filtering

CONSTANTS
    Addresses,
    WindowMs,       \* ticks in a window
    MaxRequests,    \* requests per window
    MaxNow          \* bound on the clock

ASSUME LimiterAssumption == WindowMs \in Nat \ {0} /\ MaxRequests \in Nat /\ MaxNow \in Nat

VARIABLES
    now,            \* Date.now()
    timestamps,     \* the map: for each address in it, the times of its requests
    admitted        \* history: the times of all requests let through

limiterVars == <<now, timestamps, admitted>>

LimiterInit ==
    /\ now = 0
    /\ timestamps = [a \in {} |-> <<>>]
    /\ admitted = [a \in Addresses |-> <<>>]

Recent(times) == AtPositions(times, {i \in DOMAIN times : times[i] > now - WindowMs})
TimesOf(a) == IF a \in DOMAIN timestamps THEN timestamps[a] ELSE <<>>

\* Mutant: an address whose first request is too old is deleted.
CleanedUpByFirst(map) ==
    [a \in {b \in DOMAIN map : map[b][1] > now - WindowMs} |-> Recent(map[a])]

\* Mutant: addresses without a recent request stay, for ever.
CleanedUpKeepsKeys(map) == [a \in DOMAIN map |-> Recent(map[a])]

\* cleanup: old times go, and addresses that have no others.
CleanedUp(map) == [a \in {b \in DOMAIN map : Recent(map[b]) # <<>>} |-> Recent(map[a])]

\* A request that is let through, with a cleanup now and then; one too many answers
\* 429 and leaves the map as it is.
Request(a) ==
    LET times == Recent(TimesOf(a))
        map == [b \in DOMAIN timestamps \union {a} |->
                  IF b = a THEN Append(times, now) ELSE timestamps[b]]
    IN  /\ Len(times) < MaxRequests
        /\ timestamps' \in {map, CleanedUp(map)}
        /\ admitted' = [admitted EXCEPT ![a] = Append(@, now)]
        /\ UNCHANGED now

TimePasses ==
    /\ now < MaxNow
    /\ now' = now + 1
    /\ UNCHANGED <<timestamps, admitted>>

LimiterNext == TimePasses \/ \E a \in Addresses : Request(a)

LimiterSpec == LimiterInit /\ [][LimiterNext]_limiterVars

-----------------------------------------------------------------------------
\* The types of the limiter's state; an address in the map has a request.
LimiterTypeOK ==
    /\ now \in 0..MaxNow
    /\ DOMAIN timestamps \subseteq Addresses
    /\ \A a \in DOMAIN timestamps :
          timestamps[a] # <<>> /\ \A i \in DOMAIN timestamps[a] : timestamps[a][i] \in 0..now

\* No window, wherever it starts, lets more requests of one address through than the
\* limit: forgetting old requests never forgets one that still counts
\* (rate-limit.middleware.ts:19-64).
AtMostMaxInAnyWindow ==
    \A a \in Addresses, end \in 0..now :
        Cardinality({i \in DOMAIN admitted[a] :
                        end - WindowMs < admitted[a][i] /\ admitted[a][i] <= end})
            <= MaxRequests
=============================================================================

----------------------------- MODULE MCServices -----------------------------
(***************************************************************************)
(* The services of the backend that share no state in the model, and the   *)
(* API gateway.  A behaviour follows the one it has its focus on, chosen   *)
(* at the start, so that one run explores the sum of them and not their    *)
(* product.                                                                *)
(***************************************************************************)
EXTENDS Accounts, FoodCatalogue, RateLimiter, ApiGateway, CartContracts, CartSync, TLC

VARIABLE focus

\* Filtering by positions is filtering.
ASSUME FilteringAssumption ==
    \A len \in 0..4 : \A s \in [1..len -> 0..2], limit \in 0..2 :
        AtPositions(s, {i \in DOMAIN s : s[i] > limit})
            = SelectSeq(s, LAMBDA x : x > limit)

servicesVars == <<accountVars, foodVars, limiterVars, gatewayVars, contractVars, syncVars>>

Init ==
    /\ focus \in {"accounts", "foods", "limiter", "gateway", "contracts", "sync"}
    /\ AccountInit /\ FoodInit /\ LimiterInit /\ GatewayInit /\ ContractInit /\ SyncInit

Next ==
    /\ UNCHANGED focus
    /\ \/ /\ focus = "accounts" /\ AccountNext
          /\ UNCHANGED <<foodVars, limiterVars, gatewayVars, contractVars, syncVars>>
       \/ /\ focus = "foods" /\ FoodNext
          /\ UNCHANGED <<accountVars, limiterVars, gatewayVars, contractVars, syncVars>>
       \/ /\ focus = "limiter" /\ LimiterNext
          /\ UNCHANGED <<accountVars, foodVars, gatewayVars, contractVars, syncVars>>
       \/ /\ focus = "gateway" /\ GatewayNext
          /\ UNCHANGED <<accountVars, foodVars, limiterVars, contractVars, syncVars>>
       \/ /\ focus = "contracts" /\ ContractNext
          /\ UNCHANGED <<accountVars, foodVars, limiterVars, gatewayVars, syncVars>>
       \/ /\ focus = "sync" /\ SyncNext
          /\ UNCHANGED <<accountVars, foodVars, limiterVars, gatewayVars, contractVars>>

ServicesSpec == Init /\ [][Next]_<<focus, servicesVars>>

\* The requests are alike; so are the saves and the addresses, which the configuration
\* gives the same names, because no behaviour uses two of the three.
Symmetry == Permutations(Requests)

\* The types of the state of all services.
ServicesTypeOK ==
    /\ AccountTypeOK /\ FoodTypeOK /\ LimiterTypeOK
    /\ GatewayTypeOK /\ ContractTypeOK /\ SyncTypeOK
=============================================================================

----------------------------- MODULE MCFrontend -----------------------------
(***************************************************************************)
(* The four machines of the browser share no state: the session, the       *)
(* orders page of the admin, the cart and checkout of the customer, and    *)
(* the menu page.  A behaviour follows the one it has its focus on, chosen *)
(* at the start, so that one run explores the sum of the four and not      *)
(* their product.  The others stay in their initial states, where nothing  *)
(* of theirs is due.                                                       *)
(***************************************************************************)
EXTENDS TokenSession, OrdersBoard, Storefront, CustomerMenu, TLC

VARIABLE focus

vars == <<focus, sessionVars, boardVars, storeVars, menuVars>>

Init ==
    /\ focus \in {"session", "board", "store", "menu"}
    /\ SessionInit /\ BoardInit /\ StoreInit /\ MenuInit
    /\ focus # "menu" => serverMenu = {}

Next ==
    \/ focus = "session" /\ SessionNext /\ UNCHANGED <<focus, boardVars, storeVars, menuVars>>
    \/ focus = "board" /\ BoardNext /\ UNCHANGED <<focus, sessionVars, storeVars, menuVars>>
    \/ focus = "store" /\ StoreNext /\ UNCHANGED <<focus, sessionVars, boardVars, menuVars>>
    \/ focus = "menu" /\ MenuNext /\ UNCHANGED <<focus, sessionVars, boardVars, storeVars>>

FrontendSpec == Init /\ [][Next]_vars /\ SessionFairness /\ BoardFairness

\* The types of the whole browser state; a line of the cart has at least one of
\* its food.
FrontendTypeOK == SessionTypeOK /\ BoardTypeOK /\ StoreTypeOK /\ MenuTypeOK

\* No page shows a spinner that nothing will ever take away: the sign-in's, the
\* menu's and the confirmation's each have a request under way behind them, whatever
\* was left, failed or asked again meanwhile (authSlice.js:102-133,
\* menuSlice.js:94-106, useOrderConfirmation.js:22-48).
SpinnersHaveRequests ==
    LoadingHasACall /\ MenuSpinnerHasAFetch /\ ConfirmationSpinnerHasARequest
=============================================================================

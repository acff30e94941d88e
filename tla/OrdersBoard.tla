---------------------------- MODULE OrdersBoard -----------------------------
(***************************************************************************)
(* The orders page of the admin: useOrdersManagement.js and its page, over *)
(* a list that other people change.  Each change of the filter or of the   *)
(* page starts a fetch and a timer of its own; answers come in any order   *)
(* and each replaces the rows and the page.                               *)
(*                                                                         *)
(* The list API (GET /order, PUT /order/:id/status) is external: the       *)
(* backend of this repository does not serve it.  It answers with what it  *)
(* holds when it reads, or fails.  One order is followed, by its status;   *)
(* it stands for the orders of every page of a list that holds it, and one *)
(* update of it is under way at a time.                                    *)
(***************************************************************************)
EXTENDS Integers, FiniteSets

CONSTANTS
    Fetches,        \* the list requests the page can have under way
    Filters,        \* the filter buttons, "All" among them
    LastPage,       \* the pages the list has
    LastStatus,     \* bound on the statuses the order goes through
    MaxUpsets       \* bound on failures, presses of Refresh and leavings

ASSUME BoardAssumption ==
    /\ "All" \in Filters
    /\ LastPage \in Nat \ {0}
    /\ LastStatus \in 1..4
    /\ MaxUpsets \in Nat

VARIABLES
    serverStatus,   \* the status of the order, in the service
    view,           \* [filter, page]: selectedStatus and pagination.page
    boardOpen,      \* the page is mounted
    row,            \* the status the order is shown with, "none" if it is not
    timers,         \* the intervals that run, each with the view it closed over
    fetches,        \* the list requests: [pc, filter, page, status]
    put,            \* the status update under way: [pc, status, view]
    boardLoading,   \* the spinner
    upsets          \* how many of those there have been

boardVars ==
    <<serverStatus, view, boardOpen, row, timers, fetches, put, boardLoading, upsets>>

Status == <<"PENDING", "PREPARING", "READY", "DELIVERED">>
StatusSet == {Status[i] : i \in 1..LastStatus}
Page == 1..LastPage
View == [filter : Filters, page : Page]
FirstView == [filter |-> "All", page |-> 1]

NoFetch == [pc |-> "free", filter |-> "All", page |-> 1, status |-> "PENDING"]
NoPut == [pc |-> "free", status |-> "PENDING", view |-> FirstView]

\* The order is in the lists of every status and in that of its own.
Listed(status, filter) == IF filter \in {"All", status} THEN status ELSE "none"

\* The button of a row: the status after the one it shows, if it has one.
NextStatus(status) == {Status[i + 1] : i \in {j \in 1..(LastStatus - 1) : Status[j] = status}}

\* The bound counts one more.
Upset == upsets < MaxUpsets /\ upsets' = upsets + 1

FreeFetch == {f \in Fetches : fetches[f].pc = "free"}

\* fetchOrders: the request carries the filter and the page it was called with.
Asking(fs, f, v) == [fs EXCEPT ![f] = [NoFetch EXCEPT !.pc = "asked", !.filter = v.filter,
                                                      !.page = v.page]]

-----------------------------------------------------------------------------
BoardInit ==
    /\ serverStatus = "PENDING"
    /\ boardOpen = FALSE
    /\ view = FirstView
    /\ row = "none"
    /\ timers = {}
    /\ fetches = [f \in Fetches |-> NoFetch]
    /\ put = NoPut
    /\ boardLoading = FALSE
    /\ upsets = 0

\* The page is mounted with no row, and its effect runs for the first time.
OpenBoard(f) ==
    /\ ~boardOpen
    /\ boardOpen' = TRUE
    /\ view' = FirstView
    /\ row' = "none"
    /\ timers' = {FirstView}
    /\ fetches' = Asking(fetches, f, FirstView)
    /\ boardLoading' = TRUE
    /\ UNCHANGED <<serverStatus, put, upsets>>

\* It is left: the interval is cleared, and what is still to come is dropped
\* (isMounted); an update already sent stays under way.
LeaveBoard ==
    /\ boardOpen
    /\ Upset
    /\ boardOpen' = FALSE
    /\ view' = FirstView
    /\ row' = "none"
    /\ timers' = {}
    /\ fetches' = [f \in Fetches |-> NoFetch]
    /\ put' = IF put.pc = "asked" THEN [put EXCEPT !.pc = "orphaned"] ELSE NoPut
    /\ boardLoading' = FALSE
    /\ UNCHANGED serverStatus

\* The update of a page that was left reaches the service, or fails unseen.
OrphanUpdates ==
    /\ put.pc = "orphaned"
    /\ serverStatus' \in {serverStatus, put.status}
    /\ put' = NoPut
    /\ UNCHANGED <<view, boardOpen, row, timers, fetches, boardLoading, upsets>>

\* Mutant: the effect does not clear the interval it leaves.
TimersLeft(v) == timers \union {v}

\* The effect of a new filter or page: its cleanup stops the old interval, it
\* fetches and starts its own.
Timers(v) == {v}

ShowView(v, f) ==
    /\ view' = v
    /\ timers' = Timers(v)
    /\ boardLoading' = TRUE

ChooseFilter(filter, f) ==
    /\ boardOpen
    /\ [filter |-> filter, page |-> 1] # view
    /\ f \in FreeFetch
    /\ ShowView([filter |-> filter, page |-> 1], f)
    /\ fetches' = Asking(fetches, f, view')
    /\ UNCHANGED <<serverStatus, boardOpen, row, put, upsets>>

ChoosePage(page, f) ==
    /\ boardOpen /\ ~boardLoading
    /\ page \in {view.page - 1, view.page + 1} \cap Page
    /\ f \in FreeFetch
    /\ ShowView([view EXCEPT !.page = page], f)
    /\ fetches' = Asking(fetches, f, view')
    /\ UNCHANGED <<serverStatus, boardOpen, row, put, upsets>>

\* Every 30 seconds.
Poll(v, f) ==
    /\ v \in timers
    /\ f \in FreeFetch
    /\ fetches' = Asking(fetches, f, v)
    /\ boardLoading' = TRUE
    /\ UNCHANGED <<serverStatus, view, boardOpen, row, timers, put, upsets>>

\* The Refresh button hands fetchOrders the click as its page and no filter: it
\* asks for orders of every status, whatever is selected, and for a page that is
\* no number; the service is taken to read that as the first, or to refuse it.
Refresh(f) ==
    /\ boardOpen
    /\ f \in FreeFetch
    /\ fetches' = Asking(fetches, f, FirstView)
    /\ boardLoading' = TRUE
    /\ Upset
    /\ UNCHANGED <<serverStatus, view, boardOpen, row, timers, put>>

\* The service reads its list for a request.
ListRead(f) ==
    /\ fetches[f].pc = "asked"
    /\ fetches' = [fetches EXCEPT ![f].pc = "read", ![f].status = Listed(serverStatus, fetches[f].filter)]
    /\ UNCHANGED <<serverStatus, view, boardOpen, row, timers, put, boardLoading, upsets>>

\* An answer replaces the rows and the page, whichever view it was asked for; when
\* its page is not the page of the view, the effect of the page runs.
ListShown(f) ==
    /\ fetches[f].pc = "read"
    /\ row' = fetches[f].status
    /\ IF fetches[f].page = view.page
       THEN /\ fetches' = [fetches EXCEPT ![f] = NoFetch]
            /\ boardLoading' = FALSE
            /\ UNCHANGED <<view, boardOpen, timers>>
       ELSE /\ ShowView([view EXCEPT !.page = fetches[f].page], f)
            /\ fetches' = Asking(fetches, f, view')
    /\ UNCHANGED <<serverStatus, boardOpen, put, upsets>>

ListFails(f) ==
    /\ fetches[f].pc = "asked"
    /\ Upset
    /\ fetches' = [fetches EXCEPT ![f] = NoFetch]
    /\ boardLoading' = FALSE
    /\ UNCHANGED <<serverStatus, view, boardOpen, row, timers, put>>

-----------------------------------------------------------------------------
\* handleStatusUpdate: the button of the row sends the status after the one shown.
UpdateStatus(status) ==
    /\ ~boardLoading
    /\ put.pc = "free"
    /\ status \in NextStatus(row)
    /\ put' = [pc |-> "asked", status |-> status, view |-> view]
    /\ UNCHANGED <<serverStatus, view, boardOpen, row, timers, fetches, boardLoading, upsets>>

ServiceUpdates ==
    /\ put.pc = "asked"
    /\ serverStatus' = put.status
    /\ put' = [put EXCEPT !.pc = "done"]
    /\ UNCHANGED <<view, boardOpen, row, timers, fetches, boardLoading, upsets>>

\* The row is given the new status without another read.
ShowUpdate ==
    /\ put.pc = "done"
    /\ row' = IF row = "none" THEN row ELSE put.status
    /\ put' = NoPut
    /\ UNCHANGED <<serverStatus, view, boardOpen, timers, fetches, boardLoading, upsets>>

\* The update fails, before or after the service did it: fetch the view it was
\* clicked in.
UpdateFails(f) ==
    /\ put.pc \in {"asked", "done"}
    /\ f \in FreeFetch
    /\ fetches' = Asking(fetches, f, put.view)
    /\ boardLoading' = TRUE
    /\ put' = NoPut
    /\ Upset
    /\ UNCHANGED <<serverStatus, view, boardOpen, row, timers>>

\* Somebody else moves the order on.
OthersUpdate(status) ==
    /\ status \in NextStatus(serverStatus)
    /\ serverStatus' = status
    /\ UNCHANGED <<view, boardOpen, row, timers, fetches, put, boardLoading, upsets>>

-----------------------------------------------------------------------------
BoardNext ==
    \/ \E f \in Fetches :
          \/ \E filter \in Filters : ChooseFilter(filter, f)
          \/ \E page \in Page : ChoosePage(page, f)
          \/ \E v \in View : Poll(v, f)
          \/ Refresh(f) \/ ListRead(f) \/ ListShown(f) \/ ListFails(f)
          \/ UpdateFails(f) \/ OpenBoard(f)
    \/ \E status \in StatusSet : UpdateStatus(status) \/ OthersUpdate(status)
    \/ ServiceUpdates \/ ShowUpdate \/ LeaveBoard \/ OrphanUpdates

BoardSpec == BoardInit /\ [][BoardNext]_boardVars

\* Requests are answered and intervals fire.
BoardFairness ==
    /\ \A f \in Fetches : WF_boardVars(ListRead(f) \/ ListShown(f))
    /\ SF_boardVars(\E v \in timers, f \in Fetches : Poll(v, f))

-----------------------------------------------------------------------------
BoardTypeOK ==
    /\ serverStatus \in StatusSet
    /\ view \in View
    /\ boardOpen \in BOOLEAN
    /\ row \in StatusSet \union {"none"}
    /\ timers \subseteq View
    /\ fetches \in [Fetches -> [pc : {"free", "asked", "read"}, filter : Filters,
                                page : Page, status : StatusSet \union {"none"}]]
    /\ put \in [pc : {"free", "asked", "done", "orphaned"}, status : StatusSet, view : View]
    /\ boardLoading \in BOOLEAN
    /\ upsets \in 0..MaxUpsets

\* A late answer for a filter just left, a press of Refresh, a status read before
\* an update and an update that another one has overtaken can each make the page
\* show what is not so.  While the order rests and the admin keeps the filter, the
\* page comes to show the order as it is, if the filter lists it, and stays there,
\* although pages that are under way may still chase each other
\* (useOrdersManagement.js:33-116).
BoardCatchesUp ==
    \A status \in StatusSet, filter \in Filters :
        <>[](boardOpen /\ serverStatus = status /\ view.filter = filter)
            => <>[](row = Listed(status, filter))
=============================================================================

---------------------------- MODULE CustomerMenu ----------------------------
(***************************************************************************)
(* The customer's menu: menuSlice.js, whose thunk fetchMenuItems outlives  *)
(* the page that dispatched it, and MenuPage.jsx with useMenu.js, which is *)
(* mounted and left while its requests are under way.                      *)
(*                                                                         *)
(* GET /menu is external here: it answers with the list as it is when it   *)
(* is read, or fails.  A list is known by the categories its foods are in. *)
(* The other thunks of the slice are dispatched by no page.                *)
(***************************************************************************)
EXTENDS FiniteSets

CONSTANTS
    MenuFetches,    \* the requests the tab can have under way
    Categories      \* the categories foods are in

VARIABLES
    serverMenu,     \* the public list, in the service
    slice,          \* the menu slice: [items, loading, error]
    menuFetches,    \* the thunks under way: [pc, list]
    menuOpen,       \* the page is mounted
    selected        \* selectedCategory

menuVars == <<serverMenu, slice, menuFetches, menuOpen, selected>>

List == SUBSET Categories
NoMenuFetch == [pc |-> "free", list |-> {}]
InitialSlice == [items |-> {}, loading |-> FALSE, error |-> FALSE]

\* filteredItems.
Filtered == IF selected = "All" THEN slice.items ELSE slice.items \intersect {selected}

\* What the page shows below the buttons of the categories.
Display ==
    CASE slice.loading -> "spinner"
      [] ~slice.loading /\ Filtered = {} -> "empty"
      [] OTHER -> "grid"

-----------------------------------------------------------------------------
MenuInit ==
    /\ serverMenu \in List
    /\ slice = InitialSlice
    /\ menuFetches = [f \in MenuFetches |-> NoMenuFetch]
    /\ menuOpen = FALSE
    /\ selected = "All"

\* dispatch(fetchMenuItems(...)): the reducer of pending runs at once.
FetchItems(f) ==
    /\ menuFetches[f].pc = "free"
    /\ menuFetches' = [menuFetches EXCEPT ![f].pc = "asked"]
    /\ slice' = [slice EXCEPT !.loading = TRUE, !.error = FALSE]

\* The page is mounted: its effect fetches, whatever the slice holds already.
OpenMenu(f) ==
    /\ ~menuOpen
    /\ menuOpen' = TRUE
    /\ FetchItems(f)
    /\ UNCHANGED <<serverMenu, selected>>

\* The category is the page's own and goes with it; the slice stays.
LeaveMenu ==
    /\ menuOpen
    /\ menuOpen' = FALSE
    /\ selected' = "All"
    /\ UNCHANGED <<serverMenu, slice, menuFetches>>

\* The error and its Retry are not shown while the slice loads.
Retry(f) ==
    /\ menuOpen
    /\ slice.error /\ ~slice.loading
    /\ FetchItems(f)
    /\ UNCHANGED <<serverMenu, menuOpen, selected>>

\* A button of a category, or the one of an empty list that goes back to all.
ChooseCategory(category) ==
    /\ menuOpen
    /\ selected # category
    /\ selected' = category
    /\ UNCHANGED <<serverMenu, slice, menuFetches, menuOpen>>

ViewAll == Display = "empty" /\ ChooseCategory("All")

-----------------------------------------------------------------------------
MenuRead(f) ==
    /\ menuFetches[f].pc = "asked"
    /\ menuFetches' = [menuFetches EXCEPT ![f] = [pc |-> "read", list |-> serverMenu]]
    /\ UNCHANGED <<serverMenu, slice, menuOpen, selected>>

MenuChanges ==
    /\ serverMenu' \in List
    /\ UNCHANGED <<slice, menuFetches, menuOpen, selected>>

\* Fulfilled: the list of this answer, the last word or not, replaces the items.  An
\* error that another request has left since stays.
MenuLoaded(f) ==
    /\ menuFetches[f].pc = "read"
    /\ slice' = [slice EXCEPT !.items = menuFetches[f].list, !.loading = FALSE]
    /\ menuFetches' = [menuFetches EXCEPT ![f] = NoMenuFetch]
    /\ UNCHANGED <<serverMenu, menuOpen, selected>>

\* Rejected: the items stay.
MenuNotLoaded(f) ==
    /\ menuFetches[f].pc \in {"asked", "read"}
    /\ slice' = [slice EXCEPT !.loading = FALSE, !.error = TRUE]
    /\ menuFetches' = [menuFetches EXCEPT ![f] = NoMenuFetch]
    /\ UNCHANGED <<serverMenu, menuOpen, selected>>

MenuNext ==
    \/ \E f \in MenuFetches :
          OpenMenu(f) \/ Retry(f) \/ MenuRead(f) \/ MenuLoaded(f) \/ MenuNotLoaded(f)
    \/ LeaveMenu \/ ViewAll \/ MenuChanges
    \/ \E category \in Categories \union {"All"} : ChooseCategory(category)

MenuSpec == MenuInit /\ [][MenuNext]_menuVars

-----------------------------------------------------------------------------
\* The types of the menu.
MenuTypeOK ==
    /\ serverMenu \in List
    /\ slice \in [items : List, loading : BOOLEAN, error : BOOLEAN]
    /\ menuFetches \in [MenuFetches -> [pc : {"free", "asked", "read"}, list : List]]
    /\ menuOpen \in BOOLEAN
    /\ selected \in Categories \union {"All"}

\* The spinner of the menu has a request behind it, although requests of a page that
\* was left meanwhile settle in the same slice (menuSlice.js:94-106).
MenuSpinnerHasAFetch == slice.loading => \E f \in MenuFetches : menuFetches[f].pc # "free"
=============================================================================

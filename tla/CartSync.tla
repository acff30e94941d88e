------------------------------ MODULE CartSync ------------------------------
(***************************************************************************)
(* CartSyncService: the carts that are marked dirty are copied from Redis  *)
(* to the database, one user at a time, with the version check of          *)
(* version.ts.  One user is followed.  Nothing in the repository marks a   *)
(* cart or schedules the service, so whoever changes a cart is taken to    *)
(* mark it after the change, and the service to run at any time.           *)
(*                                                                         *)
(* A cart is known by the number of the change that made it.               *)
(***************************************************************************)
EXTENDS Integers

CONSTANTS
    MaxChanges,     \* bound on the changes of the cart
    MaxClock        \* bound on the clock of updatedAt

ASSUME SyncAssumption == MaxChanges \in Nat /\ MaxClock \in Nat

VARIABLES
    redisCart,      \* the key: [change, updatedAt, lines]
    dirty,          \* the user is in cart:dirty_users
    unmarked,       \* a change is written and its mark is still to come
    dbChange,       \* the change the rows of cart_items come from
    sync,           \* the run: [pc, cart, before, success]
    disturbed       \* history: a change or an error of Redis met the run

syncVars == <<redisCart, dirty, unmarked, dbChange, sync, disturbed>>

NoKeyCart == [change |-> 0, updatedAt |-> 0, lines |-> "none"]
NoVersion == -1
NoRun == [pc |-> "idle", cart |-> NoKeyCart, before |-> NoVersion, success |-> FALSE]

SyncInit ==
    /\ redisCart = NoKeyCart
    /\ dirty = FALSE /\ unmarked = FALSE
    /\ dbChange = 0
    /\ sync = NoRun
    /\ disturbed = FALSE

\* The carts of the cart service are empty, complete, or, once a script emptied them,
\* not what the validator accepts.
ChangeCartKey ==
    /\ redisCart.change < MaxChanges
    /\ \E at \in redisCart.updatedAt..MaxClock, lines \in {"some", "empty", "invalid"} :
          redisCart' = [change |-> redisCart.change + 1, updatedAt |-> at, lines |-> lines]
    /\ unmarked' = TRUE
    /\ disturbed' = (disturbed \/ sync.pc # "idle")
    /\ UNCHANGED <<dirty, dbChange, sync>>

MarkDirty ==
    /\ unmarked
    /\ dirty' = TRUE /\ unmarked' = FALSE
    /\ UNCHANGED <<redisCart, dbChange, sync, disturbed>>

\* The seven days of the key are over.
KeyExpires ==
    /\ redisCart' = [redisCart EXCEPT !.lines = "none"]
    /\ UNCHANGED <<dirty, unmarked, dbChange, sync, disturbed>>

-----------------------------------------------------------------------------
\* RedisService.get: an error of Redis reads as an absent key.
Reads == {redisCart, NoKeyCart}

\* An error that hides a cart.
Hidden(read) == read.lines # redisCart.lines

\* getCartVersion: none for a cart that is absent or not valid.
VersionOf(read) == IF read.lines \in {"none", "invalid"} THEN NoVersion ELSE read.updatedAt

Run(pc, cart, before, success) ==
    sync' = [pc |-> pc, cart |-> cart, before |-> before, success |-> success]

\* syncDirtyCarts reads the marks.
StartSync ==
    /\ sync.pc = "idle"
    /\ dirty
    /\ sync' = [NoRun EXCEPT !.pc = "started"]
    /\ disturbed' = FALSE
    /\ UNCHANGED <<redisCart, dirty, unmarked, dbChange>>

\* No cart: nothing to sync, success.  No lines: the rows go.
ReadCartKey ==
    /\ sync.pc = "started"
    /\ \E read \in Reads :
          /\ disturbed' = (disturbed \/ Hidden(read))
          /\ CASE read.lines = "none" -> Run("ended", read, NoVersion, TRUE)
               [] read.lines = "empty" -> Run("clearing", read, NoVersion, FALSE)
               [] OTHER -> Run("read", read, NoVersion, FALSE)
    /\ UNCHANGED <<redisCart, dirty, unmarked, dbChange>>

\* The version is read by a second get, later than the cart.
ReadVersion ==
    /\ sync.pc = "read"
    /\ \E read \in Reads :
          /\ disturbed' = (disturbed \/ Hidden(read))
          /\ IF VersionOf(read) = NoVersion
             THEN Run("ended", sync.cart, NoVersion, FALSE)
             ELSE Run("versioned", sync.cart, VersionOf(read), FALSE)
    /\ UNCHANGED <<redisCart, dirty, unmarked, dbChange>>

\* The transaction commits, or fails: the database, the mapping of a cart that is not
\* valid, or a cart whose id is not that of the row.
WriteRows ==
    /\ sync.pc \in {"clearing", "versioned"}
    /\ \/ /\ sync.cart.lines # "invalid"
          /\ dbChange' = sync.cart.change
          /\ IF sync.pc = "clearing" THEN Run("ended", sync.cart, NoVersion, TRUE)
                                     ELSE Run("written", sync.cart, sync.before, TRUE)
       \/ Run("ended", sync.cart, NoVersion, FALSE) /\ UNCHANGED dbChange
    /\ UNCHANGED <<redisCart, dirty, unmarked, disturbed>>

\* safeRemoveDirtyFlag reads the version again; a version that cannot be read counts
\* as changed.
ReadVersionAgain ==
    /\ sync.pc = "written"
    /\ \E read \in Reads :
          Run(IF VersionOf(read) = sync.before THEN "unchanged" ELSE "ended",
              sync.cart, sync.before, TRUE)
    /\ UNCHANGED <<redisCart, dirty, unmarked, dbChange, disturbed>>

\* srem: an error of Redis leaves the mark.
RemoveMark == dirty' \in {FALSE, dirty}

RemoveMarkSafely ==
    /\ sync.pc = "unchanged"
    /\ RemoveMark
    /\ sync' = [sync EXCEPT !.pc = "ended"]
    /\ UNCHANGED <<redisCart, unmarked, dbChange, disturbed>>

\* Mutant: a run that failed removes the mark as well.
EndSyncAnyhow ==
    /\ sync.pc = "ended"
    /\ RemoveMark
    /\ sync' = NoRun
    /\ UNCHANGED <<redisCart, unmarked, dbChange, disturbed>>

\* Back in syncDirtyCarts a success removes the mark again, whatever the version check
\* found.
EndSync ==
    /\ sync.pc = "ended"
    /\ IF sync.success THEN RemoveMark ELSE UNCHANGED dirty
    /\ sync' = NoRun
    /\ UNCHANGED <<redisCart, unmarked, dbChange, disturbed>>

SyncNext ==
    \/ ChangeCartKey \/ MarkDirty \/ KeyExpires
    \/ StartSync \/ ReadCartKey \/ ReadVersion \/ WriteRows \/ ReadVersionAgain
    \/ RemoveMarkSafely \/ EndSync

SyncSpec == SyncInit /\ [][SyncNext]_syncVars

-----------------------------------------------------------------------------
\* The types of the synchronisation.
SyncTypeOK ==
    /\ redisCart.change \in 0..MaxChanges /\ redisCart.updatedAt \in 0..MaxClock
    /\ dirty \in BOOLEAN /\ unmarked \in BOOLEAN /\ disturbed \in BOOLEAN
    /\ dbChange \in 0..MaxChanges
    /\ sync.pc \in {"idle", "started", "read", "clearing", "versioned", "written",
                    "unchanged", "ended"}

\* A cart whose mark is gone is in the database, unless a change or an error of Redis
\* met the run that removed it: a failed transaction, a cart that is not valid and a
\* version that cannot be read all leave the mark for the next run
\* (cart-sync.service.ts:18-48, 54-125, version.ts:49-90).
MarkOutlivesFailure ==
    redisCart.lines # "none" /\ redisCart.change # dbChange
        => dirty \/ unmarked \/ disturbed
=============================================================================

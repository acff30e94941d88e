------------------------------ MODULE Accounts ------------------------------
(***************************************************************************)
(* Users, tokens and the requests that change them: auth.service.ts,       *)
(* user.service.ts and admin.service.ts over prisma-user.repository.ts,    *)
(* behind the JWT strategy and the roles guard.                            *)
(*                                                                         *)
(* The JWT strategy reads the row of the token's user and waits for it; a  *)
(* handler reads a row, waits, and then writes.  Requests interleave at    *)
(* the waits, so that what was read may be stale when it is used.  Of a    *)
(* row the e-mail and the role are kept: updates of the name or of the     *)
(* password are patches that leave both alone, and whether a password      *)
(* matches is a free choice.  A token is its payload, the id and the role  *)
(* of its user; how long it lives is TokenSession's subject.               *)
(***************************************************************************)
EXTENDS FiniteSets

CONSTANTS
    Users,          \* the ids the table hands out
    Admin,          \* the user of the seeded table
    Emails,         \* the e-mail addresses
    Requests        \* the requests under way

\* A column that an update leaves alone, and an id that no row has.
Undefined == "undefined"
Nobody == "nobody"

ASSUME AdminAssumption == Admin \in Users /\ Emails # {}
ASSUME NamesAssumption == Undefined \notin Emails /\ Nobody \notin Users

VARIABLES
    users,          \* the table: for each id that has a row, [email, role]
    freeIds,        \* the ids not handed out yet
    tokens,         \* for each id, the roles in the tokens handed out to it
    requests,       \* what each request is doing
    lastSet         \* history: each row as it was last set on purpose

accountVars == <<users, freeIds, tokens, requests, lastSet>>

Role == {"USER", "ADMIN"}
Row == [email : Emails, role : Role]

PublicOp == {"signUp", "login", "refreshToken"}
UserOp == {"updateProfile", "updatePassword"}
AdminOp == {"updateUser", "updateUserRole", "deleteUser"}

\* A request: its operation, the user its token names until the handler takes over,
\* the id it is about, the e-mail it brings, and the row that was found last: that of
\* the token's user while it is identified, then that of its handler.
NoRow == [email |-> CHOOSE e \in Emails : TRUE, role |-> "USER"]
Free == [pc |-> "free", op |-> "login", sub |-> Admin, target |-> Admin,
         email |-> NoRow.email, found |-> NoRow]

\* A table with one more row.
Inserted(table, id, row) ==
    [u \in DOMAIN table \union {id} |-> IF u = id THEN row ELSE table[u]]

\* The unique constraint of users.email.
Taken(email, id) == \E u \in DOMAIN users \ {id} : users[u].email = email

-----------------------------------------------------------------------------
AccountInit ==
    /\ users = [u \in {Admin} |-> [NoRow EXCEPT !.role = "ADMIN"]]
    /\ freeIds = Users \ {Admin}
    /\ tokens = [u \in Users |-> IF u = Admin THEN {"ADMIN"} ELSE {}]
    /\ requests = [r \in Requests |-> Free]
    /\ lastSet = users

Goto(r, request) == requests' = [requests EXCEPT ![r] = request]
Refuse(r) == Goto(r, Free) /\ UNCHANGED <<users, freeIds, tokens, lastSet>>

\* JwtStrategy.validate asks for the row of the token's user; a token of a user that
\* is gone gives 401.  The role in the token plays no part.
Identify(r, op, sub, target) ==
    /\ requests[r].pc = "free"
    /\ op \in UserOp \union AdminOp
    /\ tokens[sub] # {}
    /\ sub \in DOMAIN users
    /\ op \in UserOp => target = sub
    /\ Goto(r, [Free EXCEPT !.pc = "identified", !.op = op, !.sub = sub,
                            !.target = target, !.found = users[sub]])
    /\ UNCHANGED <<users, freeIds, tokens, lastSet>>

\* RolesGuard looks at the row that came back, whatever the table says by now: a user
\* without the role gets 403, the others reach the handler.
Guard(r) ==
    /\ requests[r].pc = "identified"
    /\ IF requests[r].op \in AdminOp /\ requests[r].found.role # "ADMIN"
       THEN Refuse(r)
       ELSE /\ Goto(r, [requests[r] EXCEPT !.pc = "admitted", !.found = NoRow])
            /\ UNCHANGED <<users, freeIds, tokens, lastSet>>

\* The public operations have no guard: sign-up looks for the e-mail and goes on
\* when there is none, log-in and refresh look for their user.
SignUpFinds(r, email) ==
    /\ requests[r].pc = "free"
    /\ ~ \E u \in DOMAIN users : users[u].email = email
    /\ Goto(r, [Free EXCEPT !.pc = "found", !.op = "signUp", !.email = email])
    /\ UNCHANGED <<users, freeIds, tokens, lastSet>>

LoginFinds(r, id) ==
    /\ requests[r].pc = "free"
    /\ id \in DOMAIN users
    /\ Goto(r, [Free EXCEPT !.pc = "found", !.op = "login", !.target = id,
                            !.found = users[id]])
    /\ UNCHANGED <<users, freeIds, tokens, lastSet>>

RefreshFinds(r, id) ==
    /\ requests[r].pc = "free"
    /\ tokens[id] # {}
    /\ id \in DOMAIN users
    /\ Goto(r, [Free EXCEPT !.pc = "found", !.op = "refreshToken", !.target = id,
                            !.found = users[id]])
    /\ UNCHANGED <<users, freeIds, tokens, lastSet>>

\* findById of the handlers: 404 when the row is gone.
HandlerFinds(r) ==
    /\ requests[r].pc = "admitted"
    /\ IF requests[r].target \in DOMAIN users
       THEN /\ Goto(r, [requests[r] EXCEPT !.pc = "found", !.sub = Admin,
                                           !.found = users[requests[r].target]])
            /\ UNCHANGED <<users, freeIds, tokens, lastSet>>
       ELSE Refuse(r)

-----------------------------------------------------------------------------
Doing(r, op) == requests[r].pc = "found" /\ requests[r].op = op

Grant(id, role) == tokens' = [tokens EXCEPT ![id] = @ \union {role}]

\* The password is hashed meanwhile; create then meets the unique constraint.
SignUpCreates(r, role) ==
    /\ Doing(r, "signUp")
    /\ \/ Taken(requests[r].email, Nobody) /\ Refuse(r)
       \/ /\ ~Taken(requests[r].email, Nobody)
          /\ freeIds # {}
          /\ LET id == CHOOSE u \in freeIds : TRUE
                 row == [email |-> requests[r].email, role |-> role]
             IN  /\ users' = Inserted(users, id, row)
                 /\ lastSet' = Inserted(lastSet, id, row)
                 /\ freeIds' = freeIds \ {id}
                 /\ Grant(id, role)
          /\ Goto(r, Free)

\* Log-in and refresh sign what they have read, unless the password is wrong.
TokensSigned(r) ==
    /\ Doing(r, "login") \/ Doing(r, "refreshToken")
    /\ Grant(requests[r].target, requests[r].found.role)
    /\ Goto(r, Free)
    /\ UNCHANGED <<users, freeIds, lastSet>>

\* compare says no: the log-in, or the change of password, is refused.
WrongPassword(r) ==
    /\ Doing(r, "login") \/ Doing(r, "updatePassword")
    /\ Refuse(r)

Given(value, column) == IF value = Undefined THEN column ELSE value
Patched(row, patch) == [email |-> Given(patch.email, row.email),
                        role |-> Given(patch.role, row.role)]

\* Mutant: the handler writes back the whole row it found.
UpdatedWhole(row, found, patch) == Patched(found, patch)

\* prisma.user.update writes the columns of the patch, whatever was found.
Updated(row, found, patch) == Patched(row, patch)

Write(r, patch) ==
    LET id == requests[r].target
    IN  /\ users' = [users EXCEPT ![id] = Updated(@, requests[r].found, patch)]
        /\ lastSet' = [lastSet EXCEPT ![id] = Patched(@, patch)]
        /\ Goto(r, Free)
        /\ UNCHANGED <<freeIds, tokens>>

\* update and delete of a row that is gone: 400.
RowGone(r) ==
    /\ requests[r].pc = "found"
    /\ requests[r].op \in UserOp \union AdminOp
    /\ requests[r].target \notin DOMAIN users
    /\ Refuse(r)

RowThere(r) == requests[r].target \in DOMAIN users

\* The name or the password: neither the e-mail nor the role.
UpdateOwnRow(r) ==
    /\ Doing(r, "updateProfile") \/ Doing(r, "updatePassword")
    /\ RowThere(r)
    /\ Write(r, [email |-> Undefined, role |-> Undefined])

\* A new e-mail that another row has: 409.
UpdateUser(r, email) ==
    /\ Doing(r, "updateUser")
    /\ RowThere(r)
    /\ IF Taken(email, requests[r].target) THEN Refuse(r)
                                           ELSE Write(r, [email |-> email, role |-> Undefined])

UpdateUserRole(r, role) ==
    /\ Doing(r, "updateUserRole")
    /\ RowThere(r)
    /\ Write(r, [email |-> Undefined, role |-> role])

\* The row goes, and with it the user's carts and orders.
DeleteUser(r) ==
    /\ Doing(r, "deleteUser")
    /\ RowThere(r)
    /\ LET left == DOMAIN users \ {requests[r].target}
       IN  /\ users' = [u \in left |-> users[u]]
           /\ lastSet' = [u \in left |-> lastSet[u]]
    /\ Goto(r, Free)
    /\ UNCHANGED <<freeIds, tokens>>

AccountNext ==
    \E r \in Requests :
        \/ \E op \in UserOp \union AdminOp, sub \in Users, target \in Users :
              Identify(r, op, sub, target)
        \/ Guard(r)
        \/ \E email \in Emails : SignUpFinds(r, email) \/ UpdateUser(r, email)
        \/ \E id \in Users : LoginFinds(r, id) \/ RefreshFinds(r, id)
        \/ \E role \in Role : SignUpCreates(r, role) \/ UpdateUserRole(r, role)
        \/ HandlerFinds(r) \/ TokensSigned(r) \/ WrongPassword(r) \/ RowGone(r)
        \/ UpdateOwnRow(r) \/ DeleteUser(r)

AccountSpec == AccountInit /\ [][AccountNext]_accountVars

-----------------------------------------------------------------------------
\* The types of the accounts' state.
AccountTypeOK ==
    /\ DOMAIN users \subseteq Users \ freeIds
    /\ \A u \in DOMAIN users : users[u] \in Row
    /\ DOMAIN lastSet = DOMAIN users
    /\ freeIds \subseteq Users
    /\ tokens \in [Users -> SUBSET Role]
    /\ requests \in [Requests -> [pc : {"free", "identified", "admitted", "found"},
                                  op : PublicOp \union UserOp \union AdminOp,
                                  sub : Users, target : Users, email : Emails, found : Row]]

\* Handlers that found the same row do not undo each other: every field is as the
\* last request that meant to set it left it.  A new name does not bring back a
\* role that was taken meanwhile (user.service.ts:47-63, admin.service.ts:90-127).
NoLostUpdate == users = lastSet
=============================================================================

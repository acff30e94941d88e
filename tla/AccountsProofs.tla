--------------------------- MODULE AccountsProofs ---------------------------
(***************************************************************************)
(* For any ids, e-mail addresses and requests in flight: handlers undo     *)
(* nothing of each other, however stale the rows are that they found.      *)
(***************************************************************************)
EXTENDS Accounts, TLAPS

RequestType ==
    [pc : {"free", "identified", "admitted", "found"}, op : PublicOp \union UserOp \union AdminOp,
     sub : Users, target : Users, email : Emails, found : Row]

\* The columns an update sets.
PatchType == [email : Emails \union {Undefined}, role : Role \union {Undefined}]

-----------------------------------------------------------------------------
(* The writes to the table: a new row, an update of a row, a deletion      *)

RowCreated(id, row) ==
    /\ id \in freeIds
    /\ users' = Inserted(users, id, row)
    /\ lastSet' = Inserted(lastSet, id, row)
    /\ freeIds' = freeIds \ {id}

RowUpdated(id, patch) ==
    /\ id \in DOMAIN users
    /\ users' = [users EXCEPT ![id] = Patched(@, patch)]
    /\ lastSet' = [lastSet EXCEPT ![id] = Patched(@, patch)]
    /\ UNCHANGED freeIds

RowDeleted(id) ==
    /\ users' = [u \in DOMAIN users \ {id} |-> users[u]]
    /\ lastSet' = [u \in DOMAIN users \ {id} |-> lastSet[u]]
    /\ UNCHANGED freeIds

TableUnchanged == UNCHANGED <<users, freeIds, lastSet>>

Writes ==
    \/ TableUnchanged
    \/ \E id \in Users, row \in Row : RowCreated(id, row)
    \/ \E id \in Users, patch \in PatchType : RowUpdated(id, patch)
    \/ \E id \in Users : RowDeleted(id)

-----------------------------------------------------------------------------
(* Requests and tokens                                                     *)

RequestsOK == requests \in [Requests -> RequestType]
TokensOK == tokens \in [Users -> SUBSET Role]
TableOK ==
    /\ DOMAIN users \subseteq Users \ freeIds
    /\ \A u \in DOMAIN users : users[u] \in Row
    /\ DOMAIN lastSet = DOMAIN users
    /\ freeIds \subseteq Users

LEMMA TypeIsThree == AccountTypeOK <=> TableOK /\ RequestsOK /\ TokensOK
BY DEF AccountTypeOK, TableOK, RequestsOK, TokensOK, RequestType

\* A free request has the type of one.
LEMMA FreeIsARequest == NoRow \in Row /\ Free \in RequestType
<1>1. NoRow \in Row
  BY AdminAssumption DEF NoRow, Row, Role
<1> QED
  BY <1>1, AdminAssumption DEF Free, RequestType, PublicOp, Row

\* A request goes on with a request.
LEMMA GotoKeepsTypes ==
    ASSUME RequestsOK, NEW r \in Requests, NEW request \in RequestType, Goto(r, request)
    PROVE  RequestsOK'
BY DEF RequestsOK, Goto

LEMMA GrantKeepsTypes ==
    ASSUME TokensOK, NEW id \in Users, NEW role \in Role, Grant(id, role)
    PROVE  TokensOK'
BY DEF TokensOK, Grant

\* A row with a patch is a row.
LEMMA PatchedIsARow ==
    ASSUME NEW row \in Row, NEW patch \in PatchType
    PROVE  Patched(row, patch) \in Row
BY NamesAssumption DEF Patched, Given, PatchType, Row, Role, Undefined

\* The disjuncts of the next step.
Steps(r) ==
    \/ \E op \in UserOp \union AdminOp, sub \in Users, target \in Users :
          Identify(r, op, sub, target)
    \/ Guard(r)
    \/ \E email \in Emails : SignUpFinds(r, email) \/ UpdateUser(r, email)
    \/ \E id \in Users : LoginFinds(r, id) \/ RefreshFinds(r, id)
    \/ \E role \in Role : SignUpCreates(r, role) \/ UpdateUserRole(r, role)
    \/ HandlerFinds(r) \/ TokensSigned(r) \/ WrongPassword(r) \/ RowGone(r)
    \/ UpdateOwnRow(r) \/ DeleteUser(r)

\* Every step keeps the types of requests and tokens, and makes one of the writes.
LEMMA StepKinds ==
    ASSUME AccountTypeOK, NEW r \in Requests, Steps(r)
    PROVE  RequestsOK' /\ TokensOK' /\ Writes
<1> USE TypeIsThree
<1>1. /\ requests[r] \in RequestType
      /\ RequestsOK /\ TokensOK /\ TableOK
  BY DEF RequestsOK
<1>2. ASSUME Refuse(r)
      PROVE  RequestsOK' /\ TokensOK' /\ Writes
  <2>1. Goto(r, Free) /\ UNCHANGED <<users, freeIds, tokens, lastSet>>
    BY <1>2 DEF Refuse
  <2> QED
    BY <1>1, <2>1, FreeIsARequest, GotoKeepsTypes DEF TokensOK, Writes, TableUnchanged
<1>3. ASSUME NEW request \in RequestType, Goto(r, request),
             UNCHANGED <<users, freeIds, tokens, lastSet>>
      PROVE  RequestsOK' /\ TokensOK' /\ Writes
  BY <1>1, <1>3, GotoKeepsTypes DEF TokensOK, Writes, TableUnchanged
<1>4. ASSUME NEW patch \in PatchType, RowThere(r),
             Write(r, patch)
      PROVE  RequestsOK' /\ TokensOK' /\ Writes
  <2>1. RowUpdated(requests[r].target, patch)
    BY <1>4 DEF Write, RowUpdated, RowThere, Updated
  <2>2. requests[r].target \in Users
    BY <1>1 DEF RequestType
  <2>3. Goto(r, Free) /\ UNCHANGED tokens
    BY <1>4 DEF Write
  <2> QED
    BY <1>1, <2>1, <2>2, <2>3, FreeIsARequest, GotoKeepsTypes DEF TokensOK, Writes
<1>5. ASSUME NEW op \in UserOp \union AdminOp, NEW sub \in Users, NEW target \in Users,
             Identify(r, op, sub, target)
      PROVE  RequestsOK' /\ TokensOK' /\ Writes
  <2> DEFINE request == [Free EXCEPT !.pc = "identified", !.op = op, !.sub = sub,
                                     !.target = target, !.found = users[sub]]
  <2>1. users[sub] \in Row
    BY <1>1, <1>5 DEF Identify, TableOK
  <2>2. request \in RequestType
    BY <2>1, FreeIsARequest DEF RequestType
  <2>3. Goto(r, request) /\ UNCHANGED <<users, freeIds, tokens, lastSet>>
    BY <1>5 DEF Identify
  <2> HIDE DEF request
  <2> QED
    BY <1>3, <2>2, <2>3
<1>17. CASE Guard(r)
  <2>1. CASE Refuse(r)
    BY <1>2, <2>1
  <2>2. CASE ~Refuse(r)
    <3> DEFINE request == [requests[r] EXCEPT !.pc = "admitted", !.found = NoRow]
    <3>1. request \in RequestType
      BY <1>1, FreeIsARequest DEF RequestType
    <3>2. Goto(r, request) /\ UNCHANGED <<users, freeIds, tokens, lastSet>>
      BY <1>17, <2>2 DEF Guard
    <3> HIDE DEF request
    <3> QED
      BY <1>3, <3>1, <3>2
  <2> QED
    BY <2>1, <2>2
<1>6. ASSUME NEW email \in Emails, SignUpFinds(r, email)
      PROVE  RequestsOK' /\ TokensOK' /\ Writes
  <2> DEFINE request == [Free EXCEPT !.pc = "found", !.op = "signUp", !.email = email]
  <2>1. request \in RequestType
    BY FreeIsARequest DEF RequestType, PublicOp
  <2>2. Goto(r, request) /\ UNCHANGED <<users, freeIds, tokens, lastSet>>
    BY <1>6 DEF SignUpFinds
  <2> HIDE DEF request
  <2> QED
    BY <1>3, <2>1, <2>2
<1>7. ASSUME NEW id \in Users, NEW op \in {"login", "refreshToken"}, id \in DOMAIN users,
             Goto(r, [Free EXCEPT !.pc = "found", !.op = op, !.target = id,
                                  !.found = users[id]]),
             UNCHANGED <<users, freeIds, tokens, lastSet>>
      PROVE  RequestsOK' /\ TokensOK' /\ Writes
  <2> DEFINE request == [Free EXCEPT !.pc = "found", !.op = op, !.target = id,
                                     !.found = users[id]]
  <2>1. users[id] \in Row
    BY <1>1, <1>7 DEF TableOK
  <2>2. request \in RequestType
    BY <2>1, FreeIsARequest DEF RequestType, PublicOp
  <2>3. Goto(r, request)
    BY <1>7
  <2> HIDE DEF request
  <2> QED
    BY <1>3, <1>7, <2>2, <2>3
<1>8. ASSUME NEW role \in Role, SignUpCreates(r, role)
      PROVE  RequestsOK' /\ TokensOK' /\ Writes
  <2>1. CASE Refuse(r)
    BY <1>2, <2>1
  <2>2. CASE ~Refuse(r)
    <3> DEFINE id == CHOOSE u \in freeIds : TRUE
               row == [email |-> requests[r].email, role |-> role]
    <3>1. /\ freeIds # {}
          /\ users' = Inserted(users, id, row)
          /\ lastSet' = Inserted(lastSet, id, row)
          /\ freeIds' = freeIds \ {id}
          /\ Grant(id, role)
          /\ Goto(r, Free)
      BY <1>8, <2>2 DEF SignUpCreates
    <3>2. id \in freeIds /\ id \in Users
      BY <1>1, <3>1 DEF TableOK
    <3>3. row \in Row /\ row.email = requests[r].email
      BY <1>1 DEF RequestType, Row
    <3> HIDE DEF id, row
    <3>4. RowCreated(id, row)
      BY <3>1, <3>2, <3>3 DEF RowCreated
    <3> QED
      BY <1>1, <3>1, <3>2, <3>3, <3>4, FreeIsARequest, GotoKeepsTypes, GrantKeepsTypes
         DEF Writes
  <2> QED
    BY <2>1, <2>2
<1>9. CASE HandlerFinds(r)
  <2>1. CASE requests[r].target \in DOMAIN users
    <3> DEFINE request == [requests[r] EXCEPT !.pc = "found", !.sub = Admin,
                                              !.found = users[requests[r].target]]
    <3>1. users[requests[r].target] \in Row
      BY <1>1, <2>1 DEF TableOK
    <3>2. request \in RequestType
      BY <1>1, <3>1, AdminAssumption DEF RequestType
    <3>3. Goto(r, request) /\ UNCHANGED <<users, freeIds, tokens, lastSet>>
      BY <1>9, <2>1 DEF HandlerFinds
    <3> HIDE DEF request
    <3> QED
      BY <1>3, <3>2, <3>3
  <2>2. CASE requests[r].target \notin DOMAIN users
    BY <1>2, <1>9, <2>2 DEF HandlerFinds
  <2> QED
    BY <2>1, <2>2
<1>10. CASE TokensSigned(r)
  <2>1. requests[r].target \in Users /\ requests[r].found.role \in Role
    BY <1>1 DEF RequestType, Row
  <2>2. /\ Grant(requests[r].target, requests[r].found.role)
        /\ Goto(r, Free)
        /\ TableUnchanged
    BY <1>10 DEF TokensSigned, TableUnchanged
  <2> QED
    BY <1>1, <2>1, <2>2, FreeIsARequest, GotoKeepsTypes, GrantKeepsTypes DEF Writes
<1>11. CASE WrongPassword(r) \/ RowGone(r)
  BY <1>2, <1>11 DEF WrongPassword, RowGone
<1>12. CASE UpdateOwnRow(r)
  <2>1. [email |-> Undefined, role |-> Undefined] \in PatchType
    BY DEF PatchType
  <2> QED
    BY <1>4, <1>12, <2>1 DEF UpdateOwnRow
<1>13. ASSUME NEW email \in Emails, UpdateUser(r, email)
       PROVE  RequestsOK' /\ TokensOK' /\ Writes
  <2>1. CASE Taken(email, requests[r].target)
    BY <1>2, <1>13, <2>1 DEF UpdateUser
  <2>2. CASE ~Taken(email, requests[r].target)
    <3>1. [email |-> email, role |-> Undefined] \in PatchType
      BY DEF PatchType
    <3> QED
      BY <1>4, <1>13, <2>2, <3>1 DEF UpdateUser
  <2> QED
    BY <2>1, <2>2
<1>14. ASSUME NEW role \in Role, UpdateUserRole(r, role)
       PROVE  RequestsOK' /\ TokensOK' /\ Writes
  <2>1. [email |-> Undefined, role |-> role] \in PatchType
    BY DEF PatchType
  <2> QED
    BY <1>4, <1>14, <2>1 DEF UpdateUserRole
<1>15. CASE DeleteUser(r)
  <2>1. RowDeleted(requests[r].target)
    BY <1>15 DEF DeleteUser, RowDeleted
  <2>2. requests[r].target \in Users
    BY <1>1 DEF RequestType
  <2>3. Goto(r, Free) /\ UNCHANGED tokens
    BY <1>15 DEF DeleteUser
  <2> QED
    BY <1>1, <2>1, <2>2, <2>3, FreeIsARequest, GotoKeepsTypes DEF TokensOK, Writes
<1>16. ASSUME NEW id \in Users, LoginFinds(r, id) \/ RefreshFinds(r, id)
       PROVE  RequestsOK' /\ TokensOK' /\ Writes
  BY <1>7, <1>16 DEF LoginFinds, RefreshFinds
<1> QED
  BY <1>5, <1>6, <1>8, <1>9, <1>10, <1>11, <1>12, <1>13, <1>14, <1>15, <1>16,
     <1>17 DEF Steps

-----------------------------------------------------------------------------
(* The invariant                                                           *)

AccountInv == AccountTypeOK /\ NoLostUpdate

\* There is the admin at first.
LEMMA AccountInitInvariant == AccountInit => AccountInv
<1> SUFFICES ASSUME AccountInit PROVE AccountInv
  OBVIOUS
<1>1. TableOK
  BY FreeIsARequest, AdminAssumption DEF AccountInit, TableOK, Row, Role
<1>2. RequestsOK /\ TokensOK
  BY FreeIsARequest DEF AccountInit, RequestsOK, TokensOK, Role
<1>3. NoLostUpdate
  BY DEF AccountInit, NoLostUpdate
<1> QED
  BY <1>1, <1>2, <1>3, TypeIsThree DEF AccountInv

\* The writes keep the table well formed, and its rows as they were last set.
LEMMA WritesKeepTheTable ==
    ASSUME TableOK, NoLostUpdate, Writes
    PROVE  TableOK' /\ NoLostUpdate'
<1> USE DEF TableOK, NoLostUpdate
<1>1. CASE TableUnchanged
  BY <1>1 DEF TableUnchanged
<1>2. ASSUME NEW id \in Users, NEW row \in Row, RowCreated(id, row)
      PROVE  TableOK' /\ NoLostUpdate'
  <2>1. /\ DOMAIN users' = DOMAIN users \union {id}
        /\ \A u \in DOMAIN users' : users'[u] = IF u = id THEN row ELSE users[u]
        /\ lastSet' = users'
        /\ freeIds' = freeIds \ {id} /\ id \in freeIds
    BY <1>2 DEF RowCreated, Inserted
  <2>2. TableOK' /\ NoLostUpdate'
    BY <2>1
  <2> QED
    BY <2>2
<1>3. ASSUME NEW id \in Users, NEW patch \in PatchType, RowUpdated(id, patch)
      PROVE  TableOK' /\ NoLostUpdate'
  <2> DEFINE row == Patched(users[id], patch)
  <2>1. /\ id \in DOMAIN users
        /\ DOMAIN users' = DOMAIN users
        /\ \A u \in DOMAIN users : users'[u] = IF u = id THEN row ELSE users[u]
        /\ lastSet' = users'
        /\ freeIds' = freeIds
    BY <1>3 DEF RowUpdated
  <2>2. row \in Row
    BY <2>1, PatchedIsARow
  <2>3. TableOK' /\ NoLostUpdate'
    BY <2>1, <2>2
  <2> QED
    BY <2>3
<1>4. ASSUME NEW id \in Users, RowDeleted(id)
      PROVE  TableOK' /\ NoLostUpdate'
  BY <1>4 DEF RowDeleted
<1> QED
  BY <1>1, <1>2, <1>3, <1>4 DEF Writes

LEMMA AccountStepInvariant ==
    ASSUME AccountInv, [AccountNext]_accountVars
    PROVE  AccountInv'
<1>1. AccountTypeOK /\ TableOK /\ NoLostUpdate
  BY TypeIsThree DEF AccountInv
<1>2. ASSUME NEW r \in Requests, Steps(r)
      PROVE  AccountInv'
  <2>1. RequestsOK' /\ TokensOK' /\ Writes
    BY <1>1, <1>2, StepKinds
  <2>2. TableOK' /\ NoLostUpdate'
    BY <1>1, <2>1, WritesKeepTheTable
  <2>3. AccountTypeOK'
    BY <2>1, <2>2 DEF AccountTypeOK, TableOK, RequestsOK, TokensOK, RequestType
  <2> QED
    BY <2>2, <2>3 DEF AccountInv
<1>3. CASE UNCHANGED accountVars
  BY <1>1, <1>3 DEF accountVars, AccountInv, AccountTypeOK, NoLostUpdate
<1> QED
  BY <1>2, <1>3 DEF AccountNext, Steps

-----------------------------------------------------------------------------
(* The theorems                                                            *)

\* The accounts are well formed, whatever requests overlap.
THEOREM AccountInvariant == AccountSpec => []AccountInv
<1>1. AccountInit => AccountInv
  BY AccountInitInvariant
<1>2. AccountInv /\ [AccountNext]_accountVars => AccountInv'
  BY AccountStepInvariant
<1> QED
  BY <1>1, <1>2, PTL DEF AccountSpec

\* Every row is as the last request that meant to set each column left it, because a
\* write sets the columns it is given on the row as it is then and not as it was
\* found (user.service.ts:47-63, admin.service.ts:90-127).
THEOREM NothingIsUndone == AccountSpec => []NoLostUpdate
<1>1. AccountInv => NoLostUpdate
  BY DEF AccountInv
<1> QED
  BY <1>1, AccountInvariant, PTL
=============================================================================

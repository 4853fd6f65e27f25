--------------------------- MODULE AccountsProofs ---------------------------
(***************************************************************************)
(* Theorems on Accounts: for any number of accounts, addresses and         *)
(* requests, whatever statements fail and whenever the server is restarted, *)
(* no two accounts share an email and no deleted account comes back.       *)
(***************************************************************************)
EXTENDS Accounts, TLAPS

\* What TypeOK says of the table users.
UsersOK ==
    /\ DOMAIN users \subseteq used
    /\ used \subseteq Id
    /\ users \in [DOMAIN users -> User]

\* Every step of the system is, for the table users, one statement or none.
UsersStatement ==
    \/ \E e \in Email, role \in Role : CreateUser(e, role)
    \/ \E i \in Id, row \in User : UpdateUser(i, row)
    \/ \E i \in Id, flag \in BOOLEAN : SetActive(i, flag)
    \/ \E i \in Id : DeleteUser(i)
    \/ UNCHANGED <<users, used>>

\* The parts of what a request has yet to do are what its op says they are.
LEMMA RequestFacts ==
    ASSUME TypeOK, NEW r \in Request
    PROVE  /\ req[r].op = "update" => req[r] \in UpdateReq
           /\ req[r].op = "create" => req[r] \in CreateReq
           /\ req[r].op = "set" =>
                 req[r] \in SetReq /\ req[r].left \subseteq DOMAIN req[r].map
<1>1. /\ req[r] \in {Idle} \cup UpdateReq \cup CreateReq \cup SetReq
      /\ req[r].op = "set" => req[r].left \subseteq DOMAIN req[r].map
  BY DEF TypeOK
<1> QED
  BY <1>1 DEF Idle, UpdateReq, CreateReq, SetReq

\* A merge of a row with a body is a row.
LEMMA MergeIsUser ==
    ASSUME NEW row \in User, NEW patch \in Patch
    PROVE  Merge(row, patch) \in User
  BY DEF Merge, User, Patch

LEMMA StepIsStatement == TypeOK /\ [Next]_vars => UsersStatement
<1> SUFFICES ASSUME TypeOK, [Next]_vars PROVE UsersStatement
  OBVIOUS
<1>1. ASSUME NEW r \in Request, WriteUpdate(r) PROVE UsersStatement
  <2>1. req[r] \in UpdateReq /\ UpdateUser(req[r].id, req[r].row)
    BY <1>1, RequestFacts DEF WriteUpdate, Pending
  <2> QED
    BY <2>1 DEF UpdateReq, UsersStatement
<1>2. ASSUME NEW r \in Request, CreateSignUp(r) PROVE UsersStatement
  <2>1. req[r] \in CreateReq /\ CreateUser(req[r].email, "user")
    BY <1>2, RequestFacts DEF CreateSignUp, Pending
  <2> QED
    BY <2>1 DEF CreateReq, Role, UsersStatement
<1>3. ASSUME NEW r \in Request, NEW i \in Id, SoftDelete(r, i) \/ Activate(r, i) \/ HardDelete(r, i)
      PROVE  UsersStatement
  BY <1>3 DEF SoftDelete, Activate, HardDelete, UsersStatement
<1>4. CASE Boot \/ BootFails
  BY <1>4, AccountsAssumption DEF AccountsAssumption, Boot, BootFails, Role, UsersStatement
<1>5. CASE UNCHANGED <<users, used>>
  BY <1>5 DEF UsersStatement
<1> QED
  BY <1>1, <1>2, <1>3, <1>4, <1>5
  DEF Next, vars, BeginUpdate, BeginSetAttributes, DeleteAttribute, BeginSignUp,
      InsertAttribute, Fail, Stop

\* What any statement on users keeps: the types, and one account per email.
LEMMA StatementKeepsUsers == UsersOK /\ UsersStatement => UsersOK'
<1> SUFFICES ASSUME UsersOK, UsersStatement PROVE UsersOK'
  OBVIOUS
<1>1. ASSUME NEW e \in Email, NEW role \in Role, CreateUser(e, role) PROVE UsersOK'
  <2>1. [email |-> e, role |-> role, active |-> TRUE] \in User
    BY DEF User
  <2> QED
    BY <1>1, <2>1 DEF UsersOK, CreateUser
<1>2. ASSUME NEW i \in Id, NEW row \in User, UpdateUser(i, row) PROVE UsersOK'
  BY <1>2 DEF UsersOK, UpdateUser
<1>3. ASSUME NEW i \in Id, NEW flag \in BOOLEAN, SetActive(i, flag) PROVE UsersOK'
  <2>1. \A row \in User : [row EXCEPT !.active = flag] \in User
    BY DEF User
  <2> QED
    BY <1>3, <2>1 DEF UsersOK, SetActive
<1>4. ASSUME NEW i \in Id, DeleteUser(i) PROVE UsersOK'
  BY <1>4 DEF UsersOK, DeleteUser
<1>5. CASE UNCHANGED <<users, used>>
  BY <1>5 DEF UsersOK
<1> QED
  BY <1>1, <1>2, <1>3, <1>4, <1>5 DEF UsersStatement

LEMMA StatementKeepsEmailsUnique ==
    UsersOK /\ EmailsAreUnique /\ UsersStatement => EmailsAreUnique'
<1> SUFFICES ASSUME UsersOK, EmailsAreUnique, UsersStatement PROVE EmailsAreUnique'
  OBVIOUS
<1>1. ASSUME NEW e \in Email, NEW role \in Role, CreateUser(e, role) PROVE EmailsAreUnique'
  BY <1>1 DEF CreateUser, HasEmail, EmailsAreUnique
<1>2. ASSUME NEW i \in Id, NEW row \in User, UpdateUser(i, row) PROVE EmailsAreUnique'
  BY <1>2 DEF UpdateUser, EmailsAreUnique
<1>3. ASSUME NEW i \in Id, NEW flag \in BOOLEAN, SetActive(i, flag) PROVE EmailsAreUnique'
  <2>1. \A j \in DOMAIN users : users[j] \in User
    BY DEF UsersOK
  <2>2. DOMAIN users' = DOMAIN users /\ \A j \in DOMAIN users : users'[j].email = users[j].email
    BY <1>3, <2>1 DEF SetActive, User
  <2> QED
    BY <2>2 DEF EmailsAreUnique
<1>4. ASSUME NEW i \in Id, DeleteUser(i) PROVE EmailsAreUnique'
  BY <1>4 DEF DeleteUser, EmailsAreUnique
<1>5. CASE UNCHANGED <<users, used>>
  BY <1>5 DEF EmailsAreUnique
<1> QED
  BY <1>1, <1>2, <1>3, <1>4, <1>5 DEF UsersStatement

\* A row that was not there has an id that was never given out.
LEMMA RowsComeUnderNewIds ==
    ASSUME UsersStatement, NEW i \in used, i \notin DOMAIN users
    PROVE  i \notin DOMAIN users'
<1>1. ASSUME NEW e, NEW role, CreateUser(e, role) PROVE i \notin DOMAIN users'
  BY <1>1 DEF CreateUser
<1>2. ASSUME NEW j, NEW row, UpdateUser(j, row) PROVE i \notin DOMAIN users'
  BY <1>2 DEF UpdateUser
<1>3. ASSUME NEW j, NEW flag, SetActive(j, flag) PROVE i \notin DOMAIN users'
  <2>1. DOMAIN users' = DOMAIN users
    BY <1>3 DEF SetActive
  <2> QED
    BY <2>1
<1>4. ASSUME NEW j, DeleteUser(j) PROVE i \notin DOMAIN users'
  BY <1>4 DEF DeleteUser
<1> QED
  BY <1>1, <1>2, <1>3, <1>4 DEF UsersStatement

\* The attributes an account has after a put or a removal.
LEMMA AttrMapFacts ==
    /\ NoAttrs \in AttrMap
    /\ \A m \in AttrMap, k \in Key, v \in Value : Put(m, k, v) \in AttrMap
    /\ \A m \in AttrMap, k \in Key : [j \in DOMAIN m \ {k} |-> m[j]] \in AttrMap
    /\ \A m \in AttrMap : DOMAIN m \subseteq Key /\ \A k \in DOMAIN m : m[k] \in Value
<1>1. NoAttrs \in AttrMap
  <2>1. NoAttrs \in [{} -> Value]
    BY DEF NoAttrs
  <2> QED
    BY <2>1 DEF AttrMap
<1>2. ASSUME NEW m \in AttrMap
      PROVE  /\ DOMAIN m \subseteq Key /\ m \in [DOMAIN m -> Value]
             /\ \A k \in DOMAIN m : m[k] \in Value
  <2>1. PICK keys \in SUBSET Key : m \in [keys -> Value]
    BY DEF AttrMap
  <2> QED
    BY <2>1
<1>3. ASSUME NEW m \in AttrMap, NEW k \in Key, NEW v \in Value PROVE Put(m, k, v) \in AttrMap
  <2>1. DOMAIN m \cup {k} \in SUBSET Key /\ Put(m, k, v) \in [DOMAIN m \cup {k} -> Value]
    BY <1>2 DEF Put
  <2> QED
    BY <2>1 DEF AttrMap
<1>4. ASSUME NEW m \in AttrMap, NEW k \in Key PROVE [j \in DOMAIN m \ {k} |-> m[j]] \in AttrMap
  <2>1. DOMAIN m \ {k} \in SUBSET Key /\ [j \in DOMAIN m \ {k} |-> m[j]] \in [DOMAIN m \ {k} -> Value]
    BY <1>2
  <2> QED
    BY <2>1 DEF AttrMap
<1> QED
  BY <1>1, <1>2, <1>3, <1>4

\* What TypeOK says of the requests under way.
RequestsOK ==
    /\ req \in [Request -> {Idle} \cup UpdateReq \cup CreateReq \cup SetReq]
    /\ \A r \in Request : req[r].op = "set" => req[r].left \subseteq DOMAIN req[r].map

LEMMA TypeInit == Init => TypeOK
<1> SUFFICES ASSUME Init PROVE TypeOK
  OBVIOUS
<1>1. /\ attrs \in [Id -> AttrMap]
      /\ req \in [Request -> {Idle} \cup UpdateReq \cup CreateReq \cup SetReq]
  BY AttrMapFacts DEF Init
<1>2. \A r \in Request : req[r].op # "set"
  BY DEF Init, Idle
<1> QED
  BY <1>1, <1>2 DEF Init, TypeOK

\* A step gives a request nothing to do that is not of one of the four kinds.
LEMMA StepKeepsRequests == TypeOK /\ [Next]_vars => RequestsOK' /\ attrs' \in [Id -> AttrMap]
<1> SUFFICES ASSUME TypeOK, [Next]_vars PROVE RequestsOK' /\ attrs' \in [Id -> AttrMap]
  OBVIOUS
<1>t. RequestsOK /\ attrs \in [Id -> AttrMap]
  BY DEF TypeOK, RequestsOK
<1>i. Idle.op # "set"
  BY DEF Idle
<1>1. ASSUME NEW r \in Request, Finish(r) PROVE RequestsOK'
  BY <1>1, <1>t, <1>i DEF RequestsOK, Finish
<1>2. ASSUME NEW r \in Request, NEW i \in Id, NEW patch \in Patch, BeginUpdate(r, i, patch)
      PROVE  RequestsOK'
  <2>. DEFINE todo == [op |-> "update", id |-> i, patch |-> patch, row |-> Merge(users[i], patch)]
  <2>1. todo \in UpdateReq /\ todo.op = "update"
    BY <1>2, MergeIsUser DEF BeginUpdate, TypeOK, UpdateReq
  <2>2. req' = [req EXCEPT ![r] = todo]
    BY <1>2 DEF BeginUpdate
  <2>. HIDE DEF todo
  <2> QED
    BY <1>t, <2>1, <2>2 DEF RequestsOK
<1>3. ASSUME NEW r \in Request, NEW e \in Email, BeginSignUp(r, e) PROVE RequestsOK'
  <2>. DEFINE todo == [op |-> "create", email |-> e]
  <2>1. todo \in CreateReq /\ todo.op = "create"
    BY DEF CreateReq
  <2>2. req' = [req EXCEPT ![r] = todo]
    BY <1>3 DEF BeginSignUp
  <2>. HIDE DEF todo
  <2> QED
    BY <1>t, <2>1, <2>2 DEF RequestsOK
<1>4. ASSUME NEW r \in Request, NEW i \in Id, NEW m \in AttrMap, BeginSetAttributes(r, i, m)
      PROVE  RequestsOK' /\ attrs' \in [Id -> AttrMap]
  <2>. DEFINE todo == IF m = NoAttrs THEN Idle
                      ELSE [op |-> "set", id |-> i, map |-> m, left |-> DOMAIN m]
  <2>1. todo \in {Idle} \cup SetReq /\ (todo.op = "set" => todo.left \subseteq DOMAIN todo.map)
    BY AttrMapFacts DEF SetReq, Idle
  <2>2. req' = [req EXCEPT ![r] = todo] /\ attrs' = [attrs EXCEPT ![i] = NoAttrs]
    BY <1>4 DEF BeginSetAttributes
  <2>. HIDE DEF todo
  <2> QED
    BY <1>t, <2>1, <2>2, AttrMapFacts DEF RequestsOK
<1>5. ASSUME NEW r \in Request, InsertAttribute(r)
      PROVE  RequestsOK' /\ attrs' \in [Id -> AttrMap]
  <2>1. req[r] \in SetReq /\ req[r].left \subseteq DOMAIN req[r].map
    BY <1>5, RequestFacts DEF InsertAttribute, Pending
  <2>2. PICK k \in req[r].left :
            /\ attrs' = [attrs EXCEPT ![req[r].id] = Put(@, k, req[r].map[k])]
            /\ IF req[r].left = {k} THEN Finish(r)
               ELSE req' = [req EXCEPT ![r].left = @ \ {k}]
    BY <1>5 DEF InsertAttribute
  <2>3. /\ req[r].id \in Id /\ req[r].map \in AttrMap /\ req[r].left \in SUBSET Key
        /\ k \in Key /\ req[r].map[k] \in Value
    BY <2>1, AttrMapFacts DEF SetReq
  <2>4. attrs' \in [Id -> AttrMap]
    BY <1>t, <2>2, <2>3, AttrMapFacts
  <2>5. CASE req[r].left # {k}
    <3>. DEFINE todo == [req[r] EXCEPT !.left = @ \ {k}]
    <3>1. todo \in SetReq /\ todo.left \subseteq DOMAIN todo.map
      BY <2>1 DEF SetReq
    <3>2. req' = [req EXCEPT ![r] = todo]
      BY <2>2, <2>5
    <3>. HIDE DEF todo
    <3>3. RequestsOK'
      BY <1>t, <3>1, <3>2 DEF RequestsOK
    <3> QED
      BY <2>4, <3>3
  <2> QED
    BY <1>1, <2>2, <2>4, <2>5
<1>6. ASSUME NEW r \in Request, NEW i \in Id, NEW k \in Key, DeleteAttribute(r, i, k)
      PROVE  RequestsOK' /\ attrs' \in [Id -> AttrMap]
  BY <1>6, <1>t, AttrMapFacts DEF DeleteAttribute, RequestsOK
<1>7. CASE Stop
  BY <1>7, <1>t, <1>i DEF Stop, RequestsOK
<1>8. CASE UNCHANGED <<req, attrs>>
  BY <1>8, <1>t DEF RequestsOK
<1> QED
  BY <1>t, <1>1, <1>2, <1>3, <1>4, <1>5, <1>6, <1>7, <1>8
  DEF Next, vars, BeginUpdate, SoftDelete, Activate, HardDelete, WriteUpdate, BeginSignUp,
      CreateSignUp, Fail, Boot, BootFails

LEMMA TypeStep == TypeOK /\ [Next]_vars => TypeOK'
<1> SUFFICES ASSUME TypeOK, [Next]_vars PROVE TypeOK'
  OBVIOUS
<1>1. UsersOK'
  BY StepIsStatement, StatementKeepsUsers DEF TypeOK, UsersOK
<1>2. RequestsOK' /\ attrs' \in [Id -> AttrMap]
  BY StepKeepsRequests
<1>3. serving' \in BOOLEAN
  BY DEF TypeOK, Next, vars, BeginUpdate, SoftDelete, Activate, HardDelete, BeginSetAttributes,
         DeleteAttribute, WriteUpdate, BeginSignUp, CreateSignUp, InsertAttribute, Fail,
         Boot, BootFails, Stop
<1> QED
  BY <1>1, <1>2, <1>3 DEF TypeOK, UsersOK, RequestsOK

----------------------------------------------------------------------------
\* Rows, attributes and the work of every request keep their types, for any
\* accounts and any number of requests at the same time.
THEOREM AccountsTypeCorrect == Spec => []TypeOK
  BY TypeInit, TypeStep, PTL DEF Spec

\* No two accounts share an email, whatever sign-ups, PATCHes and starts overlap.
THEOREM OneAccountPerEmail == Spec => []EmailsAreUnique
<1>1. Init => EmailsAreUnique
  BY DEF Init, EmailsAreUnique
<1>2. TypeOK /\ EmailsAreUnique /\ [Next]_vars => EmailsAreUnique'
  BY StepIsStatement, StatementKeepsEmailsUnique DEF TypeOK, UsersOK
<1> QED
  BY <1>1, <1>2, AccountsTypeCorrect, PTL DEF Spec

\* An id that was given out and has no row never has one again, whatever a request
\* had read before the row was deleted.
THEOREM DeletedForGood == Spec => HardDeleteIsFinal
<1>1. TypeOK /\ [Next]_vars =>
          [\A i \in used : i \notin DOMAIN users => i \notin DOMAIN users']_vars
  <2> SUFFICES ASSUME TypeOK, [Next]_vars, NEW i \in used, i \notin DOMAIN users
               PROVE  i \notin DOMAIN users'
    OBVIOUS
  <2> QED
    BY StepIsStatement, RowsComeUnderNewIds
<1> QED
  BY <1>1, AccountsTypeCorrect, PTL DEF Spec, HardDeleteIsFinal

=============================================================================

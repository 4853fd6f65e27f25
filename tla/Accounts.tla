------------------------------ MODULE Accounts ------------------------------
(***************************************************************************)
(* The tables users and user_attributes and the requests that change them: *)
(* internal/user (profile, roles, activation, attributes), the sign-up of  *)
(* internal/auth and the administrator main.go creates at start.           *)
(*                                                                         *)
(* A request runs on a goroutine of its own.  Each SQL statement is atomic, *)
(* no transaction spans two of them, and what a request read it keeps.     *)
(* Statements and the requests of one statement are the same thing; a      *)
(* request of several keeps in req what it has yet to do.                  *)
(*                                                                         *)
(* Left out: the password hash (Update writes back the one it read and     *)
(* nothing else changes it), timestamps, and the requests that only read.  *)
(***************************************************************************)
EXTENDS Integers

CONSTANTS
    Id,           \* user ids; uuid.New never gives one twice
    Email,        \* addresses
    Key, Value,   \* of attributes
    Request,      \* requests served at the same time
    AdminEmail,   \* ADMIN_EMAIL
    Keep,         \* a field that a PATCH does not mention
    DbMayFail     \* may a statement fail

ASSUME AccountsAssumption ==
    /\ AdminEmail \in Email
    /\ Keep \notin Email
    /\ DbMayFail \in BOOLEAN

\* PATCH takes any string for a role; the program asks only whether it is admin.
Role == {"admin", "user"}

User == [email : Email, role : Role, active : BOOLEAN]

\* The body of a PATCH, with the fields Update looks at.
Patch == [email : Email \cup {Keep}, role : Role \cup {Keep},
          active : BOOLEAN \cup {Keep}]

\* Attributes of one user: a value for some of the keys.
AttrMap == UNION {[keys -> Value] : keys \in SUBSET Key}

VARIABLES
    users,        \* table users: id -> User
    attrs,        \* table user_attributes: id -> AttrMap, whether or not the
                  \* id has a row in users
    used,         \* the ids given out so far
    serving,      \* main has come to Listen
    req           \* what each request has yet to do

vars == <<users, attrs, used, serving, req>>

Idle == [op |-> "none"]

NoAttrs == [k \in {} |-> k]

Init ==
    /\ users = [i \in {} |-> i]
    /\ attrs = [i \in Id |-> NoAttrs]
    /\ used = {}
    /\ serving = FALSE
    /\ req = [r \in Request |-> Idle]

HasEmail(e) == \E i \in DOMAIN users : users[i].email = e

Free(r) == serving /\ req[r] = Idle

Pending(r, op) == serving /\ req[r].op = op

Finish(r) == req' = [req EXCEPT ![r] = Idle]

----------------------------------------------------------------------------
(* Statements on users.                                                    *)

\* Mutant: the email is not UNIQUE.
CreateUser_Twice(e, role) ==
    \E i \in Id \ used :
        /\ users' = [j \in DOMAIN users \cup {i} |->
                        IF j = i THEN [email |-> e, role |-> role, active |-> TRUE]
                        ELSE users[j]]
        /\ used' = used \cup {i}

\* INSERT: an id never used, and UNIQUE on the email.
CreateUser(e, role) ==
    \E i \in Id \ used :
        /\ ~HasEmail(e)
        /\ users' = [j \in DOMAIN users \cup {i} |->
                        IF j = i THEN [email |-> e, role |-> role, active |-> TRUE]
                        ELSE users[j]]
        /\ used' = used \cup {i}

\* Mutant: an upsert.
UpdateUser_Upsert(i, row) ==
    /\ \A j \in DOMAIN users \ {i} : users[j].email # row.email
    /\ users' = [j \in DOMAIN users \cup {i} |-> IF j = i THEN row ELSE users[j]]
    /\ UNCHANGED used

\* UPDATE ... SET all columns WHERE id = ?: no row, no change; UNIQUE again.
UpdateUser(i, row) ==
    /\ \A j \in DOMAIN users \ {i} : i \in DOMAIN users => users[j].email # row.email
    /\ users' = [j \in DOMAIN users |-> IF j = i THEN row ELSE users[j]]
    /\ UNCHANGED used

SetActive(i, flag) ==
    /\ users' = [j \in DOMAIN users |->
                    IF j = i THEN [users[j] EXCEPT !.active = flag] ELSE users[j]]
    /\ UNCHANGED used

DeleteUser(i) ==
    /\ users' = [j \in DOMAIN users \ {i} |-> users[j]]
    /\ UNCHANGED used

----------------------------------------------------------------------------
(* PATCH /me, PATCH /:id and PATCH /:id/role: read the row, change the     *)
(* fields of the body, write the whole row back.                           *)

\* Mutant: a body without an email clears it.
Merge_Clears(row, patch) ==
    [email  |-> patch.email,
     role   |-> IF patch.role = Keep THEN row.role ELSE patch.role,
     active |-> IF patch.active = Keep THEN row.active ELSE patch.active]

Merge(row, patch) ==
    [email  |-> IF patch.email = Keep THEN row.email ELSE patch.email,
     role   |-> IF patch.role = Keep THEN row.role ELSE patch.role,
     active |-> IF patch.active = Keep THEN row.active ELSE patch.active]

BeginUpdate(r, i, patch) ==
    /\ Free(r)
    /\ i \in DOMAIN users
    /\ req' = [req EXCEPT ![r] = [op |-> "update", id |-> i, patch |-> patch,
                                  row |-> Merge(users[i], patch)]]
    /\ UNCHANGED <<users, attrs, used, serving>>

WriteUpdate(r) ==
    /\ Pending(r, "update")
    /\ UpdateUser(req[r].id, req[r].row)
    /\ Finish(r)
    /\ UNCHANGED <<attrs, serving>>

\* The requests of one statement.
SoftDelete(r, i) == Free(r) /\ SetActive(i, FALSE) /\ UNCHANGED <<attrs, serving, req>>

Activate(r, i)   == Free(r) /\ SetActive(i, TRUE) /\ UNCHANGED <<attrs, serving, req>>

\* Foreign keys are off in SQLite unless a connection asks for them, and db.Open
\* does not: nothing cascades.
HardDelete(r, i) == Free(r) /\ DeleteUser(i) /\ UNCHANGED <<attrs, serving, req>>

----------------------------------------------------------------------------
(* POST /auth/register: look the email up, hash the password, insert.  A   *)
(* lookup that fails counts as one that finds nobody.                      *)

BeginSignUp(r, e) ==
    /\ Free(r)
    /\ ~HasEmail(e) \/ DbMayFail
    /\ req' = [req EXCEPT ![r] = [op |-> "create", email |-> e]]
    /\ UNCHANGED <<users, attrs, used, serving>>

CreateSignUp(r) ==
    /\ Pending(r, "create")
    /\ CreateUser(req[r].email, "user")
    /\ Finish(r)
    /\ UNCHANGED <<attrs, serving>>

----------------------------------------------------------------------------
(* PUT /me/attributes and PUT /:id/attributes: delete all, then insert one *)
(* by one, in the order Go's map iteration happens to take.                *)

BeginSetAttributes(r, i, m) ==
    /\ Free(r)
    /\ attrs' = [attrs EXCEPT ![i] = NoAttrs]
    /\ req' = [req EXCEPT ![r] = IF m = NoAttrs THEN Idle
                                 ELSE [op |-> "set", id |-> i, map |-> m, left |-> DOMAIN m]]
    /\ UNCHANGED <<users, used, serving>>

\* INSERT OR REPLACE, keyed by user and key.
Put(m, k, v) == [j \in DOMAIN m \cup {k} |-> IF j = k THEN v ELSE m[j]]

InsertAttribute(r) ==
    /\ Pending(r, "set")
    /\ \E k \in req[r].left :
          /\ attrs' = [attrs EXCEPT ![req[r].id] = Put(@, k, req[r].map[k])]
          /\ IF req[r].left = {k}
             THEN Finish(r)
             ELSE req' = [req EXCEPT ![r].left = @ \ {k}]
    /\ UNCHANGED <<users, used, serving>>

DeleteAttribute(r, i, k) ==
    /\ Free(r)
    /\ attrs' = [attrs EXCEPT ![i] = [j \in DOMAIN @ \ {k} |-> @[j]]]
    /\ UNCHANGED <<users, used, serving, req>>

----------------------------------------------------------------------------
(* A statement that fails ends its request with an error: a database error, *)
(* or for users an email another row has.                                  *)

Refused(r) ==
    \/ DbMayFail
    \/ req[r].op = "create" /\ HasEmail(req[r].email)
    \/ /\ req[r].op = "update"
       /\ \E j \in DOMAIN users \ {req[r].id} :
             req[r].id \in DOMAIN users /\ users[j].email = req[r].row.email

Fail(r) ==
    /\ serving
    /\ req[r] # Idle
    /\ Refused(r)
    /\ Finish(r)
    /\ UNCHANGED <<users, attrs, used, serving>>

----------------------------------------------------------------------------
(* The process.                                                            *)

\* The administrator is created unless the email is found.  main has this block
\* twice; the second finds what the first left.
Boot ==
    /\ ~serving
    /\ IF HasEmail(AdminEmail)
       THEN UNCHANGED <<users, used>>
       ELSE CreateUser(AdminEmail, "admin")
    /\ serving' = TRUE
    /\ UNCHANGED <<attrs, req>>

\* The error of a lookup is dropped and the insert tried; when the insert is
\* refused, the server does not come up.  In the second block that happens after
\* the first has created the administrator.
BootFails ==
    /\ ~serving
    /\ DbMayFail
    /\ \/ UNCHANGED <<users, used>>
       \/ ~HasEmail(AdminEmail) /\ CreateUser(AdminEmail, "admin")
    /\ UNCHANGED <<attrs, req, serving>>

\* Shutdown or crash: the requests under way end where they stand.
Stop ==
    /\ serving
    /\ serving' = FALSE
    /\ req' = [r \in Request |-> Idle]
    /\ UNCHANGED <<users, attrs, used>>

----------------------------------------------------------------------------
Next ==
    \/ \E r \in Request, i \in Id :
          \/ \E patch \in Patch : BeginUpdate(r, i, patch)
          \/ SoftDelete(r, i) \/ Activate(r, i) \/ HardDelete(r, i)
          \/ \E m \in AttrMap : BeginSetAttributes(r, i, m)
          \/ \E k \in Key : DeleteAttribute(r, i, k)
    \/ \E r \in Request :
          \/ WriteUpdate(r)
          \/ \E e \in Email : BeginSignUp(r, e)
          \/ CreateSignUp(r) \/ InsertAttribute(r) \/ Fail(r)
    \/ Boot \/ BootFails \/ Stop

Spec == Init /\ [][Next]_vars

----------------------------------------------------------------------------
(* Properties.                                                             *)

UpdateReq == [op : {"update"}, id : Id, patch : Patch, row : User]
CreateReq == [op : {"create"}, email : Email]
SetReq    == [op : {"set"}, id : Id, map : AttrMap, left : SUBSET Key]

TypeOK ==
    /\ DOMAIN users \subseteq used
    /\ used \subseteq Id
    /\ users \in [DOMAIN users -> User]
    /\ attrs \in [Id -> AttrMap]
    /\ serving \in BOOLEAN
    /\ req \in [Request -> {Idle} \cup UpdateReq \cup CreateReq \cup SetReq]
    /\ \A r \in Request : req[r].op = "set" => req[r].left \subseteq DOMAIN req[r].map

\* Two accounts never share an email, although sign-up, the start-up and PATCH
\* decide on a lookup that other requests may have overtaken.
EmailsAreUnique ==
    \A i, j \in DOMAIN users : users[i].email = users[j].email => i = j

\* A deleted account stays deleted: a PATCH that read it before does not bring
\* it back when it writes.
HardDeleteIsFinal ==
    [][\A i \in used : i \notin DOMAIN users => i \notin DOMAIN users']_vars

\* "SoftDelete ... assert.False(user.Active)": a deactivated account gets active
\* again only by a request that says so.
AsksActive(i) ==
    \/ \E r \in Request : Free(r) /\ Activate(r, i)
    \/ \E r \in Request : /\ Pending(r, "update")
                          /\ req[r].id = i /\ req[r].patch.active = TRUE
                          /\ req'[r] = Idle

DeactivationHolds ==
    [][\A i \in DOMAIN users \cap DOMAIN users' :
          users'[i].active /\ ~users[i].active => AsksActive(i)]_vars

=============================================================================

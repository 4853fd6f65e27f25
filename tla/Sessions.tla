------------------------------ MODULE Sessions ------------------------------
(***************************************************************************)
(* Sign-in, refresh and the use of tokens: internal/auth (service,         *)
(* handler, repository) and internal/middleware, over the accounts of      *)
(* Accounts and the keys of KeyRing.                                       *)
(*                                                                         *)
(* A sign-in reads the account, checks the password (slow by design) and   *)
(* issues the pair from what it read; requests on accounts come with an    *)
(* access token and are let in by what the token says, not by what the     *)
(* row says by then.  The token need not be one this program signed: the   *)
(* HMAC key of Validate is a constant (Elsewhere).                         *)
(*                                                                         *)
(* Passwords are right: a wrong one ends a sign-in before it changes       *)
(* anything.  Left out because nothing of it can happen: what RefreshToken *)
(* does once it has found a row (LookUp finds none), and Service.Logout,   *)
(* whose handler wants a userID no middleware sets on its route; so no row *)
(* of refresh_tokens is ever revoked.                                      *)
(***************************************************************************)
EXTENDS KeyRing, FiniteSets

CONSTANTS
    Id, Email, Key, Value, Request, AdminEmail, Keep, DbMayFail,  \* of Accounts
    Client,       \* sign-ins and refreshes served at the same time
    Elsewhere     \* claims of tokens others signed with the HMAC key of Validate

VARIABLES
    users, attrs, used, serving, req,   \* of Accounts
    login,        \* what each sign-in or refresh has yet to do
    table,        \* refresh_tokens: owner and token_hash of each row
    pairs,        \* the pairs clients were answered with
    seen          \* history: when each claim last was true of an active account

A == INSTANCE Accounts

ASSUME SessionsAssumption ==
    /\ Claims = [sub : Id, role : A!Role]
    /\ AdminEmail \in Email
    /\ Keep \notin Email
    /\ DbMayFail \in BOOLEAN
    /\ Elsewhere \subseteq Claims

accountVars == <<users, attrs, used, serving, req>>

sessionVars == <<login, table, pairs>>

allVars == <<ringVars, accountVars, sessionVars, seen>>

Idle == [op |-> "none"]

\* Long ago, whatever the clock says.
Never == 0 - MaxClock - AccessTTL

HasRole(claims) ==
    /\ claims.sub \in DOMAIN users
    /\ users[claims.sub].active
    /\ users[claims.sub].role = claims.role

SessionInit ==
    /\ RingInit
    /\ A!Init
    /\ login = [c \in Client |-> Idle]
    /\ table = {}
    /\ pairs = {}
    /\ seen = [claims \in Claims |-> Never]

Free(c) == serving /\ login[c] = Idle

Pending(c, op) == serving /\ login[c].op = op

Finish(c) == login' = [login EXCEPT ![c] = Idle]

----------------------------------------------------------------------------
(* The strings that refresh_tokens is asked about: a JWT, and the salted   *)
(* hash of one, which starts with $argon2id$ and is no JWT.                *)

Jwt(n) == [form |-> "jwt", token |-> n]

\* Mutant: the token is stored as it is.
Hash_Plain(n) == Jwt(n)

Hash(n) == [form |-> "argon2id", token |-> n]

LookUp(string) == {row \in table : row.hash = string}

CreateRefreshToken(i, hash) == table' = table \cup {[owner |-> i, hash |-> hash]}

----------------------------------------------------------------------------
(* SignIn and generateTokens.                                              *)

\* Bound: each sign-in under way will sign two tokens.
RoomForSignIn ==
    Len(issued) + 2 * Cardinality({c \in Client : login[c] # Idle}) + 2 <= MaxIssued

\* Mutant: the account is not asked whether it is active.
BeginSignIn_Any(c, i) ==
    /\ Free(c)
    /\ RoomForSignIn
    /\ i \in DOMAIN users
    /\ login' = [login EXCEPT ![c] = [op |-> "access", since |-> clock,
                                      claims |-> [sub |-> i, role |-> users[i].role]]]
    /\ UNCHANGED <<ringVars, accountVars, table, pairs>>

BeginSignIn(c, i) ==
    /\ Free(c)
    /\ RoomForSignIn
    /\ i \in DOMAIN users
    /\ users[i].active
    /\ login' = [login EXCEPT ![c] = [op |-> "access", since |-> clock,
                                      claims |-> [sub |-> i, role |-> users[i].role]]]
    /\ UNCHANGED <<ringVars, accountVars, table, pairs>>

SignAccess(c) ==
    /\ Pending(c, "access")
    /\ IssueAccess(login[c].claims)
    /\ login' = [login EXCEPT ![c] = [op |-> "refresh", since |-> @.since,
                                      claims |-> @.claims, access |-> NextToken]]
    /\ UNCHANGED <<accountVars, table, pairs>>

SignRefresh(c) ==
    /\ Pending(c, "refresh")
    /\ IssueRefresh
    /\ login' = [login EXCEPT ![c] = [op |-> "store", since |-> @.since, claims |-> @.claims,
                                      pair |-> [access |-> @.access, refresh |-> NextToken]]]
    /\ UNCHANGED <<accountVars, table, pairs>>

\* Mutant: the statement fails and the pair is returned all the same.
StorePair_MindsNoError(c) ==
    /\ Pending(c, "store")
    /\ \/ ~DbMayFail /\ CreateRefreshToken(login[c].claims.sub, Hash(login[c].pair.refresh))
       \/ DbMayFail /\ UNCHANGED table
    /\ pairs' = pairs \cup {login[c].pair}
    /\ Finish(c)
    /\ UNCHANGED <<ringVars, accountVars>>

\* The row is inserted, the pair is the answer.
StorePair(c) ==
    /\ Pending(c, "store")
    /\ CreateRefreshToken(login[c].claims.sub, Hash(login[c].pair.refresh))
    /\ pairs' = pairs \cup {login[c].pair}
    /\ Finish(c)
    /\ UNCHANGED <<ringVars, accountVars>>

StoreFails(c) ==
    /\ Pending(c, "store")
    /\ DbMayFail
    /\ Finish(c)
    /\ UNCHANGED <<ringVars, accountVars, table, pairs>>

----------------------------------------------------------------------------
(* RefreshToken.                                                           *)

BeginRefresh(c, pair) ==
    /\ Free(c)
    /\ Accepts(issued[pair.refresh])
    /\ login' = [login EXCEPT ![c] = [op |-> "lookup", since |-> clock, pair |-> pair]]
    /\ UNCHANGED <<ringVars, accountVars, table, pairs>>

\* GetRefreshTokenByHash is given the token and not its hash.
RefuseRefresh(c) ==
    /\ Pending(c, "lookup")
    /\ LookUp(Jwt(login[c].pair.refresh)) = {} \/ DbMayFail
    /\ Finish(c)
    /\ UNCHANGED <<ringVars, accountVars, table, pairs>>

----------------------------------------------------------------------------
(* Requests on accounts: RequireAuth and RequireAdmin go by the token.     *)

\* A refresh token has no sub and no role and gets no further than RequireAuth.
Bearer(token) == Accepts(issued[token]) /\ issued[token].claims # NoClaims

\* There is an accepted token with these claims: one of a pair handed out, or one
\* signed with the HMAC key, which Validate takes whatever keys the ring holds.
LetIn(claims) ==
    \/ claims \in Elsewhere
    \/ \E pair \in pairs : Bearer(pair.access) /\ issued[pair.access].claims = claims

IsUser(i) == \E claims \in Claims : LetIn(claims) /\ claims.sub = i

IsAdmin == \E claims \in Claims : LetIn(claims) /\ claims.role = "admin"

\* PATCH bodies that sessions can tell apart, of one field at most.
RolePatch == {patch \in A!Patch : patch.email = Keep /\ Keep \in {patch.role, patch.active}}

\* The requests on attributes leave users alone and are not repeated here.
AccountRequest ==
    \/ \E r \in Request, i \in Id :
          \/ (IsUser(i) \/ IsAdmin) /\ \E patch \in RolePatch : A!BeginUpdate(r, i, patch)
          \/ IsUser(i) /\ A!SoftDelete(r, i)
          \/ IsAdmin /\ (A!Activate(r, i) \/ A!HardDelete(r, i))
    \/ \E r \in Request :
          \/ A!WriteUpdate(r) \/ A!CreateSignUp(r) \/ A!Fail(r)
          \/ \E e \in Email : A!BeginSignUp(r, e)

AccountStep == AccountRequest /\ UNCHANGED <<ringVars, sessionVars>>

----------------------------------------------------------------------------
(* Time and the process.                                                   *)

\* Assumed: a sign-in does not last from one tick to the one after the next.
TickStep ==
    /\ \A c \in Client : login[c] # Idle => login[c].since = clock
    /\ Tick
    /\ UNCHANGED <<accountVars, sessionVars>>

\* main creates the administrator, then the JWTManager, then serves.
StartStep ==
    /\ A!Boot
    /\ \E configured \in Configured : StartRing(configured)
    /\ UNCHANGED sessionVars

StopStep ==
    /\ A!Stop
    /\ login' = [c \in Client |-> Idle]
    /\ UNCHANGED <<ringVars, table, pairs>>

StartFails == A!BootFails /\ UNCHANGED <<ringVars, sessionVars>>

SignInStep ==
    \E c \in Client :
        \/ \E i \in Id : BeginSignIn(c, i)
        \/ SignAccess(c) \/ SignRefresh(c) \/ StorePair(c) \/ StoreFails(c)
        \/ \E pair \in pairs : BeginRefresh(c, pair)
        \/ RefuseRefresh(c)

\* History: when each claim was last true of an active account; longer ago than a
\* lifetime is as good as never.
Watch == seen' = [claims \in Claims |->
                     IF HasRole(claims)' THEN clock'
                     ELSE IF clock' - seen[claims] <= AccessTTL THEN seen[claims] ELSE Never]

SessionNext ==
    /\ SignInStep \/ AccountStep \/ TickStep \/ StartStep \/ StopStep \/ StartFails
    /\ Watch

SessionSpec == SessionInit /\ [][SessionNext]_allVars

----------------------------------------------------------------------------
(* Properties.                                                             *)

Pair == [access : DOMAIN issued, refresh : DOMAIN issued]

Login ==
    LET Time == 0..MaxClock IN
    {Idle} \cup [op : {"access"}, since : Time, claims : Claims]
           \cup [op : {"refresh"}, since : Time, claims : Claims, access : DOMAIN issued]
           \cup [op : {"store"}, since : Time, claims : Claims, pair : Pair]
           \cup [op : {"lookup"}, since : Time, pair : Pair]

SessionTypeOK ==
    /\ RingTypeOK
    /\ A!TypeOK
    /\ login \in [Client -> Login]
    /\ pairs \subseteq Pair
    /\ table \subseteq [owner : Id, hash : [form : {"argon2id"}, token : DOMAIN issued]]
    /\ seen \in [Claims -> {Never} \cup 0..MaxClock]

\* "TestSignIn/deactivated account": what an unexpired access token that a sign-in
\* handed out says of an account was true, of an active account, within the
\* lifetime of an access token: no sign-in, slow as its password check is, and no
\* refresh renews a claim that the row no longer bears out.  This is about the
\* tokens handed out; a token signed elsewhere says what it likes (LetIn).
HandedOutIsRecent ==
    serving => \A pair \in pairs :
        LET token == issued[pair.access] IN
        Accepts(token) => clock - seen[token.claims] <= AccessTTL

\* A refresh token in the hands of a client is in the table, for the account of
\* the access token it came with.
PairsAreStored ==
    \A pair \in pairs :
        [owner |-> issued[pair.access].claims.sub, hash |-> Hash(pair.refresh)] \in table

\* "Refresh token rotation": a refresh that comes with an unexpired token of an
\* active account, with its row in the table, is not turned down.
Refreshable(pair) ==
    /\ Accepts(issued[pair.refresh])
    /\ LookUp(Hash(pair.refresh)) # {}
    /\ LET i == issued[pair.access].claims.sub IN i \in DOMAIN users /\ users[i].active

RefreshTokensWork ==
    [][\A c \in Client :
          Pending(c, "lookup") /\ Refreshable(login[c].pair) /\ serving' => login'[c] # Idle]_allVars

=============================================================================

--------------------------- MODULE SessionsProofs ---------------------------
(***************************************************************************)
(* Theorems on Sessions: for any number of accounts, sign-ins and requests *)
(* at the same time, any lifetimes and any restarts, what a token handed   *)
(* out says of an account was true within a lifetime, and every pair has   *)
(* its row.                                                                *)
(***************************************************************************)
EXTENDS Sessions, KeyRingProofs

\* The theorems on Accounts.
AP == INSTANCE AccountsProofs

\* The claims were true of an active account at time t or later; longer ago than
\* a lifetime, the history says nothing any more.
SeenSince(claims, t) == t <= clock /\ (clock <= t + AccessTTL => t <= seen[claims])

\* A sign-in began in this tick or the one before, and the account it read was
\* what it read.
SignInIsRecent(l) ==
    l.op \in {"access", "refresh", "store"} =>
        /\ clock <= l.since + 1
        /\ SeenSince(l.claims, l.since)

\* What a token says was true one tick before it was signed or later.
TokenIsBacked(token) ==
    /\ token.claims \in Claims
    /\ SeenSince(token.claims, token.exp - AccessTTL - 1)

\* The access token of a sign-in carries its claims.
SignedTokenOK(l) ==
    LET backed(n) == /\ issued[n].claims = l.claims
                     /\ issued[n].exp <= l.since + 1 + AccessTTL
    IN  /\ l.op = "refresh" => backed(l.access)
        /\ l.op = "store"   => backed(l.pair.access)

LoginsOK == \A c \in Client : SignInIsRecent(login[c]) /\ SignedTokenOK(login[c])

PairsAreBacked == \A pair \in pairs : TokenIsBacked(issued[pair.access])

SessionInv ==
    /\ RingInv
    /\ SessionTypeOK
    /\ LoginsOK
    /\ PairsAreBacked
    /\ PairsAreStored

----------------------------------------------------------------------------
(* Accounts under sessions.                                                *)

LEMMA SameAccountTypes == A!TypeOK <=> AP!TypeOK
  BY DEF A!TypeOK, A!UpdateReq, A!CreateReq, A!SetReq, A!Idle, A!User, A!Role, A!Patch, A!AttrMap,
         AP!TypeOK, AP!UpdateReq, AP!CreateReq, AP!SetReq, AP!Idle, AP!User, AP!Role, AP!Patch,
         AP!AttrMap

LEMMA SameAccountInit == A!Init <=> AP!Init
  BY DEF A!Init, A!NoAttrs, A!Idle, AP!Init, AP!NoAttrs, AP!Idle

LEMMA SameAccountNext == [A!Next]_(A!vars) <=> [AP!Next]_(AP!vars)
  BY DEF A!Next, A!vars, A!BeginUpdate, A!SoftDelete, A!Activate, A!HardDelete,
         A!BeginSetAttributes, A!DeleteAttribute, A!WriteUpdate, A!BeginSignUp, A!CreateSignUp,
         A!InsertAttribute, A!Fail, A!Boot, A!BootFails, A!Stop, A!CreateUser, A!UpdateUser,
         A!SetActive, A!DeleteUser, A!HasEmail, A!Free, A!Pending, A!Finish, A!Put, A!Merge,
         A!Refused, A!NoAttrs, A!Idle, A!Patch, A!AttrMap, A!Role,
         AP!Next, AP!vars, AP!BeginUpdate, AP!SoftDelete, AP!Activate, AP!HardDelete,
         AP!BeginSetAttributes, AP!DeleteAttribute, AP!WriteUpdate, AP!BeginSignUp,
         AP!CreateSignUp, AP!InsertAttribute, AP!Fail, AP!Boot, AP!BootFails, AP!Stop,
         AP!CreateUser, AP!UpdateUser, AP!SetActive, AP!DeleteUser, AP!HasEmail, AP!Free,
         AP!Pending, AP!Finish, AP!Put, AP!Merge, AP!Refused, AP!NoAttrs, AP!Idle, AP!Patch,
         AP!AttrMap, AP!Role

\* A step of the sessions is a step of Accounts, or one that leaves it alone.
LEMMA SessionStepIsAccountStep == [SessionNext]_allVars => [A!Next]_(A!vars)
<1> SUFFICES ASSUME [SessionNext]_allVars PROVE [A!Next]_(A!vars)
  OBVIOUS
<1>1. CASE UNCHANGED accountVars
  BY <1>1 DEF accountVars, A!vars
<1>2. CASE AccountRequest
  BY <1>2 DEF AccountRequest, RolePatch, A!Next
<1>3. CASE A!Boot \/ A!BootFails \/ A!Stop
  BY <1>3 DEF A!Next
<1>4. SignInStep => UNCHANGED accountVars
  BY DEF SignInStep, BeginSignIn, SignAccess, SignRefresh, StorePair, StoreFails, BeginRefresh,
         RefuseRefresh
<1> QED
  BY <1>1, <1>2, <1>3, <1>4
  DEF SessionNext, allVars, AccountStep, TickStep, StartStep, StopStep, StartFails

LEMMA AccountTypesInit == A!Init => A!TypeOK
  BY SameAccountTypes, SameAccountInit, SessionsAssumption, AP!TypeInit DEF SessionsAssumption

LEMMA AccountTypesStep == A!TypeOK /\ [SessionNext]_allVars => (A!TypeOK)'
<1>1. AP!TypeOK /\ [AP!Next]_(AP!vars) => (AP!TypeOK)'
  BY SessionsAssumption, AP!TypeStep DEF SessionsAssumption
<1>2. (A!TypeOK)' <=> (AP!TypeOK)'
  BY SameAccountTypes, PTL
<1> QED
  BY <1>1, <1>2, SameAccountTypes, SameAccountNext, SessionStepIsAccountStep

----------------------------------------------------------------------------
(* The key ring under sessions.                                            *)

\* What a sign-in or a refresh has yet to do is what its op says.
LEMMA LoginFacts ==
    ASSUME SessionTypeOK, NEW c \in Client
    PROVE  LET l == login[c] IN
           /\ l \in Login
           /\ l.op = "access"  => l.since \in 0..MaxClock /\ l.claims \in Claims
           /\ l.op = "refresh" => /\ l.since \in 0..MaxClock /\ l.claims \in Claims
                                  /\ l.access \in DOMAIN issued
           /\ l.op = "store"   => /\ l.since \in 0..MaxClock /\ l.claims \in Claims
                                  /\ l.pair \in Pair
           /\ l.op = "lookup"  => l.since \in 0..MaxClock /\ l.pair \in Pair
<1>1. login[c] \in Login
  BY DEF SessionTypeOK
<1> QED
  BY <1>1 DEF Login, Idle

\* The claims a sign-in puts together are claims.
LEMMA ClaimsOfRow ==
    ASSUME SessionTypeOK, NEW i \in DOMAIN users
    PROVE  [sub |-> i, role |-> users[i].role] \in Claims
<1>1. i \in Id /\ users[i] \in A!User
  BY DEF SessionTypeOK, A!TypeOK
<1>2. users[i].role \in A!Role
  BY <1>1 DEF A!User
<1> QED
  BY <1>1, <1>2, SessionsAssumption DEF SessionsAssumption

LEMMA SessionStepIsRingStep == SessionTypeOK /\ [SessionNext]_allVars => [RingNext]_ringVars
<1> SUFFICES ASSUME SessionTypeOK, [SessionNext]_allVars PROVE [RingNext]_ringVars
  OBVIOUS
<1>1. ASSUME NEW c \in Client, SignAccess(c) PROVE RingNext
  BY <1>1, LoginFacts DEF SignAccess, Pending, RingNext
<1>2. ASSUME NEW c \in Client, SignRefresh(c) PROVE RingNext
  BY <1>2 DEF SignRefresh, RingNext
<1>3. CASE TickStep
  BY <1>3 DEF TickStep, RingNext
<1>4. CASE StartStep
  BY <1>4 DEF StartStep, RingNext
<1>5. CASE UNCHANGED ringVars
  BY <1>5
<1> QED
  BY <1>1, <1>2, <1>3, <1>4, <1>5
  DEF SessionNext, allVars, SignInStep, BeginSignIn, StorePair, StoreFails, BeginRefresh,
      RefuseRefresh, AccountStep, StopStep, StartFails

\* What the tokens signed so far are named by, more tokens are named by.
LEMMA LoginGrows ==
    ASSUME DOMAIN issued \subseteq DOMAIN issued'
    PROVE  Pair \subseteq Pair' /\ Login \subseteq Login'
<1>1. Pair \subseteq Pair'
  BY DEF Pair
<1>2. ASSUME NEW l \in Login PROVE l \in Login'
  BY <1>1, <1>2 DEF Login
<1> QED
  BY <1>1, <1>2

\* Signing a token gives it the next place.
LEMMA SignedFacts ==
    ASSUME RingTypeOK, NEW claims, NEW ttl, Sign(claims, ttl)
    PROVE  /\ NextToken \in DOMAIN issued'
           /\ issued'[NextToken].claims = claims
           /\ issued'[NextToken].exp = clock + ttl
<1>. DEFINE token == [claims |-> claims, kid |-> SigningKid, exp |-> clock + ttl]
<1>1. issued \in Seq(Token) /\ issued' = Append(issued, token)
  BY DEF RingTypeOK, Sign
<1>2. NextToken \in DOMAIN issued' /\ issued'[NextToken] = token
  <2>. HIDE DEF token
  <2> QED
    BY <1>1 DEF NextToken
<1> QED
  BY <1>2

LEMMA SessionTypesInit == SessionInit => SessionTypeOK
<1> SUFFICES ASSUME SessionInit PROVE SessionTypeOK
  OBVIOUS
<1>1. RingTypeOK /\ A!TypeOK
  BY RingInvInit, AccountTypesInit DEF SessionInit, RingInv
<1>2. login \in [Client -> Login]
  BY DEF SessionInit, Login
<1>3. seen \in [Claims -> {Never} \cup 0..MaxClock]
  BY DEF SessionInit
<1> QED
  BY <1>1, <1>2, <1>3 DEF SessionInit, SessionTypeOK

\* The steps of a sign-in or refresh leave logins, pairs and rows of their types.
LEMMA SignInKeepsTypes ==
    ASSUME SessionTypeOK, SignInStep, DOMAIN issued \subseteq DOMAIN issued'
    PROVE  /\ (login \in [Client -> Login])'
           /\ (pairs \subseteq Pair)'
           /\ (table \subseteq [owner : Id, hash : [form : {"argon2id"}, token : DOMAIN issued]])'
<1>. DEFINE Row == [owner : Id, hash : [form : {"argon2id"}, token : DOMAIN issued]]
            Goal == /\ (login \in [Client -> Login])'
                    /\ (pairs \subseteq Pair)'
                    /\ (table \subseteq Row)'
<1>t. /\ login \in [Client -> Login] /\ pairs \subseteq Pair /\ table \subseteq Row
      /\ RingTypeOK /\ clock \in 0..MaxClock
  BY DEF SessionTypeOK, RingTypeOK
<1>g. Pair \subseteq Pair' /\ Login \subseteq Login' /\ Row \subseteq Row' /\ Idle \in Login
  BY LoginGrows DEF Login
<1>u. ASSUME NEW c \in Client, NEW l \in Login', login' = [login EXCEPT ![c] = l],
             pairs' \subseteq Pair', table' \subseteq Row'
      PROVE  Goal
  BY <1>u, <1>t, <1>g
<1>1. ASSUME NEW c \in Client, NEW i \in Id, BeginSignIn(c, i) PROVE Goal
  <2>. DEFINE l == [op |-> "access", since |-> clock, claims |-> [sub |-> i, role |-> users[i].role]]
  <2>1. l \in Login'
    BY <1>1, <1>t, ClaimsOfRow DEF BeginSignIn, Login
  <2>2. login' = [login EXCEPT ![c] = l] /\ pairs' = pairs /\ table' = table
    BY <1>1 DEF BeginSignIn
  <2>. HIDE DEF l
  <2> QED
    BY <2>1, <2>2, <1>u, <1>t, <1>g
<1>2. ASSUME NEW c \in Client, SignAccess(c) PROVE Goal
  <2>. DEFINE l == [op |-> "refresh", since |-> login[c].since, claims |-> login[c].claims,
                    access |-> NextToken]
  <2>1. l \in Login'
    <3>1. login[c].since \in 0..MaxClock /\ login[c].claims \in Claims
      BY <1>2, LoginFacts DEF SignAccess, Pending
    <3>2. NextToken \in DOMAIN issued'
      BY <1>2, <1>t, SignedFacts DEF SignAccess, IssueAccess
    <3> QED
      BY <3>1, <3>2 DEF Login
  <2>2. login' = [login EXCEPT ![c] = l] /\ pairs' = pairs /\ table' = table
    BY <1>2, <1>t DEF SignAccess
  <2>. HIDE DEF l
  <2> QED
    BY <2>1, <2>2, <1>u, <1>t, <1>g
<1>3. ASSUME NEW c \in Client, SignRefresh(c) PROVE Goal
  <2>. DEFINE l == [op |-> "store", since |-> login[c].since, claims |-> login[c].claims,
                    pair |-> [access |-> login[c].access, refresh |-> NextToken]]
  <2>1. l \in Login'
    <3>1. /\ login[c].since \in 0..MaxClock /\ login[c].claims \in Claims
          /\ login[c].access \in DOMAIN issued
      BY <1>3, LoginFacts DEF SignRefresh, Pending
    <3>2. NextToken \in DOMAIN issued'
      BY <1>3, <1>t, SignedFacts DEF SignRefresh, IssueRefresh
    <3>3. [access |-> login[c].access, refresh |-> NextToken] \in Pair'
      BY <3>1, <3>2 DEF Pair
    <3> QED
      BY <3>1, <3>3 DEF Login
  <2>2. login' = [login EXCEPT ![c] = l] /\ pairs' = pairs /\ table' = table
    BY <1>3, <1>t DEF SignRefresh
  <2>. HIDE DEF l
  <2> QED
    BY <2>1, <2>2, <1>u, <1>t, <1>g
<1>4. ASSUME NEW c \in Client, StorePair(c) PROVE Goal
  <2>1. login[c].pair \in Pair /\ login[c].claims \in Claims
    BY <1>4, LoginFacts DEF StorePair, Pending
  <2>2. [owner |-> login[c].claims.sub, hash |-> Hash(login[c].pair.refresh)] \in Row
    BY <2>1, SessionsAssumption DEF SessionsAssumption, Pair, Hash
  <2>3. pairs' \subseteq Pair' /\ table' \subseteq Row'
    BY <1>4, <1>t, <1>g, <2>1, <2>2 DEF StorePair, CreateRefreshToken
  <2> QED
    BY <1>4, <1>g, <1>u, <2>3 DEF StorePair, Finish
<1>5. ASSUME NEW c \in Client, Finish(c), UNCHANGED <<pairs, table>> PROVE Goal
  BY <1>5, <1>t, <1>g, <1>u DEF Finish
<1>6. ASSUME NEW c \in Client, NEW pair \in pairs, BeginRefresh(c, pair) PROVE Goal
  <2>. DEFINE l == [op |-> "lookup", since |-> clock, pair |-> pair]
  <2>1. l \in Login'
    BY <1>6, <1>t, <1>g DEF Login
  <2>2. login' = [login EXCEPT ![c] = l] /\ pairs' = pairs /\ table' = table
    BY <1>6 DEF BeginRefresh
  <2>. HIDE DEF l
  <2> QED
    BY <2>1, <2>2, <1>u, <1>t, <1>g
<1>7. Goal
  <2>. HIDE DEF Goal
  <2> QED
    BY <1>1, <1>2, <1>3, <1>4, <1>5, <1>6 DEF SignInStep, StoreFails, RefuseRefresh
<1> QED
  BY <1>7

LEMMA SessionTypesStep ==
    ASSUME RingInv, SessionTypeOK, [SessionNext]_allVars
    PROVE  RingInv' /\ SessionTypeOK'
<1>r. RingInv' /\ [RingNext]_ringVars
  BY SessionStepIsRingStep, RingInvStep
<1>g. DOMAIN issued \subseteq DOMAIN issued'
  BY <1>r, IssuedGrows DEF RingInv
<1>. DEFINE Row == [owner : Id, hash : [form : {"argon2id"}, token : DOMAIN issued]]
<1>1. RingTypeOK' /\ (A!TypeOK)'
  BY <1>r, AccountTypesStep DEF RingInv, SessionTypeOK
<1>2. (login \in [Client -> Login])' /\ (pairs \subseteq Pair)' /\ (table \subseteq Row)'
  <2>1. CASE SignInStep
    BY <2>1, <1>g, SignInKeepsTypes
  <2>2. CASE UNCHANGED <<table, pairs>> /\ (UNCHANGED login \/ login' = [c \in Client |-> Idle])
    <3>1. /\ login \in [Client -> Login] /\ pairs \subseteq Pair /\ table \subseteq Row
      BY DEF SessionTypeOK
    <3>2. Pair \subseteq Pair' /\ Login \subseteq Login' /\ Row \subseteq Row' /\ Idle \in Login
      BY <1>g, LoginGrows DEF Login
    <3> QED
      BY <2>2, <3>1, <3>2
  <2> QED
    BY <2>1, <2>2
    DEF SessionNext, allVars, sessionVars, AccountStep, TickStep, StartStep, StopStep, StartFails
<1>3. (seen \in [Claims -> {Never} \cup 0..MaxClock])'
  <2>1. clock' \in 0..MaxClock
    BY <1>1 DEF RingTypeOK
  <2>2. CASE Watch
    BY <2>1, <2>2 DEF Watch, SessionTypeOK
  <2>3. CASE UNCHANGED seen
    BY <2>3 DEF SessionTypeOK
  <2> QED
    BY <2>2, <2>3 DEF SessionNext, allVars
<1> QED
  BY <1>r, <1>1, <1>2, <1>3 DEF SessionTypeOK

----------------------------------------------------------------------------
(* What tokens say.                                                        *)

LEMMA TimeFacts ==
    ASSUME RingTypeOK
    PROVE  clock \in Nat /\ AccessTTL \in Nat /\ MaxClock \in Nat /\ Never \in Int
  BY KeyRingAssumption DEF KeyRingAssumption, RingTypeOK, Never

\* What was true of an account so recently stays so, whatever the step does to it.
LEMMA SeenSinceStays ==
    ASSUME RingInv, SessionTypeOK, [SessionNext]_allVars,
           NEW claims \in Claims, NEW t \in Int, SeenSince(claims, t)
    PROVE  SeenSince(claims, t)'
<1>1. /\ clock \in Int /\ clock' \in Int /\ clock <= clock' /\ AccessTTL \in Int
      /\ seen[claims] \in Int
  <2>1. RingTypeOK /\ RingTypeOK' /\ clock <= clock'
    BY SessionStepIsRingStep, RingInvStep, IssuedGrows DEF RingInv
  <2>2. seen[claims] \in {Never} \cup 0..MaxClock
    BY DEF SessionTypeOK
  <2>3. clock' \in 0..MaxClock
    BY <2>1 DEF RingTypeOK
  <2> QED
    BY <2>1, <2>2, <2>3, TimeFacts
<1>2. CASE Watch
  <2>1. seen'[claims] = IF HasRole(claims)' THEN clock'
                        ELSE IF clock' - seen[claims] <= AccessTTL THEN seen[claims] ELSE Never
    BY <1>2 DEF Watch
  <2> QED
    BY <1>1, <2>1 DEF SeenSince
<1>3. CASE UNCHANGED allVars
  BY <1>3 DEF allVars, ringVars, SeenSince
<1> QED
  BY <1>2, <1>3 DEF SessionNext

\* A claim read from the row of an active account is true as the step ends.
LEMMA ReadClaimIsSeen ==
    ASSUME RingInv, SessionTypeOK, Watch, NEW c \in Client, NEW i \in Id, BeginSignIn(c, i),
           NEW claims \in Claims, claims = [sub |-> i, role |-> users[i].role]
    PROVE  clock' = clock /\ SeenSince(claims, clock)'
<1>1. users' = users /\ clock' = clock /\ clock \in Nat /\ AccessTTL \in Nat
  BY TimeFacts DEF BeginSignIn, accountVars, ringVars, SessionTypeOK
<1>2. HasRole(claims)'
  BY <1>1 DEF BeginSignIn, HasRole
<1>3. seen'[claims] = clock'
  BY <1>2 DEF Watch
<1> QED
  BY <1>1, <1>3 DEF SeenSince

\* What a step may do to a sign-in or refresh.
LEMMA LoginChanges ==
    ASSUME SessionTypeOK, [SessionNext]_allVars, NEW c \in Client
    PROVE  \/ login'[c] \in {login[c], Idle}
           \/ \E i \in Id : BeginSignIn(c, i)
           \/ SignAccess(c) \/ SignRefresh(c)
           \/ \E pair \in pairs : BeginRefresh(c, pair)
<1>t. DOMAIN login = Client
  BY DEF SessionTypeOK
<1>1. ASSUME NEW d \in Client \ {c}, NEW l, login' = [login EXCEPT ![d] = l]
      PROVE  login'[c] = login[c]
  BY <1>1, <1>t
<1>2. ASSUME NEW d \in Client, Finish(d) PROVE login'[c] \in {login[c], Idle}
  BY <1>2, <1>t DEF Finish
<1>3. CASE SignInStep
  <2>1. PICK d \in Client :
            \/ \E i \in Id : BeginSignIn(d, i)
            \/ SignAccess(d) \/ SignRefresh(d) \/ StorePair(d) \/ StoreFails(d)
            \/ \E pair \in pairs : BeginRefresh(d, pair)
            \/ RefuseRefresh(d)
    BY <1>3 DEF SignInStep
  <2>2. CASE d = c
    BY <1>2, <2>1, <2>2 DEF StorePair, StoreFails, RefuseRefresh
  <2>3. CASE d # c
    <3>1. d \in Client \ {c}
      BY <2>3
    <3>2. CASE \E i \in Id : BeginSignIn(d, i)
      BY <1>1, <3>1, <3>2 DEF BeginSignIn
    <3>3. CASE SignAccess(d)
      BY <1>1, <3>1, <3>3 DEF SignAccess
    <3>4. CASE SignRefresh(d)
      BY <1>1, <3>1, <3>4 DEF SignRefresh
    <3>5. CASE \E pair \in pairs : BeginRefresh(d, pair)
      BY <1>1, <3>1, <3>5 DEF BeginRefresh
    <3> QED
      BY <1>2, <2>1, <3>2, <3>3, <3>4, <3>5 DEF StorePair, StoreFails, RefuseRefresh
  <2> QED
    BY <2>2, <2>3
<1>4. CASE UNCHANGED login \/ StopStep
  BY <1>4 DEF StopStep
<1> QED
  BY <1>3, <1>4 DEF SessionNext, allVars, sessionVars, AccountStep, TickStep, StartStep, StartFails

\* Only a tick moves the clock, and none comes while a sign-in is a tick old.
LEMMA ClockMoves ==
    ASSUME SessionTypeOK, [SessionNext]_allVars
    PROVE  clock' = clock \/ (TickStep /\ clock' = clock + 1)
<1>1. ASSUME NEW c \in Client, SignAccess(c) \/ SignRefresh(c) PROVE clock' = clock
  BY <1>1 DEF SignAccess, SignRefresh, IssueAccess, IssueRefresh, Sign
<1>2. SignInStep => clock' = clock
  BY <1>1 DEF SignInStep, BeginSignIn, StorePair, StoreFails, BeginRefresh, RefuseRefresh, ringVars
<1>3. CASE TickStep
  BY <1>3 DEF TickStep, Tick
<1>4. CASE UNCHANGED clock
  BY <1>4
<1> QED
  BY <1>2, <1>3, <1>4
  DEF SessionNext, allVars, ringVars, AccountStep, StartStep, StartRing, StopStep, StartFails

\* A sign-in that does not move keeps what is known of it.
LEMMA SignInStays ==
    ASSUME SessionInv, [SessionNext]_allVars, NEW c \in Client, NEW l, l = login[c]
    PROVE  SignInIsRecent(l)' /\ SignedTokenOK(l)'
<1>t. SessionTypeOK /\ RingInv /\ RingTypeOK /\ SignInIsRecent(l) /\ SignedTokenOK(l)
  BY DEF SessionInv, LoginsOK, RingInv
<1>1. SignInIsRecent(l)'
  <2> SUFFICES ASSUME l.op \in {"access", "refresh", "store"}
               PROVE  clock' <= l.since + 1 /\ SeenSince(l.claims, l.since)'
    BY DEF SignInIsRecent
  <2>1. l.since \in 0..MaxClock /\ l.claims \in Claims
    BY <1>t, LoginFacts
  <2>2. l.since \in Int /\ clock \in Int
    BY <1>t, <2>1, TimeFacts
  <2>3. SeenSince(l.claims, l.since) /\ clock <= l.since + 1
    BY <1>t DEF SignInIsRecent
  <2>4. SeenSince(l.claims, l.since)'
    BY <1>t, <2>1, <2>2, <2>3, SeenSinceStays
  <2>5. CASE clock' = clock
    BY <2>3, <2>4, <2>5
  <2>6. CASE TickStep /\ clock' = clock + 1
    <3>1. l # Idle
      BY DEF Idle
    <3>2. l.since = clock
      BY <2>6, <3>1 DEF TickStep
    <3> QED
      BY <2>2, <2>4, <2>6, <3>2
  <2> QED
    BY <1>t, <2>5, <2>6, ClockMoves
<1>2. SignedTokenOK(l)'
  <2>1. \A n \in DOMAIN issued : issued'[n] = issued[n]
    BY <1>t, SessionStepIsRingStep, IssuedGrows
  <2>2. CASE l.op = "refresh"
    BY <1>t, <2>1, <2>2, LoginFacts DEF SignedTokenOK
  <2>3. CASE l.op = "store"
    BY <1>t, <2>1, <2>3, LoginFacts DEF SignedTokenOK, Pair
  <2>4. CASE l.op \notin {"refresh", "store"}
    BY <2>4 DEF SignedTokenOK
  <2> QED
    BY <2>2, <2>3, <2>4
<1> QED
  BY <1>1, <1>2

LEMMA LoginsStep == SessionInv /\ [SessionNext]_allVars => LoginsOK'
<1> SUFFICES ASSUME SessionInv, [SessionNext]_allVars, NEW c \in Client, NEW l, l = login'[c]
             PROVE  SignInIsRecent(l)' /\ SignedTokenOK(l)'
  BY DEF LoginsOK
<1>t. SessionTypeOK /\ RingInv /\ RingTypeOK /\ DOMAIN login = Client
  BY DEF SessionInv, RingInv, SessionTypeOK
<1>1. CASE l \in {login[c], Idle}
  <2>1. CASE l = login[c]
    BY <2>1, SignInStays
  <2>2. CASE l = Idle
    BY <2>2 DEF Idle, SignInIsRecent, SignedTokenOK
  <2> QED
    BY <1>1, <2>1, <2>2
<1>2. ASSUME NEW i \in Id, BeginSignIn(c, i) PROVE SignInIsRecent(l)' /\ SignedTokenOK(l)'
  <2>1. PICK claims \in Claims : claims = [sub |-> i, role |-> users[i].role]
    BY <1>2, <1>t, ClaimsOfRow DEF BeginSignIn
  <2>2. l = [op |-> "access", since |-> clock, claims |-> claims]
    BY <1>2, <1>t, <2>1 DEF BeginSignIn
  <2>3. Watch
    <3>1. login[c] = Idle /\ l # Idle
      BY <1>2, <2>2 DEF BeginSignIn, Free, Idle
    <3> QED
      BY <3>1 DEF SessionNext, allVars, sessionVars
  <2>4. clock' = clock /\ SeenSince(claims, clock)' /\ clock \in Nat
    BY <1>2, <1>t, <2>1, <2>3, ReadClaimIsSeen, TimeFacts
  <2>5. l.op = "access" /\ l.since = clock /\ l.claims = claims
    BY <2>2
  <2>6. SeenSince(l.claims, l.since)'
    BY <2>4, <2>5 DEF SeenSince
  <2> QED
    BY <2>4, <2>5, <2>6 DEF SignInIsRecent, SignedTokenOK
<1>3. ASSUME NEW m, m = login[c], SignAccess(c) \/ SignRefresh(c)
      PROVE  SignInIsRecent(l)' /\ SignedTokenOK(l)'
  <2>1. l.op \in {"refresh", "store"} /\ l.since = m.since /\ l.claims = m.claims
    BY <1>3, <1>t DEF SignAccess, SignRefresh
  <2>2. m.op \in {"access", "refresh"}
    BY <1>3 DEF SignAccess, SignRefresh, Pending
  <2>3. SignInIsRecent(m)' /\ SignedTokenOK(m)'
    BY <1>3, SignInStays
  <2>4. SignInIsRecent(l)'
    BY <2>1, <2>2, <2>3 DEF SignInIsRecent
  <2>5. CASE SignAccess(c)
    <3>1. l.op = "refresh" /\ l.access = NextToken
      BY <1>t, <2>5 DEF SignAccess
    <3>2. issued'[NextToken].claims = m.claims /\ issued'[NextToken].exp = clock + AccessTTL
      BY <1>3, <1>t, <2>5, SignedFacts DEF SignAccess, IssueAccess
    <3>3. clock <= m.since + 1 /\ m.since \in 0..MaxClock
      BY <1>3, <2>5, <1>t, LoginFacts DEF SessionInv, LoginsOK, SignInIsRecent, SignAccess, Pending
    <3>4. clock + AccessTTL <= m.since + 1 + AccessTTL
      BY <1>t, <3>3, TimeFacts
    <3> QED
      BY <2>1, <2>4, <3>1, <3>2, <3>4 DEF SignedTokenOK
  <2>6. CASE SignRefresh(c)
    <3>1. m.op = "refresh" /\ l.op = "store" /\ l.pair.access = m.access
      BY <1>3, <1>t, <2>6 DEF SignRefresh, Pending
    <3> QED
      BY <2>1, <2>3, <2>4, <3>1 DEF SignedTokenOK
  <2> QED
    BY <1>3, <2>5, <2>6
<1>4. ASSUME NEW pair \in pairs, BeginRefresh(c, pair) PROVE SignInIsRecent(l)' /\ SignedTokenOK(l)'
  <2>1. l.op = "lookup"
    BY <1>4, <1>t DEF BeginRefresh
  <2> QED
    BY <2>1 DEF SignInIsRecent, SignedTokenOK
<1> QED
  BY <1>t, <1>1, <1>2, <1>3, <1>4, LoginChanges

\* Only storing a pair hands one out, and only that adds a row.
LEMMA PairsComeFromStores ==
    ASSUME [SessionNext]_allVars
    PROVE  \/ UNCHANGED <<pairs, table>>
           \/ \E c \in Client : StorePair(c)
<1>1. SignInStep => UNCHANGED <<pairs, table>> \/ \E c \in Client : StorePair(c)
  BY DEF SignInStep, BeginSignIn, SignAccess, SignRefresh, StoreFails, BeginRefresh, RefuseRefresh
<1> QED
  BY <1>1 DEF SessionNext, allVars, sessionVars, AccountStep, TickStep, StartStep, StopStep, StartFails

\* What is known of the pair a sign-in is about to store.
LEMMA StoredPairFacts ==
    ASSUME SessionInv, NEW c \in Client, StorePair(c)
    PROVE  LET pair == login[c].pair IN
           /\ pair \in Pair
           /\ TokenIsBacked(issued[pair.access])
           /\ issued[pair.access].claims = login[c].claims
<1>t. SessionTypeOK /\ RingInv /\ RingTypeOK /\ login[c].op = "store"
  BY DEF SessionInv, RingInv, StorePair, Pending
<1>1. /\ login[c].pair \in Pair /\ login[c].claims \in Claims /\ login[c].since \in 0..MaxClock
      /\ login[c].pair.access \in DOMAIN issued
  BY <1>t, LoginFacts DEF Pair
<1>2. PICK token : token = issued[login[c].pair.access]
  OBVIOUS
<1>3. token.claims = login[c].claims /\ token.exp <= login[c].since + 1 + AccessTTL
  BY <1>t, <1>2 DEF SessionInv, LoginsOK, SignedTokenOK
<1>4. SeenSince(login[c].claims, login[c].since)
  BY <1>t DEF SessionInv, LoginsOK, SignInIsRecent
<1>5. /\ token.exp \in Int /\ clock \in Int /\ AccessTTL \in Int /\ login[c].since \in Int
      /\ seen[token.claims] \in Int
  <2>1. seen[token.claims] \in {Never} \cup 0..MaxClock
    BY <1>t, <1>1, <1>3 DEF SessionTypeOK
  <2> QED
    BY <1>t, <1>1, <1>2, <2>1, TokenFacts, TimeFacts
<1>6. SeenSince(token.claims, token.exp - AccessTTL - 1)
  BY <1>3, <1>4, <1>5 DEF SeenSince
<1> QED
  BY <1>1, <1>2, <1>3, <1>6 DEF TokenIsBacked

\* A token in the hands of a client stays backed.
LEMMA BackedStays ==
    ASSUME SessionInv, [SessionNext]_allVars, NEW n \in DOMAIN issued, TokenIsBacked(issued[n])
    PROVE  TokenIsBacked(issued[n])'
<1>t. SessionTypeOK /\ RingInv /\ RingTypeOK
  BY DEF SessionInv, RingInv
<1>1. issued'[n] = issued[n]
  BY <1>t, SessionStepIsRingStep, IssuedGrows
<1>2. PICK token : token = issued[n]
  OBVIOUS
<1>3. PICK t \in Int : t = token.exp - AccessTTL - 1
  BY <1>t, <1>2, TokenFacts, TimeFacts
<1>4. SeenSince(token.claims, t) /\ token.claims \in Claims
  BY <1>2, <1>3 DEF TokenIsBacked
<1>5. PICK claims \in Claims : claims = token.claims
  BY <1>4
<1>6. SeenSince(claims, t)'
  BY <1>t, <1>4, <1>5, SeenSinceStays
<1> QED
  BY <1>1, <1>2, <1>3, <1>5, <1>6 DEF TokenIsBacked, SeenSince

LEMMA PairsStep == SessionInv /\ [SessionNext]_allVars => PairsAreBacked' /\ PairsAreStored'
<1> SUFFICES ASSUME SessionInv, [SessionNext]_allVars, NEW pair \in pairs'
             PROVE  /\ TokenIsBacked(issued[pair.access])'
                    /\ [owner |-> issued'[pair.access].claims.sub, hash |-> Hash(pair.refresh)] \in table'
  BY DEF PairsAreBacked, PairsAreStored, Hash
<1>t. SessionTypeOK /\ RingInv /\ RingTypeOK
  BY DEF SessionInv, RingInv
<1>1. \A n \in DOMAIN issued : issued'[n] = issued[n]
  BY <1>t, SessionStepIsRingStep, IssuedGrows
<1>2. CASE pair \in pairs
  <2>1. pair.access \in DOMAIN issued /\ TokenIsBacked(issued[pair.access])
    BY <1>t, <1>2 DEF SessionInv, SessionTypeOK, PairsAreBacked, Pair
  <2>2. [owner |-> issued[pair.access].claims.sub, hash |-> Hash(pair.refresh)] \in table
    BY <1>2 DEF SessionInv, PairsAreStored
  <2>3. table \subseteq table'
    BY PairsComeFromStores DEF StorePair, CreateRefreshToken
  <2> QED
    BY <1>1, <2>1, <2>2, <2>3, BackedStays
<1>3. CASE pair \notin pairs
  <2>1. PICK c \in Client : StorePair(c) /\ pair = login[c].pair
    BY <1>3, PairsComeFromStores DEF StorePair
  <2>2. /\ pair \in Pair /\ TokenIsBacked(issued[pair.access])
        /\ issued[pair.access].claims = login[c].claims
    BY <2>1, StoredPairFacts
  <2>3. pair.access \in DOMAIN issued
    BY <2>2 DEF Pair
  <2>4. [owner |-> login[c].claims.sub, hash |-> Hash(pair.refresh)] \in table'
    BY <2>1 DEF StorePair, CreateRefreshToken
  <2> QED
    BY <1>1, <2>2, <2>3, <2>4, BackedStays
<1> QED
  BY <1>2, <1>3

----------------------------------------------------------------------------
LEMMA SessionInvInit == SessionInit => SessionInv
<1> SUFFICES ASSUME SessionInit PROVE SessionInv
  OBVIOUS
<1>1. RingInv /\ SessionTypeOK
  BY RingInvInit, SessionTypesInit DEF SessionInit
<1>2. LoginsOK
  <2>1. \A c \in Client : login[c].op = "none"
    BY DEF SessionInit, Idle
  <2> QED
    BY <2>1 DEF LoginsOK, SignInIsRecent, SignedTokenOK
<1>3. PairsAreBacked /\ PairsAreStored
  BY DEF SessionInit, PairsAreBacked, PairsAreStored
<1> QED
  BY <1>1, <1>2, <1>3 DEF SessionInv

LEMMA SessionInvStep == SessionInv /\ [SessionNext]_allVars => SessionInv'
<1> SUFFICES ASSUME SessionInv, [SessionNext]_allVars PROVE SessionInv'
  OBVIOUS
<1>1. RingInv' /\ SessionTypeOK'
  BY SessionTypesStep DEF SessionInv
<1> QED
  BY <1>1, LoginsStep, PairsStep DEF SessionInv

\* Sign-ins, refreshes, requests on accounts, restarts and the clock keep all of it.
THEOREM SessionIsInvariant == SessionSpec => []SessionInv
  BY SessionInvInit, SessionInvStep, PTL DEF SessionSpec

\* Accounts, keys, sign-ins, pairs and rows keep their types, for any number of each.
THEOREM SessionTypeCorrect == SessionSpec => []SessionTypeOK
<1>1. SessionInv => SessionTypeOK
  BY DEF SessionInv
<1> QED
  BY <1>1, SessionIsInvariant, PTL

\* What an access token that was handed out and is still accepted says was true of an
\* active account within the lifetime of an access token, whoever else gets in with
\* tokens signed elsewhere and whatever they do to the accounts.
THEOREM HandedOutExpires == SessionSpec => []HandedOutIsRecent
<1>1. SessionInv => HandedOutIsRecent
  <2> SUFFICES ASSUME SessionInv, NEW pair \in pairs, Accepts(issued[pair.access])
               PROVE  clock - seen[issued[pair.access].claims] <= AccessTTL
    BY DEF HandedOutIsRecent
  <2>t. SessionTypeOK /\ RingInv /\ RingTypeOK
    BY DEF SessionInv, RingInv
  <2>1. PICK token : token = issued[pair.access]
    OBVIOUS
  <2>2. TokenIsBacked(token)
    BY <2>1 DEF SessionInv, PairsAreBacked
  <2>3. /\ clock < token.exp /\ token.exp \in Int /\ clock \in Int /\ AccessTTL \in Int
        /\ seen[token.claims] \in Int
    <3>1. pair.access \in DOMAIN issued
      BY <2>t DEF SessionTypeOK, Pair
    <3>2. seen[token.claims] \in {Never} \cup 0..MaxClock
      BY <2>t, <2>2 DEF SessionTypeOK, TokenIsBacked
    <3> QED
      BY <2>t, <2>1, <3>1, <3>2, TokenFacts, TimeFacts DEF Accepts
  <2> QED
    BY <2>1, <2>2, <2>3 DEF TokenIsBacked, SeenSince
<1> QED
  BY <1>1, SessionIsInvariant, PTL

\* The refresh token of every pair handed out is in the table, under the account of
\* its access token.
THEOREM PairsHaveTheirRow == SessionSpec => []PairsAreStored
<1>1. SessionInv => PairsAreStored
  BY DEF SessionInv
<1> QED
  BY <1>1, SessionIsInvariant, PTL

\* The table holds hashes and is asked for tokens: whatever token RefreshToken is
\* given, it never finds a row.
THEOREM LookUpFindsNothing == SessionSpec => [](\A n : LookUp(Jwt(n)) = {})
<1>1. SessionTypeOK => \A n : LookUp(Jwt(n)) = {}
  <2> SUFFICES ASSUME SessionTypeOK, NEW n, NEW row \in table, row.hash = Jwt(n) PROVE FALSE
    BY DEF LookUp
  <2>1. row.hash.form = "argon2id"
    BY DEF SessionTypeOK
  <2> QED
    BY <2>1 DEF Jwt
<1> QED
  BY <1>1, SessionTypeCorrect, PTL

\* Under sessions the key ring behaves as on its own, so its theorems hold of it.
THEOREM SessionsUseRing == SessionSpec => RingSpec
<1>1. SessionInit => RingInit
  BY DEF SessionInit
<1> QED
  BY <1>1, SessionTypeCorrect, SessionStepIsRingStep, PTL DEF SessionSpec, RingSpec

\* So do the accounts.
THEOREM SessionsUseAccounts == SessionSpec => A!Spec
<1>1. SessionInit => A!Init
  BY DEF SessionInit
<1> QED
  BY <1>1, SessionStepIsAccountStep, PTL DEF SessionSpec, A!Spec

\* So under sessions tokens outlive two rotations, what was refused stays refused,
\* and no two accounts share an email.
THEOREM PartsKeepTheirPromises ==
    SessionSpec => []StaysValid /\ RefusalIsFinal /\ []A!EmailsAreUnique
<1>1. A!EmailsAreUnique <=> AP!EmailsAreUnique
  BY DEF A!EmailsAreUnique, AP!EmailsAreUnique
<1>2. A!Spec => []AP!EmailsAreUnique
  <2>1. AP!Spec => []AP!EmailsAreUnique
    BY SessionsAssumption, AP!OneAccountPerEmail DEF SessionsAssumption
  <2> QED
    BY <2>1, SameAccountInit, SameAccountNext, PTL DEF A!Spec, AP!Spec
<1> QED
  BY <1>1, <1>2, SessionsUseRing, SessionsUseAccounts, TokensStayValid, RefusedForGood, PTL

=============================================================================

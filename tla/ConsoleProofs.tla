---------------------------- MODULE ConsoleProofs ----------------------------
(***************************************************************************)
(* Theorems on Console: whatever tabs, administrators and restarts do, the *)
(* console makes no step of the key ring that KeyRing does not allow.  So  *)
(* what KeyRingProofs shows of the ring holds with the console around it.  *)
(***************************************************************************)
EXTENDS Console, KeyRingProofs

\* Every step of the console is a step of the ring or leaves it alone.
LEMMA ConsoleStepIsRingStep == [ConsoleNext]_allVars => [RingNext]_ringVars
<1> SUFFICES ASSUME [ConsoleNext]_allVars PROVE [RingNext]_ringVars
  OBVIOUS
<1>1. ASSUME NEW t \in Tab, Visit(t) PROVE UNCHANGED ringVars
  BY <1>1 DEF Visit
<1>2. ASSUME NEW t \in Tab, Serve(t) PROVE [RingNext]_ringVars
  <2>1. ASSUME SignIn(t) PROVE RingNext
    <3>1. PICK role \in Role : IssueAccess([role |-> role])
      BY <2>1 DEF SignIn
    <3>2. [role |-> role] \in Claims
      BY ConsoleAssumption
    <3> QED
      BY <3>1, <3>2 DEF RingNext
  <2>2. CASE Dashboard(t) \/ LoginPage(t) \/ UsersPage(t) \/ AnswerSignIn(t) \/ SignInFails(t) \/ Logout(t)
    BY <2>2 DEF Dashboard, LoginPage, UsersPage, AnswerSignIn, SignInFails, Logout
  <2> QED
    BY <1>2, <2>1, <2>2 DEF Serve
<1>3. CASE CookieExpires
  BY <1>3 DEF CookieExpires
<1>4. CASE Restart
  BY <1>4 DEF Restart, RingNext
<1>5. CASE RotateKeys \/ Tick
  BY <1>5 DEF RingNext
<1>6. CASE UNCHANGED allVars
  BY <1>6 DEF allVars, ringVars
<1> QED
  BY <1>1, <1>2, <1>3, <1>4, <1>5, <1>6 DEF ConsoleNext

\* The console implements the key ring.
THEOREM ConsoleImplementsRing == ConsoleSpec => RingSpec
<1>1. ConsoleInit => RingInit
  BY DEF ConsoleInit
<1> QED
  BY <1>1, ConsoleStepIsRingStep, PTL DEF ConsoleSpec, RingSpec

\* Signed in once, an administrator's token is good until it expires, through
\* any two rotations and whatever the tabs do.
THEOREM ConsoleTokensStayValid == ConsoleSpec => []StaysValid
  BY ConsoleImplementsRing, TokensStayValid, PTL

\* A cookie the console refused once is refused by it ever after.
THEOREM ConsoleRefusesForGood == ConsoleSpec => RefusalIsFinal
  BY ConsoleImplementsRing, RefusedForGood, PTL

\* The cookie and what the tabs carry are tokens that were signed.
CookiesWereSigned ==
    /\ jar \in {NoCookie} \cup DOMAIN issued
    /\ tab \in [Tab -> [at : Place, sent : {NoCookie} \cup DOMAIN issued]]

\* Tokens are only added; so what was one of them remains one.
LEMMA TokensStay ==
    ASSUME RingInv, [RingNext]_ringVars
    PROVE  DOMAIN issued \subseteq DOMAIN issued'
<1>1. issued \in Seq(Token)
  BY DEF RingInv, RingTypeOK
<1>2. ASSUME NEW claims, NEW ttl, Sign(claims, ttl)
      PROVE  DOMAIN issued \subseteq DOMAIN issued'
  <2>1. PICK token : issued' = Append(issued, token)
    BY <1>2 DEF Sign
  <2> QED
    BY <1>1, <2>1
<1>3. CASE UNCHANGED issued
  BY <1>3
<1> QED
  BY <1>2, <1>3 DEF RingNext, ringVars, StartRing, RotateKeys, IssueAccess, IssueRefresh, Tick

LEMMA CookiesWereSignedStep ==
    ASSUME RingInv, CookiesWereSigned, [ConsoleNext]_allVars
    PROVE  CookiesWereSigned'
<1>. DEFINE Cookie == {NoCookie} \cup DOMAIN issued
<1>1. Cookie \subseteq Cookie' /\ NoCookie \in Cookie
  BY ConsoleStepIsRingStep, TokensStay DEF NoCookie
<1>2. jar \in Cookie /\ tab \in [Tab -> [at : Place, sent : Cookie]]
  BY DEF CookiesWereSigned
<1>3. SUFFICES jar' \in Cookie' /\ tab' \in [Tab -> [at : Place, sent : Cookie']]
  BY DEF CookiesWereSigned, NoCookie
<1>4. tab \in [Tab -> [at : Place, sent : Cookie']] /\ jar \in Cookie'
  BY <1>1, <1>2
<1>5. \A place \in Place, cookie \in Cookie' : Request(place, cookie) \in [at : Place, sent : Cookie']
  BY <1>1 DEF Request
<1>6. Shown \in [at : Place, sent : Cookie']
  BY <1>1 DEF Shown, Place
<1>7. ASSUME NEW t \in Tab, Visit(t) PROVE jar' \in Cookie' /\ tab' \in [Tab -> [at : Place, sent : Cookie']]
  <2>1. PICK place \in Place : tab' = [tab EXCEPT ![t] = Request(place, jar)]
    BY <1>7 DEF Visit, Place
  <2> QED
    BY <1>4, <1>5, <1>7, <2>1 DEF Visit
<1>8. ASSUME NEW t \in Tab, NEW place \in Place, Redirect(t, place, jar'), jar' \in Cookie'
      PROVE  tab' \in [Tab -> [at : Place, sent : Cookie']]
  BY <1>4, <1>5, <1>8 DEF Redirect
<1>9. ASSUME NEW t \in Tab, Show(t) PROVE tab' \in [Tab -> [at : Place, sent : Cookie']]
  BY <1>4, <1>6, <1>9 DEF Show
<1>10. ASSUME NEW t \in Tab, Serve(t) PROVE jar' \in Cookie' /\ tab' \in [Tab -> [at : Place, sent : Cookie']]
  <2>1. ASSUME SignIn(t) PROVE jar' \in Cookie' /\ tab' \in [Tab -> [at : Place, sent : Cookie']]
    <3>1. NextToken \in DOMAIN issued'
      <4>1. PICK token : issued' = Append(issued, token)
        BY <2>1 DEF SignIn, IssueAccess, Sign
      <4>2. issued \in Seq(Token)
        BY DEF RingInv, RingTypeOK
      <4> QED
        BY <4>1, <4>2 DEF NextToken
    <3>2. [at |-> "signed in", sent |-> NextToken] \in [at : Place, sent : Cookie']
      BY <3>1 DEF Place
    <3> QED
      BY <1>4, <2>1, <3>2 DEF SignIn
  <2>2. CASE Dashboard(t)
    BY <2>2, <1>4, <1>8 DEF Dashboard, Place
  <2>3. CASE LoginPage(t)
    BY <2>3, <1>4, <1>8, <1>9 DEF LoginPage, Place
  <2>4. CASE UsersPage(t)
    BY <2>4, <1>1, <1>4, <1>8, <1>9 DEF UsersPage, Place
  <2>5. CASE AnswerSignIn(t)
    <3>1. tab[t].sent \in Cookie'
      BY <1>4
    <3> QED
      BY <2>5, <3>1, <1>8 DEF AnswerSignIn, Place
  <2>6. CASE SignInFails(t)
    BY <2>6, <1>4, <1>9 DEF SignInFails
  <2>7. CASE Logout(t)
    BY <2>7, <1>1, <1>8 DEF Logout, Place
  <2> QED
    BY <1>10, <2>1, <2>2, <2>3, <2>4, <2>5, <2>6, <2>7 DEF Serve
<1>11. CASE CookieExpires
  BY <1>11, <1>1, <1>4 DEF CookieExpires
<1>12. CASE Restart
  BY <1>12, <1>4, <1>6 DEF Restart
<1>13. CASE (RotateKeys \/ Tick) /\ UNCHANGED consoleVars
  BY <1>13, <1>4 DEF consoleVars
<1>14. CASE UNCHANGED allVars
  BY <1>14, <1>4 DEF allVars
<1> QED
  BY <1>7, <1>10, <1>11, <1>12, <1>13, <1>14 DEF ConsoleNext

\* The cookie is a token or none, tabs are on the console's pages and carry
\* tokens or nothing, for any number of tabs, restarts and rotations.
THEOREM ConsoleTypeCorrect == ConsoleSpec => []ConsoleTypeOK
<1>1. ConsoleInit => CookiesWereSigned
  BY DEF ConsoleInit, CookiesWereSigned, Shown, Place
<1>2. ConsoleSpec => []RingInv
  BY ConsoleImplementsRing, RingIsInvariant, PTL
<1>3. RingInv /\ CookiesWereSigned /\ [ConsoleNext]_allVars => CookiesWereSigned'
  BY CookiesWereSignedStep
<1>4. RingInv /\ CookiesWereSigned => ConsoleTypeOK
  BY DEF RingInv, CookiesWereSigned, ConsoleTypeOK
<1> QED
  BY <1>1, <1>2, <1>3, <1>4, PTL DEF ConsoleSpec

==============================================================================

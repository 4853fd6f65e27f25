------------------------------ MODULE Console ------------------------------
(***************************************************************************)
(* The admin console, internal/crown: a browser with some tabs and one     *)
(* cookie jar, and the pages of the server it visits.  Each page answers   *)
(* with a page or with a redirect, depending on the access_token cookie    *)
(* the request carried; the browser follows redirects by itself.           *)
(*                                                                         *)
(* A request carries the cookie the jar had when it was sent, while other  *)
(* tabs sign in and out.  Whether SignIn succeeds, and with which role, is *)
(* not the console's matter (see Sessions).  The refresh token of the pair *)
(* ends in a cookie no page reads; it is left out.                         *)
(***************************************************************************)
EXTENDS KeyRing

CONSTANTS
    Tab,          \* tabs of one browser
    Role          \* roles of accounts that sign in here

ASSUME ConsoleAssumption == Claims = [role : Role]

VARIABLES
    jar,          \* the token in the access_token cookie, or NoCookie
    tab           \* per tab: where it is, and the cookie its request carried

consoleVars == <<jar, tab>>

allVars == <<keys, activeKid, lastKid, bootKid, clock, issued, jar, tab>>

NoCookie == 0

\* A tab shows a page, or waits for the answer of one of the console's routes;
\* "sign in" and "signed in" are POST /admin/login before and after IssueAccess,
\* which then holds the token in sent.
Place == {"page", "root", "login", "users", "logout", "sign in", "signed in"}

Shown == [at |-> "page", sent |-> NoCookie]

\* Only the two pages that ask for a session read the cookie of the request.
Request(place, cookie) ==
    [at |-> place, sent |-> IF place \in {"login", "users"} THEN cookie ELSE NoCookie]

ConsoleInit ==
    /\ RingInit
    /\ jar = NoCookie
    /\ tab = [t \in Tab |-> Shown]

\* The answer is a page, a redirect that the browser follows with the cookie it
\* then has.
Show(t) == tab' = [tab EXCEPT ![t] = Shown]

Redirect(t, place, cookie) == tab' = [tab EXCEPT ![t] = Request(place, cookie)]

Waits(t, place) == tab[t].at = place

CookieAccepted(n) == n # NoCookie /\ Accepts(issued[n])

----------------------------------------------------------------------------
(* The administrator opens a page, follows a link or posts the form.       *)

Visit(t) ==
    /\ Waits(t, "page")
    /\ \E place \in {"root", "login", "users", "logout", "sign in"} :
          tab' = [tab EXCEPT ![t] = Request(place, jar)]
    /\ UNCHANGED <<ringVars, jar>>

----------------------------------------------------------------------------
(* The routes.                                                             *)

Dashboard(t) ==
    /\ Waits(t, "root")
    /\ Redirect(t, "users", jar)
    /\ UNCHANGED <<ringVars, jar>>

\* Mutant: any cookie counts as a session.
LoginPage_Trusting(t) ==
    /\ Waits(t, "login")
    /\ IF tab[t].sent # NoCookie THEN Redirect(t, "users", jar) ELSE Show(t)
    /\ UNCHANGED <<ringVars, jar>>

LoginPage(t) ==
    /\ Waits(t, "login")
    /\ IF CookieAccepted(tab[t].sent) THEN Redirect(t, "users", jar) ELSE Show(t)
    /\ UNCHANGED <<ringVars, jar>>

\* RequireAuth in front of UsersList and UserDetail.  ClearCookie names no path,
\* the cookie has Path=/: whether the browser drops it is left open.
UsersPage(t) ==
    /\ Waits(t, "users")
    /\ IF tab[t].sent = NoCookie
       THEN Redirect(t, "login", jar) /\ UNCHANGED jar
       ELSE IF CookieAccepted(tab[t].sent)
       THEN Show(t) /\ UNCHANGED jar      \* the page, or 403 for other roles
       ELSE /\ jar' \in {jar, NoCookie}
            /\ Redirect(t, "login", jar')
    /\ UNCHANGED ringVars

\* POST /admin/login: SignIn issues a token, or fails and the form is shown.
SignIn(t) ==
    /\ Waits(t, "sign in")
    /\ \E role \in Role : IssueAccess([role |-> role])
    /\ tab' = [tab EXCEPT ![t] = [at |-> "signed in", sent |-> NextToken]]
    /\ UNCHANGED jar

\* Mutant: the access_token cookie is given the refresh token, signed after it.
AnswerSignIn_Swapped(t) ==
    /\ Waits(t, "signed in")
    /\ jar' = tab[t].sent + 1
    /\ Redirect(t, "users", jar')
    /\ UNCHANGED ringVars

AnswerSignIn(t) ==
    /\ Waits(t, "signed in")
    /\ jar' = tab[t].sent
    /\ Redirect(t, "users", jar')
    /\ UNCHANGED ringVars

SignInFails(t) ==
    /\ Waits(t, "sign in") \/ Waits(t, "signed in")
    /\ Show(t)
    /\ UNCHANGED <<ringVars, jar>>

Logout(t) ==
    /\ Waits(t, "logout")
    /\ jar' = NoCookie
    /\ Redirect(t, "login", jar')
    /\ UNCHANGED ringVars

Serve(t) ==
    \/ Dashboard(t) \/ LoginPage(t) \/ UsersPage(t)
    \/ SignIn(t) \/ AnswerSignIn(t) \/ SignInFails(t) \/ Logout(t)

----------------------------------------------------------------------------
(* Time, and the program.                                                  *)

\* Max-Age is the lifetime of the token, counted by the browser from the answer.
CookieExpires ==
    /\ jar # NoCookie
    /\ clock >= issued[jar].exp
    /\ jar' = NoCookie
    /\ UNCHANGED <<ringVars, tab>>

\* The server is restarted; tabs that wait show that the connection was lost.
Restart ==
    /\ \E configured \in Configured : StartRing(configured)
    /\ tab' = [t \in Tab |-> Shown]
    /\ UNCHANGED jar

ConsoleNext ==
    \/ \E t \in Tab : Visit(t) \/ Serve(t)
    \/ CookieExpires
    \/ Restart
    \/ (RotateKeys \/ Tick) /\ UNCHANGED consoleVars

ConsoleSpec == ConsoleInit /\ [][ConsoleNext]_allVars

\* The server answers; nothing is assumed of when cookies expire, keys are rotated
\* and the server is restarted.  Of the administrator it is assumed that sign-ins
\* are finitely many, which is what MaxIssued comes to; likewise for restarts and
\* rotations (MaxKid).
FairConsoleSpec == ConsoleSpec /\ \A t \in Tab : WF_allVars(Serve(t))

----------------------------------------------------------------------------
(* Properties.                                                             *)

ConsoleTypeOK ==
    /\ RingTypeOK
    /\ jar \in {NoCookie} \cup DOMAIN issued
    /\ tab \in [Tab -> [at : Place, sent : {NoCookie} \cup DOMAIN issued]]

\* Every visit ends with a page: the redirects of RequireAuth and LoginPage do
\* not send a browser back and forth, with a cookie that expired, whose key went
\* away in a rotation or a restart, or that RequireAuth could not clear.  This is
\* so as long as sign-ins end some day: another tab that for ever signs in while
\* this one is sent to the login page, and out while it is sent to the users page,
\* keeps it going to and fro.
EveryVisitSettles ==
    \A t \in Tab : tab[t].at # "page" ~> tab[t].at = "page"

=============================================================================

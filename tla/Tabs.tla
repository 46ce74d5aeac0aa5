-------------------------------- MODULE Tabs --------------------------------
(***************************************************************************)
(* The client session: several browser tabs of the single-page application *)
(* that share one cookie jar.  With DYNAMIC_API_PATH on (the default) each *)
(* login issues a fresh path prefix; the server serves a request only when *)
(* the prefix in its URL is the one in the auth_path cookie sent with it.  *)
(* Every tab keeps, in memory, the prefix it was given (its base) and the  *)
(* user it was told it acts for; neither follows when another tab logs in. *)
(* A request is judged by the cookies it was sent with, and its answer may *)
(* arrive late, after other answers, or never.                             *)
(***************************************************************************)
EXTENDS Naturals

CONSTANTS
    TabSet,     \* tabs of one browser
    Users,      \* people who can log in
    Nobody,     \* no user: absent cookie, empty cache entry
    MaxPath,    \* prefixes are numbered 1..MaxPath and reused once unused
    MetaMissed  \* TRUE: index.html came without the base in its meta tag

ASSUME TabsAssumption ==
    /\ Nobody \notin Users
    /\ MaxPath \in Nat
    /\ MetaMissed \in BOOLEAN

VARIABLES
    jar,    \* cookies of the browser: [user, path], shared by the tabs
    base,   \* base[t]: currentBase, 0 stands for the canonical '/api'
    me,     \* me[t]: user in the cache entry ['auth','me']
    page,   \* page[t]: the screen the tab shows, if any
    goal,   \* goal[t]: the screen whose guard (beforeLoad) still waits
    ask,    \* ask[t]: GET auth/me in flight, with the answer it will get
    act     \* act[t]: login or logout in flight, or leading elsewhere

vars == <<jar, base, me, page, goal, ask, act>>

API == 0
Paths == 1..MaxPath
Bases == Paths \cup {API}
People == Users \cup {Nobody}

NoCookies == [user |-> Nobody, path |-> API]

Asks == [on: BOOLEAN, bg: BOOLEAN, ok: BOOLEAN, user: People, path: Bases]
Acts == [kind: {"none", "login", "logout", "leading"}, user: People]
NoAsk == [on |-> FALSE, bg |-> FALSE, ok |-> FALSE, user |-> Nobody,
          path |-> API]
NoAct == [kind |-> "none", user |-> Nobody]

\* Types of the cookies and of what each tab keeps.
TypeOK ==
    /\ jar \in [user: People, path: Bases]
    /\ base \in [TabSet -> Bases]
    /\ me \in [TabSet -> People]
    /\ page \in [TabSet -> {"none", "login", "app"}]
    /\ goal \in [TabSet -> {"none", "login", "app"}]
    /\ ask \in [TabSet -> Asks]
    /\ act \in [TabSet -> Acts]

-----------------------------------------------------------------------------
(* The server's side of one request. *)

\* DynamicAPIPath: under '/api' only the allow-listed endpoints (login) pass;
\* under a prefix, the prefix has to be the one in the request's cookie.
Passes(b, allowed) == IF b = API THEN allowed ELSE b = jar.path

\* Me: the user of the token, and the prefix of the cookie; refused when the
\* middleware refuses it or there is no token.
Told(b, bg) ==
    IF Passes(b, FALSE) /\ jar.user # Nobody
    THEN [on |-> TRUE, bg |-> bg, ok |-> TRUE, user |-> jar.user,
          path |-> jar.path]
    ELSE [NoAsk EXCEPT !.on = TRUE, !.bg = bg]

\* A mistake the runs must notice: a prefix is drawn that is still in use.
FreshOrNot(p) == p \in Paths

\* GeneratePath draws a prefix no cookie, tab or answer still carries; the
\* least such number stands for it. Nobody can tell that it was drawn until
\* the answer arrives, so the model draws it then.
Carried == {jar.path} \cup {base[t] : t \in TabSet}
             \cup {ask[t].path : t \in TabSet}
Fresh(p) == p \in Paths \ Carried /\ \A q \in Paths \ Carried : p <= q

-----------------------------------------------------------------------------
(* Documents and guards. *)

\* A mutation is pending (its button disabled) until its onSuccess, which
\* awaits the navigation, is through.
Settle(t) ==
    act' = [act EXCEPT ![t] = IF @.kind = "leading" /\ goal'[t] = "none"
                              THEN NoAct ELSE @]

\* readMetaBase: what the meta tag of a freshly loaded document says. The
\* server writes the prefix of the request's cookie there; without the
\* substitution the placeholder is left and the canonical base is used.
MetaBase == IF MetaMissed THEN API ELSE jar.path

Init ==
    /\ jar = NoCookies
    /\ base = [t \in TabSet |-> API]
    /\ me = [t \in TabSet |-> Nobody]
    /\ page = [t \in TabSet |-> "none"]
    /\ goal = [t \in TabSet |-> "none"]
    /\ ask = [t \in TabSet |-> NoAsk]
    /\ act = [t \in TabSet |-> NoAct]

\* beforeLoad of '/', '/login' and '/_authed': fetchQuery(me) always asks the
\* server (no staleTime), unless the same query is already in flight.
Guarded(t, g, b) ==
    /\ goal' = [goal EXCEPT ![t] = g]
    /\ ask' = [ask EXCEPT ![t] = IF @.on THEN @ ELSE Told(b, FALSE)]

\* A document is loaded or reloaded at an address whose guard lets to the
\* application or to the login form. Nothing of the old document survives.
Load(t, g) ==
    /\ base' = [base EXCEPT ![t] = MetaBase]
    /\ me' = [me EXCEPT ![t] = Nobody]
    /\ page' = [page EXCEPT ![t] = "none"]
    /\ goal' = [goal EXCEPT ![t] = g]
    /\ ask' = [ask EXCEPT ![t] = Told(MetaBase, FALSE)]
    /\ act' = [act EXCEPT ![t] = NoAct]
    /\ UNCHANGED jar

\* A link, or the browser's back button on the login form.
Navigate(t) ==
    /\ page[t] # "none"
    /\ goal[t] = "none"
    /\ Guarded(t, "app", base[t])
    /\ UNCHANGED <<jar, base, me, page, act>>

\* useMe on a mounted screen refetches when its answer is a minute old (bg);
\* a link the pointer rests on runs its guard ahead (defaultPreload).
Refetch(t, bg) ==
    /\ page[t] = "app"
    /\ ~ask[t].on
    /\ ask' = [ask EXCEPT ![t] = Told(base[t], bg)]
    /\ UNCHANGED <<jar, base, me, page, goal, act>>

\* me() resolved: the base follows the answer. The guard of the application
\* lets it show; that of the login form redirects to the application, whose
\* guard asks again.
MeTold(t) ==
    /\ ask[t].on /\ ask[t].ok
    /\ base' = [base EXCEPT ![t] = ask[t].path]
    /\ me' = [me EXCEPT ![t] = ask[t].user]
    /\ page' = [page EXCEPT ![t] = IF goal[t] = "app" THEN "app" ELSE @]
    /\ goal' = [goal EXCEPT ![t] = IF @ = "login" THEN "app" ELSE "none"]
    /\ ask' = [ask EXCEPT ![t] =
                 IF goal[t] = "login" THEN Told(@.path, FALSE) ELSE NoAsk]
    /\ Settle(t)
    /\ UNCHANGED jar

\* A mistake the runs must notice: the login form's guard believes the cached
\* user, that of the application asks the server.
MeRefusedCached(t) ==
    /\ ask[t].on /\ ~ask[t].ok
    /\ me' = [me EXCEPT ![t] = IF ask[t].bg THEN Nobody ELSE @]
    /\ page' = [page EXCEPT ![t] = IF goal[t] = "login" THEN "login" ELSE @]
    /\ goal' = [goal EXCEPT ![t] =
                  CASE @ = "app" -> "login"
                    [] @ = "login" /\ me[t] # Nobody -> "app"
                    [] OTHER -> "none"]
    /\ ask' = [ask EXCEPT ![t] =
                 IF goal'[t] # "none" THEN Told(base[t], FALSE) ELSE NoAsk]
    /\ Settle(t)
    /\ UNCHANGED <<jar, base>>

\* me() refused (isAuthError): useMe turns that into null, fetchQuery leaves
\* the cached user; the application's guard redirects to the login form,
\* whose own guard asks again and, refused, lets it show.
MeRefused(t) ==
    /\ ask[t].on /\ ~ask[t].ok
    /\ me' = [me EXCEPT ![t] = IF ask[t].bg THEN Nobody ELSE @]
    /\ page' = [page EXCEPT ![t] = IF goal[t] = "login" THEN "login" ELSE @]
    /\ goal' = [goal EXCEPT ![t] = IF @ = "app" THEN "login" ELSE "none"]
    /\ ask' = [ask EXCEPT ![t] =
                 IF goal[t] = "app" THEN Told(base[t], FALSE) ELSE NoAsk]
    /\ Settle(t)
    /\ UNCHANGED <<jar, base>>

\* A mistake the runs must notice: the error counts as a screen.
MeLostShown(t) ==
    /\ ask[t].on
    /\ page' = [page EXCEPT ![t] = IF goal[t] = "none" THEN @ ELSE "error"]
    /\ goal' = [goal EXCEPT ![t] = "none"]
    /\ ask' = [ask EXCEPT ![t] = NoAsk]
    /\ Settle(t)
    /\ UNCHANGED <<jar, base, me>>

\* me() failed without an answer: a guard rethrows and the router shows its
\* error instead of a screen; a background refetch changes nothing.
MeLost(t) ==
    /\ ask[t].on
    /\ page' = [page EXCEPT ![t] = IF goal[t] = "none" THEN @ ELSE "none"]
    /\ goal' = [goal EXCEPT ![t] = "none"]
    /\ ask' = [ask EXCEPT ![t] = NoAsk]
    /\ Settle(t)
    /\ UNCHANGED <<jar, base, me>>

-----------------------------------------------------------------------------
(* Login and logout. *)

\* A mistake the runs must notice: login() keeps the base it has.
LoginBaseKept(t) == base[t]

\* login() first puts the base back to '/api'.
LoginBase(t) == API

\* The form is submitted with u's right password. Login answers with a fresh
\* prefix, in the cookie and in apiBase. A request the middleware refuses
\* leaves the error under the form.
SubmitRight(t, u) ==
    /\ page[t] = "login"
    /\ act[t].kind = "none"
    /\ base' = [base EXCEPT ![t] = LoginBase(t)]
    /\ IF Passes(LoginBase(t), TRUE)
       THEN act' = [act EXCEPT ![t] = [kind |-> "login", user |-> u]]
       ELSE UNCHANGED act
    /\ UNCHANGED <<jar, me, page, goal, ask>>

\* A wrong password, an unknown or archived account: the form shows the
\* error, the base stays at '/api'.
SubmitWrong(t) ==
    /\ page[t] = "login"
    /\ act[t].kind = "none"
    /\ base' = [base EXCEPT ![t] = LoginBase(t)]
    /\ UNCHANGED <<jar, me, page, goal, ask, act>>

\* The answer brings the cookies, then the base, then setMe and the way to
\* the dashboard, through its guard.
LoginDone(t) ==
    /\ act[t].kind = "login"
    /\ \E p \in Paths :
          /\ Fresh(p)
          /\ jar' = [user |-> act[t].user, path |-> p]
          /\ base' = [base EXCEPT ![t] = p]
          /\ ask' = [ask EXCEPT ![t] =
                       IF @.on THEN @
                       ELSE [on |-> TRUE, bg |-> FALSE, ok |-> TRUE,
                             user |-> act[t].user, path |-> p]]
    /\ me' = [me EXCEPT ![t] = act[t].user]
    /\ goal' = [goal EXCEPT ![t] = "app"]
    /\ act' = [act EXCEPT ![t] = [NoAct EXCEPT !.kind = "leading"]]
    /\ UNCHANGED page

\* The logout button. The endpoint is behind the prefix, not behind the
\* token; refused, nothing handles the error and the screen stays.
SignOut(t) ==
    /\ page[t] = "app"
    /\ act[t].kind = "none"
    /\ Passes(base[t], FALSE)
    /\ act' = [act EXCEPT ![t].kind = "logout"]
    /\ UNCHANGED <<jar, base, me, page, goal, ask>>

\* The cookies are cleared, whoever's they are by now; the login form's guard
\* asks under the base that is left.
SignedOut(t) ==
    /\ act[t].kind = "logout"
    /\ jar' = NoCookies
    /\ me' = [me EXCEPT ![t] = Nobody]
    /\ goal' = [goal EXCEPT ![t] = "login"]
    /\ ask' = [ask EXCEPT ![t] = IF @.on THEN @ ELSE [NoAsk EXCEPT !.on = TRUE]]
    /\ act' = [act EXCEPT ![t] = [NoAct EXCEPT !.kind = "leading"]]
    /\ UNCHANGED <<base, page>>

\* The answer of a login or a logout is lost, before or after its header
\* reached the browser's cookie jar; the code behind the await never runs.
ActLost(t) ==
    /\ act[t].kind \in {"login", "logout"}
    /\ \/ UNCHANGED jar
       \/ act[t].kind = "logout" /\ jar' = NoCookies
       \/ /\ act[t].kind = "login"
          /\ \E p \in Paths :
                Fresh(p) /\ jar' = [user |-> act[t].user, path |-> p]
    /\ act' = [act EXCEPT ![t] = NoAct]
    /\ UNCHANGED <<base, me, page, goal, ask>>

\* A window of the browser that is not in TabSet logs in or out, or the
\* cookies, which have the same lifetime, end together. Tabs meet in the
\* cookie jar only, so this is all that one tab can notice of another.
Elsewhere ==
    /\ \/ jar # NoCookies /\ jar' = NoCookies
       \/ \E u \in Users, p \in Paths :
             Fresh(p) /\ jar' = [user |-> u, path |-> p]
    /\ UNCHANGED <<base, me, page, goal, ask, act>>

-----------------------------------------------------------------------------
Client(t) ==
    \/ \E g \in {"app", "login"} : Load(t, g)
    \/ Navigate(t)
    \/ \E bg \in BOOLEAN : Refetch(t, bg)
    \/ \E u \in Users : SubmitRight(t, u)
    \/ SubmitWrong(t)
    \/ SignOut(t)

Answer(t) == MeTold(t) \/ MeRefused(t) \/ LoginDone(t) \/ SignedOut(t)

Fault(t) == MeLost(t) \/ ActLost(t)

Next == Elsewhere \/ \E t \in TabSet : Client(t) \/ Answer(t) \/ Fault(t)

\* Every answer is delivered or lost in the end; the person at a login form
\* who knows the password keeps submitting it.
Fairness ==
    \A t \in TabSet :
        /\ WF_vars(MeTold(t) \/ MeRefused(t) \/ MeLost(t))
        /\ WF_vars(LoginDone(t) \/ SignedOut(t) \/ ActLost(t))
        /\ WF_vars(\E u \in Users : SubmitRight(t, u))

Spec == Init /\ [][Next]_vars /\ Fairness

-----------------------------------------------------------------------------
\* A request a tab sends now is served: by its prefix it is the session's.
Served(t) == base[t] # API /\ base[t] = jar.path

\* Whatever the other tabs did, a request of a screen of the application is
\* served under the identity that screen shows (name, role, admin buttons)
\* or refused; never as somebody else who logged in meanwhile.
ActsAsShown ==
    \A t \in TabSet :
        page[t] = "app" /\ me[t] # Nobody /\ Served(t) => jar.user = me[t]

\* The guards of '/', '/login' and '/_authed' send each other's visitors
\* away. Whatever the cookies do meanwhile, no redirect between them goes on
\* for ever: a guard lets some screen show, or the router its error, unless
\* the document is reloaded again and again.
GuardsSettle ==
    \A t \in TabSet :
        \/ []<><<\E g \in {"app", "login"} : Load(t, g)>>_vars
        \/ goal[t] # "none" ~> goal[t] = "none"

\* What may keep a tab at the login form for good: answers lost again and
\* again, the form submitted wrongly, the document reloaded, the cookies
\* changed from elsewhere.
Disturbed(t) ==
    \/ Fault(t)
    \/ SubmitWrong(t)
    \/ \E g \in {"app", "login"} : Load(t, g)
    \/ Navigate(t)
    \/ jar' # jar /\ ~LoginDone(t)

\* auth.ts resets the base before it logs in so that a stale prefix cannot
\* trap the tab: someone who keeps giving the right password does not stay at
\* the login form, unless disturbed without end.
Untrapped ==
    \A t \in TabSet :
        \/ []<><<Disturbed(t)>>_vars
        \/ []<>(page[t] # "login")
=============================================================================

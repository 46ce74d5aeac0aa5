----------------------------- MODULE Tabs_proofs -----------------------------
(***************************************************************************)
(* Proofs that no tab acts under another identity than the one it shows,   *)
(* for any number of tabs, of people and of path prefixes.                 *)
(***************************************************************************)
EXTENDS Tabs, TLAPS

\* The base a tab holds together with its user, and an answer under way that
\* will give it both, were issued together: when the cookie jar still has
\* that prefix, it has that user. A prefix that is carried is not issued
\* again, which is what keeps this true.
TabAgrees(t) == me[t] # Nobody /\ Served(t) => jar.user = me[t]
AnswerAgrees(t) ==
    ask[t].ok /\ ask[t].path # API /\ ask[t].path = jar.path =>
        ask[t].user = jar.user

IInv == TypeOK /\ \A t \in TabSet : TabAgrees(t) /\ AnswerAgrees(t)

\* A browser without cookies and without documents satisfies the invariant.
LEMMA InitIInv == Init => IInv
  BY TabsAssumption
     DEF Init, IInv, TypeOK, TabAgrees, AnswerAgrees, Served, NoCookies, NoAsk,
         NoAct, API, Paths, Bases, People, Asks, Acts

\* What the server tells of the session is true of the cookies.
LEMMA ToldTrue ==
    ASSUME TypeOK, NEW b \in Bases, NEW bg \in BOOLEAN
    PROVE  /\ Told(b, bg) \in Asks
           /\ Told(b, bg).ok => /\ Told(b, bg).user = jar.user
                                /\ Told(b, bg).path = jar.path
  BY DEF TypeOK, Told, NoAsk, Asks, People, Bases, API, Passes

\* A new session's prefix is held by no tab and by no answer.
LEMMA FreshUnknown ==
    ASSUME TypeOK, NEW p, Fresh(p)
    PROVE  /\ p \in Paths /\ p # API /\ p # jar.path
           /\ \A t \in TabSet : base[t] # p /\ ask[t].path # p
  BY TabsAssumption DEF Fresh, Carried, Paths, API

\* Nothing changes for a tab whose variables and the jar stay.
LEMMA OthersAgree ==
    ASSUME IInv, NEW t \in TabSet, jar' = jar, base'[t] = base[t],
           me'[t] \in {me[t], Nobody}, ask'[t] = ask[t]
    PROVE  TabAgrees(t)' /\ AnswerAgrees(t)'
  BY DEF IInv, TabAgrees, AnswerAgrees, Served

\* Only prefixes nobody holds come into the jar, or none.
LEMMA JarReplaced ==
    ASSUME IInv, NEW t \in TabSet, base'[t] = base[t], me'[t] = me[t],
           ask'[t] = ask[t], jar' = NoCookies \/ Fresh(jar'.path)
    PROVE  TabAgrees(t)' /\ AnswerAgrees(t)'
  BY FreshUnknown
     DEF IInv, TabAgrees, AnswerAgrees, Served, NoCookies, API

\* What a person does in a tab keeps it.
LEMMA ClientStep ==
    ASSUME IInv, NEW t \in TabSet, Client(t)
    PROVE  IInv'
<1> USE DEF IInv
<1>b. API \in Bases /\ MetaBase \in Bases /\ base[t] \in Bases
  BY DEF TypeOK, Bases, MetaBase
<1>1. ASSUME NEW g \in {"app", "login"}, Load(t, g) PROVE IInv'
  <2>1. Told(MetaBase, FALSE) \in Asks
    BY <1>b, ToldTrue
  <2>2. TypeOK'
    BY <1>1, <1>b, <2>1 DEF Load, TypeOK, People, Acts, NoAct
  <2>3. TabAgrees(t)' /\ AnswerAgrees(t)'
    BY <1>1, <1>b, ToldTrue DEF Load, TypeOK, TabAgrees, AnswerAgrees
  <2>4. ASSUME NEW s \in TabSet \ {t}
        PROVE  TabAgrees(s)' /\ AnswerAgrees(s)'
    BY <1>1, <2>4, OthersAgree DEF Load, TypeOK
  <2> QED
    BY <2>2, <2>3, <2>4
<1>2. ASSUME Navigate(t) PROVE IInv'
  <2>1. Told(base[t], FALSE) \in Asks
    BY <1>b, ToldTrue
  <2>2. TypeOK'
    BY <1>2, <2>1 DEF Navigate, Guarded, TypeOK
  <2>3. TabAgrees(t)' /\ AnswerAgrees(t)'
    BY <1>2, <1>b, ToldTrue
       DEF Navigate, Guarded, TypeOK, TabAgrees, AnswerAgrees, Served
  <2>4. ASSUME NEW s \in TabSet \ {t}
        PROVE  TabAgrees(s)' /\ AnswerAgrees(s)'
    BY <1>2, <2>4, OthersAgree DEF Navigate, Guarded, TypeOK
  <2> QED
    BY <2>2, <2>3, <2>4
<1>3. ASSUME NEW bg \in BOOLEAN, Refetch(t, bg) PROVE IInv'
  <2>1. Told(base[t], bg) \in Asks
    BY <1>b, ToldTrue
  <2>2. TypeOK'
    BY <1>3, <2>1 DEF Refetch, TypeOK
  <2>3. TabAgrees(t)' /\ AnswerAgrees(t)'
    BY <1>3, <1>b, ToldTrue
       DEF Refetch, TypeOK, TabAgrees, AnswerAgrees, Served
  <2>4. ASSUME NEW s \in TabSet \ {t}
        PROVE  TabAgrees(s)' /\ AnswerAgrees(s)'
    BY <1>3, <2>4, OthersAgree DEF Refetch, TypeOK
  <2> QED
    BY <2>2, <2>3, <2>4
<1>4. ASSUME NEW u \in Users, SubmitRight(t, u) PROVE IInv'
  <2>0. [kind |-> "login", user |-> u] \in Acts
    BY DEF Acts, People
  <2>1. TypeOK'
    <3>1. base' \in [TabSet -> Bases]
      BY <1>4, <1>b DEF SubmitRight, LoginBase, TypeOK
    <3>2. act' \in [TabSet -> Acts]
      BY <1>4, <2>0 DEF SubmitRight, TypeOK
    <3> QED
      BY <1>4, <3>1, <3>2 DEF SubmitRight, TypeOK
  <2>2. ASSUME NEW s \in TabSet PROVE TabAgrees(s)' /\ AnswerAgrees(s)'
    BY <1>4 DEF SubmitRight, LoginBase, TypeOK, TabAgrees, AnswerAgrees, Served
  <2> QED
    BY <2>1, <2>2
<1>5. ASSUME SubmitWrong(t) PROVE IInv'
  <2>1. TypeOK'
    BY <1>5, <1>b DEF SubmitWrong, LoginBase, TypeOK
  <2>2. ASSUME NEW s \in TabSet PROVE TabAgrees(s)' /\ AnswerAgrees(s)'
    BY <1>5 DEF SubmitWrong, LoginBase, TypeOK, TabAgrees, AnswerAgrees, Served
  <2> QED
    BY <2>1, <2>2
<1>6. ASSUME SignOut(t) PROVE IInv'
  <2>1. TypeOK'
    BY <1>6 DEF SignOut, TypeOK, Acts
  <2>2. ASSUME NEW s \in TabSet PROVE TabAgrees(s)' /\ AnswerAgrees(s)'
    BY <1>6 DEF SignOut, TabAgrees, AnswerAgrees, Served
  <2> QED
    BY <2>1, <2>2
<1> QED
  BY <1>1, <1>2, <1>3, <1>4, <1>5, <1>6 DEF Client

\* The answers keep it.
LEMMA AnswerStep ==
    ASSUME IInv, NEW t \in TabSet, Answer(t)
    PROVE  IInv'
<1> USE DEF IInv
<1>b. /\ base[t] \in Bases /\ ask[t] \in Asks /\ me[t] \in People
      /\ ask[t].path \in Bases /\ ask[t].user \in People
      /\ NoAsk \in Asks /\ ~NoAsk.ok /\ NoAct \in Acts
  BY DEF TypeOK, Asks, NoAsk, NoAct, Acts, Bases, People
<1>1. ASSUME MeTold(t) PROVE IInv'
  <2>1. /\ Told(ask[t].path, FALSE) \in Asks
        /\ ask'[t] \in {Told(ask[t].path, FALSE), NoAsk}
    BY <1>1, <1>b, ToldTrue DEF MeTold, TypeOK
  <2>2. TypeOK'
    BY <1>1, <1>b, <2>1 DEF MeTold, Settle, TypeOK
  <2>3. TabAgrees(t)' /\ AnswerAgrees(t)'
    <3>1. TabAgrees(t)'
      BY <1>1 DEF MeTold, TypeOK, TabAgrees, AnswerAgrees, Served
    <3>2. AnswerAgrees(t)'
      BY <1>1, <1>b, <2>1, ToldTrue DEF MeTold, AnswerAgrees
    <3> QED
      BY <3>1, <3>2
  <2>4. ASSUME NEW s \in TabSet \ {t}
        PROVE  TabAgrees(s)' /\ AnswerAgrees(s)'
    BY <1>1, <2>4, OthersAgree DEF MeTold, TypeOK
  <2> QED
    BY <2>2, <2>3, <2>4
<1>2. ASSUME MeRefused(t) PROVE IInv'
  <2>1. /\ Told(base[t], FALSE) \in Asks
        /\ ask'[t] \in {Told(base[t], FALSE), NoAsk}
    BY <1>2, <1>b, ToldTrue DEF MeRefused, TypeOK
  <2>2. TypeOK'
    BY <1>2, <1>b, <2>1 DEF MeRefused, Settle, TypeOK, People
  <2>3. TabAgrees(t)' /\ AnswerAgrees(t)'
    <3>1. TabAgrees(t)'
      BY <1>2 DEF MeRefused, TypeOK, TabAgrees, Served
    <3>2. AnswerAgrees(t)'
      BY <1>2, <1>b, <2>1, ToldTrue DEF MeRefused, AnswerAgrees
    <3> QED
      BY <3>1, <3>2
  <2>4. ASSUME NEW s \in TabSet \ {t}
        PROVE  TabAgrees(s)' /\ AnswerAgrees(s)'
    BY <1>2, <2>4, OthersAgree DEF MeRefused, TypeOK
  <2> QED
    BY <2>2, <2>3, <2>4
<1>3. ASSUME LoginDone(t) PROVE IInv'
  <2>1. PICK p \in Paths :
           /\ Fresh(p)
           /\ jar' = [user |-> act[t].user, path |-> p]
           /\ base' = [base EXCEPT ![t] = p]
           /\ ask' = [ask EXCEPT ![t] =
                        IF @.on THEN @
                        ELSE [on |-> TRUE, bg |-> FALSE, ok |-> TRUE,
                              user |-> act[t].user, path |-> p]]
    BY <1>3 DEF LoginDone
  <2>2. act[t].user \in People /\ p \in Bases
    BY DEF TypeOK, Acts, Bases
  <2>3. TypeOK'
    BY <1>3, <1>b, <2>1, <2>2 DEF LoginDone, TypeOK, Asks, Acts, NoAct, People
  <2>4. TabAgrees(t)'
    BY <1>3, <2>1 DEF LoginDone, TypeOK, TabAgrees, Served
  <2>5. AnswerAgrees(t)'
    BY <1>3, <2>1, FreshUnknown DEF TypeOK, AnswerAgrees
  <2>6. ASSUME NEW s \in TabSet \ {t}
        PROVE  TabAgrees(s)' /\ AnswerAgrees(s)'
    BY <1>3, <2>1, <2>6, JarReplaced DEF LoginDone, TypeOK
  <2> QED
    BY <2>3, <2>4, <2>5, <2>6
<1>4. ASSUME SignedOut(t) PROVE IInv'
  <2>1. TypeOK'
    BY <1>4, <1>b DEF SignedOut, TypeOK, Asks, Acts, NoCookies, People, Bases
  <2>2. ASSUME NEW s \in TabSet PROVE TabAgrees(s)' /\ AnswerAgrees(s)'
    BY <1>4 DEF SignedOut, TypeOK, TabAgrees, AnswerAgrees, Served, NoCookies
  <2> QED
    BY <2>1, <2>2
<1> QED
  BY <1>1, <1>2, <1>3, <1>4 DEF Answer

\* Lost answers, and what the rest of the browser does to the jar, keep it.
LEMMA FaultStep ==
    ASSUME IInv, (\E t \in TabSet : Fault(t)) \/ Elsewhere
    PROVE  IInv'
<1> USE DEF IInv
<1>b. NoAsk \in Asks /\ ~NoAsk.ok /\ NoAct \in Acts
      /\ NoCookies \in [user: People, path: Bases]
  BY DEF Asks, NoAsk, NoAct, Acts, Bases, People, NoCookies
<1>1. ASSUME NEW t \in TabSet, MeLost(t) PROVE IInv'
  <2>1. TypeOK'
    BY <1>1, <1>b DEF MeLost, Settle, TypeOK
  <2>2. ASSUME NEW s \in TabSet PROVE TabAgrees(s)' /\ AnswerAgrees(s)'
    BY <1>1, <1>b DEF MeLost, TypeOK, TabAgrees, AnswerAgrees, Served
  <2> QED
    BY <2>1, <2>2
<1>2. ASSUME NEW t \in TabSet, ActLost(t) PROVE IInv'
  <2>1. jar' \in {jar, NoCookies}
          \/ \E p \in Paths : /\ Fresh(p)
                              /\ jar' = [user |-> act[t].user, path |-> p]
    BY <1>2 DEF ActLost
  <2>2. jar' \in [user: People, path: Bases]
    BY <1>b, <2>1 DEF TypeOK, Acts, Bases
  <2>3. TypeOK'
    BY <1>2, <1>b, <2>2 DEF ActLost, TypeOK
  <2>4. jar' = jar \/ jar' = NoCookies \/ Fresh(jar'.path)
    BY <2>1
  <2>5. ASSUME NEW s \in TabSet PROVE TabAgrees(s)' /\ AnswerAgrees(s)'
    BY <1>2, <2>4, OthersAgree, JarReplaced DEF ActLost
  <2> QED
    BY <2>3, <2>5
<1>3. ASSUME Elsewhere PROVE IInv'
  <2>1. jar' = NoCookies
          \/ \E u \in Users, p \in Paths : /\ Fresh(p)
                                           /\ jar' = [user |-> u, path |-> p]
    BY <1>3 DEF Elsewhere
  <2>2. jar' \in [user: People, path: Bases]
    BY <1>b, <2>1 DEF People, Bases
  <2>3. TypeOK'
    BY <1>3, <2>2 DEF Elsewhere, TypeOK
  <2>4. jar' = NoCookies \/ Fresh(jar'.path)
    BY <2>1
  <2>5. ASSUME NEW s \in TabSet PROVE TabAgrees(s)' /\ AnswerAgrees(s)'
    BY <1>3, <2>4, JarReplaced DEF Elsewhere
  <2> QED
    BY <2>3, <2>5
<1> QED
  BY <1>1, <1>2, <1>3 DEF Fault

LEMMA NextIInv == IInv /\ [Next]_vars => IInv'
<1>1. ASSUME IInv, Next PROVE IInv'
  BY <1>1, ClientStep, AnswerStep, FaultStep DEF Next
<1>2. ASSUME IInv, UNCHANGED vars PROVE IInv'
  BY <1>2 DEF IInv, vars, TypeOK, TabAgrees, AnswerAgrees, Served
<1> QED
  BY <1>1, <1>2

\* The invariant holds in every reachable state.
LEMMA Inductive == Spec => []IInv
  BY InitIInv, NextIInv, PTL DEF Spec

-----------------------------------------------------------------------------
\* The variables keep their types, in particular prefixes that were issued
\* and screens that exist.
THEOREM TypeCorrect == Spec => []TypeOK
<1>1. IInv => TypeOK
  BY DEF IInv
<1> QED
  BY <1>1, Inductive, PTL

\* A request of a screen is served under the identity that screen shows, or
\* refused: for every number of tabs that log in and out over each other, in
\* the cookie jar they share, and answers that come late.
THEOREM IdentityShown == Spec => []ActsAsShown
<1>1. IInv => ActsAsShown
  BY DEF IInv, ActsAsShown, TabAgrees
<1> QED
  BY <1>1, Inductive, PTL
=============================================================================

----------------------- MODULE PublicAttendance_proofs -----------------------
(***************************************************************************)
(* Proofs about the two sides of public attendance.  The token bucket, for *)
(* every burst, window, number of requests in flight and order in which    *)
(* they get the lock.  The page: a report is recorded once, and once more  *)
(* for each request given up, and whoever is thanked is recorded, for any  *)
(* number of reports and of requests.                                      *)
(***************************************************************************)
EXTENDS RateLimiter, PublicForm, FiniteSetTheorems, TLAPS

(***************************************************************************)
(* The argument.  Level(i) is what the bucket of i holds, counted back to  *)
(* time 0: bringing the bucket up to date, forwards or backwards, leaves   *)
(* it alone or lowers it (the cap), and each admission lowers it by        *)
(* Window.  So it bounds the admissions from the first one of the interval *)
(* on, and it cannot fall below what an empty bucket has at the newest     *)
(* arrival, because an admission needs a token at its own arrival time.    *)
(***************************************************************************)
Level(i) == tokens[i] - Burst * last[i]

Spent ==
    \A i \in IP : admitted[i] > 0 =>
        /\ i \in buckets
        /\ Level(i) + admitted[i] * Window <= Burst * Window - Burst * from

NeverOverdrawn ==
    \A i \in buckets : Level(i) >= - (Burst * newest[i])

LInv == TypeOK /\ Spent /\ NeverOverdrawn /\ IntervalLimit

\* Multiplication distributes over the elapsed time.
LEMMA Distribute ==
    ASSUME NEW a \in Int, NEW b \in Int, NEW c \in Int
    PROVE  a * (b - c) = a * b - a * c
  OBVIOUS

\* A longer time refills no less.
LEMMA Monotone ==
    ASSUME NEW a \in Nat, NEW b \in Int, NEW c \in Int, b <= c
    PROVE  a * b <= a * c
  OBVIOUS

\* A bucket has room for at least one token.
LEMMA Bound == Burst * Window \in Nat /\ Window <= Burst * Window
<1>1. 1 <= Burst /\ Burst \in Nat /\ Window \in Nat
  BY LimitsPositive
<1>2. Window * 1 <= Window * Burst
  BY <1>1, Monotone
<1> QED
  BY <1>1, <1>2

\* With no bucket yet, nothing was admitted.
LEMMA InitLInv == Init => LInv
<1> SUFFICES ASSUME Init PROVE LInv
  OBVIOUS
<1>1. TypeOK
  BY ClockBound, Bound DEF Init, TypeOK
<1>2. Spent /\ NeverOverdrawn
  BY DEF Init, Spent, NeverOverdrawn
<1>3. IntervalLimit
  <2> SUFFICES ASSUME NEW i \in IP
               PROVE  0 * Window <= Burst * Window + Burst * (to - from)
    BY DEF Init, IntervalLimit
  <2>1. from \in Int /\ to \in Int /\ 0 <= to - from
    BY ClockBound DEF Init
  <2>2. Burst * 0 <= Burst * (to - from)
    BY <2>1, Monotone, LimitsPositive
  <2> QED
    BY <2>1, <2>2, Bound, LimitsPositive
<1> QED
  BY <1>1, <1>2, <1>3 DEF LInv

\* Updating the bucket never raises its level, nor fills it above the cap.
LEMMA RefillBound ==
    ASSUME TypeOK, NEW ip \in IP, NEW now \in Nat
    PROVE  /\ Refilled(ip, now) \in Int
           /\ Refilled(ip, now) <= Burst * Window
           /\ ip \in buckets =>
                 /\ Refilled(ip, now) - Burst * now <= Level(ip)
                 /\ \/ Refilled(ip, now) - Burst * now = Level(ip)
                    \/ Refilled(ip, now) = Burst * Window
           /\ ip \notin buckets => Refilled(ip, now) = Burst * Window
<1>1. last[ip] \in Int /\ tokens[ip] \in Int /\ Burst \in Int /\ now \in Int
  BY LimitsPositive DEF TypeOK
<1>2. Burst * (now - last[ip]) = Burst * now - Burst * last[ip]
  BY <1>1, Distribute
<1>3. Burst * now \in Int /\ Burst * last[ip] \in Int
  BY <1>1
<1> QED
  BY <1>1, <1>2, <1>3, Bound DEF Refilled, AtMost, Level

\* One call of allow keeps the invariant, whatever time it was given.
LEMMA AllowStep ==
    ASSUME LInv, NEW c \in Call, Allow(c)
    PROVE  LInv'
<1> DEFINE ip == call[c].ip
           now == call[c].now
           R == Refilled(ip, now)
           ok == R >= Window
<1>1. ip \in IP /\ now \in 0 .. clock /\ clock \in 0 .. MaxClock
      /\ now \in Nat /\ call[c] # None
  BY ClockBound, NoneIsNoCall DEF LInv, TypeOK, Allow
<1>2. /\ buckets' = buckets \cup {ip}
      /\ tokens' = [tokens EXCEPT ![ip] = R - (IF ok THEN Window ELSE 0)]
      /\ last' = [last EXCEPT ![ip] = now]
      /\ call' = [call EXCEPT ![c] = None]
      /\ admitted' = IF ok /\ now \in from .. to
                        THEN [admitted EXCEPT ![ip] = @ + 1] ELSE admitted
      /\ newest' = IF now > newest[ip]
                      THEN [newest EXCEPT ![ip] = now] ELSE newest
      /\ UNCHANGED <<clock, from, to>>
  BY DEF Allow
<1>3. /\ R \in Int /\ R <= Burst * Window
      /\ ip \in buckets =>
            /\ R - Burst * now <= Level(ip)
            /\ R - Burst * now = Level(ip) \/ R = Burst * Window
      /\ ip \notin buckets => R = Burst * Window
  BY <1>1, RefillBound DEF LInv
<1> HIDE DEF ip, now, R
<1>4. Burst \in Nat /\ Window \in Nat /\ Window > 0 /\ Burst * Window \in Nat
  BY LimitsPositive, Bound
<1>5. /\ tokens \in [IP -> Int] /\ last \in [IP -> Nat]
      /\ admitted \in [IP -> Nat] /\ newest \in [IP -> Nat]
      /\ from \in Nat /\ to \in Nat /\ from <= to /\ buckets \subseteq IP
  BY ClockBound DEF LInv, TypeOK
<1>6. /\ tokens'[ip] = R - (IF ok THEN Window ELSE 0)
      /\ last'[ip] = now
      /\ admitted'[ip] = IF ok /\ now \in from .. to
                            THEN admitted[ip] + 1 ELSE admitted[ip]
      /\ newest'[ip] = IF now > newest[ip] THEN now ELSE newest[ip]
  BY <1>1, <1>2, <1>5
<1>7. ASSUME NEW i \in IP, i # ip
      PROVE  /\ tokens'[i] = tokens[i] /\ last'[i] = last[i]
             /\ admitted'[i] = admitted[i] /\ newest'[i] = newest[i]
             /\ i \in buckets' <=> i \in buckets
  BY <1>2, <1>5, <1>7
<1>8. TypeOK'
  BY <1>1, <1>2, <1>3, <1>4, NoneIsNoCall DEF LInv, TypeOK
<1>9. Spent'
  <2> SUFFICES ASSUME NEW i \in IP, admitted'[i] > 0
               PROVE  /\ i \in buckets'
                      /\ (Level(i))' + admitted'[i] * Window
                            <= Burst * Window - Burst * from
    BY <1>2 DEF Spent
  <2>1. CASE i # ip
    BY <2>1, <1>2, <1>7 DEF LInv, Spent, Level
  <2>2. CASE i = ip
    <3>1. (Level(i))' = R - (IF ok THEN Window ELSE 0) - Burst * now
      BY <2>2, <1>6 DEF Level
    <3>2. Burst * now \in Int /\ Burst * from \in Int
          /\ admitted[ip] * Window \in Int /\ Level(ip) \in Int
      BY <1>1, <1>4, <1>5 DEF Level
    <3>3. CASE ok /\ now \in from .. to
      <4>1. admitted'[i] * Window = admitted[ip] * Window + Window
        BY <1>1, <1>4, <1>5, <1>6, <2>2, <3>3
      <4>2. Burst * from <= Burst * now
        BY <1>1, <1>4, <1>5, <3>3, Monotone
      <4>3. CASE admitted[ip] > 0
        BY <1>1, <1>2, <1>3, <1>4, <2>2, <3>1, <3>2, <3>3, <4>1, <4>3
           DEF LInv, Spent
      <4>4. CASE admitted[ip] = 0
        BY <1>1, <1>2, <1>3, <1>4, <2>2, <3>1, <3>2, <3>3, <4>1, <4>2, <4>4
      <4> QED
        BY <1>1, <1>5, <4>3, <4>4
    <3>4. CASE ~(ok /\ now \in from .. to)
      BY <1>1, <1>2, <1>3, <1>4, <1>6, <2>2, <3>1, <3>2, <3>4 DEF LInv, Spent
    <3> QED
      BY <3>3, <3>4
  <2> QED
    BY <2>1, <2>2
<1>10. NeverOverdrawn'
  <2> SUFFICES ASSUME NEW i \in buckets'
               PROVE  (Level(i))' >= - (Burst * newest'[i])
    BY DEF NeverOverdrawn
  <2>1. CASE i # ip
    BY <2>1, <1>1, <1>2, <1>5, <1>7 DEF LInv, NeverOverdrawn, Level
  <2>2. CASE i = ip
    <3>1. (Level(i))' = R - (IF ok THEN Window ELSE 0) - Burst * now
      BY <2>2, <1>6 DEF Level
    <3>2. /\ newest'[i] \in Nat /\ now <= newest'[i]
          /\ newest[i] <= newest'[i] /\ newest[i] \in Nat
      BY <1>1, <1>5, <1>6, <2>2
    <3>3. Burst * now <= Burst * newest'[i]
          /\ Burst * newest[i] <= Burst * newest'[i]
      BY <1>1, <1>4, <3>2, Monotone
    <3>4. /\ Burst * now \in Int /\ Burst * newest'[i] \in Int
          /\ Burst * newest[i] \in Int /\ Level(ip) \in Int
      BY <1>1, <1>4, <1>5, <3>2 DEF Level
    <3>5. ip \in buckets => Level(ip) >= - (Burst * newest[ip])
      BY DEF LInv, NeverOverdrawn
    <3> QED
      BY <1>3, <1>4, <2>2, <3>1, <3>3, <3>4, <3>5
  <2> QED
    BY <2>1, <2>2
<1>11. IntervalLimit'
  <2> SUFFICES ASSUME NEW i \in IP
               PROVE  admitted'[i] * Window
                         <= Burst * Window + Burst * (to - from)
    BY <1>2 DEF IntervalLimit
  <2>1. CASE admitted'[i] = admitted[i]
    BY <2>1 DEF LInv, IntervalLimit
  <2>2. CASE admitted'[i] # admitted[i]
    \* The request just admitted arrived by "to" and left no debt.
    <3>1. i = ip /\ ok /\ now \in from .. to /\ admitted'[i] > 0
      BY <1>1, <1>5, <1>6, <1>7, <2>2
    <3>2. Level(i)' + admitted'[i] * Window <= Burst * Window - Burst * from
      BY <1>2, <1>9, <3>1 DEF Spent
    <3>3. Level(i)' = R - Window - Burst * now
      BY <1>6, <3>1 DEF Level
    <3>4. Burst * now <= Burst * to
      BY <1>1, <1>4, <1>5, <3>1, Monotone
    <3>5. Burst * (to - from) = Burst * to - Burst * from
      BY <1>4, <1>5, Distribute
    <3>6. /\ Burst * now \in Int /\ Burst * to \in Int /\ Burst * from \in Int
          /\ admitted'[i] * Window \in Int
      BY <1>1, <1>4, <1>5, <1>6, <3>1
    <3> QED
      BY <1>3, <1>4, <3>1, <3>2, <3>3, <3>4, <3>5, <3>6
  <2> QED
    BY <2>1, <2>2
<1> QED
  BY <1>8, <1>9, <1>10, <1>11 DEF LInv

\* So does every step.
LEMMA NextLInv == LInv /\ [Next]_vars => LInv'
<1> SUFFICES ASSUME LInv, [Next]_vars PROVE LInv'
  OBVIOUS
<1>1. ASSUME UNCHANGED <<limiter, from, to, admitted, newest>>
      PROVE  Spent' /\ NeverOverdrawn' /\ IntervalLimit'
  BY <1>1 DEF LInv, Spent, NeverOverdrawn, IntervalLimit, Level, limiter
<1>2. CASE Tick
  <2>1. TypeOK'
    BY <1>2, ClockBound DEF Tick, LInv, TypeOK, limiter
  <2> QED
    BY <1>1, <1>2, <2>1 DEF Tick, LInv
<1>3. ASSUME NEW c \in Call, NEW ip \in IP, Arrive(c, ip) PROVE LInv'
  <2>1. TypeOK'
    BY <1>3, ClockBound DEF Arrive, LInv, TypeOK, limiter
  <2> QED
    BY <1>1, <1>3, <2>1 DEF Arrive, LInv
<1>4. CASE UNCHANGED vars
  <2>1. TypeOK'
    BY <1>4 DEF vars, LInv, TypeOK, limiter
  <2> QED
    BY <1>1, <1>4, <2>1 DEF vars, LInv
<1> QED
  BY <1>2, <1>3, <1>4, AllowStep DEF Next

\* The invariant holds in every state.
THEOREM Invariance == Spec => []LInv
  BY InitLInv, NextLInv, PTL DEF Spec

\* The bucket stays within its capacity and behind the clock.
THEOREM LimiterTypeCorrect == Spec => []TypeOK
  BY Invariance, PTL DEF LInv

\* No interval of arrival times admits more than a full bucket and its refill.
THEOREM IntervalsLimited == Spec => []IntervalLimit
  BY Invariance, PTL DEF LInv

\* Each step admits the request it must: no bucket is drained so far that
\* the time of one token does not refill it.
LEMMA AdmitSteps == LInv /\ [Next]_vars => [AdmitStep]_vars
<1> SUFFICES ASSUME LInv, Next, NEW c \in Call, call[c] # None,
                    call'[c] = None,
                    Burst * (call[c].now - newest[call[c].ip]) >= Window
             PROVE  tokens'[call[c].ip] =
                       Refilled(call[c].ip, call[c].now) - Window
  BY DEF AdmitStep
<1> DEFINE ip == call[c].ip
           now == call[c].now
<1>1. ip \in IP /\ now \in Nat
  BY ClockBound DEF LInv, TypeOK
<1>2. Allow(c)
  BY DEF Next, Tick, Arrive, Allow, LInv, TypeOK
<1>3. Refilled(ip, now) >= Window
  <2>1. /\ Burst \in Nat /\ newest[ip] \in Int /\ Window \in Nat
        /\ tokens[ip] \in Int /\ last[ip] \in Int
    BY <1>1, LimitsPositive DEF LInv, TypeOK
  <2>2. Burst * (now - newest[ip]) = Burst * now - Burst * newest[ip]
    BY <1>1, <2>1, Distribute
  <2>3. /\ Burst * now \in Int /\ Burst * newest[ip] \in Int
        /\ Level(ip) \in Int
    BY <1>1, <2>1 DEF Level
  <2>4. ip \in buckets => Level(ip) >= - (Burst * newest[ip])
    BY DEF LInv, NeverOverdrawn
  <2> QED
    BY <1>1, <2>1, <2>2, <2>3, <2>4, Bound, RefillBound DEF LInv
<1> QED
  BY <1>1, <1>2, <1>3 DEF Allow, LInv, TypeOK

\* An IP that was quiet for the time of one token is admitted, whatever late
\* calls did to its bucket.
THEOREM QuietAdmitted == Spec => QuietIsAdmitted
  BY Invariance, AdmitSteps, PTL DEF Spec, QuietIsAdmitted

-----------------------------------------------------------------------------
(***************************************************************************)
(* The page.                                                               *)
(***************************************************************************)
\* While the page waits for a request its button is disabled.
AwaitedInForm ==
    \A p \in Posts : Awaited(p) => view = "form" /\ posting = "pending"

\* The page waits for one request at a time.
OneAwaited == \A p, q \in Posts : Awaited(p) /\ Awaited(q) => p = q

\* A request that was never sent has no report, and no row; one that was
\* carried out has.
SentReports ==
    \A p \in Posts :
        /\ posts[p].state = "unsent" => posts[p] = Unsent
        /\ posts[p].state # "unsent" => posts[p].report \in Reports
        /\ posts[p].state = "written" => p \in recorded
        /\ p \in recorded => posts[p].state # "unsent"

\* What is in the form was not sent before, but for requests that were given
\* up, or is being sent. An answer that is no failure clears the form.
FormUnsent ==
    draft # NoReport =>
        \A p \in Posts : posts[p].report = draft => p \in failed \/ Awaited(p)

\* Two requests with the same report: one of them was given up.
OneKept ==
    \A p, q \in Posts \ failed :
        posts[p].report \in Reports /\ posts[q].report = posts[p].report =>
            p = q

PubIInv == /\ PubTypeOK /\ AwaitedInForm /\ OneAwaited /\ SentReports
           /\ FormUnsent /\ OneKept

LEMMA InitPubIInv == PubInit => PubIInv
  BY PubAssumption
     DEF PubInit, PubIInv, PubTypeOK, AwaitedInForm, OneAwaited, SentReports,
         FormUnsent, OneKept, Awaited, Unsent, PostRecords

-----------------------------------------------------------------------------
\* Loading the page again keeps the invariant.
LEMMA LoadStep == PubIInv /\ LoadForm => PubIInv'
<1> SUFFICES ASSUME PubIInv, LoadForm PROVE PubIInv'
  OBVIOUS
<1> USE DEF PubIInv
<1>1. ASSUME NEW p \in Posts
      PROVE  /\ posts'[p] \in PostRecords /\ ~posts'[p].awaited
             /\ posts'[p].report = posts[p].report
             /\ posts'[p].state = posts[p].state
             /\ posts[p] = Unsent => posts'[p] = Unsent
  <2>1. posts'[p] = [posts[p] EXCEPT !.awaited = FALSE]
    BY DEF LoadForm, Abandoned
  <2>2. posts[p] \in PostRecords
    BY DEF PubTypeOK
  <2>3. ASSUME posts[p] = Unsent PROVE posts'[p] = Unsent
    <3>1. posts'[p] = [Unsent EXCEPT !.awaited = FALSE]
      BY <2>1, <2>3
    <3> QED
      BY <3>1 DEF Unsent
  <2> QED
    BY <2>1, <2>2, <2>3 DEF PostRecords
<1>2. PubTypeOK'
  <2>1. posts' \in [Posts -> PostRecords]
    BY <1>1 DEF LoadForm, Abandoned
  <2> QED
    BY <2>1 DEF LoadForm, PubTypeOK
<1>3. AwaitedInForm' /\ OneAwaited'
  BY <1>1 DEF AwaitedInForm, OneAwaited, Awaited
<1>4. SentReports' /\ FormUnsent' /\ OneKept'
  BY <1>1 DEF LoadForm, SentReports, FormUnsent, OneKept
<1> QED
  BY <1>2, <1>3, <1>4

\* So do the steps of the form that touch no request.
LEMMA FormStep ==
    ASSUME PubIInv,
           \/ \E l \in DOMAIN rosters : RosterAnswers(l)
           \/ \E r \in Reports : Compose(r)
           \/ Return
           \/ SendAnother
    PROVE  PubIInv'
<1> USE DEF PubIInv
<1>1. ASSUME NEW l \in DOMAIN rosters, RosterAnswers(l) PROVE PubIInv'
  <2>1. PubTypeOK'
    BY <1>1 DEF RosterAnswers, PubTypeOK
  <2> QED
    BY <1>1, <2>1
       DEF RosterAnswers, AwaitedInForm, OneAwaited, SentReports, FormUnsent,
           OneKept, Awaited
<1>2. ASSUME NEW r \in Reports, Compose(r) PROVE PubIInv'
  <2>1. PubTypeOK' /\ OneAwaited' /\ SentReports' /\ OneKept'
    BY <1>2 DEF Compose, PubTypeOK, OneAwaited, SentReports, OneKept,
                Awaited
  <2>2. AwaitedInForm' /\ FormUnsent'
    BY <1>2 DEF Compose, AwaitedInForm, FormUnsent, Awaited
  <2> QED
    BY <2>1, <2>2
<1>3. ASSUME Return PROVE PubIInv'
  BY <1>3 DEF Return, PubTypeOK, AwaitedInForm, OneAwaited, SentReports,
              FormUnsent, OneKept, Awaited
<1>4. ASSUME SendAnother PROVE PubIInv'
  BY <1>4 DEF SendAnother, PubTypeOK, AwaitedInForm, OneAwaited, SentReports,
              FormUnsent, OneKept, Awaited
<1> QED
  BY <1>1, <1>2, <1>3, <1>4

\* A request is sent.
LEMMA PostStep == ASSUME PubIInv, NEW p \in Posts, Post(p) PROVE PubIInv'
<1> USE DEF PubIInv
<1> DEFINE new == [report |-> draft, awaited |-> TRUE, state |-> "sent"]
<1>1. /\ posts \in [Posts -> PostRecords] /\ draft \in Reports
      /\ view = "form" /\ posts[p] = Unsent /\ posting # "pending"
      /\ UNCHANGED <<view, rosters, draft, recorded, failed>>
      /\ posting' = "pending" /\ posts' = [posts EXCEPT ![p] = new]
  BY DEF Post, PubTypeOK
<1>2. new \in PostRecords
  BY <1>1 DEF PostRecords
<1>3. /\ posts'[p] = new
      /\ \A q \in Posts \ {p} : posts'[q] = posts[q]
  BY <1>1
<1>4. \A q \in Posts : ~Awaited(q)
  BY <1>1 DEF AwaitedInForm
<1>5. \A q \in Posts : posts[q].report = draft => q \in failed
  BY <1>1, <1>4, PubAssumption DEF FormUnsent
<1>6. PubTypeOK'
  BY <1>1, <1>2 DEF PubTypeOK
<1>7. \A q \in Posts : Awaited(q)' <=> q = p
  BY <1>3, <1>4 DEF Awaited
<1>8. AwaitedInForm' /\ OneAwaited'
  BY <1>1, <1>3, <1>7 DEF AwaitedInForm, OneAwaited
<1>9. SentReports'
  BY <1>1, <1>3 DEF SentReports, Unsent
<1>10. FormUnsent'
  BY <1>1, <1>3, <1>5, <1>7 DEF FormUnsent
<1>11. OneKept'
  BY <1>1, <1>3, <1>5 DEF OneKept
<1> QED
  BY <1>6, <1>8, <1>9, <1>10, <1>11

\* A request moves on: carried out, given up, or answered.
LEMMA RequestStep ==
    ASSUME PubIInv, NEW p \in Posts, Record(p) \/ PostFails(p) \/ Thank(p)
    PROVE  PubIInv'
<1> USE DEF PubIInv
<1>0. posts \in [Posts -> PostRecords] /\ posts[p] \in PostRecords
  BY DEF PubTypeOK
<1>1. CASE Record(p)
  <2>1. /\ posts'[p].report = posts[p].report
        /\ posts'[p].awaited = posts[p].awaited
        /\ posts'[p].state = "written" /\ posts[p].state = "sent"
        /\ posts'[p] \in PostRecords
        /\ \A q \in Posts \ {p} : posts'[q] = posts[q]
    BY <1>0, <1>1 DEF Record, PostRecords
  <2>2. posts' \in [Posts -> PostRecords]
    BY <1>0, <1>1, <2>1 DEF Record
  <2>3. PubTypeOK'
    BY <1>1, <2>2 DEF Record, PubTypeOK
  <2>4. \A q \in Posts : /\ Awaited(q)' <=> Awaited(q)
                         /\ posts'[q].report = posts[q].report
    BY <2>1 DEF Awaited
  <2>5. AwaitedInForm' /\ OneAwaited' /\ FormUnsent' /\ OneKept'
    BY <1>1, <2>4 DEF Record, AwaitedInForm, OneAwaited, FormUnsent, OneKept
  <2>6. SentReports'
    BY <1>1, <2>1 DEF Record, SentReports
  <2> QED
    BY <2>3, <2>5, <2>6
<1>2. CASE PostFails(p)
  <2>1. PICK s \in {"over", posts[p].state} :
           posts' = [posts EXCEPT ![p].state = s, ![p].awaited = FALSE]
    BY <1>2 DEF PostFails
  <2>2. /\ posts'[p].report = posts[p].report
        /\ posts'[p].awaited = FALSE
        /\ posts'[p].state \in {"over", posts[p].state}
        /\ posts'[p] \in PostRecords
        /\ \A q \in Posts \ {p} : posts'[q] = posts[q]
    BY <1>0, <2>1 DEF PostRecords
  <2>3. posts' \in [Posts -> PostRecords]
    <3>1. DOMAIN posts' = Posts /\ posts' = [q \in Posts |-> posts'[q]]
      BY <1>0, <2>1
    <3> QED
      BY <1>0, <2>2, <3>1
  <2>4. PubTypeOK' /\ posts[p].state \in {"sent", "written"} /\ Awaited(p)
    BY <1>2, <2>3 DEF PostFails, PubTypeOK, AwaitedInForm, Awaited
  <2>5. \A q \in Posts : ~Awaited(q)'
    BY <2>2, <2>4 DEF OneAwaited, Awaited
  <2>6. \A q \in Posts : posts'[q].report = posts[q].report
    BY <2>2
  <2>7. AwaitedInForm' /\ OneAwaited'
    BY <2>5 DEF AwaitedInForm, OneAwaited
  <2>8. FormUnsent' /\ OneKept'
    BY <1>2, <2>4, <2>6
       DEF PostFails, PubTypeOK, FormUnsent, OneKept, OneAwaited
  <2>9. SentReports'
    BY <1>2, <2>2, <2>4 DEF PostFails, SentReports
  <2> QED
    BY <2>4, <2>7, <2>8, <2>9
<1>3. CASE Thank(p)
  <2>1. /\ posts'[p].report = posts[p].report
        /\ posts'[p].state = "over"
        /\ posts'[p] \in PostRecords
        /\ \A q \in Posts \ {p} : posts'[q] = posts[q]
    BY <1>0, <1>3 DEF Thank, PostRecords
  <2>2. posts' \in [Posts -> PostRecords]
    BY <1>0, <1>3, <2>1 DEF Thank
  <2>3. /\ PubTypeOK' /\ Awaited(p) /\ p \in recorded
        /\ view' \in {"thanks", "left"} /\ recorded' = recorded
        /\ failed' = failed /\ draft' = NoReport
    BY <1>3, <2>2 DEF Thank, PubTypeOK, Awaited, SentReports
  <2>4. \A q \in Posts : /\ ~Awaited(q)'
                         /\ posts'[q].report = posts[q].report
    BY <2>1, <2>3 DEF OneAwaited, Awaited
  <2>5. AwaitedInForm' /\ OneAwaited' /\ FormUnsent' /\ OneKept'
    BY <2>3, <2>4 DEF AwaitedInForm, OneAwaited, FormUnsent, OneKept
  <2>6. SentReports'
    BY <2>1, <2>3, <1>3 DEF Thank, SentReports
  <2> QED
    BY <2>3, <2>5, <2>6
<1> QED
  BY <1>1, <1>2, <1>3

LEMMA NextPubIInv == PubIInv /\ [PubNext]_pubVars => PubIInv'
<1>1. ASSUME PubIInv, PubNext PROVE PubIInv'
  BY <1>1, LoadStep, FormStep, PostStep, RequestStep DEF PubNext
<1>2. ASSUME PubIInv, UNCHANGED pubVars PROVE PubIInv'
  BY <1>2
     DEF pubVars, PubIInv, PubTypeOK, AwaitedInForm, OneAwaited, SentReports,
         FormUnsent, OneKept, Awaited
<1> QED
  BY <1>1, <1>2

LEMMA PubInvariance == PubSpec => []PubIInv
  BY InitPubIInv, NextPubIInv, PTL DEF PubSpec

-----------------------------------------------------------------------------
\* The variables keep their types.
THEOREM FormTypeCorrect == PubSpec => []PubTypeOK
<1>1. PubIInv => PubTypeOK
  BY DEF PubIInv
<1> QED
  BY <1>1, PubInvariance, PTL

\* At most one row of a report comes from a request that was not given up,
\* so a report has at most one row more than requests given up.
THEOREM DuplicatesExplained == PubSpec => []RecordedOnce
<1>1. ASSUME PubIInv, NEW r \in Reports
      PROVE  Cardinality(RowsOf(r))
                 <= 1 + Cardinality({p \in failed : posts[p].report = r})
  <2> DEFINE lost == {p \in failed : posts[p].report = r}
  <2>1. /\ RowsOf(r) \subseteq Posts /\ lost \subseteq Posts
        /\ IsFiniteSet(Posts)
    BY <1>1, PubAssumption DEF PubIInv, PubTypeOK, RowsOf
  <2>2. /\ IsFiniteSet(lost) /\ Cardinality(lost) \in Nat
    BY <2>1, FS_Subset, FS_CardinalityType
  <2>3. CASE RowsOf(r) \subseteq lost
    <3>1. /\ Cardinality(RowsOf(r)) \in Nat
          /\ Cardinality(RowsOf(r)) <= Cardinality(lost)
      BY <2>1, <2>2, <2>3, FS_Subset, FS_CardinalityType
    <3> QED
      BY <2>2, <3>1
  <2>4. ASSUME NEW x \in RowsOf(r) \ lost
        PROVE  Cardinality(RowsOf(r)) <= 1 + Cardinality(lost)
    <3>1. RowsOf(r) \subseteq lost \cup {x}
      BY <1>1, <2>1, <2>4 DEF PubIInv, OneKept, RowsOf
    <3>2. /\ IsFiniteSet(lost \cup {x})
          /\ Cardinality(lost \cup {x}) = Cardinality(lost) + 1
      BY <2>2, <2>4, FS_AddElement
    <3>3. /\ Cardinality(RowsOf(r)) \in Nat
          /\ Cardinality(RowsOf(r)) <= Cardinality(lost \cup {x})
      BY <3>1, <3>2, FS_Subset, FS_CardinalityType
    <3> QED
      BY <2>2, <3>2, <3>3
  <2> QED
    BY <2>3, <2>4
<1>2. PubIInv => RecordedOnce
  BY <1>1 DEF RecordedOnce
<1> QED
  BY <1>2, PubInvariance, PTL
=============================================================================

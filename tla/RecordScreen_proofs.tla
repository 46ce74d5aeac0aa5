------------------------- MODULE RecordScreen_proofs -------------------------
(***************************************************************************)
(* Proofs that the record screens show their own saves, keep what is typed *)
(* and never go back to older data: for any sets of records and lists, and *)
(* any number of writes, fetches in flight and cached entries.             *)
(***************************************************************************)
EXTENDS RecordScreen, TLAPS

-----------------------------------------------------------------------------
(* The inductive invariant. *)

\* No entry holds, or waits for, what the server did not have yet; the fetch
\* in flight was asked for after what is there was read.
Timely(q) == /\ q.data <= clock /\ q.asked <= clock
             /\ q.asked # 0 => q.data <= q.asked

\* An entry shows the last save, or is being fetched by somebody who waits for
\* it; one that was missed is being fetched at the latest when it is on the
\* screen; and a fetch knows the last save, unless that save overtook it.
Reflects(x) ==
    IF x \in missed
    THEN /\ queries[x].asked # 0 =>
                LastSave(x) <= queries[x].asked \/ x \in overtaken
         /\ x \in OnScreen(url) =>
                \/ queries[x].err \/ queries[x].data = 0
                \/ LastSave(x) <= queries[x].asked \/ x \in overtaken
    ELSE /\ queries[x].asked # 0 => LastSave(x) <= queries[x].asked
         /\ ~queries[x].err /\ queries[x].data # 0 =>
                \/ LastSave(x) <= queries[x].data
                \/ Awaited(x) /\ LastSave(x) <= queries[x].asked

CacheInv == \A x \in Keys : /\ Timely(queries[x])
                            /\ LastSave(x) <= clock
                            /\ Reflects(x)

\* An edit knows its record, a save with a form the list it was made from;
\* only a save that was answered waits.
JobAims(k) ==
    /\ IF k = "edit" THEN jobs[k].phase # "idle" => jobs[k].id \in Ids
       ELSE jobs[k].id = None
    /\ k \in {"edit", "new"} /\ jobs[k].phase = "settling" =>
          jobs[k].page \in Pages
    /\ jobs[k].phase # "settling" => jobs[k].wait = {}

JobsInv == \A k \in Kinds : JobAims(k)

\* A form belongs to the open modal and to data that is there, and is marked
\* when a save with a form is pending, or its data may be behind.
FormInv ==
    /\ url.modal \in {"view", "edit"} => url.id \in Ids
    /\ form.of = New => url.modal = "new"
    /\ form.of \in Ids =>
          /\ url.modal = "edit"
          /\ ~queries[url.id].err /\ queries[url.id].data # 0
          /\ form.jumped \/ form.of = url.id
          /\ form.behind \/ jobs["edit"].phase = "settling"
                \/ saved[form.of] <= form.at
    /\ form.of # None /\ (Saving("edit") \/ Saving("new")) => form.busy

IInv == RecTypeOK /\ CacheInv /\ JobsInv /\ FormInv

-----------------------------------------------------------------------------
(* One entry. *)

\* A fetch that begins changes nothing that is shown, and asks for all there
\* is.
LEMMA FetchedEntry ==
    ASSUME NEW q \in Entries(MaxClock), NEW now \in 1..MaxClock
    PROVE  LET f == Fetched(q, now)
           IN  /\ f \in Entries(MaxClock)
               /\ f.data = q.data /\ f.asked = now
               /\ f.err <=> q.err /\ q.data # 0
<1> DEFINE f == Fetched(q, now)
<1>1. f = [data |-> q.data, err |-> q.err /\ q.data # 0, asked |-> now]
  BY DEF Fetched
<1>a. f.data = q.data /\ f.asked = now
  BY <1>1
<1>e. f.err <=> q.err /\ q.data # 0
  <2>2. CASE q.err /\ q.data # 0
    <3>1. f = [data |-> q.data, err |-> TRUE, asked |-> now]
      BY <1>1, <2>2, Zenon
    <3> QED
      BY <2>2, <3>1
  <2>3. CASE ~(q.err /\ q.data # 0)
    <3>1. f = [data |-> q.data, err |-> FALSE, asked |-> now]
      BY <1>1, <2>3, Zenon
    <3> QED
      BY <2>3, <3>1
  <2> QED
    BY <2>2, <2>3
<1>2. q.data \in 0..MaxClock /\ q.err \in BOOLEAN
  BY DEF Entries
<1>3. now \in 0..MaxClock
  BY RecAssumption
<1>4. f \in Entries(MaxClock)
  BY <1>1, <1>2, <1>3 DEF Entries
<1> QED
  BY <1>a, <1>e, <1>4

\* What Watched and Invalidated do is to begin such a fetch, or nothing. An
\* entry that keeps its fetch has one.
LEMMA AskedEntry ==
    ASSUME NEW q \in Entries(MaxClock)
    PROVE  /\ \A n : Watched(q, n) = IF q.asked = 0 THEN Fetched(q, n) ELSE q
           /\ \A n : Invalidated(q, n) = IF Restarts(q) THEN Fetched(q, n)
                                         ELSE q
           /\ ~Restarts(q) => q.asked # 0 /\ q.data = 0
  BY DEF Watched, Invalidated, Restarts, Entries

\* An answer is at least as new as the request, and what was there stays when
\* it fails.
LEMMA AnsweredEntry ==
    ASSUME NEW q \in Entries(MaxClock), NEW now \in 1..MaxClock,
           q.asked # 0, q.asked <= now, q.data <= q.asked,
           NEW r \in Answered(q, now)
    PROVE  /\ r \in Entries(MaxClock)
           /\ r.asked = 0 /\ q.data <= r.data /\ r.data <= now
           /\ r.err \/ r.data # 0
           /\ r.err \/ q.asked <= r.data
<1>1. q.data \in 0..MaxClock /\ q.err \in BOOLEAN /\ q.asked \in 1..MaxClock
  BY DEF Entries
<1>2. CASE r = [q EXCEPT !.err = TRUE, !.asked = 0]
  <2>1. r = [data |-> q.data, err |-> TRUE, asked |-> 0]
    BY <1>2 DEF Entries
  <2> QED
    BY <1>1, <2>1, RecAssumption DEF Entries
<1>3. ASSUME NEW s \in q.asked..now,
             r = [data |-> s, err |-> FALSE, asked |-> 0]
      PROVE  /\ r \in Entries(MaxClock)
             /\ r.asked = 0 /\ q.data <= r.data /\ r.data <= now
             /\ r.data # 0 /\ q.asked <= r.data
  <2>1. s \in 0..MaxClock /\ 0 \in 0..MaxClock /\ q.asked <= s /\ s <= now
    BY <1>1, <1>3, RecAssumption
  <2>2. r \in Entries(MaxClock)
    BY <1>3, <2>1 DEF Entries
  <2>3. r.asked = 0 /\ r.data = s
    BY <1>3
  <2>4. q.data <= s /\ s # 0
    BY <1>1, <2>1
  <2> QED
    BY <2>1, <2>2, <2>3, <2>4
<1> QED
  BY <1>2, <1>3 DEF Answered

-----------------------------------------------------------------------------
(* What the steps do to the cache, to the jobs and to the form. *)

\* A fetch begins of some entries without one, among them all that appear on
\* the screen.
Moved ==
    /\ UNCHANGED <<clock, saved, missed>>
    /\ queries' = [x \in Keys |-> queries'[x]]
    /\ \A x \in Keys :
          \/ /\ queries'[x] = queries[x]
             /\ x \in OnScreen(url') =>
                   x \in OnScreen(url) \/ queries[x].asked # 0
          \/ /\ queries[x].asked = 0
             /\ queries'[x] = Fetched(queries[x], clock)
    /\ overtaken' = {x \in overtaken : queries'[x] = queries[x]}

\* Data from which a form is filled is known to be behind, or is not.
FillsKnow ==
    \A i \in Ids :
        /\ i \notin missed /\ ~Awaited(i)
        /\ ~queries'[i].err /\ queries'[i].data # 0
        /\ jobs'["edit"].phase # "settling"
        => saved'[i] <= queries'[i].data

\* Another URL begins some fetches and restarts none.
LEMMA GoMoves ==
    ASSUME IInv, NEW u, Go(u), UNCHANGED <<clock, saved, missed>>
    PROVE  Moved
<1>1. ASSUME NEW x \in Keys
      PROVE  \/ /\ queries'[x] = queries[x]
                /\ x \in OnScreen(url') =>
                      x \in OnScreen(url) \/ queries[x].asked # 0
             \/ /\ queries[x].asked = 0
                /\ queries'[x] = Fetched(queries[x], clock)
  <2>1. queries[x] \in Entries(MaxClock)
    BY DEF IInv, RecTypeOK
  <2>2. CASE x \in Starting(url, u)
    <3>1. queries'[x] = Watched(queries[x], clock)
      BY <2>2 DEF Go
    <3> QED
      BY <2>1, <3>1, AskedEntry
  <2>3. CASE x \notin Starting(url, u)
    BY <2>3 DEF Go, Starting
  <2> QED
    BY <2>2, <2>3
<1> QED
  BY <1>1 DEF Moved, Go

\* The entries go on reflecting the saves they have to reflect.
LEMMA MovedKeeps ==
    ASSUME IInv, Moved, \A x \in Keys : Awaited(x) => Awaited(x)'
    PROVE  /\ queries' \in [Keys -> Entries(MaxClock)]
           /\ overtaken' \subseteq missed'
           /\ CacheInv' /\ FillsKnow
<1>1. /\ clock \in 1..MaxClock /\ queries \in [Keys -> Entries(MaxClock)]
      /\ saved \in [Ids -> 0..MaxClock] /\ overtaken \subseteq missed
  BY DEF IInv, RecTypeOK, Stamps
<1>2. ASSUME NEW x \in Keys
      PROVE  /\ queries'[x] \in Entries(MaxClock)
             /\ Timely(queries[x])'
             /\ queries'[x].data = queries[x].data
             /\ queries[x].err /\ queries[x].data # 0 => queries'[x].err
             /\ queries'[x].err => queries[x].err
             /\ queries'[x] = queries[x] \/ queries'[x].asked = clock
  <2>1. queries[x] \in Entries(MaxClock) /\ Timely(queries[x])
    BY <1>1 DEF IInv, CacheInv
  <2>2. CASE queries'[x] = queries[x]
    BY <2>1, <2>2 DEF Moved, Timely
  <2>3. CASE queries'[x] = Fetched(queries[x], clock)
    <3>1. /\ queries'[x] \in Entries(MaxClock)
          /\ queries'[x].data = queries[x].data /\ queries'[x].asked = clock
          /\ queries'[x].err <=> queries[x].err /\ queries[x].data # 0
      BY <1>1, <2>1, <2>3, FetchedEntry
    <3>2. Timely(queries[x])'
      BY <1>1, <2>1, <3>1 DEF Timely, Moved
    <3> QED
      BY <3>1, <3>2
  <2> QED
    BY <2>2, <2>3 DEF Moved
<1>3. ASSUME NEW x \in Keys
      PROVE  /\ LastSave(x)' = LastSave(x) /\ LastSave(x) <= clock
             /\ LastSave(x) \in 0..MaxClock
             /\ queries[x].data \in 0..MaxClock
             /\ queries[x].asked \in 0..MaxClock
             /\ queries'[x].asked \in 0..MaxClock
  BY <1>1, <1>2 DEF Moved, LastSave, Keys, IInv, CacheInv, Entries
<1>4. ASSUME NEW x \in Keys PROVE Reflects(x)'
  <2>1. Reflects(x)
    BY DEF IInv, CacheInv
  <2>2. CASE x \in missed
    <3>1. x \in missed'
      BY <2>2 DEF Moved
    <3>2. CASE queries'[x].asked = clock
      BY <1>1, <1>3, <3>1, <3>2 DEF Reflects
    <3>3. CASE /\ queries'[x] = queries[x]
               /\ x \in OnScreen(url') =>
                     x \in OnScreen(url) \/ queries[x].asked # 0
      <4>1. x \in overtaken => x \in overtaken'
        BY <3>3 DEF Moved
      <4> QED
        BY <1>3, <2>1, <2>2, <3>1, <3>3, <4>1 DEF Reflects
    <3> QED
      BY <1>1, <3>2, <3>3, FetchedEntry DEF Moved
  <2>3. CASE x \notin missed
    <3>1. x \notin missed'
      BY <2>3 DEF Moved
    <3>2. queries'[x].asked # 0 => LastSave(x) <= queries'[x].asked
      BY <1>2, <1>3, <2>1, <2>3 DEF Reflects
    <3>3. ASSUME ~queries'[x].err, queries'[x].data # 0
          PROVE  \/ LastSave(x) <= queries'[x].data
                 \/ Awaited(x)' /\ LastSave(x) <= queries'[x].asked
      BY <1>2, <1>3, <2>1, <2>3, <3>3 DEF Reflects
    <3> QED
      BY <1>3, <3>1, <3>2, <3>3 DEF Reflects
  <2> QED
    BY <2>2, <2>3
<1>5. CacheInv'
  BY <1>2, <1>3, <1>4 DEF CacheInv, Moved
<1>6. FillsKnow
  <2>1. ASSUME NEW i \in Ids, i \notin missed, ~Awaited(i),
               ~queries'[i].err, queries'[i].data # 0
        PROVE  saved'[i] <= queries'[i].data
    <3>1. i \in Keys /\ i \notin Pages
      BY RecAssumption DEF Keys
    <3>2. LastSave(i) = saved[i] /\ saved' = saved
      BY <3>1 DEF LastSave, Moved
    <3>3. Reflects(i) /\ ~queries[i].err /\ queries[i].data # 0
      BY <1>2, <2>1, <3>1 DEF IInv, CacheInv
    <3> QED
      BY <1>2, <2>1, <3>1, <3>2, <3>3 DEF Reflects
  <2> QED
    BY <2>1 DEF FillsKnow
<1>7. queries' \in [Keys -> Entries(MaxClock)]
  BY <1>2 DEF Moved
<1> QED
  BY <1>1, <1>5, <1>6, <1>7 DEF Moved

\* A form is mounted from data the screen shows, or goes on being mounted,
\* and goes with its modal.
LEMMA FormFollows ==
    ASSUME IInv, FillsKnow, queries' \in [Keys -> Entries(MaxClock)],
           url' \in Urls, url'.modal \in {"view", "edit"} => url'.id \in Ids,
           form' = Mounted(url', queries'),
           url' = url \/ url'.modal # "edit" \/ form.of \notin Ids,
           \/ jobs'["edit"].phase = "settling"
           \/ saved' = saved /\ jobs["edit"].phase # "settling"
           \/ url'.modal # "edit",
           url'.modal \in {"edit", "new"} =>
               \A k \in {"edit", "new"} : Saving(k)' => Saving(k)
    PROVE  form' \in Forms /\ FormInv'
<1>1. /\ form \in Forms /\ FormInv
      /\ NoForm \in Forms /\ NoForm.of = None /\ None # New
      /\ None \notin Ids /\ New \notin Ids
  BY RecAssumption DEF IInv, RecTypeOK, NoForm, Forms, Stamps
<1>2. ASSUME NEW i \in Ids \cup {New}, NEW at \in Stamps
      PROVE  /\ FilledFrom(i, at) \in Forms
             /\ FilledFrom(i, at).of = i /\ FilledFrom(i, at).at = at
             /\ Saving("edit") \/ Saving("new") => FilledFrom(i, at).busy
             /\ i \in missed \/ Awaited(i) => FilledFrom(i, at).behind
  BY DEF FilledFrom, NoForm, Forms, Awaited, Saving
<1>3. CASE url'.modal = "new"
  <2>1. CASE form.of = New
    <3>1. form' = form
      BY <1>3, <2>1 DEF Mounted
    <3> QED
      BY <1>1, <1>3, <2>1, <3>1 DEF FormInv
  <2>2. CASE form.of # New
    <3>1. form' = FilledFrom(New, 0)
      BY <1>3, <2>2 DEF Mounted
    <3>2. 0 \in Stamps
      BY RecAssumption DEF Stamps
    <3>3. form' \in Forms /\ form'.of = New
      BY <1>2, <3>1, <3>2
    <3>4. Saving("edit") \/ Saving("new") => form'.busy
      BY <1>2, <3>1, <3>2
    <3> QED
      BY <1>1, <1>3, <3>3, <3>4 DEF FormInv
  <2> QED
    BY <2>1, <2>2
<1>4. CASE url'.modal = "edit" /\ ~queries'[url'.id].err
                               /\ queries'[url'.id].data # 0
  <2>1. CASE form.of \in Ids
    <3>1. form' = form /\ url' = url
      BY <1>4, <2>1 DEF Mounted
    <3>2. \/ form'.behind \/ jobs'["edit"].phase = "settling"
          \/ saved'[form'.of] <= form'.at
      BY <1>1, <1>4, <2>1, <3>1 DEF FormInv
    <3> QED
      BY <1>1, <1>4, <2>1, <3>1, <3>2 DEF FormInv
  <2>2. CASE form.of \notin Ids
    <3>1. form' = FilledFrom(url'.id, queries'[url'.id].data)
      BY <1>4, <2>2 DEF Mounted
    <3>2. url'.id \in Ids /\ url'.id \in Keys
      BY <1>4 DEF Keys
    <3>3. queries'[url'.id].data \in Stamps
      BY <3>2 DEF Entries, Stamps
    <3>4. form' \in Forms /\ form'.of = url'.id
          /\ form'.at = queries'[url'.id].data
      BY <1>2, <3>1, <3>2, <3>3
    <3>5. Saving("edit") \/ Saving("new") => form'.busy
      BY <1>2, <3>1, <3>2, <3>3
    <3>6. \/ form'.behind \/ jobs'["edit"].phase = "settling"
          \/ saved'[form'.of] <= form'.at
      <4>1. CASE url'.id \in missed \/ Awaited(url'.id)
        BY <1>2, <3>1, <3>2, <3>3, <4>1
      <4>2. CASE ~(url'.id \in missed \/ Awaited(url'.id))
        BY <1>4, <3>2, <3>4, <4>2 DEF FillsKnow
      <4> QED
        BY <4>1, <4>2
    <3> QED
      BY <1>1, <1>4, <3>2, <3>4, <3>5, <3>6 DEF FormInv
  <2> QED
    BY <2>1, <2>2
<1>5. CASE ~(url'.modal = "new")
           /\ ~(url'.modal = "edit" /\ ~queries'[url'.id].err
                                    /\ queries'[url'.id].data # 0)
  <2>1. form' = NoForm
    BY <1>5 DEF Mounted
  <2> QED
    BY <1>1, <2>1 DEF FormInv
<1> QED
  BY <1>3, <1>4, <1>5

-----------------------------------------------------------------------------
(* The steps. *)

\* Moving about the screen keeps the invariant.
LEMMA MoveStep ==
    ASSUME IInv, NEW u \in Urls, u.modal \in {"view", "edit"} => u.id \in Ids,
           u.modal = "edit" => url.modal # "edit",
           Go(u), UNCHANGED <<clock, jobs, saved, missed>>
    PROVE  IInv'
<1>1. Moved
  BY GoMoves
<1>2. \A x \in Keys : Awaited(x)' <=> Awaited(x)
  BY DEF Awaited
<1>3. /\ queries' \in [Keys -> Entries(MaxClock)]
      /\ overtaken' \subseteq missed' /\ CacheInv' /\ FillsKnow
  BY <1>1, <1>2, MovedKeeps
<1>4. JobsInv'
  BY DEF IInv, JobsInv, JobAims
<1>5. form' \in Forms /\ FormInv'
  <2>1. url' = u /\ form' = Mounted(u, queries')
    BY DEF Go
  <2>2. u.modal # "edit" \/ form.of \notin Ids
    BY DEF IInv, FormInv
  <2>3. \A k \in {"edit", "new"} : Saving(k)' => Saving(k)
    BY DEF Saving
  <2> QED
    BY <1>3, <2>1, <2>2, <2>3, FormFollows
<1>6. RecTypeOK'
  BY <1>3, <1>5 DEF Go, IInv, RecTypeOK
<1> QED
  BY <1>3, <1>4, <1>5, <1>6 DEF IInv

\* A save that is sent off marks the open form.
LEMMA SendStep ==
    ASSUME IInv, NEW k \in Kinds, NEW i \in Ids \cup {None}, Send(k, i),
           ~Saving(k),
           k = "edit" => i \in Ids, k # "edit" => i = None,
           UNCHANGED <<clock, url, queries, history>>,
           form' \in Forms, form'.of = form.of, form'.at = form.at,
           form'.jumped = form.jumped, form'.behind = form.behind,
           k \in {"edit", "new"} => form'.busy = TRUE,
           k \notin {"edit", "new"} => form' = form
    PROVE  IInv'
<1> DEFINE job == [Idle EXCEPT !.phase = "sent", !.id = i]
<1>1. job \in Jobs /\ job.phase = "sent" /\ job.id = i /\ job.wait = {}
  <2>1. Idle \in Jobs /\ Idle.wait = {}
    BY RecAssumption DEF Idle, Jobs
  <2> QED
    BY <2>1 DEF Jobs
<1>2. jobs' = [jobs EXCEPT ![k] = job] /\ jobs \in [Kinds -> Jobs]
  BY DEF Send, IInv, RecTypeOK
<1>3. JobAims(k) /\ jobs[k].phase = "idle"
  BY DEF Saving, IInv, JobsInv
<1>4. RecTypeOK'
  BY <1>1, <1>2 DEF IInv, RecTypeOK, history
<1>5. ASSUME NEW x \in Keys PROVE Awaited(x)' <=> Awaited(x)
  <2>1. jobs[k].wait = {} /\ jobs'[k].wait = {}
    BY <1>1, <1>2, <1>3 DEF JobAims
  <2>2. \A j \in Kinds : jobs'[j].wait = jobs[j].wait
    BY <1>2, <2>1
  <2> QED
    BY <2>2 DEF Awaited
<1>6. CacheInv'
  BY <1>5 DEF IInv, CacheInv, Timely, Reflects, LastSave, history
<1>7. ASSUME NEW j \in Kinds PROVE JobAims(j)'
  <2>1. CASE j = k
    BY <1>1, <1>2, <2>1 DEF JobAims
  <2>2. CASE j # k
    <3>1. jobs'[j] = jobs[j]
      BY <1>2, <2>2
    <3> QED
      BY <3>1 DEF IInv, JobsInv, JobAims
  <2> QED
    BY <2>1, <2>2
<1>8. FormInv'
  <2>1. Saving("edit")' \/ Saving("new")' =>
            Saving("edit") \/ Saving("new") \/ form'.busy
    BY <1>2 DEF Saving, Kinds
  <2>2. jobs["edit"].phase = "settling" => jobs'["edit"].phase = "settling"
    BY <1>2, <1>3 DEF Kinds
  <2> QED
    BY <2>1, <2>2 DEF IInv, FormInv, history
<1> QED
  BY <1>4, <1>6, <1>7, <1>8 DEF IInv, JobsInv

\* So does everything a person does.
LEMMA PersonStep == IInv /\ Person => IInv'
<1> SUFFICES ASSUME IInv, Person PROVE IInv'
  OBVIOUS
<1>0. /\ url \in Urls /\ url.page \in Pages /\ url.id \in Ids \cup {None}
      /\ url.modal \in {"view", "edit"} => url.id \in Ids
      /\ form \in Forms /\ jobs \in [Kinds -> Jobs]
      /\ None \notin Ids /\ New \notin Ids /\ None # New
  BY RecAssumption DEF IInv, RecTypeOK, FormInv, Urls
<1>1. \A p \in Pages : Closed(p) \in Urls /\ Closed(p).modal = "none"
  BY DEF Closed, Urls
<1>2. ASSUME NEW p \in Pages, Filter(p) \/ Turn(p) PROVE IInv'
  BY <1>1, <1>2, MoveStep DEF Filter, Turn
<1>3. ASSUME NEW m \in {"view", "edit"}, NEW i \in Ids, OpenRecord(m, i)
      PROVE  IInv'
  <2>1. [page |-> url.page, modal |-> m, id |-> i] \in Urls
    BY <1>0 DEF Urls
  <2> QED
    BY <1>3, <2>1, MoveStep DEF OpenRecord
<1>4. ASSUME NEW m \in {"new", "bulk"}, OpenTool(m) PROVE IInv'
  <2>1. [page |-> url.page, modal |-> m, id |-> None] \in Urls
    BY <1>0 DEF Urls
  <2> QED
    BY <1>4, <2>1, MoveStep DEF OpenTool
<1>5. CASE EditShown
  <2>1. /\ [url EXCEPT !.modal = "edit"] \in Urls
        /\ [url EXCEPT !.modal = "edit"].id = url.id
    BY <1>0 DEF Urls
  <2> QED
    BY <1>0, <1>5, <2>1, MoveStep DEF EditShown
<1>6. CASE Close
  BY <1>0, <1>1, <1>6, MoveStep DEF Close
<1>7. ASSUME NEW i \in Ids, Jump(i) PROVE IInv'
  <2>1. /\ url' = [url EXCEPT !.id = i] /\ url' \in Urls
        /\ url'.id = i /\ url'.modal = "edit" /\ url'.page = url.page
        /\ url.modal = "edit"
    BY <1>0, <1>7 DEF Jump, Urls
  <2>2. Moved
    <3>1. /\ i \in Keys /\ queries \in [Keys -> Entries(MaxClock)]
          /\ queries' = [queries EXCEPT ![i] = Watched(@, clock)]
      BY <1>7 DEF Jump, Keys, IInv, RecTypeOK
    <3>2. ASSUME NEW x \in Keys
          PROVE  \/ /\ queries'[x] = queries[x]
                    /\ x \in OnScreen(url') =>
                          x \in OnScreen(url) \/ queries[x].asked # 0
                 \/ /\ queries[x].asked = 0
                    /\ queries'[x] = Fetched(queries[x], clock)
      <4>1. CASE x = i
        <5>1. queries'[x] = Watched(queries[x], clock)
          BY <3>1, <4>1
        <5>2. queries[x] \in Entries(MaxClock)
          BY <3>1
        <5> QED
          BY <5>1, <5>2, AskedEntry
      <4>2. CASE x # i
        <5>1. queries'[x] = queries[x]
          BY <3>1, <4>2
        <5>2. x \in OnScreen(url') => x \in OnScreen(url)
          BY <2>1, <4>2 DEF OnScreen
        <5> QED
          BY <5>1, <5>2
      <4> QED
        BY <4>1, <4>2
    <3>3. queries' = [x \in Keys |-> queries'[x]]
      BY <3>1
    <3> QED
      BY <1>7, <3>2, <3>3 DEF Moved, Jump
  <2>3. \A x \in Keys : Awaited(x)' <=> Awaited(x)
    BY <1>7 DEF Jump, Awaited
  <2>4. /\ queries' \in [Keys -> Entries(MaxClock)]
        /\ overtaken' \subseteq missed' /\ CacheInv' /\ FillsKnow
    BY <2>2, <2>3, MovedKeeps
  <2>5. form' \in Forms /\ FormInv'
    <3>1. CASE form.of \notin Ids
      BY <1>7, <2>1, <2>4, <3>1, FormFollows DEF Jump, Saving
    <3>2. CASE form.of \in Ids /\ Mounted(url', queries').of = None
      <4>1. Mounted(url', queries') = NoForm
        BY <1>0, <2>1, <3>2 DEF Mounted
      <4>2. form' = NoForm
        BY <1>7, <3>2, <4>1 DEF Jump
      <4> QED
        BY <1>0, <2>1, <4>2, RecAssumption
           DEF NoForm, Forms, Stamps, FormInv
    <3>3. CASE form.of \in Ids /\ Mounted(url', queries').of # None
      <4>1. form' = [form EXCEPT !.jumped = TRUE]
        BY <1>7, <3>3 DEF Jump
      <4>2. ~queries'[i].err /\ queries'[i].data # 0
        BY <2>1, <3>3 DEF Mounted, NoForm
      <4>3. /\ form' \in Forms /\ form'.of = form.of /\ form'.at = form.at
            /\ form'.jumped /\ form'.busy = form.busy
            /\ form'.behind = form.behind
        BY <1>0, <4>1 DEF Forms
      <4> QED
        BY <1>0, <1>7, <2>1, <3>3, <4>2, <4>3
           DEF Jump, Saving, IInv, FormInv
    <3> QED
      BY <3>1, <3>2, <3>3
  <2>6. RecTypeOK'
    BY <1>7, <2>1, <2>4, <2>5 DEF Jump, IInv, RecTypeOK
  <2>7. JobsInv'
    BY <1>7 DEF Jump, IInv, JobsInv, JobAims
  <2> QED
    BY <2>4, <2>5, <2>6, <2>7 DEF IInv
<1>8. CASE SubmitEdit
  <2>1. url.id \in Ids
    BY <1>8 DEF SubmitEdit, IInv, FormInv
  <2>2. form' = [form EXCEPT !.busy = TRUE]
    BY <1>8 DEF SubmitEdit
  <2>3. /\ form' \in Forms /\ form'.of = form.of /\ form'.at = form.at
        /\ form'.jumped = form.jumped /\ form'.busy = TRUE
        /\ form'.behind = form.behind
    BY <1>0, <2>2 DEF Forms
  <2>4. /\ Send("edit", url.id) /\ "edit" \in Kinds /\ ~Saving("edit")
        /\ UNCHANGED <<clock, url, queries, history>>
    BY <1>8 DEF SubmitEdit, Kinds
  <2> QED
    BY <2>1, <2>3, <2>4, SendStep
<1>9. CASE SubmitNew
  <2>1. form' = [form EXCEPT !.busy = TRUE]
    BY <1>9 DEF SubmitNew
  <2>2. /\ form' \in Forms /\ form'.of = form.of /\ form'.at = form.at
        /\ form'.jumped = form.jumped /\ form'.busy = TRUE
        /\ form'.behind = form.behind
    BY <1>0, <2>1 DEF Forms
  <2>3. /\ Send("new", None) /\ "new" \in Kinds /\ ~Saving("new")
        /\ UNCHANGED <<clock, url, queries, history>>
    BY <1>9 DEF SubmitNew, Kinds
  <2> QED
    BY <2>2, <2>3, SendStep
<1>10. CASE Delete \/ Import
  BY <1>0, <1>10, SendStep DEF Delete, Import, Kinds
<1> QED
  BY <1>2, <1>3, <1>4, <1>5, <1>6, <1>7, <1>8, <1>9, <1>10 DEF Person

\* A save that comes to nothing.
LEMMA RefuseStep ==
    ASSUME IInv, NEW k \in Kinds, Refuse(k)
    PROVE  IInv'
<1>1. /\ Idle \in Jobs /\ Idle.phase = "idle" /\ Idle.id = None
      /\ Idle.wait = {}
  BY RecAssumption DEF Idle, Jobs
<1>2. jobs' = [jobs EXCEPT ![k] = Idle] /\ jobs \in [Kinds -> Jobs]
  BY DEF Refuse, IInv, RecTypeOK
<1>3. jobs[k].phase = "sent" /\ jobs[k].wait = {}
  BY DEF Refuse, IInv, JobsInv, JobAims
<1>4. RecTypeOK'
  BY <1>1, <1>2 DEF Refuse, IInv, RecTypeOK, history
<1>5. ASSUME NEW x \in Keys PROVE Awaited(x)' <=> Awaited(x)
  <2>1. \A j \in Kinds : jobs'[j].wait = jobs[j].wait
    BY <1>1, <1>2, <1>3
  <2> QED
    BY <2>1 DEF Awaited
<1>6. CacheInv'
  BY <1>5 DEF Refuse, IInv, CacheInv, Timely, Reflects, LastSave, history
<1>7. ASSUME NEW j \in Kinds PROVE JobAims(j)'
  <2>1. jobs'[j] = jobs[j] \/ (j = k /\ jobs'[j] = Idle)
    BY <1>2
  <2> QED
    BY <1>1, <2>1 DEF IInv, JobsInv, JobAims
<1>8. FormInv'
  <2>1. Saving("edit")' \/ Saving("new")' => Saving("edit") \/ Saving("new")
    BY <1>1, <1>2 DEF Saving, Kinds
  <2>2. jobs["edit"].phase = "settling" => jobs'["edit"].phase = "settling"
    BY <1>2, <1>3 DEF Kinds
  <2> QED
    BY <2>1, <2>2 DEF Refuse, IInv, FormInv, history
<1> QED
  BY <1>4, <1>6, <1>7, <1>8 DEF IInv, JobsInv

\* A save is answered: what is on the screen is asked for again, and whoever
\* waits for a fetch that is abandoned by that waits no more.
LEMMA AcknowledgeStep ==
    ASSUME IInv, NEW k \in Kinds, Acknowledge(k)
    PROVE  IInv'
<1> DEFINE here == OnScreen(url)
           anew == {x \in here : Restarts(queries[x])}
           due == Pages \cup (Ids \cap {jobs[k].id})
           now == clock + 1
<1>0. /\ clock \in 1..MaxClock /\ queries \in [Keys -> Entries(MaxClock)]
      /\ jobs \in [Kinds -> Jobs] /\ url \in Urls
      /\ saved \in [Ids -> 0..MaxClock]
      /\ overtaken \subseteq missed /\ missed \subseteq Keys
  BY DEF IInv, RecTypeOK, Stamps
<1>1. /\ clock < MaxClock /\ clock' = now /\ now \in 1..MaxClock
      /\ url' = url /\ form' = Mounted(url, queries')
      /\ jobs[k].phase = "sent"
  <2>1. /\ clock < MaxClock /\ clock' = now /\ jobs[k].phase = "sent"
    BY DEF Acknowledge
  <2>2. url' = url /\ form' = Mounted(url, queries')
    BY DEF Acknowledge
  <2> QED
    BY <1>0, <2>1, <2>2, RecAssumption
<1>2. /\ here \subseteq Keys /\ anew \subseteq here /\ due \subseteq Keys
      /\ saved' = [i \in Ids |-> IF i \in due THEN now ELSE saved[i]]
      /\ missed' = (missed \ (due \cap anew)) \cup ((due \ anew) \cap InUse)
      /\ overtaken' = (overtaken \ anew)
                        \cup {x \in due \ anew : queries[x].asked # 0}
  BY <1>0 DEF OnScreen, Keys, IInv, FormInv, Urls, Acknowledge
<1>3. ASSUME NEW x \in Keys
      PROVE  /\ queries'[x] \in Entries(MaxClock)
             /\ queries'[x].data = queries[x].data
             /\ Timely(queries[x])'
             /\ queries[x].err /\ queries[x].data # 0 => queries'[x].err
             /\ IF x \in anew THEN queries'[x].asked = now
                ELSE queries'[x] = queries[x]
             /\ x \in here \ anew => queries[x].asked # 0
  <2>1. /\ queries[x] \in Entries(MaxClock) /\ Timely(queries[x])
        /\ queries[x].data <= now /\ queries[x].asked <= now
    BY <1>0 DEF IInv, CacheInv, Timely, Entries
  <2>2. CASE x \in anew
    <3>1. queries'[x] = Fetched(queries[x], now)
      BY <1>1, <2>1, <2>2, AskedEntry DEF Acknowledge
    <3>2. /\ queries'[x] \in Entries(MaxClock)
          /\ queries'[x].data = queries[x].data /\ queries'[x].asked = now
          /\ queries'[x].err <=> queries[x].err /\ queries[x].data # 0
      BY <1>1, <2>1, <3>1, FetchedEntry
    <3>3. Timely(queries[x])'
      BY <1>0, <1>1, <2>1, <3>2 DEF Timely
    <3> QED
      BY <1>0, <2>2, <3>2, <3>3
  <2>3. CASE x \notin anew
    <3>1. queries'[x] = queries[x] /\ (x \in here => queries[x].asked # 0)
      BY <2>1, <2>3, AskedEntry DEF Acknowledge
    <3>2. Timely(queries[x])'
      BY <1>0, <1>1, <2>1, <3>1 DEF Timely, Entries
    <3> QED
      BY <2>1, <2>3, <3>1, <3>2
  <2> QED
    BY <2>2, <2>3
<1>4. queries' \in [Keys -> Entries(MaxClock)]
  BY <1>3 DEF Acknowledge
<1>5. ASSUME NEW j \in Kinds
      PROVE  /\ jobs'[j] \in Jobs /\ JobAims(j)'
             /\ IF j = k
                THEN jobs'[j].phase = "settling" /\ jobs'[j].wait = here
                ELSE /\ jobs'[j].phase = jobs[j].phase
                     /\ jobs'[j].wait = jobs[j].wait \ anew
  <2>1. jobs[j] \in Jobs /\ JobAims(j)
    BY <1>0 DEF IInv, JobsInv
  <2>2. CASE j = k
    <3> DEFINE page == IF k \in {"edit", "new"} THEN url.page ELSE None
    <3>1. jobs'[j] = [phase |-> "settling", id |-> jobs[k].id,
                      page |-> page, wait |-> here]
      BY <1>0, <2>2 DEF Acknowledge
    <3>2. /\ page \in Pages \cup {None}
          /\ k \in {"edit", "new"} => page \in Pages
      BY <1>0 DEF Urls
    <3>3. /\ jobs'[j] \in Jobs /\ jobs'[j].phase = "settling"
          /\ jobs'[j].page = page /\ jobs'[j].wait = here
          /\ jobs'[j].id = jobs[k].id
      BY <1>2, <2>1, <2>2, <3>1, <3>2 DEF Jobs
    <3>4. JobAims(j)'
      BY <1>1, <2>1, <2>2, <3>2, <3>3 DEF JobAims
    <3> QED
      BY <2>2, <3>3, <3>4
  <2>3. CASE j # k
    <3>1. jobs'[j] = [jobs[j] EXCEPT !.wait = @ \ anew]
      BY <1>0, <2>3 DEF Acknowledge
    <3>2. /\ jobs'[j] \in Jobs /\ jobs'[j].phase = jobs[j].phase
          /\ jobs'[j].id = jobs[j].id /\ jobs'[j].page = jobs[j].page
          /\ jobs'[j].wait = jobs[j].wait \ anew
      BY <2>1, <3>1 DEF Jobs
    <3>3. JobAims(j)'
      BY <2>1, <3>2 DEF JobAims
    <3> QED
      BY <2>3, <3>2, <3>3
  <2> QED
    BY <2>2, <2>3
<1>6. ASSUME NEW x \in Keys
      PROVE  /\ x \in here => Awaited(x)'
             /\ Awaited(x) => Awaited(x)'
  <2>1. x \in here => Awaited(x)'
    BY <1>5 DEF Awaited
  <2>2. ASSUME x \notin here, NEW j \in Kinds, x \in jobs[j].wait
        PROVE  x \in jobs'[j].wait
    <3>1. jobs[k].wait = {}
      BY <1>1 DEF IInv, JobsInv, JobAims
    <3> QED
      BY <1>2, <1>5, <2>2, <3>1
  <2> QED
    BY <2>1, <2>2 DEF Awaited
<1>7. ASSUME NEW x \in Keys
      PROVE  /\ LastSave(x)' = IF x \in due THEN now ELSE LastSave(x)
             /\ LastSave(x)' <= now
             /\ LastSave(x) \in 0..MaxClock /\ LastSave(x) <= clock
  <2>1. LastSave(x) \in 0..MaxClock /\ LastSave(x) <= clock
    BY <1>0 DEF LastSave, Keys, IInv, CacheInv
  <2>2. CASE x \in Pages
    BY <1>1, <2>1, <2>2 DEF LastSave
  <2>3. CASE x \notin Pages
    <3>1. x \in Ids /\ LastSave(x)' = saved'[x] /\ LastSave(x) = saved[x]
      BY <2>3 DEF LastSave, Keys
    <3> QED
      BY <1>0, <1>2, <2>1, <3>1
  <2> QED
    BY <2>2, <2>3
<1>8. ASSUME NEW x \in Keys PROVE Reflects(x)'
  <2>0. /\ Reflects(x) /\ queries[x] \in Entries(MaxClock)
        /\ queries'[x].asked \in 0..MaxClock
        /\ queries[x].data \in 0..MaxClock /\ queries[x].asked \in 0..MaxClock
    BY <1>0, <1>3 DEF IInv, CacheInv, Entries
  <2>1. CASE x \in anew
    <3>1. /\ queries'[x].asked = now /\ LastSave(x)' <= queries'[x].asked
          /\ queries'[x].data = queries[x].data /\ Awaited(x)'
      BY <1>2, <1>3, <1>6, <1>7, <2>1
    <3> QED
      BY <3>1 DEF Reflects
  <2>2. CASE x \in due \ anew
    <3>1. /\ queries'[x] = queries[x]
          /\ x \in here => queries[x].asked # 0
          /\ queries[x].asked # 0 => x \in overtaken'
      BY <1>2, <1>3, <2>2
    <3>2. CASE x \in InUse
      <4>1. x \in missed'
        BY <1>2, <2>2, <3>2
      <4> QED
        BY <1>1, <3>1, <4>1 DEF Reflects
    <3>3. CASE x \notin InUse
      <4>1. queries'[x].asked = 0 /\ queries'[x].data = 0
        BY <3>1, <3>3 DEF InUse, Empty
      <4> QED
        BY <1>1, <4>1 DEF Reflects
    <3> QED
      BY <3>2, <3>3
  <2>3. CASE x \notin due /\ x \notin anew
    <3>1. /\ queries'[x] = queries[x] /\ LastSave(x)' = LastSave(x)
          /\ x \in missed' <=> x \in missed
          /\ x \in overtaken' <=> x \in overtaken
          /\ Awaited(x) => Awaited(x)'
      BY <1>2, <1>3, <1>6, <1>7, <2>3
    <3> QED
      BY <1>1, <2>0, <3>1 DEF Reflects
  <2> QED
    BY <2>1, <2>2, <2>3
<1>9. CacheInv'
  BY <1>1, <1>3, <1>7, <1>8 DEF CacheInv
<1>10. FillsKnow
  <2>1. ASSUME NEW i \in Ids, i \notin missed, ~Awaited(i),
               ~queries'[i].err, queries'[i].data # 0,
               jobs'["edit"].phase # "settling"
        PROVE  saved'[i] <= queries'[i].data
    <3>1. i \in Keys /\ i \notin Pages
      BY RecAssumption DEF Keys
    <3>2. k # "edit" /\ jobs[k].id = None
      BY <1>5, <2>1 DEF IInv, JobsInv, JobAims, Kinds
    <3>3. saved'[i] = LastSave(i)
      BY <1>2, <3>1, <3>2, RecAssumption DEF LastSave
    <3>4. Reflects(i) /\ ~queries[i].err /\ queries[i].data # 0
      BY <1>3, <2>1, <3>1 DEF IInv, CacheInv
    <3> QED
      BY <1>3, <2>1, <3>1, <3>3, <3>4 DEF Reflects
  <2> QED
    BY <2>1 DEF FillsKnow
<1>11. form' \in Forms /\ FormInv'
  <2>1. url.modal \in {"view", "edit"} => url.id \in Ids
    BY DEF IInv, FormInv
  <2>2. \A j \in {"edit", "new"} : Saving(j)' => Saving(j)
    <3>1. jobs[k].phase # "idle"
      BY <1>1
    <3> QED
      BY <1>5, <3>1 DEF Saving, Kinds
  <2>3. \/ jobs'["edit"].phase = "settling"
        \/ saved' = saved /\ jobs["edit"].phase # "settling"
    <3>1. CASE k = "edit"
      BY <1>5, <3>1
    <3>2. CASE k # "edit"
      <4>1. jobs[k].id = None
        BY <3>2 DEF IInv, JobsInv, JobAims
      <4>2. saved' = saved
        BY <1>0, <1>2, <4>1, RecAssumption
      <4> QED
        BY <1>5, <3>2, <4>2 DEF Kinds
    <3> QED
      BY <3>1, <3>2
  <2> QED
    BY <1>0, <1>1, <1>4, <1>10, <2>1, <2>2, <2>3, FormFollows
<1>12. RecTypeOK'
  <2>1. jobs' \in [Kinds -> Jobs]
    BY <1>5 DEF Acknowledge
  <2>2. saved' \in [Ids -> 0..MaxClock]
    BY <1>0, <1>1, <1>2
  <2>3. overtaken' \subseteq missed' /\ missed' \subseteq Keys
    <3>1. ASSUME NEW x \in due \ anew, queries[x].asked # 0 PROVE x \in InUse
      BY <1>2, <3>1 DEF InUse, Empty
    <3> QED
      BY <1>0, <1>2, <3>1
  <2> QED
    BY <1>0, <1>1, <1>4, <1>11, <2>1, <2>2, <2>3 DEF RecTypeOK, Stamps
<1> QED
  BY <1>5, <1>9, <1>11, <1>12 DEF IInv, JobsInv

\* A save has settled: nobody waits for its refetches any more.
LEMMA SettleStep ==
    ASSUME IInv, NEW k \in Kinds, Settle(k)
    PROVE  IInv'
<1> DEFINE job == jobs[k]
<1>0. /\ jobs \in [Kinds -> Jobs] /\ job \in Jobs /\ url \in Urls
      /\ form \in Forms /\ None \notin Ids
      /\ queries \in [Keys -> Entries(MaxClock)]
      /\ overtaken \subseteq missed /\ missed \subseteq Keys
  BY RecAssumption DEF IInv, RecTypeOK
<1>1. /\ job.phase = "settling" /\ job.wait = {}
      /\ UNCHANGED <<clock, saved, missed>>
      /\ jobs' = [jobs EXCEPT ![k] = Idle]
  BY DEF Settle
<1>2. JobAims(k) /\ Idle.phase = "idle" /\ Idle.id = None /\ Idle.wait = {}
  BY DEF IInv, JobsInv, Idle
<1>3. Moved
  <2>1. CASE k \in {"edit", "new"}
    <3>1. \E u \in {[page |-> job.page, modal |-> "view", id |-> job.id],
                    Closed(job.page)} : Go(u)
      BY <2>1 DEF Settle
    <3> QED
      BY <1>1, <3>1, GoMoves
  <2>2. CASE k \notin {"edit", "new"}
    <3>1. UNCHANGED <<url, queries, overtaken>>
      BY <2>2 DEF Settle
    <3>2. queries' = [x \in Keys |-> queries'[x]]
      BY <1>0, <3>1
    <3>3. overtaken' = {x \in overtaken : queries'[x] = queries[x]}
      BY <3>1
    <3> QED
      BY <1>1, <3>1, <3>2, <3>3 DEF Moved
  <2> QED
    BY <2>1, <2>2
<1>4. ASSUME NEW x \in Keys PROVE Awaited(x)' <=> Awaited(x)
  <2>1. \A j \in Kinds : jobs'[j].wait = jobs[j].wait
    BY <1>0, <1>1, <1>2
  <2> QED
    BY <2>1 DEF Awaited
<1>5. /\ queries' \in [Keys -> Entries(MaxClock)]
      /\ overtaken' \subseteq missed' /\ CacheInv'
  BY <1>3, <1>4, MovedKeeps
<1>6. ASSUME NEW j \in Kinds PROVE JobAims(j)'
  <2>1. jobs'[j] = jobs[j] \/ (j = k /\ jobs'[j] = Idle)
    BY <1>0, <1>1
  <2> QED
    BY <1>2, <2>1 DEF IInv, JobsInv, JobAims
<1>7. Idle \in Jobs /\ jobs' \in [Kinds -> Jobs]
  BY <1>0, <1>1, RecAssumption DEF Idle, Jobs
<1>8. url' \in Urls /\ form' \in Forms /\ FormInv'
  <2>1. CASE k \in {"edit", "new"}
    <3>1. PICK u \in {[page |-> job.page, modal |-> "view", id |-> job.id],
                      Closed(job.page)} :
             Go(u) /\ (u.modal = "view" => k = "edit")
      BY <2>1 DEF Settle, Closed
    <3>2. job.page \in Pages /\ (k = "edit" => job.id \in Ids)
      BY <1>1, <1>2, <2>1 DEF JobAims
    <3>3. /\ u \in Urls /\ u.modal \in {"none", "view"}
          /\ u.modal = "view" => u.id \in Ids
      BY <1>0, <3>1, <3>2 DEF Urls, Closed, Jobs
    <3>4. /\ url' = u /\ form' = Mounted(u, queries')
      BY <3>1 DEF Go
    <3>5. form' = NoForm
      BY <3>3, <3>4 DEF Mounted
    <3>6. NoForm \in Forms /\ NoForm.of = None /\ None # New
      BY RecAssumption DEF NoForm, Forms, Stamps
    <3> QED
      BY <1>0, <3>3, <3>4, <3>5, <3>6 DEF FormInv
  <2>2. CASE k \notin {"edit", "new"}
    <3>1. UNCHANGED <<url, queries, form>>
      BY <2>2 DEF Settle
    <3>2. \A j \in {"edit", "new"} : jobs'[j] = jobs[j]
      BY <1>0, <1>1, <2>2 DEF Kinds
    <3> QED
      BY <1>0, <1>1, <3>1, <3>2 DEF IInv, FormInv, Saving
  <2> QED
    BY <2>1, <2>2
<1>9. RecTypeOK'
  BY <1>1, <1>5, <1>7, <1>8 DEF IInv, RecTypeOK
<1> QED
  BY <1>5, <1>6, <1>8, <1>9 DEF IInv, JobsInv

\* An answer arrives.
LEMMA DeliverStep ==
    ASSUME IInv, NEW x \in Keys, Deliver(x)
    PROVE  IInv'
<1>0. /\ clock \in 1..MaxClock /\ queries \in [Keys -> Entries(MaxClock)]
      /\ jobs \in [Kinds -> Jobs] /\ url \in Urls
      /\ saved \in [Ids -> 0..MaxClock]
      /\ overtaken \subseteq missed /\ missed \subseteq Keys
  BY DEF IInv, RecTypeOK, Stamps
<1>1. PICK q \in Answered(queries[x], clock) :
        queries' = [queries EXCEPT ![x] = q]
  BY DEF Deliver
<1>2. /\ queries[x].asked # 0 /\ url' = url /\ saved' = saved /\ clock' = clock
      /\ jobs' = [j \in Kinds |-> [jobs[j] EXCEPT !.wait = @ \ {x}]]
      /\ form' = Mounted(url, queries')
      /\ missed' = {y \in missed : queries'[y].data < LastSave(y)}
      /\ overtaken' = overtaken \cap missed'
  BY DEF Deliver
<1>3. /\ queries[x] \in Entries(MaxClock) /\ Timely(queries[x])
  BY <1>0 DEF IInv, CacheInv
<1>4. /\ q \in Entries(MaxClock)
      /\ q.asked = 0 /\ queries[x].data <= q.data /\ q.data <= clock
      /\ q.err \/ queries[x].asked <= q.data
  BY <1>0, <1>2, <1>3, AnsweredEntry DEF Timely
<1>5. /\ queries' \in [Keys -> Entries(MaxClock)] /\ queries'[x] = q
      /\ \A y \in Keys \ {x} : queries'[y] = queries[y]
  BY <1>0, <1>1, <1>4
<1>6. ASSUME NEW j \in Kinds
      PROVE  /\ jobs'[j] \in Jobs /\ JobAims(j)'
             /\ jobs'[j].phase = jobs[j].phase
             /\ jobs'[j].wait = jobs[j].wait \ {x}
  <2>1. jobs[j] \in Jobs /\ JobAims(j)
    BY <1>0 DEF IInv, JobsInv
  <2>2. jobs'[j] = [jobs[j] EXCEPT !.wait = @ \ {x}]
    BY <1>2
  <2>3. /\ jobs'[j] \in Jobs /\ jobs'[j].phase = jobs[j].phase
        /\ jobs'[j].id = jobs[j].id /\ jobs'[j].page = jobs[j].page
        /\ jobs'[j].wait = jobs[j].wait \ {x}
    BY <2>1, <2>2 DEF Jobs
  <2> QED
    BY <2>1, <2>3 DEF JobAims
<1>7. ASSUME NEW y \in Keys
      PROVE  /\ LastSave(y)' = LastSave(y) /\ LastSave(y) <= clock
             /\ LastSave(y) \in 0..MaxClock
             /\ queries[y] \in Entries(MaxClock) /\ Timely(queries[y])
             /\ queries[y].data \in 0..MaxClock
             /\ queries[y].asked \in 0..MaxClock
             /\ queries'[y].data \in 0..MaxClock
             /\ Reflects(y)
  BY <1>0, <1>2, <1>5 DEF LastSave, Keys, IInv, CacheInv, Entries
<1>8. ASSUME NEW y \in Keys PROVE Reflects(y)' /\ Timely(queries[y])'
  <2>1. CASE y = x
    <3>1. Timely(queries[x])'
      BY <1>0, <1>2, <1>3, <1>4, <1>5 DEF Timely, Entries
    <3>2. CASE x \in missed
      <4>1. CASE x \in missed'
        <5>1. q.data < LastSave(x) /\ LastSave(x)' = LastSave(x)
          BY <1>2, <1>5, <1>7, <4>1
        <5>2. q.err \/ x \in overtaken'
          BY <1>2, <1>3, <1>4, <1>7, <3>2, <4>1, <5>1 DEF Reflects, Entries
        <5> QED
          BY <1>4, <1>5, <2>1, <3>1, <4>1, <5>2 DEF Reflects
      <4>2. CASE x \notin missed'
        <5>1. LastSave(x) <= q.data
          BY <1>2, <1>4, <1>5, <1>7, <3>2, <4>2
        <5> QED
          BY <1>4, <1>5, <1>7, <2>1, <3>1, <4>2, <5>1 DEF Reflects
      <4> QED
        BY <4>1, <4>2
    <3>3. CASE x \notin missed
      <4>1. x \notin missed' /\ LastSave(x) <= queries[x].asked
        BY <1>2, <1>7, <3>3 DEF Reflects
      <4>2. q.err \/ LastSave(x) <= q.data
        BY <1>4, <1>5, <1>7, <4>1
      <4> QED
        BY <1>4, <1>5, <1>7, <2>1, <3>1, <4>1, <4>2 DEF Reflects
    <3> QED
      BY <3>2, <3>3
  <2>2. CASE y # x
    <3>1. queries'[y] = queries[y] /\ (Awaited(y)' <=> Awaited(y))
      BY <1>5, <1>6, <2>2 DEF Awaited
    <3>2. Timely(queries[y])'
      BY <1>2, <1>7, <3>1 DEF Timely
    <3>3. CASE y \in missed /\ y \notin missed'
      <4>1. LastSave(y) <= queries[y].data
        BY <1>2, <1>7, <3>1, <3>3
      <4>2. queries[y].asked # 0 => queries[y].data <= queries[y].asked
        BY <1>7 DEF Timely
      <4> QED
        BY <1>7, <3>1, <3>2, <3>3, <4>1, <4>2 DEF Reflects
    <3>4. CASE y \notin missed
      <4>1. y \notin missed'
        BY <1>2, <3>4
      <4> QED
        BY <1>7, <3>1, <3>2, <3>4, <4>1 DEF Reflects
    <3>5. CASE y \in missed /\ y \in missed'
      <4>1. y \in overtaken => y \in overtaken'
        BY <1>2, <3>5
      <4> QED
        BY <1>2, <1>7, <3>1, <3>2, <3>5, <4>1 DEF Reflects
    <3> QED
      BY <3>3, <3>4, <3>5
  <2> QED
    BY <2>1, <2>2
<1>9. CacheInv'
  BY <1>2, <1>7, <1>8 DEF CacheInv
<1>10. FillsKnow
  <2>1. ASSUME NEW i \in Ids, i \notin missed, ~Awaited(i),
               ~queries'[i].err, queries'[i].data # 0
        PROVE  saved'[i] <= queries'[i].data
    <3>1. i \in Keys /\ LastSave(i) = saved[i]
      BY RecAssumption DEF Keys, LastSave
    <3>2. CASE i = x
      <4>1. LastSave(i) <= queries[i].asked
        BY <1>2, <1>7, <2>1, <3>1, <3>2 DEF Reflects
      <4>2. queries[i].asked <= queries'[i].data
        BY <1>4, <1>5, <2>1, <3>2
      <4> QED
        BY <1>2, <1>7, <3>1, <4>1, <4>2
    <3>3. CASE i # x
      <4>1. queries'[i] = queries[i] /\ Reflects(i)
        BY <1>5, <1>7, <3>1, <3>3
      <4> QED
        BY <1>2, <2>1, <3>1, <4>1 DEF Reflects
    <3> QED
      BY <3>2, <3>3
  <2> QED
    BY <2>1 DEF FillsKnow
<1>11. form' \in Forms /\ FormInv'
  <2>1. url.modal \in {"view", "edit"} => url.id \in Ids
    BY DEF IInv, FormInv
  <2>2. /\ \A j \in {"edit", "new"} : Saving(j)' => Saving(j)
        /\ jobs'["edit"].phase = jobs["edit"].phase
    BY <1>6 DEF Saving, Kinds
  <2> QED
    BY <1>0, <1>2, <1>5, <1>10, <2>1, <2>2, FormFollows
<1>12. RecTypeOK'
  <2>1. jobs' \in [Kinds -> Jobs]
    BY <1>2, <1>6
  <2>2. overtaken' \subseteq missed' /\ missed' \subseteq Keys
    BY <1>0, <1>2
  <2> QED
    BY <1>0, <1>2, <1>5, <1>11, <2>1, <2>2 DEF RecTypeOK, Stamps
<1> QED
  BY <1>6, <1>9, <1>11, <1>12 DEF IInv, JobsInv

\* The screen is opened.
LEMMA InitIInv == RecInit => IInv
<1> SUFFICES ASSUME RecInit PROVE IInv
  OBVIOUS
<1>1. PICK p \in Pages :
         /\ clock = 1 /\ url = Closed(p)
         /\ queries = [[k \in Keys |-> Empty] EXCEPT ![p] = Fetched(Empty, 1)]
         /\ form = NoForm /\ jobs = [k \in Kinds |-> Idle]
         /\ saved = [i \in Ids |-> 0] /\ missed = {} /\ overtaken = {}
  BY DEF RecInit
<1>2. /\ Empty \in Entries(MaxClock) /\ 1 \in 1..MaxClock /\ 0 \in Stamps
      /\ Empty.data = 0 /\ Empty.asked = 0
  BY RecAssumption DEF Empty, Entries, Stamps
<1>3. /\ Fetched(Empty, 1) \in Entries(MaxClock)
      /\ Fetched(Empty, 1).data = 0 /\ Fetched(Empty, 1).asked = 1
  BY <1>2, FetchedEntry
<1>4. ASSUME NEW x \in Keys
      PROVE  queries[x] \in {Empty, Fetched(Empty, 1)}
  BY <1>1
<1>5. queries \in [Keys -> Entries(MaxClock)]
  BY <1>1, <1>2, <1>3
<1>6. /\ Idle \in Jobs /\ Idle.phase = "idle" /\ Idle.id = None
      /\ Idle.wait = {}
      /\ NoForm \in Forms /\ NoForm.of = None
      /\ Closed(p) \in Urls /\ Closed(p).modal = "none"
  BY <1>2 DEF Idle, Jobs, NoForm, Forms, Closed, Urls
<1>7. RecTypeOK
  BY <1>1, <1>2, <1>5, <1>6 DEF RecTypeOK
<1>8. CacheInv
  <2>1. ASSUME NEW x \in Keys
        PROVE  /\ Timely(queries[x]) /\ LastSave(x) <= clock
               /\ Reflects(x)
    <3>1. LastSave(x) \in {0, 1}
      BY <1>1 DEF LastSave, Keys
    <3>2. Timely(queries[x])
      BY <1>1, <1>2, <1>3, <1>4 DEF Timely
    <3>3. queries[x].data = 0 /\ queries[x].asked \in {0, 1}
      BY <1>2, <1>3, <1>4
    <3>4. Reflects(x)
      BY <1>1, <3>1, <3>3 DEF Reflects
    <3> QED
      BY <1>1, <3>1, <3>2, <3>4
  <2> QED
    BY <2>1 DEF CacheInv
<1>9. JobsInv /\ FormInv
  <2>1. ASSUME NEW k \in Kinds PROVE JobAims(k)
    <3>1. jobs[k] = Idle
      BY <1>1
    <3> QED
      BY <1>6, <3>1 DEF JobAims
  <2> QED
    BY <1>1, <1>6, <2>1, RecAssumption DEF JobsInv, FormInv
<1> QED
  BY <1>7, <1>8, <1>9 DEF IInv

LEMMA NextIInv == IInv /\ [RecNext]_recVars => IInv'
<1>1. ASSUME IInv, RecNext PROVE IInv'
  BY <1>1, PersonStep, RefuseStep, AcknowledgeStep, SettleStep, DeliverStep
     DEF RecNext, System
<1>2. ASSUME IInv, UNCHANGED recVars PROVE IInv'
  BY <1>2
     DEF recVars, history, IInv, RecTypeOK, CacheInv, Timely, Reflects,
         LastSave, Awaited, JobsInv, JobAims, FormInv, Saving
<1> QED
  BY <1>1, <1>2

\* The invariant holds in every reachable state.
LEMMA Inductive == RecSpec => []IInv
  BY InitIInv, NextIInv, PTL DEF RecSpec

-----------------------------------------------------------------------------
\* The variables keep their types, in particular a form never outlives the
\* screen it belongs to.
THEOREM TypeCorrect == RecSpec => []RecTypeOK
<1>1. IInv => RecTypeOK
  BY DEF IInv
<1> QED
  BY <1>1, Inductive, PTL

\* What a save that ran to its end wrote is on the screen, or is being fetched
\* because the save was answered while it was not; whatever other saves,
\* refetches and answers overtake the save's own.
THEOREM SavesShown == RecSpec => []OwnWritesShown
<1>1. IInv => OwnWritesShown
  <2> SUFFICES ASSUME IInv, NEW x \in OnScreen(url),
                      ~queries[x].err, queries[x].data # 0
               PROVE  \/ queries[x].data >= LastSave(x)
                      \/ /\ queries[x].asked >= LastSave(x)
                         /\ x \in missed \/ Awaited(x)
                      \/ x \in overtaken
    BY DEF OwnWritesShown
  <2>1. x \in Keys
    BY DEF OnScreen, Keys, IInv, RecTypeOK, FormInv, Urls
  <2>2. /\ queries[x].data \in 0..MaxClock /\ queries[x].asked \in 0..MaxClock
        /\ LastSave(x) \in 0..MaxClock /\ Reflects(x)
    BY <2>1, RecAssumption
       DEF IInv, RecTypeOK, CacheInv, Entries, Stamps, LastSave, Keys
  <2> QED
    BY <2>2 DEF Reflects
<1> QED
  BY <1>1, Inductive, PTL

\* A form that can be saved starts from what was saved last, unless the record
\* was away or still on its way when that save was answered.
THEOREM FormsStartFresh == RecSpec => []FormKnowsOwnSaves
<1>1. IInv => FormKnowsOwnSaves
  <2> SUFFICES ASSUME IInv, form.of \in Ids, jobs["edit"].phase # "settling",
                      ~form.behind
               PROVE  form.at >= saved[form.of]
    BY DEF FormKnowsOwnSaves
  <2>1. form.at \in 0..MaxClock /\ saved[form.of] \in 0..MaxClock
    BY DEF IInv, RecTypeOK, Forms, Stamps
  <2> QED
    BY <2>1 DEF IInv, FormInv
<1> QED
  BY <1>1, Inductive, PTL

\* The form is about the record the URL names.
THEOREM FormsBelong == RecSpec => []FormOfOpenRecord
<1>1. IInv => FormOfOpenRecord
  BY DEF IInv, FormInv, FormOfOpenRecord
<1> QED
  BY <1>1, Inductive, PTL

\* Whatever the server and the network do, a form stays on the screen and
\* what is typed in it stays, as long as no save of a form is under way.
THEOREM TypingKept == RecSpec => TypedInputKept
<1> DEFINE Kept == System /\ form.of # None /\ ~form.busy =>
                       \/ form'.of = form.of
                       \/ form.of \in Ids /\ queries[url.id]'.err
<1>1. ASSUME IInv, IInv', System, form.of # None, ~form.busy
      PROVE  \/ form'.of = form.of
             \/ form.of \in Ids /\ queries[url.id]'.err
  <2>1. /\ form.of \in Ids \cup {New} /\ NoForm.of = None /\ None # New
        /\ queries \in [Keys -> Entries(MaxClock)] /\ clock \in 1..MaxClock
        /\ ~Saving("edit") /\ ~Saving("new")
        /\ form.of = New => url.modal = "new"
        /\ form.of \in Ids => /\ url.modal = "edit" /\ url.id \in Ids
                              /\ ~queries[url.id].err
                              /\ queries[url.id].data # 0
    BY <1>1, RecAssumption DEF IInv, RecTypeOK, FormInv, Forms, NoForm
  <2>2. ASSUME form' = Mounted(url, queries'),
               form.of \in Ids =>
                   queries'[url.id].data # 0 \/ queries'[url.id].err
        PROVE  \/ form'.of = form.of
               \/ form.of \in Ids /\ queries'[url.id].err
    <3>1. CASE form.of = New
      BY <2>1, <2>2, <3>1 DEF Mounted
    <3>2. CASE form.of \in Ids /\ ~queries'[url.id].err
      <4>1. /\ url.modal = "edit" /\ ~queries'[url.id].err
            /\ queries'[url.id].data # 0
        BY <2>1, <2>2, <3>2
      <4> QED
        BY <2>2, <3>2, <4>1 DEF Mounted
    <3> QED
      BY <2>1, <3>1, <3>2
  <2>3. ASSUME NEW k \in Kinds, Refuse(k) PROVE form' = form
    BY <2>3 DEF Refuse
  <2>4. ASSUME NEW k \in Kinds, Acknowledge(k)
        PROVE  \/ form'.of = form.of
               \/ form.of \in Ids /\ queries'[url.id].err
    <3>1. ASSUME NEW x \in Keys PROVE queries'[x].data = queries[x].data
      <4>1. \/ queries'[x] = queries[x]
            \/ queries'[x] = Invalidated(queries[x], clock + 1)
        BY <2>4 DEF Acknowledge
      <4>2. queries[x] \in Entries(MaxClock)
        BY <2>1
      <4>3. \/ queries'[x] = queries[x]
            \/ queries'[x] = Fetched(queries[x], clock + 1)
        BY <4>1, <4>2, AskedEntry
      <4> QED
        BY <4>3 DEF Fetched
    <3>2. form' = Mounted(url, queries')
      BY <2>4 DEF Acknowledge
    <3> QED
      BY <2>1, <2>2, <3>1, <3>2 DEF Keys
  <2>5. ASSUME NEW k \in Kinds, Settle(k) PROVE form' = form
    <3>1. k \notin {"edit", "new"}
      BY <2>1, <2>5 DEF Settle, Saving
    <3> QED
      BY <2>5, <3>1 DEF Settle
  <2>6. ASSUME NEW x \in Keys, Deliver(x)
        PROVE  \/ form'.of = form.of
               \/ form.of \in Ids /\ queries'[url.id].err
    <3>1. PICK q \in Answered(queries[x], clock) :
             queries' = [queries EXCEPT ![x] = q]
      BY <2>6 DEF Deliver
    <3>2. q.err \/ q.data # 0
      BY <1>1, <2>1, <2>6, <3>1, AnsweredEntry
         DEF Deliver, IInv, CacheInv, Timely
    <3>3. form' = Mounted(url, queries')
      BY <2>6 DEF Deliver
    <3>4. form.of \in Ids =>
              queries'[url.id].data # 0 \/ queries'[url.id].err
      <4>1. CASE url.id = x
        BY <2>1, <3>1, <3>2, <4>1 DEF Keys
      <4>2. CASE url.id # x
        BY <2>1, <3>1, <4>2 DEF Keys
      <4> QED
        BY <4>1, <4>2
    <3> QED
      BY <2>2, <3>3, <3>4
  <2>7. \/ form'.of = form.of
        \/ form.of \in Ids /\ queries'[url.id].err /\ url' = url
    <3>1. ASSUME NEW k \in Kinds, Acknowledge(k) PROVE url' = url
      BY <3>1 DEF Acknowledge
    <3>2. ASSUME NEW x \in Keys, Deliver(x) PROVE url' = url
      BY <3>2 DEF Deliver
    <3> QED
      BY <1>1, <2>3, <2>4, <2>5, <2>6, <3>1, <3>2 DEF System
  <2> QED
    BY <2>7
<1>2. IInv /\ IInv' /\ [RecNext]_recVars => [Kept]_recVars
  BY <1>1
<1>3. RecSpec => [][RecNext]_recVars
  BY DEF RecSpec
<1> QED
  BY <1>2, <1>3, Inductive, PTL DEF TypedInputKept

-----------------------------------------------------------------------------
(* The refinement: the cache implements the read model. *)

\* What was just opened shows nothing.
LEMMA InitReads == RecInit => ReadModelOf!Init
<1> SUFFICES ASSUME RecInit PROVE ReadModelOf!Init
  OBVIOUS
<1>1. PICK p \in Pages :
         /\ clock = 1
         /\ queries = [[k \in Keys |-> Empty] EXCEPT ![p] = Fetched(Empty, 1)]
  BY DEF RecInit
<1>2. Empty.data = 0 /\ Fetched(Empty, 1).data = 0
  BY DEF Empty, Fetched
<1>3. [k \in Keys |-> queries[k].data] = [k \in Keys |-> 0]
  BY <1>1, <1>2
<1> QED
  BY <1>1, <1>3 DEF ReadModelOf!Init

\* Every step is a write, a view that catches up, or neither.
LEMMA StepReads ==
    ASSUME IInv, [RecNext]_recVars
    PROVE  [ReadModelOf!Next]_<<clock, [k \in Keys |-> queries[k].data]>>
<1> DEFINE views == [k \in Keys |-> queries[k].data]
<1>0. queries \in [Keys -> Entries(MaxClock)] /\ clock \in 1..MaxClock
  BY DEF IInv, RecTypeOK
<1>1. ASSUME clock' = clock,
             \A x \in Keys : queries'[x].data = queries[x].data
      PROVE  UNCHANGED <<clock, views>>
  BY <1>1
<1>2. ASSUME Person \/ \E k \in Kinds : Refuse(k) \/ Settle(k)
      PROVE  UNCHANGED <<clock, views>>
  <2>1. ASSUME NEW u, Go(u), UNCHANGED <<clock, saved, missed>>
        PROVE  UNCHANGED <<clock, views>>
    <3>1. Moved
      BY <2>1, GoMoves
    <3>2. \A x \in Keys : queries'[x].data = queries[x].data
      BY <3>1 DEF Moved, Fetched
    <3> QED
      BY <1>1, <2>1, <3>2
  <2>2. ASSUME UNCHANGED <<clock, queries>> PROVE UNCHANGED <<clock, views>>
    BY <1>1, <2>2
  <2>3. ASSUME NEW i \in Ids, Jump(i) PROVE UNCHANGED <<clock, views>>
    <3>1. ASSUME NEW x \in Keys PROVE queries'[x].data = queries[x].data
      <4>1. queries'[x] \in {queries[x], Watched(queries[x], clock)}
        BY <1>0, <2>3 DEF Jump
      <4>2. queries'[x] \in {queries[x], Fetched(queries[x], clock)}
        BY <1>0, <4>1, AskedEntry
      <4> QED
        BY <4>2 DEF Fetched
    <3> QED
      BY <1>1, <2>3, <3>1 DEF Jump
  <2>4. ASSUME Person PROVE UNCHANGED <<clock, views>>
    BY <2>1, <2>2, <2>3, <2>4
       DEF Person, Filter, Turn, OpenRecord, OpenTool, EditShown, Close,
           SubmitEdit, SubmitNew, Delete, Import
  <2>5. ASSUME NEW k \in Kinds, Refuse(k) PROVE UNCHANGED <<clock, views>>
    BY <2>2, <2>5 DEF Refuse
  <2>6. ASSUME NEW k \in Kinds, Settle(k) PROVE UNCHANGED <<clock, views>>
    <3>1. /\ UNCHANGED <<clock, saved, missed>>
          /\ UNCHANGED queries \/ \E u : Go(u)
      BY <2>6 DEF Settle
    <3> QED
      BY <2>1, <2>2, <3>1
  <2> QED
    BY <1>2, <2>4, <2>5, <2>6
<1>3. ASSUME NEW k \in Kinds, Acknowledge(k) PROVE ReadModelOf!Write
  <2>1. ASSUME NEW x \in Keys PROVE queries'[x].data = queries[x].data
    <3>1. \/ queries'[x] = queries[x]
          \/ queries'[x] = Invalidated(queries[x], clock + 1)
      BY <1>3 DEF Acknowledge
    <3>2. \/ queries'[x] = queries[x]
          \/ queries'[x] = Fetched(queries[x], clock + 1)
      BY <1>0, <3>1, AskedEntry
    <3> QED
      BY <3>2 DEF Fetched
  <2>2. clock' = clock + 1
    BY <1>3 DEF Acknowledge
  <2> QED
    BY <2>1, <2>2 DEF ReadModelOf!Write
<1>4. ASSUME NEW x \in Keys, Deliver(x) PROVE ReadModelOf!CatchUp(x)
  <2>1. PICK q \in Answered(queries[x], clock) :
           queries' = [queries EXCEPT ![x] = q]
    BY <1>4 DEF Deliver
  <2>2. /\ queries[x].asked # 0 /\ clock' = clock
        /\ queries[x] \in Entries(MaxClock) /\ Timely(queries[x])
    BY <1>0, <1>4 DEF Deliver, IInv, CacheInv
  <2>3. q.data \in queries[x].data..clock
    <3>1. /\ q \in Entries(MaxClock)
          /\ queries[x].data <= q.data /\ q.data <= clock
      BY <1>0, <2>1, <2>2, AnsweredEntry DEF Timely
    <3> QED
      BY <1>0, <2>2, <3>1 DEF Entries
  <2>4. views' = [views EXCEPT ![x] = q.data]
    BY <1>0, <2>1
  <2>5. views[x] = queries[x].data
    OBVIOUS
  <2> QED
    BY <2>2, <2>3, <2>4, <2>5 DEF ReadModelOf!CatchUp
<1>5. CASE UNCHANGED recVars
  BY <1>1, <1>5 DEF recVars
<1> QED
  BY <1>2, <1>3, <1>4, <1>5 DEF RecNext, System, ReadModelOf!Next

\* The screen and its cache implement the read model: every list and record
\* moves forward only, and never shows what the server never had.
THEOREM ImplementsReadModel == RecSpec => NeverBack
<1>1. RecSpec => [][RecNext]_recVars /\ RecInit
  BY DEF RecSpec
<1> QED
  BY <1>1, InitReads, StepReads, Inductive, PTL
     DEF NeverBack, ReadModelOf!Spec
=============================================================================

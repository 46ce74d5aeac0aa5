---------------------------- MODULE RecordScreen ----------------------------
(***************************************************************************)
(* The screens /students, /teachers and /sessions: a filtered, paged list  *)
(* with modals to view, edit, create, bulk-import and delete its records.  *)
(* The three files have one shape and this module is that shape.  The URL  *)
(* says which page and which modal are open; the lists and records shown   *)
(* come from the query cache; each save runs request, answer, refetch, and *)
(* then moves the URL, while the person may already be doing something     *)
(* else.  Only this screen's own writes are counted: no property tells the *)
(* writes of other admins apart from a newer stamp.  The person is an      *)
(* admin; others see neither the buttons nor the forms.                    *)
(***************************************************************************)
EXTENDS QueryCache, FiniteSets

CONSTANTS
    Ids,        \* records
    Pages,      \* filters and pages of the list
    None,       \* no record
    New,        \* the record a create form is about
    MaxClock,   \* bound: writes, from 1
    MaxLoad,    \* bound: saves under way and entries whose fetch failed
    MaxFlights, \* bound: fetches in flight while the person moves on
    MaxEntries  \* bound: entries of the cache in use

ASSUME RecAssumption ==
    /\ MaxClock \in Nat \ {0}
    /\ Ids \cap Pages = {}
    /\ None # New
    /\ {None, New} \cap (Ids \cup Pages) = {}

VARIABLES
    clock,      \* writes of this screen the table has seen, from 1
    url,        \* search parameters: [page, modal, id]
    queries,    \* query cache: entry of each list and of each record
    form,       \* the mounted form: whose, from which data, see Forms
    jobs,       \* the mutation of each kind (useMutation), see Jobs
    saved,      \* history: the last write that edited each record
    missed,     \* history: entries that a save they have to reflect did not
                \* refetch, as long as they lack it
    overtaken   \* history: those with a fetch that the save left under way,
                \* until the next one begins

history == <<saved, missed, overtaken>>
recVars == <<clock, url, queries, form, jobs, history>>

Keys == Pages \cup Ids
Stamps == 0..MaxClock
Kinds == {"edit", "new", "delete", "import"}

Urls == [page: Pages, modal: {"none", "view", "edit", "new", "bulk"},
         id: Ids \cup {None}]
Forms == [of: Ids \cup {None, New},  \* record it was filled from
          at: Stamps,                \* data it was filled from
          jumped: BOOLEAN,           \* history went to another record's form
          busy: BOOLEAN,             \* a save of this screen was pending
          behind: BOOLEAN]           \* its data may lack the record's last save
Jobs == [phase: {"idle", "sent", "settling"},
         id: Ids \cup {None},
         page: Pages \cup {None},    \* the list its onSuccess goes back to
         wait: SUBSET Keys]          \* refetches it awaits

NoForm == [of |-> None, at |-> 0, jumped |-> FALSE, busy |-> FALSE,
           behind |-> FALSE]
Idle == [phase |-> "idle", id |-> None, page |-> None, wait |-> {}]

\* Types; an entry a fetch of which was overtaken lacks a save.
RecTypeOK ==
    /\ clock \in 1..MaxClock
    /\ url \in Urls
    /\ queries \in [Keys -> Entries(MaxClock)]
    /\ form \in Forms
    /\ jobs \in [Kinds -> Jobs]
    /\ saved \in [Ids -> Stamps]
    /\ overtaken \subseteq missed /\ missed \subseteq Keys

-----------------------------------------------------------------------------
(* What is on the screen. *)

\* The list is watched all the time, a record while a modal shows it.
OnScreen(u) ==
    {u.page} \cup IF u.modal \in {"view", "edit"} THEN {u.id} ELSE {}

\* Queries a component starts to watch when the URL goes from u to v: each
\* modal has a query of its own under the record's key.
Starting(u, v) == {k \in OnScreen(v) : k \notin OnScreen(u)
                                         \/ (k = v.id /\ v.modal # u.modal)}

\* isPending of the mutation behind the save button.
Saving(k) == jobs[k].phase # "idle"

\* A save waits for this entry's refetch.
Awaited(x) == \E k \in Kinds : x \in jobs[k].wait

\* The last write of this screen that a list, or a record, has to show.
LastSave(x) == IF x \in Pages THEN clock ELSE saved[x]

FilledFrom(i, at) ==
    [NoForm EXCEPT !.of = i, !.at = at,
                   !.busy = Saving("edit") \/ Saving("new"),
                   !.behind = i \in missed \/ Awaited(i)]

\* A mistake the runs must notice: a closed modal keeps its form.
MountedAlways(u, q) ==
    CASE u.modal = "new" ->
            IF form.of = New THEN form ELSE FilledFrom(New, 0)
      [] u.modal = "edit" /\ ~q[u.id].err /\ q[u.id].data # 0 ->
            IF form.of \in Ids THEN form ELSE FilledFrom(u.id, q[u.id].data)
      [] OTHER -> form

\* A mistake the runs must notice: the form makes way for a refetch.
MountedIdle(u, q) ==
    CASE u.modal = "new" ->
            IF form.of = New THEN form ELSE FilledFrom(New, 0)
      [] u.modal = "edit" /\ ~q[u.id].err /\ q[u.id].data # 0
            /\ q[u.id].asked = 0 ->
            IF form.of \in Ids THEN form ELSE FilledFrom(u.id, q[u.id].data)
      [] OTHER -> NoForm

\* Modal renders nothing while it is closed. The edit form shows once the
\* record is there and no error is; it is filled when it is mounted and never
\* again (defaultValues), whatever the cache or the URL's id do meanwhile.
Mounted(u, q) ==
    CASE u.modal = "new" ->
            IF form.of = New THEN form ELSE FilledFrom(New, 0)
      [] u.modal = "edit" /\ ~q[u.id].err /\ q[u.id].data # 0 ->
            IF form.of \in Ids THEN form ELSE FilledFrom(u.id, q[u.id].data)
      [] OTHER -> NoForm

InUse == {k \in Keys : queries[k] # Empty}

\* goTo: the URL changes, the queries that appear are fetched.
Go(u) ==
    /\ Cardinality(InUse \cup OnScreen(u)) <= MaxEntries
    /\ url' = u
    /\ queries' = [k \in Keys |-> IF k \in Starting(url, u)
                                  THEN Watched(queries[k], clock)
                                  ELSE queries[k]]
    /\ form' = Mounted(u, queries')
    /\ overtaken' = {k \in overtaken : queries'[k] = queries[k]}

\* The person moves on while less than MaxFlights fetches are under way.
Calm == Cardinality({k \in Keys : queries[k].asked # 0}) < MaxFlights

Load == Cardinality({k \in Kinds : Saving(k)})
          + Cardinality({x \in Keys : queries[x].err})

Closed(p) == [page |-> p, modal |-> "none", id |-> None]

RecInit ==
    \E p \in Pages :
        /\ clock = 1
        /\ url = Closed(p)
        /\ queries = [[k \in Keys |-> Empty] EXCEPT ![p] = Fetched(Empty, 1)]
        /\ form = NoForm
        /\ jobs = [k \in Kinds |-> Idle]
        /\ saved = [i \in Ids |-> 0]
        /\ missed = {}
        /\ overtaken = {}

-----------------------------------------------------------------------------
(* The person at the screen. The overlay of an open modal covers the list. *)

\* Submitting or clearing the filter form: the first page of another list.
Filter(p) ==
    /\ Calm
    /\ url.modal = "none"
    /\ p # url.page
    /\ Go(Closed(p))
    /\ UNCHANGED <<clock, jobs, saved, missed>>

\* Prev and Next, which the list's total enables.
Turn(p) ==
    /\ Calm
    /\ url.modal = "none"
    /\ queries[url.page].data # 0 /\ p # url.page
    /\ Go(Closed(p))
    /\ UNCHANGED <<clock, jobs, saved, missed>>

\* A row's name or pencil. Rows come from the list's data.
OpenRecord(m, i) ==
    /\ Calm
    /\ url.modal = "none"
    /\ queries[url.page].data # 0
    /\ Go([page |-> url.page, modal |-> m, id |-> i])
    /\ UNCHANGED <<clock, jobs, saved, missed>>

\* The buttons above the list: Add, and Import/Export.
OpenTool(m) ==
    /\ Calm
    /\ url.modal = "none"
    /\ Go([page |-> url.page, modal |-> m, id |-> None])
    /\ UNCHANGED <<clock, jobs, saved, missed>>

\* The Edit button under a shown record.
EditShown ==
    /\ Calm
    /\ url.modal = "view"
    /\ ~queries[url.id].err /\ queries[url.id].data # 0
    /\ Go([url EXCEPT !.modal = "edit"])
    /\ UNCHANGED <<clock, jobs, saved, missed>>

\* Cancel, Close, Escape or the backdrop; a pending save does not disable them.
Close ==
    /\ url.modal # "none"
    /\ Go(Closed(url.page))
    /\ UNCHANGED <<clock, jobs, saved, missed>>

\* The browser's history list leads from one record's form to another's.
Jump(i) ==
    /\ Calm
    /\ url.modal = "edit" /\ i # url.id
    /\ Cardinality(InUse \cup {i}) <= MaxEntries
    /\ url' = [url EXCEPT !.id = i]
    /\ queries' = [queries EXCEPT ![i] = Watched(@, clock)]
    /\ overtaken' = {k \in overtaken : queries'[k] = queries[k]}
    /\ form' = IF form.of \in Ids /\ Mounted(url', queries').of # None
               THEN [form EXCEPT !.jumped = TRUE]
               ELSE Mounted(url', queries')
    /\ UNCHANGED <<clock, jobs, saved, missed>>

Send(k, i) ==
    /\ Load < MaxLoad
    /\ jobs' = [jobs EXCEPT ![k] = [Idle EXCEPT !.phase = "sent", !.id = i]]

\* Save in the edit form: what the form holds, for the id in the URL.
SubmitEdit ==
    /\ form.of \in Ids
    /\ ~Saving("edit")
    /\ Send("edit", url.id)
    /\ form' = [form EXCEPT !.busy = TRUE]
    /\ UNCHANGED <<clock, url, queries, history>>

SubmitNew ==
    /\ form.of = New
    /\ ~Saving("new")
    /\ Send("new", None)
    /\ form' = [form EXCEPT !.busy = TRUE]
    /\ UNCHANGED <<clock, url, queries, history>>

\* The trash button of a row, confirmed; disabled while a delete is pending.
Delete ==
    /\ url.modal = "none"
    /\ queries[url.page].data # 0
    /\ ~Saving("delete")
    /\ Send("delete", None)
    /\ UNCHANGED <<clock, url, queries, form, history>>

\* Import of a file; closing the modal does not take the request back. That a
\* reopened modal starts no second import beside it is a bound.
Import ==
    /\ url.modal = "bulk"
    /\ ~Saving("import")
    /\ Send("import", None)
    /\ UNCHANGED <<clock, url, queries, form, history>>

-----------------------------------------------------------------------------
(* The server, the network and what runs when an answer arrives. *)

\* The request is refused or its answer lost, the record is gone, an import
\* changed nothing: no onSuccess, or one without effect.
Refuse(k) ==
    /\ jobs[k].phase = "sent"
    /\ jobs' = [jobs EXCEPT ![k] = Idle]
    /\ UNCHANGED <<clock, url, queries, form, history>>

\* onSuccess, with the write that the answer stands for (placing it here only
\* lets fetches answer with older data): invalidateQueries refetches what is on
\* the screen, and is awaited; what is not on it stays as it is, a fetch of it
\* under way included. What onSaved or onClose will do is fixed by this render.
Acknowledge(k) ==
    LET here == OnScreen(url)
        anew == {x \in here : Restarts(queries[x])}
        due == Pages \cup (Ids \cap {jobs[k].id})
        now == clock + 1
    IN  /\ jobs[k].phase = "sent"
        /\ clock < MaxClock
        /\ clock' = now
        /\ queries' = [x \in Keys |-> IF x \in here
                                      THEN Invalidated(queries[x], now)
                                      ELSE queries[x]]
        /\ jobs' = [j \in Kinds |->
                      IF j = k
                      THEN [phase |-> "settling", id |-> jobs[k].id,
                            page |-> IF k \in {"edit", "new"}
                                     THEN url.page ELSE None,
                            wait |-> here]
                      ELSE [jobs[j] EXCEPT !.wait = @ \ anew]]
        /\ form' = Mounted(url, queries')
        /\ saved' = [i \in Ids |-> IF i \in due THEN now ELSE saved[i]]
        /\ missed' = (missed \ (due \cap anew))
                       \cup ((due \ anew) \cap InUse)
        /\ overtaken' = (overtaken \ anew)
                          \cup {x \in due \ anew : queries[x].asked # 0}
        /\ UNCHANGED url

\* A mistake the runs must notice: the refetch is not awaited.
SettleEarly(k) ==
    LET job == jobs[k]
    IN  /\ job.phase = "settling"
        /\ jobs' = [jobs EXCEPT ![k] = Idle]
        /\ CASE k = "edit" -> Go([page |-> job.page, modal |-> "view",
                                  id |-> job.id])
             [] k = "new" -> Go(Closed(job.page))
             [] OTHER -> UNCHANGED <<url, queries, form, overtaken>>
        /\ UNCHANGED <<clock, saved, missed>>

\* A mistake the runs must notice: a delete, too, goes back to its list.
SettleAway(k) ==
    LET job == jobs[k]
    IN  /\ job.phase = "settling" /\ job.wait = {}
        /\ jobs' = [jobs EXCEPT ![k] = Idle]
        /\ IF k = "edit" THEN Go([page |-> job.page, modal |-> "view",
                                  id |-> job.id])
           ELSE Go(Closed(job.page))
        /\ UNCHANGED <<clock, saved, missed>>

\* The refetches are through: EditModal shows the saved record, NewModal
\* closes, each from the URL as it was when the answer arrived; delete and
\* import leave the URL alone.
Settle(k) ==
    LET job == jobs[k]
    IN  /\ job.phase = "settling" /\ job.wait = {}
        /\ jobs' = [jobs EXCEPT ![k] = Idle]
        /\ CASE k = "edit" -> Go([page |-> job.page, modal |-> "view",
                                  id |-> job.id])
             [] k = "new" -> Go(Closed(job.page))
             [] OTHER -> UNCHANGED <<url, queries, form, overtaken>>
        /\ UNCHANGED <<clock, saved, missed>>

\* An answer to a query.
Deliver(x) ==
    /\ queries[x].asked # 0
    /\ \E q \in Answered(queries[x], clock) :
          /\ q.err => Load < MaxLoad
          /\ queries' = [queries EXCEPT ![x] = q]
    /\ jobs' = [j \in Kinds |-> [jobs[j] EXCEPT !.wait = @ \ {x}]]
    /\ form' = Mounted(url, queries')
    /\ missed' = {y \in missed : queries'[y].data < LastSave(y)}
    /\ overtaken' = overtaken \cap missed'
    /\ UNCHANGED <<clock, url, saved>>

-----------------------------------------------------------------------------
Person ==
    \/ \E p \in Pages : Filter(p) \/ Turn(p)
    \/ \E m \in {"view", "edit"}, i \in Ids : OpenRecord(m, i)
    \/ \E m \in {"new", "bulk"} : OpenTool(m)
    \/ EditShown
    \/ Close
    \/ \E i \in Ids : Jump(i)
    \/ SubmitEdit
    \/ SubmitNew
    \/ Delete
    \/ Import

System ==
    \/ \E k \in Kinds : Refuse(k) \/ Acknowledge(k) \/ Settle(k)
    \/ \E x \in Keys : Deliver(x)

RecNext == Person \/ System

RecSpec == RecInit /\ [][RecNext]_recVars

-----------------------------------------------------------------------------
\* A save that ran to its end is visible: no list on the screen shows the state
\* before the last write made here, and no record that before its last edit,
\* except while the save itself waits for the refetch, or, when the answer
\* came while the list or record was away (the form was closed while the save
\* was pending), while the refetch that coming back begins is under way. So
\* the old record is on the screen for one refetch and not longer. Excepted
\* are a refetch that failed (a list goes on showing its rows, a record an
\* error) and an entry whose fetch was already under way when the answer came
\* and was not begun again, as it was the first one or nobody watched it: it
\* shows what that fetch read until the next one. This is what the fetch that
\* invalidateQueries abandons, and awaiting the new one, are for.
OwnWritesShown ==
    \A x \in OnScreen(url) :
        ~queries[x].err /\ queries[x].data # 0 =>
            \/ queries[x].data >= LastSave(x)
            \/ /\ queries[x].asked >= LastSave(x)
               /\ x \in missed \/ Awaited(x)
            \/ x \in overtaken

\* A form that can be saved was filled from what this screen saved last for
\* its record, so that a second save does not take the first one back. Two
\* kinds of forms are excepted, and for them the code makes no such promise:
\* those opened when the save had been answered while the record was away, or
\* during its first fetch, and no answer had brought it since (Save, Close,
\* and the form again within one refetch); and those opened while another
\* save's answer had the record refetched once more.
FormKnowsOwnSaves ==
    form.of \in Ids /\ jobs["edit"].phase # "settling" /\ ~form.behind =>
        form.at >= saved[form.of]

\* The form that is open was filled from the record the URL names, to which
\* it will be saved: nothing of a form survives the modal it was in. (The
\* history list, which goes from form to form directly, is the exception.)
FormOfOpenRecord == form.of \in Ids /\ ~form.jumped => form.of = url.id

\* Answers, refetches and other saves never take away a form somebody types
\* in, unless a save was pending when it was opened or since, or the record
\* could not be refetched.
TypedInputKept ==
    [][System /\ form.of # None /\ ~form.busy =>
         \/ form'.of = form.of
         \/ form.of \in Ids /\ queries[url.id]'.err]_recVars

\* Every list and record on the screen moves forward only: an abandoned or
\* late answer never brings back older rows. This screen and its cache
\* implement the read model, with the data of the entries as its views.
ReadModelOf == INSTANCE ReadModel
                   WITH now <- clock, views <- [k \in Keys |-> queries[k].data]
NeverBack == ReadModelOf!Spec
=============================================================================

----------------------------- MODULE Kurikulum ------------------------------
(***************************************************************************)
(* The screen /pustaka/kurikulum, where an admin keeps the age groups and  *)
(* the materi of each.  The page shows the materi of the chosen age group  *)
(* or, when none is chosen or the chosen one is not in the list any more,  *)
(* of the first of the list; a materi is saved into whichever age group    *)
(* the page shows at that moment.  The list of age groups may change under *)
(* an open form, when the refetch after an earlier save or delete arrives. *)
(*                                                                         *)
(* Of a list of age groups only its members and its first are kept.  The   *)
(* filters hide rows and change nothing; edit mode, which guards buttons,  *)
(* is on.  The page stays on the screen: that a save can be answered while *)
(* it is away is modelled for the marks, in Grades.  Strings "none" and    *)
(* "new" stand for null and 'new'.                                         *)
(***************************************************************************)
EXTENDS Naturals

CONSTANTS
    AgeGroups,  \* ids of age groups (tingkat)
    Items,      \* ids of materi
    MaxWrites   \* bound: saves and deletes of this screen and of others

ASSUME KurAssumption ==
    /\ AgeGroups \cap Items = {}
    /\ {"none", "new", "list"} \cap (AgeGroups \cup Items) = {}
    /\ MaxWrites \in Nat

VARIABLES
    live,       \* server: the age groups and the first of them (ORDER BY)
    home,       \* server: home[m], the age group of a materi
    used,       \* server: ids that were ever given
    list,       \* query cache: ['tingkats']
    rows,       \* query cache: rows[g], ['materi-ajar', g]
    fetches,    \* fetch under way for each of them, see Fetches
    picked,     \* tingkatId: the chosen age group
    dialogs,    \* what is open: [groups: ageGroupsOpen, tk: editTk, ma: editMa]
    saves,      \* saves[k], the mutation of each kind
    stale,      \* history: entries that may lack a write of others, one whose
                \* answer was lost, or what an answer of their own would bring
    overtaken,  \* history: entries a save of this page outdated while the
                \* fetch under way had been answered, and that was not
                \* restarted; or which it only marked (isInvalidated)
    astray,     \* history: a materi was opened while the first age group
                \* stood for the chosen one, or moved by others
    writes      \* history: number of writes so far, for the bound

kurVars == <<live, home, used, list, rows, fetches, picked, dialogs, saves,
             stale, overtaken, astray, writes>>

Orders == {o \in [set: SUBSET AgeGroups, first: AgeGroups \cup {"none"}] :
              IF o.set = {} THEN o.first = "none" ELSE o.first \in o.set}
NoGroups == [set |-> {}, first |-> "none"]
Lists == [known: BOOLEAN, order: Orders]
MateriLists == [known: BOOLEAN, set: SUBSET Items]
Queries == {"list"} \cup AgeGroups
Ops == {"saveTk", "delTk", "saveMa", "delMa"}
Rest == [phase |-> "idle", id |-> "none", to |-> "none"]

\* Types; the first age group is one of the list, if there is any.
KurTypeOK ==
    /\ live \in Orders
    /\ home \in [Items -> AgeGroups \cup {"none"}]
    /\ used \subseteq AgeGroups \cup Items
    /\ list \in Lists
    /\ rows \in [AgeGroups -> MateriLists]
    /\ \A q \in Queries :
          /\ fetches[q].phase \in {"none", "asked", "read"}
          /\ fetches[q].data \in IF q = "list" THEN Orders ELSE SUBSET Items
    /\ picked \in AgeGroups \cup {"none"}
    /\ dialogs \in [groups: BOOLEAN, tk: AgeGroups \cup {"none", "new"},
                    ma: Items \cup {"none", "new"}]
    /\ saves \in [Ops -> [phase: {"idle", "sent", "counted", "done"},
                          id: AgeGroups \cup Items \cup {"none", "new"},
                          to: AgeGroups \cup {"none"}]]
    /\ stale \subseteq Queries
    /\ overtaken \subseteq Queries
    /\ astray \in BOOLEAN
    /\ writes \in 0..MaxWrites

-----------------------------------------------------------------------------
(* What the page shows. *)

\* A mistake the runs must notice: the choice is not looked up.
CurrentFirst(l, p) == l.order.first

\* tingkat.find(tk => tk.id === tingkatId) ?? tingkat[0]
Current(l, p) == IF p \in l.order.set THEN p ELSE l.order.first

Here == Current(list, picked)

Content(q) == IF q = "list" THEN live ELSE {m \in Items : home[m] = q}

NoFetch(q) == [phase |-> "none",
               data |-> IF q = "list" THEN NoGroups ELSE {}]
Asked(q) == [NoFetch(q) EXCEPT !.phase = "asked"]

\* The page turns to another age group: its materi are fetched, or the fetch
\* under way is joined.
Watch(g) ==
    IF g # Here /\ g \in AgeGroups /\ fetches[g].phase = "none"
    THEN /\ fetches' = [fetches EXCEPT ![g] = Asked(g)]
         /\ stale' = stale \ {g}
         /\ overtaken' = overtaken \ {g}
    ELSE UNCHANGED <<fetches, stale, overtaken>>

\* The first fetch of an entry is kept when it is invalidated.
Known(q) == IF q = "list" THEN list.known ELSE rows[q].known
Restarted(q) == Known(q) \/ fetches[q].phase = "none"

\* invalidateQueries of these entries, of which the page watches some.
Invalidate(entries) ==
    LET again == {q \in entries \cap {"list", Here} : Restarted(q)}
    IN  /\ fetches' = [q \in Queries |-> IF q \in again THEN Asked(q)
                                         ELSE fetches[q]]
        /\ stale' = stale \ again
        /\ overtaken' = (overtaken \cup {q \in entries :
                                           fetches[q].phase # "asked"}) \ again

KurInit ==
    /\ \E o \in Orders, h \in [Items -> AgeGroups \cup {"none"}] :
          /\ o.set # AgeGroups
          /\ \A m \in Items : h[m] \in o.set \cup {"none"}
          /\ live = o /\ home = h
          /\ used = o.set \cup {m \in Items : h[m] # "none"}
    /\ list = [known |-> FALSE, order |-> NoGroups]
    /\ rows = [g \in AgeGroups |-> [known |-> FALSE, set |-> {}]]
    /\ fetches = [q \in Queries |-> IF q = "list" THEN Asked(q)
                                    ELSE NoFetch(q)]
    /\ picked = "none"
    /\ dialogs = [groups |-> FALSE, tk |-> "none", ma |-> "none"]
    /\ saves = [k \in Ops |-> Rest]
    /\ stale = {}
    /\ overtaken = {}
    /\ astray = FALSE
    /\ writes = 0

-----------------------------------------------------------------------------
(* Queries. *)

ReadQuery(q) ==
    /\ fetches[q].phase = "asked"
    /\ fetches' = [fetches EXCEPT ![q] = [phase |-> "read",
                                          data |-> Content(q)]]
    /\ UNCHANGED <<live, home, used, list, rows, picked, dialogs, saves,
                   stale, overtaken, astray, writes>>

\* The list arrives; the age group the page shows may be another now.
GroupsArrive ==
    LET new == [known |-> TRUE, order |-> fetches["list"].data]
        g == Current(new, picked)
        turns == g # Here /\ g \in AgeGroups /\ fetches[g].phase = "none"
    IN  /\ fetches["list"].phase = "read"
        /\ list' = new
        /\ fetches' = [q \in Queries |->
                         IF q = "list" THEN NoFetch(q)
                         ELSE IF turns /\ q = g THEN Asked(q) ELSE fetches[q]]
        /\ stale' = IF turns THEN stale \ {g} ELSE stale
        /\ overtaken' = IF turns THEN overtaken \ {g} ELSE overtaken
        /\ UNCHANGED <<live, home, used, rows, picked, dialogs, saves, astray,
                       writes>>

MateriArrive(g) ==
    /\ fetches[g].phase = "read"
    /\ rows' = [rows EXCEPT ![g] = [known |-> TRUE, set |-> fetches[g].data]]
    /\ fetches' = [fetches EXCEPT ![g] = NoFetch(g)]
    /\ UNCHANGED <<live, home, used, list, picked, dialogs, saves, stale,
                   overtaken, astray, writes>>

\* The page shows no error; what was there stays.
QueryFails(q) ==
    /\ fetches[q].phase # "none"
    /\ fetches' = [fetches EXCEPT ![q] = NoFetch(q)]
    /\ stale' = stale \cup {q}
    /\ UNCHANGED <<live, home, used, list, rows, picked, dialogs, saves,
                   overtaken, astray, writes>>

-----------------------------------------------------------------------------
(* The person. An open dialog covers what is under it. *)

NoDialog == ~dialogs.groups /\ dialogs.tk = "none" /\ dialogs.ma = "none"

\* The select of the age group.
PickGroup(g) ==
    /\ NoDialog
    /\ g \in list.order.set
    /\ picked' = g
    /\ Watch(g)
    /\ UNCHANGED <<live, home, used, list, rows, dialogs, saves, astray,
                   writes>>

\* The buttons of the header: the dialog of age groups, and a new materi.
OpenDialog ==
    /\ NoDialog
    /\ \E d \in {[dialogs EXCEPT !.groups = TRUE],
                 [dialogs EXCEPT !.ma = "new"]} : dialogs' = d
    /\ UNCHANGED <<live, home, used, list, rows, fetches, picked, saves,
                   stale, overtaken, astray, writes>>

\* The pencil of a materi's row. The form keeps the row as it is now.
EditMateri(m) ==
    /\ NoDialog
    /\ Here # "none" /\ m \in rows[Here].set
    /\ dialogs' = [dialogs EXCEPT !.ma = m]
    /\ astray' = (astray \/ Here # picked)
    /\ UNCHANGED <<live, home, used, list, rows, fetches, picked, saves,
                   stale, overtaken, writes>>

\* The pencil of an age group, or the button for a new one.
EditGroup(g) ==
    /\ dialogs.groups /\ dialogs.tk = "none"
    /\ g \in list.order.set \cup {"new"}
    /\ dialogs' = [dialogs EXCEPT !.tk = g]
    /\ UNCHANGED <<live, home, used, list, rows, fetches, picked, saves,
                   stale, overtaken, astray, writes>>

\* Cancel, Escape or the backdrop, also while a save is pending.
CloseDialog ==
    /\ ~NoDialog
    /\ dialogs' = CASE dialogs.ma # "none" -> [dialogs EXCEPT !.ma = "none"]
                    [] dialogs.tk # "none" -> [dialogs EXCEPT !.tk = "none"]
                    [] OTHER -> [dialogs EXCEPT !.groups = FALSE]
    /\ UNCHANGED <<live, home, used, list, rows, fetches, picked, saves,
                   stale, overtaken, astray, writes>>

\* mutate(). A save button is disabled while its save is pending; that a
\* second delete waits for the first is a bound.
Request(k, id, to) ==
    /\ saves[k].phase = "idle"
    /\ writes < MaxWrites
    /\ writes' = writes + 1
    /\ saves' = [saves EXCEPT ![k] = [phase |-> "sent", id |-> id, to |-> to]]
    /\ UNCHANGED <<live, home, used, list, rows, fetches, picked, dialogs,
                   stale, overtaken, astray>>

SaveTingkat == dialogs.tk # "none" /\ Request("saveTk", dialogs.tk, "none")

\* Without any age group, current!.id throws and nothing is sent.
SaveMateri == /\ dialogs.ma # "none" /\ Here # "none"
              /\ Request("saveMa", dialogs.ma, Here)

AskDeleteGroup(g) == /\ dialogs.groups /\ dialogs.tk = "none"
                     /\ g \in list.order.set
                     /\ Request("delTk", g, "none")

AskDeleteMateri(m) == /\ NoDialog /\ Here # "none" /\ m \in rows[Here].set
                      /\ Request("delMa", m, "none")

-----------------------------------------------------------------------------
(* The server. *)

\* The orders that a change of one age group's urutan, or a new one, leads to.
WithGroup(g) ==
    {o \in Orders :
        /\ o.set = live.set \cup {g}
        /\ live.first \in {g, "none"} \/ o.first \in {g, live.first}}
\* A mistake the runs must notice: the first stays the first.
WithoutGroupInPlace(g) == {[live EXCEPT !.set = @ \ {g}]}

WithoutGroup(g) ==
    {o \in Orders : /\ o.set = live.set \ {g}
                    /\ live.first # g => o.first = live.first}

Done(k) == saves' = [saves EXCEPT ![k].phase = "done"]

StoreGroup(g) ==
    /\ IF saves["saveTk"].id = "new" THEN g \notin used
       ELSE g = saves["saveTk"].id /\ g \in live.set
    /\ live' \in WithGroup(g)
    /\ used' = used \cup {g}
    /\ UNCHANGED home

\* The COUNT of DeleteTingkat; above 0 it refuses. Its DELETE takes along the
\* materi that came in between (ON DELETE CASCADE).
CountMateri ==
    /\ saves["delTk"].phase = "sent"
    /\ Content(saves["delTk"].id) = {}
    /\ saves' = [saves EXCEPT !["delTk"].phase = "counted"]
    /\ UNCHANGED <<live, home, used, list, rows, fetches, picked, dialogs,
                   stale, overtaken, astray, writes>>

DropGroup(g) ==
    /\ g \in live.set
    /\ live' \in WithoutGroup(g)
    /\ home' = [m \in Items |-> IF home[m] = g THEN "none" ELSE home[m]]
    /\ UNCHANGED used

\* The foreign key demands that the age group is there.
StoreMateri(m) ==
    LET job == saves["saveMa"]
    IN  /\ IF job.id = "new" THEN m \notin used
           ELSE m = job.id /\ home[m] # "none"
        /\ job.to \in live.set
        /\ home' = [home EXCEPT ![m] = job.to]
        /\ used' = used \cup {m}
        /\ UNCHANGED live

DropMateri(m) ==
    /\ home[m] # "none"
    /\ home' = [home EXCEPT ![m] = "none"]
    /\ UNCHANGED <<live, used>>

Executed(k) ==
    /\ saves[k].phase = IF k = "delTk" THEN "counted" ELSE "sent"
    /\ CASE k = "saveTk" -> \E g \in AgeGroups : StoreGroup(g)
         [] k = "delTk" -> DropGroup(saves[k].id)
         [] k = "saveMa" -> \E m \in Items : StoreMateri(m)
         [] k = "delMa" -> DropMateri(saves[k].id)
    /\ Done(k)
    /\ UNCHANGED <<list, rows, fetches, picked, dialogs, stale, overtaken,
                   astray, writes>>

\* Another admin changes the order, or adds or deletes an age group or a
\* materi, or moves one.
Elsewhere ==
    /\ writes < MaxWrites
    /\ writes' = writes + 1
    /\ \/ \E g \in AgeGroups :
             \/ /\ g \in live.set \/ g \notin used
                /\ live' \in WithGroup(g)
                /\ used' = used \cup {g}
                /\ UNCHANGED home
             \/ Content(g) = {} /\ DropGroup(g)
       \/ \E m \in Items, g \in live.set :
             \/ /\ m \notin used \/ home[m] # "none"
                /\ home' = [home EXCEPT ![m] = g]
                /\ used' = used \cup {m}
                /\ UNCHANGED live
             \/ DropMateri(m)
    /\ stale' = stale \cup {q \in Queries : Content(q)' # Content(q)}
    /\ astray' = (astray \/ \E m \in Items :
                               /\ home[m] # "none"
                               /\ home'[m] \notin {home[m], "none"})
    /\ UNCHANGED <<list, rows, fetches, picked, dialogs, saves, overtaken>>

-----------------------------------------------------------------------------
(* What follows an answer. *)

\* A mistake the runs must notice: a delete refetches nothing.
ConcernedSaves(k) == IF k = "saveTk" THEN {"list"}
                     ELSE IF k = "saveMa" THEN AgeGroups ELSE {}

Concerned(k) == IF k \in {"saveTk", "delTk"} THEN {"list"} ELSE AgeGroups

\* onSuccess: the invalidation is not awaited, and the form that is open is
\* closed, whichever it is by now.
Succeeds(k) ==
    /\ saves[k].phase = "done"
    /\ saves' = [saves EXCEPT ![k] = Rest]
    /\ Invalidate(Concerned(k))
    /\ dialogs' = CASE k = "saveTk" -> [dialogs EXCEPT !.tk = "none"]
                    [] k = "saveMa" -> [dialogs EXCEPT !.ma = "none"]
                    [] OTHER -> dialogs
    /\ UNCHANGED <<live, home, used, list, rows, picked, astray, writes>>

\* Refused, or lost before or after it was executed. The page says nothing.
Fails(k) ==
    /\ saves[k].phase # "idle"
    /\ saves' = [saves EXCEPT ![k] = Rest]
    /\ stale' = IF saves[k].phase = "done" THEN stale \cup Concerned(k)
                ELSE stale
    /\ UNCHANGED <<live, home, used, list, rows, fetches, picked, dialogs,
                   overtaken, astray, writes>>

-----------------------------------------------------------------------------
KurNext ==
    \/ \E q \in Queries : ReadQuery(q) \/ QueryFails(q)
    \/ GroupsArrive
    \/ \E g \in AgeGroups : \/ MateriArrive(g) \/ PickGroup(g)
                            \/ AskDeleteGroup(g)
    \/ \E g \in AgeGroups \cup {"new"} : EditGroup(g)
    \/ \E m \in Items : EditMateri(m) \/ AskDeleteMateri(m)
    \/ OpenDialog \/ CloseDialog
    \/ SaveTingkat \/ SaveMateri
    \/ CountMateri
    \/ \E k \in Ops : Executed(k) \/ Succeeds(k) \/ Fails(k)
    \/ Elsewhere

KurSpec == KurInit /\ [][KurNext]_kurVars

-----------------------------------------------------------------------------
\* Somebody who chooses the age group before opening a materi never moves
\* that materi to another one by saving it, although the page may have
\* turned to another age group under the open form: only age groups without
\* materi disappear from the list.
MateriStays ==
    [][\A m \in Items :
          Executed("saveMa") /\ ~astray /\ home[m] # "none" =>
              home'[m] = home[m]]_kurVars

\* When every answer has come, none was lost and nobody else wrote, the page
\* shows the age groups and the materi that there are, although a delete of
\* an age group refetches no materi and nothing waits for a refetch. Left out
\* (overtaken) is an entry whose fetch had read the table before a save of this
\* page and is not restarted by it: the first fetch of an entry, or one that
\* was under way when the page turned to another age group and back. Its rows
\* then lack one's own save until the next refetch.
KurSettles ==
    /\ \A k \in Ops : saves[k].phase = "idle"
    /\ list.known /\ fetches["list"].phase = "none"
    /\ "list" \notin stale \cup overtaken
    => /\ list.order = live
       /\ Here \in AgeGroups \ (stale \cup overtaken)
          /\ fetches[Here].phase = "none"
          => rows[Here].set = Content(Here)
=============================================================================

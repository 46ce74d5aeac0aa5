----------------------------- MODULE PublicForm -----------------------------
(***************************************************************************)
(* The page /absen, where anyone reports an attendance: a form, the request *)
(* it sends, and the page of thanks that leads on to WhatsApp.  The request *)
(* has no key that would let the server recognise a repeated one, and what  *)
(* the form says of a failed one does not tell whether the row was written. *)
(* What the person means to report is numbered; a report typed again after  *)
(* a failure keeps its number.                                              *)
(***************************************************************************)
EXTENDS Naturals, FiniteSets

CONSTANTS
    Reports,    \* what the person means to report
    Posts,      \* bound: requests, one after the other
    NoReport    \* an empty form

ASSUME PubAssumption ==
    /\ NoReport \notin Reports
    /\ IsFiniteSet(Posts)

VARIABLES
    view,       \* "form", "thanks" or "left", for WhatsApp or elsewhere
    rosters,    \* the queries ['public', 'teachers'] and 'students'
    draft,      \* the report that stands in the form
    posting,    \* status of the mutation
    posts,      \* the requests sent so far, see PostRecords
    recorded,   \* server: requests that became rows of attendances
    failed      \* history: requests given up by the page that sent them

pubVars == <<view, rosters, draft, posting, posts, recorded, failed>>

\* awaited: the page that sent the request is still there. state: where the
\* request is; "written" once its row is there, "over" when it was answered.
PostRecords == [report: Reports \cup {NoReport}, awaited: BOOLEAN,
                state: {"unsent", "sent", "written", "over"}]
Unsent == [report |-> NoReport, awaited |-> FALSE, state |-> "unsent"]

\* Types; the mutation is successful just while its thanks stand in place of
\* the form, and what was typed goes with the form (it is not kept for the
\* next one).
PubTypeOK ==
    /\ view \in {"form", "thanks", "left"}
    /\ rosters \in [{"teachers", "students"} -> {"pending", "there", "error"}]
    /\ draft \in Reports \cup {NoReport}
    /\ posting \in {"idle", "pending", "error", "success"}
    /\ posts \in [Posts -> PostRecords]
    /\ recorded \subseteq Posts
    /\ failed \subseteq Posts
    /\ posting = "success" <=> view \in {"thanks", "left"}
    /\ draft # NoReport => view = "form"

PubInit ==
    /\ view = "form"
    /\ rosters = [l \in {"teachers", "students"} |-> "pending"]
    /\ draft = NoReport
    /\ posting = "idle"
    /\ posts = [p \in Posts |-> Unsent]
    /\ recorded = {}
    /\ failed = {}

-----------------------------------------------------------------------------
Awaited(p) == posts[p].awaited /\ posts[p].state \in {"sent", "written"}

\* The document is gone, with all it knew; its requests go on.
Abandoned == [p \in Posts |-> [posts[p] EXCEPT !.awaited = FALSE]]

\* The page is loaded or reloaded.
LoadForm ==
    /\ view' = "form"
    /\ rosters' = [l \in {"teachers", "students"} |-> "pending"]
    /\ draft' = NoReport
    /\ posting' = "idle"
    /\ posts' = Abandoned
    /\ failed' = failed \cup {p \in Posts : Awaited(p)}
    /\ UNCHANGED recorded

\* A list arrives or fails (nothing is retried); a failed one leaves a select
\* without choices, which the form does not let pass.
RosterAnswers(l) ==
    /\ rosters[l] = "pending"
    /\ \E s \in {"there", "error"} : rosters' = [rosters EXCEPT ![l] = s]
    /\ UNCHANGED <<view, draft, posting, posts, recorded, failed>>

\* The fields are filled in or changed, at any time the form is there: also
\* while a request is pending, and after an error, which leaves what is typed
\* as it is. A report that was thanked for is not typed again.
Compose(r) ==
    /\ view = "form"
    /\ r # draft
    /\ \A l \in DOMAIN rosters : rosters[l] = "there"
    /\ \A p \in Posts : posts[p].report = r => p \in failed \/ Awaited(p)
    /\ draft' = r
    /\ UNCHANGED <<view, rosters, posting, posts, recorded, failed>>

\* A mistake the runs must notice: the button stays enabled.
PostAgain(p) ==
    /\ view = "form"
    /\ draft # NoReport
    /\ posts[p] = Unsent
    /\ posting' = "pending"
    /\ posts' = [posts EXCEPT ![p] = [report |-> draft, awaited |-> TRUE,
                                      state |-> "sent"]]
    /\ UNCHANGED <<view, rosters, draft, recorded, failed>>

\* mutation.mutate(input). The button is disabled while a request is pending.
Post(p) ==
    /\ view = "form"
    /\ draft # NoReport
    /\ posting # "pending"
    /\ posts[p] = Unsent
    /\ posting' = "pending"
    /\ posts' = [posts EXCEPT ![p] = [report |-> draft, awaited |-> TRUE,
                                      state |-> "sent"]]
    /\ UNCHANGED <<view, rosters, draft, recorded, failed>>

\* Create's INSERT.
Record(p) ==
    /\ posts[p].state = "sent"
    /\ posts' = [posts EXCEPT ![p].state = "written"]
    /\ recorded' = recorded \cup {p}
    /\ UNCHANGED <<view, rosters, draft, posting, failed>>

\* The page gives up on its request: turned away by the rate limiter, by the
\* middleware after a logout in the same browser, by validation or a foreign
\* key; answered 500 because reading the row back failed; or lost on either
\* way, and then perhaps still carried out. Only an answer of the server is
\* shown as an error, but in each case the button can be pressed again.
PostFails(p) ==
    /\ Awaited(p)
    /\ \E s \in {"over", posts[p].state} :
          posts' = [posts EXCEPT ![p].state = s, ![p].awaited = FALSE]
    /\ posting' = "error"
    /\ failed' = failed \cup {p}
    /\ UNCHANGED <<view, rosters, draft, recorded>>

\* onSuccess: thanks in place of the form and all that is typed in it, and
\* the way to WhatsApp, which on a phone may leave the page in place.
Thank(p) ==
    /\ posts[p].state = "written" /\ posts[p].awaited
    /\ posts' = [posts EXCEPT ![p].state = "over"]
    /\ posting' = "success"
    /\ view' \in {"thanks", "left"}
    /\ draft' = NoReport
    /\ UNCHANGED <<rosters, recorded, failed>>

\* Back from WhatsApp to the page as it was.
Return ==
    /\ view = "left"
    /\ view' = "thanks"
    /\ UNCHANGED <<rosters, draft, posting, posts, recorded, failed>>

\* The button for another report: mutation.reset and a new form, whose lists
\* are cached.
SendAnother ==
    /\ view = "thanks"
    /\ view' = "form"
    /\ posting' = "idle"
    /\ UNCHANGED <<rosters, draft, posts, recorded, failed>>

-----------------------------------------------------------------------------
PubNext ==
    \/ LoadForm
    \/ \E l \in DOMAIN rosters : RosterAnswers(l)
    \/ \E r \in Reports : Compose(r)
    \/ \E p \in Posts : Post(p) \/ Record(p) \/ PostFails(p) \/ Thank(p)
    \/ Return
    \/ SendAnother

PubSpec == PubInit /\ [][PubNext]_pubVars

-----------------------------------------------------------------------------
RowsOf(r) == {p \in recorded : posts[p].report = r}

\* A report is in the table once, and once more at most for each request that
\* the page gave up on, however often the button is pressed, the fields are
\* changed meanwhile, and the page left and come back to.
RecordedOnce ==
    \A r \in Reports :
        Cardinality(RowsOf(r))
            <= 1 + Cardinality({p \in failed : posts[p].report = r})
=============================================================================

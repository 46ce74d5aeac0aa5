------------------------------ MODULE BulkImport ------------------------------
(***************************************************************************)
(* A CSV import: handler.Bulk.importEntity, the loop of bulk.Process, and  *)
(* the Upsert of the entity.  Upsert looks a row up by its natural key,    *)
(* then writes with a second statement, then mostly reads the row back     *)
(* with a third: other requests run in between.  What the write does when  *)
(* the lookup is out of date depends on the table:                         *)
(*                                                                         *)
(*   loose   students, teachers, attendances: no unique key, INSERT or     *)
(*           UPDATE by id                                                  *)
(*   unique  users: the email is UNIQUE, INSERT or UPDATE by id            *)
(*   merge   pencapaian: UNIQUE(student, materi) and one INSERT ... ON     *)
(*           CONFLICT DO UPDATE in both cases                              *)
(*                                                                         *)
(* A row is its id, its natural key and one value for its other columns.   *)
(* ids grow, as ULIDs do: "ORDER BY id" finds the oldest row of a key.     *)
(***************************************************************************)
EXTENDS Integers, Sequences, SequencesExt

CONSTANTS
    Kinds,        \* the tables of this instance: "loose", "unique", "merge"
    OverlapKinds, \* those whose rows other requests may add or rename, or
                  \* a second import may write, while an import runs
    Importer,     \* import requests that may run at a time
    Key, Val,     \* natural keys and the contents of the other columns
    Uploads,      \* the [file, mode] that are uploaded: a file is a sequence
                  \* of [key, val], Bad and Blank, a mode one of bulk.Mode
    Bad, Blank,   \* a line ParseRow rejects; a line with no content
    MaxRows,      \* handler.maxRows
    MaxId,        \* bound: rows ever created
    MaxImports    \* bound: imports ever begun

\* ParseRow gives every line that is not blank a record or an error.
ASSUME BulkAssumption ==
    /\ Kinds \subseteq {"loose", "unique", "merge"}
    /\ \A up \in Uploads :
          /\ up.file \in Seq([key : Key, val : Val] \cup {Bad, Blank})
          /\ up.mode \in {"create", "upsert", "dry-run"}
    /\ Bad # Blank /\ {Bad, Blank} \cap [key : Key, val : Val] = {}
    /\ MaxRows \in Nat /\ MaxId \in Nat /\ MaxImports \in Nat

NoId == 0
Row == [id : 1 .. MaxId, key : Key, val : Val]
Outcome == {"created", "updated", "skipped", "failed"}
Result == [line : Nat, outcome : Outcome, id : 0 .. MaxId]

VARIABLES
    kind,    \* which table this behaviour is about
    table,   \* its rows
    nextId,  \* the next id to be issued
    imp,     \* per importer, the request it runs
    begun    \* imports begun so far

vars == <<kind, table, nextId, imp, begun>>

Idle == [phase |-> "idle"]

Running(i) == imp[i].phase \in {"next", "found", "wrote"}

Init ==
    /\ kind \in Kinds
    /\ table = {}
    /\ nextId = 1
    /\ imp = [i \in Importer |-> Idle]
    /\ begun = 0

-----------------------------------------------------------------------------
(***************************************************************************)
(* The table.                                                              *)
(***************************************************************************)
WithKey(key) == {r \in table : r.key = key}
WithId(id) == {r \in table : r.id = id}

\* findOneByNaturalKey, idByKey, FindByEmail: the lowest id of the key.
Lookup(key) ==
    IF WithKey(key) = {} THEN NoId
    ELSE CHOOSE id \in {r.id : r \in WithKey(key)} :
             \A r \in WithKey(key) : id <= r.id

\* A mistake the runs must notice: no unique index.
KeyNeverTaken(key, id) == FALSE

\* Would the unique index refuse a row other than id with this key?
KeyTaken(key, id) == kind # "loose" /\ \E r \in WithKey(key) : r.id # id

InsertRow(key, val) ==
    /\ nextId <= MaxId
    /\ table' = table \cup {[id |-> nextId, key |-> key, val |-> val]}
    /\ nextId' = nextId + 1

UpdateRow(id, key, val) ==
    /\ table' = {IF r.id = id THEN [id |-> id, key |-> key, val |-> val] ELSE r
                   : r \in table}
    /\ UNCHANGED nextId

-----------------------------------------------------------------------------
(***************************************************************************)
(* One import.  "line" is the line being worked on, "existing" the id the  *)
(* lookup found, "written" the id the write went to.  "log" and "calm" are *)
(* history: which line wrote which row, and whether nobody else wrote the  *)
(* table since the import began.                                           *)
(***************************************************************************)
Line(i) == imp[i].file[imp[i].line]

\* A mistake the runs must notice: the lookup of a line survives the line.
ReportKeepingLookup(i, outcome, id) ==
    [imp[i] EXCEPT !.phase = "next", !.line = @ + 1, !.written = NoId,
                   !.results = Append(@, [line |-> imp[i].line,
                                          outcome |-> outcome, id |-> id])]

Report(i, outcome, id) ==
    [imp[i] EXCEPT !.phase = "next", !.line = @ + 1,
                   !.existing = NoId, !.written = NoId,
                   !.results = Append(@, [line |-> imp[i].line,
                                          outcome |-> outcome, id |-> id])]

Step(i, new) == imp' = [imp EXCEPT ![i] = new]

\* Others see the table change under them.
StepWriting(i, new) ==
    imp' = [j \in Importer |->
               IF j = i THEN new
               ELSE IF imp[j] = Idle THEN Idle
               ELSE [imp[j] EXCEPT !.calm = FALSE]]

Begin(i, up) ==
    /\ ~Running(i) /\ begun < MaxImports
    /\ kind \in OverlapKinds \/ \A j \in Importer : ~Running(j)
    /\ Step(i, [phase |-> "next", file |-> up.file, mode |-> up.mode,
                line |-> 1, existing |-> NoId, written |-> NoId,
                results |-> <<>>, answer |-> 0, log |-> {}, calm |-> TRUE])
    /\ begun' = begun + 1
    /\ UNCHANGED <<kind, table, nextId>>

AtLine(i) ==
    /\ imp[i].phase = "next"
    /\ imp[i].line <= Len(imp[i].file)

SkipBlank(i) ==
    /\ AtLine(i) /\ Line(i) = Blank
    /\ Step(i, [imp[i] EXCEPT !.line = @ + 1])
    /\ UNCHANGED <<kind, table, nextId, begun>>

\* Mistakes the runs must notice: a rejected line is left out of the report,
\* or is read again and again.
DropLine(i) ==
    /\ AtLine(i) /\ Line(i) = Bad
    /\ Step(i, [imp[i] EXCEPT !.line = @ + 1])
    /\ UNCHANGED <<kind, table, nextId, begun>>
RereadLine(i) ==
    /\ AtLine(i) /\ Line(i) = Bad
    /\ UNCHANGED vars

RejectLine(i) ==
    /\ AtLine(i) /\ Line(i) = Bad
    /\ Step(i, Report(i, "failed", NoId))
    /\ UNCHANGED <<kind, table, nextId, begun>>

IsRecord(i) == AtLine(i) /\ Line(i) \notin {Bad, Blank}

DryRunLine(i) ==
    /\ IsRecord(i) /\ imp[i].mode = "dry-run"
    /\ Step(i, Report(i, "skipped", NoId))
    /\ UNCHANGED <<kind, table, nextId, begun>>

\* Upsert, first statement.  A hit in create mode is a duplicate.
FindLine(i) ==
    LET existing == Lookup(Line(i).key)
    IN  /\ IsRecord(i) /\ imp[i].mode # "dry-run"
        /\ Step(i, IF existing # NoId /\ imp[i].mode # "upsert"
                      THEN Report(i, "failed", NoId)
                      ELSE [imp[i] EXCEPT !.phase = "found",
                                          !.existing = existing])
        /\ UNCHANGED <<kind, table, nextId, begun>>

Wrote(i, id) ==
    [imp[i] EXCEPT !.phase = "wrote", !.written = id,
                   !.log = @ \cup {<<imp[i].line, id>>}]

\* Upsert, second statement, on a row the lookup did not find.
InsertLine(i) ==
    /\ imp[i].phase = "found"
    /\ kind # "merge" /\ imp[i].existing = NoId
    /\ IF KeyTaken(Line(i).key, NoId)
          THEN Step(i, Report(i, "failed", NoId)) /\ UNCHANGED <<table, nextId>>
          ELSE /\ InsertRow(Line(i).key, Line(i).val)
               /\ StepWriting(i, Wrote(i, nextId))
    /\ UNCHANGED <<kind, begun>>

\* A mistake the runs must notice: nobody looks at the rows affected.
UpdateLineBlindly(i) ==
    LET id == imp[i].existing
    IN  /\ imp[i].phase = "found"
        /\ kind # "merge" /\ id # NoId
        /\ IF WithId(id) # {}
              THEN /\ UpdateRow(id, Line(i).key, Line(i).val)
                   /\ StepWriting(i, [Report(i, "updated", id) EXCEPT
                                         !.log = @ \cup {<<imp[i].line, id>>}])
              ELSE /\ Step(i, Report(i, "updated", id))
                   /\ UNCHANGED <<table, nextId>>
        /\ UNCHANGED <<kind, begun>>

\* ... and on one it found.  Update of students, teachers and attendances
\* notices that the row is gone; updateBulk of users does not look at the
\* rows affected, and does not read the row back either.
UpdateLine(i) ==
    LET id == imp[i].existing
    IN  /\ imp[i].phase = "found"
        /\ kind # "merge" /\ id # NoId
        /\ IF WithId(id) # {} /\ ~KeyTaken(Line(i).key, id)
              THEN /\ UpdateRow(id, Line(i).key, Line(i).val)
                   /\ StepWriting(i,
                         IF kind = "loose" THEN Wrote(i, id)
                         ELSE [Report(i, "updated", id) EXCEPT
                                  !.log = @ \cup {<<imp[i].line, id>>}])
              ELSE /\ Step(i, IF kind = "unique" /\ WithId(id) = {}
                                 THEN Report(i, "updated", id)
                                 ELSE Report(i, "failed", NoId))
                   /\ UNCHANGED <<table, nextId>>
        /\ UNCHANGED <<kind, begun>>

\* A mistake the runs must notice: ON CONFLICT DO NOTHING.
MergeLineOrIgnore(i) ==
    LET id == Lookup(Line(i).key)
    IN  /\ imp[i].phase = "found" /\ kind = "merge"
        /\ IF id = NoId
              THEN /\ InsertRow(Line(i).key, Line(i).val)
                   /\ StepWriting(i, Wrote(i, nextId))
              ELSE /\ StepWriting(i, Wrote(i, id))
                   /\ UNCHANGED <<table, nextId>>
        /\ UNCHANGED <<kind, begun>>

\* The same statement of PencapaianStore.Upsert either way.
MergeLine(i) ==
    LET id == Lookup(Line(i).key)
    IN  /\ imp[i].phase = "found" /\ kind = "merge"
        /\ IF id = NoId
              THEN /\ InsertRow(Line(i).key, Line(i).val)
                   /\ StepWriting(i, Wrote(i, nextId))
              ELSE /\ UpdateRow(id, Line(i).key, Line(i).val)
                   /\ StepWriting(i, Wrote(i, id))
        /\ UNCHANGED <<kind, begun>>

\* The read-back: by id, or by key for pencapaian.  A row that is gone again
\* makes the line a failed one.
ReadBack(i) ==
    LET found == IF kind = "merge" THEN Lookup(Line(i).key)
                 ELSE IF WithId(imp[i].written) = {} THEN NoId
                 ELSE imp[i].written
    IN  /\ imp[i].phase = "wrote"
        /\ Step(i, IF found = NoId THEN Report(i, "failed", NoId)
                   ELSE Report(i, IF imp[i].existing = NoId THEN "created"
                                  ELSE "updated", found))
        /\ UNCHANGED <<kind, table, nextId, begun>>

\* A statement of Upsert fails: the per-row timeout ran out or the database
\* was busy.
StatementFails(i) ==
    /\ imp[i].phase \in {"found", "wrote"} \/ IsRecord(i)
    /\ imp[i].mode # "dry-run"
    /\ Step(i, Report(i, "failed", NoId))
    /\ UNCHANGED <<kind, table, nextId, begun>>

\* The end of the file.  The size limit is tested here.
Finish(i) ==
    /\ imp[i].phase = "next"
    /\ imp[i].line > Len(imp[i].file)
    /\ Step(i, [imp[i] EXCEPT
                   !.phase = "answered",
                   !.answer = IF Len(imp[i].results) > MaxRows THEN 413
                              ELSE 200])
    /\ UNCHANGED <<kind, table, nextId, begun>>

Process(i) ==
    \/ SkipBlank(i) \/ RejectLine(i) \/ DryRunLine(i) \/ FindLine(i)
    \/ InsertLine(i) \/ UpdateLine(i) \/ MergeLine(i) \/ ReadBack(i)
    \/ StatementFails(i) \/ Finish(i)

-----------------------------------------------------------------------------
(***************************************************************************)
(* The surroundings.                                                       *)
(***************************************************************************)
\* The client disconnects or the process stops.  A cancelled context fails
\* the statement that is next and then ends the loop, which answers 400 in
\* place of the report; so nothing is left of the import but its rows.
Abort(i) ==
    /\ Running(i)
    /\ Step(i, Idle)
    /\ UNCHANGED <<kind, table, nextId, begun>>

Disturbed == [i \in Importer |->
                 IF imp[i] = Idle THEN Idle ELSE [imp[i] EXCEPT !.calm = FALSE]]

\* There is no route that creates or edits a user.
MayInterfere ==
    /\ kind # "unique"
    /\ kind \in OverlapKinds \/ \A i \in Importer : ~Running(i)

\* Another request adds a row (a form, which looks for no duplicate) ...
OtherCreate(key, val) ==
    /\ MayInterfere /\ ~KeyTaken(key, NoId)
    /\ InsertRow(key, val)
    /\ imp' = Disturbed
    /\ UNCHANGED <<kind, begun>>

\* ... edits one, its natural key included ...
OtherUpdate(r, key, val) ==
    /\ MayInterfere /\ ~KeyTaken(key, r.id)
    /\ kind = "merge" => key = r.key
    /\ UpdateRow(r.id, key, val)
    /\ imp' = Disturbed
    /\ UNCHANGED <<kind, begun>>

\* ... or deletes one.
OtherDelete(r) ==
    /\ table' = table \ {r}
    /\ imp' = Disturbed
    /\ UNCHANGED <<kind, nextId, begun>>

Next ==
    \/ \E i \in Importer, up \in Uploads : Begin(i, up)
    \/ \E i \in Importer : Process(i) \/ Abort(i)
    \/ \E key \in Key, val \in Val : OtherCreate(key, val)
    \/ \E r \in table, key \in Key, val \in Val : OtherUpdate(r, key, val)
    \/ \E r \in table : OtherDelete(r)

\* The goroutine of a request keeps running until the handler returns, and
\* every statement of it ends, if only by its timeout.
Fairness == \A i \in Importer : WF_vars(Process(i))

Spec == Init /\ [][Next]_vars /\ Fairness

-----------------------------------------------------------------------------
(***************************************************************************)
(* Correctness.                                                            *)
(***************************************************************************)
Request ==
    [phase : {"next", "found", "wrote", "answered"},
     file : {up.file : up \in Uploads}, mode : {up.mode : up \in Uploads},
     line : Nat \ {0}, existing : 0 .. MaxId, written : 0 .. MaxId,
     results : Seq(Result), answer : {0, 200, 413},
     log : SUBSET (Nat \X (1 .. MaxId)), calm : BOOLEAN]

\* Rows and requests have their form; a lookup result is only held while the
\* line it belongs to is being written.
TypeOK ==
    /\ kind \in Kinds
    /\ table \subseteq Row
    /\ nextId \in 1 .. MaxId + 1
    /\ \A r \in table : r.id < nextId
    /\ \A i \in Importer :
           \/ imp[i] = Idle
           \/ /\ imp[i] \in Request
              /\ imp[i].phase \in {"next", "answered"} =>
                     imp[i].existing = NoId
    /\ begun \in 0 .. MaxImports

AddStep ==
    \A i \in Importer :
        imp[i] # Idle /\ imp[i].phase = "found" /\ imp'[i] # imp[i] =>
            \A r \in table' : r.id >= nextId => WithKey(r.key) = {}

\* An import never adds a second row for a natural key.  The users and
\* pencapaian tables guarantee it against any other request; for students,
\* teachers and attendances it holds as long as nobody else adds or renames
\* rows while the import runs (OverlapKinds).
ImportAddsNoDuplicate == [][AddStep]_vars

ReportLines(i) == {imp[i].results[k].line : k \in DOMAIN imp[i].results}

\* "Return a per-row outcome report so a partial failure does not silently
\* drop data" (24-bulk-operations.md:12): when the file has been read to its
\* end, every line that is not blank is reported once, in the file's order.
EveryLineReported ==
    \A i \in Importer :
        imp[i] # Idle /\ imp[i].phase = "answered" =>
            /\ ReportLines(i) = {n \in DOMAIN imp[i].file :
                                    imp[i].file[n] # Blank}
            /\ \A j, k \in DOMAIN imp[i].results :
                   j < k => imp[i].results[j].line < imp[i].results[k].line

\* The report tells what happened to the table.  A created or updated line
\* was written, once, and a skipped line was not; only a failed line may
\* leave a row behind, because its read-back can fail.  The one exception is
\* a user deleted between lookup and UPDATE, who is reported updated.
ReportFaithful ==
    \A i \in Importer : imp[i] # Idle =>
        /\ \A w1, w2 \in imp[i].log : w1[1] = w2[1] => w1 = w2
        /\ \A k \in DOMAIN imp[i].results :
               LET res == imp[i].results[k]
                   writes == {w \in imp[i].log : w[1] = res.line}
               IN  /\ res.outcome = "skipped" => writes = {}
                   /\ res.outcome = "created" => writes # {}
                   /\ res.outcome = "updated" /\ kind # "unique" => writes # {}

Records(file) == {n \in DOMAIN file : file[n] \notin {Bad, Blank}}
LastOf(file, key) ==
    CHOOSE n \in Records(file) :
        /\ file[n].key = key
        /\ \A m \in Records(file) : file[m].key = key => m <= n

\* "Re-uploading the same file in upsert mode is safe" (24-bulk-operations.md
\* :225): after an upsert import without failed lines and without other
\* writers, the row each key of the file is matched with exists and holds the
\* last line of that key, whatever earlier imports that were cut short or
\* crashed have left in the table.
UpsertConverges ==
    \A i \in Importer :
        /\ imp[i] # Idle /\ imp[i].phase = "answered"
        /\ imp[i].mode = "upsert" /\ imp[i].calm
        /\ \A k \in DOMAIN imp[i].results : imp[i].results[k].outcome # "failed"
        => \A n \in Records(imp[i].file) :
               LET key == imp[i].file[n].key
               IN  \E r \in WithId(Lookup(key)) :
                      r.val = imp[i].file[LastOf(imp[i].file, key)].val

\* Every import that begins is answered, or ends with the process.
ImportEnds == \A i \in Importer : Running(i) ~> ~Running(i)

\* The step that ends "found" is one of the line itself, of no other request.
CreateStep ==
    \A i \in Importer :
        /\ imp[i] # Idle /\ imp[i].phase = "found" /\ imp[i].mode = "create"
        /\ imp'[i].phase # "found"
        => table \subseteq table'

\* pencapaian_bulk.go:90 says "Create mode rejects duplicates": a line of an
\* import in create mode never changes a row that is already there.
CreateRejectsDuplicates == [][CreateStep]_vars

\* 24-bulk-operations.md:201 says of the row limit "rejected with 413 before
\* parsing": an import answered with 413 has written nothing.
TooLargeWritesNothing ==
    \A i \in Importer :
        imp[i] # Idle /\ imp[i].answer = 413 => imp[i].log = {}
===============================================================================

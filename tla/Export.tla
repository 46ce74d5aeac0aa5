-------------------------------- MODULE Export --------------------------------
(***************************************************************************)
(* A CSV export: handler.Bulk.exportEntity, bulk.WriteCSV and StreamRows   *)
(* of the entity, among requests that write the same table, on a pool of   *)
(* one database connection.                                                *)
(*                                                                         *)
(*   list    students, teachers, attendances: pages of the list endpoint.  *)
(*           A page is in memory, and the connection free, when its rows   *)
(*           are written to the client.  List has a page size of its own.  *)
(*   direct  pencapaian: pages of one SELECT each.  Rows are written while *)
(*           its result set is open and holds the connection.              *)
(*   whole   users: one SELECT, likewise.                                  *)
(*                                                                         *)
(* A table is the sequence of the ids of the rows that match the filter,   *)
(* in the ORDER BY of the export: a new row may come in anywhere, and an   *)
(* edit of a name, a date or an email moves a row.  What happens to the    *)
(* table before the export is in the choice of its first value; what       *)
(* happens afterwards does not matter.                                     *)
(***************************************************************************)
EXTENDS Integers, Sequences, FiniteSets, SequencesExt

CONSTANTS
    Kinds,      \* the tables of this instance: "list", "direct", "whole"
    MaxRows,    \* bound: rows in the table when the export begins
    MaxAdded,   \* bound: rows added while it runs
    MaxMoved,   \* bound: rows moved while it runs
    Page,       \* "const page" of StreamRows
    MaxLimit,   \* the largest limit List accepts
    Default,    \* the limit List takes instead of one it does not accept
    Failures    \* may statements fail and clients disconnect?

\* The page sizes keep the order of the code's 500 > 200 > 50.
ASSUME ExportAssumption ==
    /\ Kinds \subseteq {"list", "direct", "whole"}
    /\ MaxRows \in Nat /\ MaxAdded \in Nat /\ MaxMoved \in Nat
    /\ Page \in Nat /\ MaxLimit \in Nat /\ Default \in Nat
    /\ Page > MaxLimit /\ MaxLimit > Default /\ Default > 0
    /\ Failures \in BOOLEAN

VARIABLES
    kind,       \* which table this behaviour is about
    table,      \* ids of its rows, in the order of the export
    conn,       \* does the result set of the export hold the connection?
    phase,      \* of the export
    offset,     \* of the page that is read next, or being written
    page,       \* ids of the page that are still to be written
    got,        \* rows in that page
    written,    \* ids of the rows of the CSV, in order
    stayed,     \* history: rows in the table ever since the export began
    added, removed, moved \* history: what others did since then

export == <<conn, phase, offset, page, got, written>>
history == <<stayed, added, removed, moved>>
vars == <<kind, table, export, history>>

Ids == Range(table)
MaxId == MaxRows + MaxAdded

Init ==
    /\ kind \in Kinds
    /\ \E n \in 0 .. MaxRows : table = [i \in 1 .. n |-> i]
    /\ conn = FALSE /\ phase = "idle"
    /\ offset = 0 /\ page = <<>> /\ got = 0 /\ written = <<>>
    /\ stayed = {} /\ added = 0 /\ removed = 0 /\ moved = 0

-----------------------------------------------------------------------------
(***************************************************************************)
(* The export.                                                             *)
(***************************************************************************)
Start ==
    /\ phase = "idle"
    /\ phase' = "read"
    /\ stayed' = Ids
    /\ UNCHANGED <<kind, table, conn, offset, page, got, written>>
    /\ UNCHANGED <<added, removed, moved>>

\* SELECT ... ORDER BY ... LIMIT limit OFFSET from.
Select(from, limit) ==
    SubSeq(table, from + 1, Min({from + limit, Len(table)}))

\* List does not cut a limit that is too large down: it takes its default.
Clamped(limit) == IF limit <= 0 \/ limit > MaxLimit THEN Default ELSE limit

PageRows ==
    CASE kind = "list"   -> Select(offset, Clamped(Page))
      [] kind = "direct" -> Select(offset, Page)
      [] kind = "whole"  -> table

ReadPage ==
    /\ phase = "read"
    /\ phase' = "write"
    /\ page' = PageRows
    /\ got' = Len(PageRows)
    /\ conn' = (kind # "list")
    /\ UNCHANGED <<kind, table, offset, written, history>>

WriteRow ==
    /\ phase = "write" /\ page # <<>>
    /\ written' = Append(written, Head(page))
    /\ page' = Tail(page)
    /\ UNCHANGED <<kind, table, conn, phase, offset, got, history>>

\* Mistakes the runs must notice: the next page starts one row early; a full
\* page ends the export; no page ends it, from the next offset or the same.
EndPageOverlapping ==
    /\ phase = "write" /\ page = <<>>
    /\ conn' = FALSE
    /\ IF kind = "whole" \/ got < Page
          THEN phase' = "done" /\ UNCHANGED offset
          ELSE phase' = "read" /\ offset' = offset + Page - 1
    /\ UNCHANGED <<kind, table, page, got, written, history>>
EndPageEarly ==
    /\ phase = "write" /\ page = <<>>
    /\ conn' = FALSE
    /\ IF kind = "whole" \/ got <= Page
          THEN phase' = "done" /\ UNCHANGED offset
          ELSE phase' = "read" /\ offset' = offset + Page
    /\ UNCHANGED <<kind, table, page, got, written, history>>
EndPageOnward ==
    /\ phase = "write" /\ page = <<>>
    /\ conn' = FALSE /\ phase' = "read" /\ offset' = offset + Page
    /\ UNCHANGED <<kind, table, page, got, written, history>>
EndPageAgain ==
    /\ phase = "write" /\ page = <<>>
    /\ conn' = FALSE /\ phase' = "read"
    /\ UNCHANGED <<kind, table, offset, page, got, written, history>>

\* The result set is closed; a page that is not full is the last one.
EndPage ==
    /\ phase = "write" /\ page = <<>>
    /\ conn' = FALSE
    /\ IF kind = "whole" \/ got < Page
          THEN phase' = "done" /\ UNCHANGED offset
          ELSE phase' = "read" /\ offset' = offset + Page
    /\ UNCHANGED <<kind, table, page, got, written, history>>

\* A mistake the runs must notice: no rows.Close() before the error returns.
FailHolding ==
    /\ Failures /\ phase \in {"read", "write"}
    /\ phase' = "failed"
    /\ page' = <<>>
    /\ UNCHANGED <<kind, table, conn, offset, got, written, history>>

\* A statement or a Scan fails, or the client is gone.  Every such path closes
\* the result set.
Fail ==
    /\ Failures /\ phase \in {"read", "write"}
    /\ phase' = "failed"
    /\ conn' = FALSE
    /\ page' = <<>>
    /\ UNCHANGED <<kind, table, offset, got, written, history>>

StreamRows == ReadPage \/ WriteRow \/ EndPage \/ Fail

-----------------------------------------------------------------------------
(***************************************************************************)
(* The other requests.  Each is one statement, for which it needs the      *)
(* connection.                                                             *)
(***************************************************************************)
Exporting == phase \in {"read", "write"}

\* The order is that of names, dates or emails: a new row may come anywhere.
Create ==
    /\ Exporting /\ ~conn /\ added < MaxAdded
    /\ \E k \in 1 .. Len(table) + 1 :
           table' = InsertAt(table, k, MaxRows + added + 1)
    /\ added' = added + 1
    /\ UNCHANGED <<kind, export, stayed, removed, moved>>

Delete ==
    /\ Exporting /\ ~conn
    /\ \E k \in 1 .. Len(table) :
           /\ table' = RemoveAt(table, k)
           /\ stayed' = stayed \ {table[k]}
    /\ removed' = removed + 1
    /\ UNCHANGED <<kind, export, added, moved>>

\* Pencapaian are ordered by their key, which no request changes.
Update ==
    /\ Exporting /\ ~conn /\ kind # "direct" /\ moved < MaxMoved
    /\ \E k, l \in 1 .. Len(table) :
           /\ k # l
           /\ table' = InsertAt(RemoveAt(table, k), l, table[k])
    /\ moved' = moved + 1
    /\ UNCHANGED <<kind, export, stayed, added, removed>>

Next == Start \/ StreamRows \/ Create \/ Delete \/ Update

\* The handler goes on while its client reads or disconnects: the server has
\* no write timeout, so this is an assumption about clients.  A page may wait
\* for the connection, but the other requests hold it for one statement each.
Fairness == WF_vars(StreamRows)

Spec == Init /\ [][Next]_vars /\ Fairness

-----------------------------------------------------------------------------
(***************************************************************************)
(* Properties.                                                             *)
(***************************************************************************)
\* Every variable keeps its shape; no row is in the table twice; the export
\* never asks for a page beyond the end of every table there can be.
TypeOK ==
    /\ kind \in Kinds /\ conn \in BOOLEAN
    /\ phase \in {"idle", "read", "write", "done", "failed"}
    /\ Ids \subseteq 1 .. MaxId /\ IsInjective(table)
    /\ offset \in 0 .. MaxId /\ got \in 0 .. MaxId
    /\ Range(page) \cup Range(written) \subseteq 1 .. MaxId
    /\ stayed \subseteq Ids
    /\ added \in 0 .. MaxAdded /\ removed \in 0 .. MaxId
    /\ moved \in 0 .. MaxMoved

\* The one connection of the pool is never held by an export that is over, has
\* failed, is between two pages, or has its page in memory: on whatever path
\* StreamRows returns, the other requests can go on.
ConnHeldWhileWriting == conn => phase = "write" /\ kind # "list"

\* An export that pages by itself misses a row that was there all the time
\* only if another request deleted one while it ran, and it misses no more
\* rows than were deleted.  One SELECT misses none.  (The exports that page
\* through List are the subject of ExportWritesEachRow.)
MissesBounded ==
    phase = "done" /\ kind # "list" =>
        Cardinality(stayed \ Range(written)) <=
            IF kind = "whole" THEN 0 ELSE removed

\* An export writes a row twice only if another request added rows while it
\* paged, and then repeats no more rows than were added.  (One through List
\* never asks for a second page: see ExportWritesEachRow.)
RepeatsBounded ==
    Len(written) - Cardinality(Range(written)) <=
        IF kind = "direct" THEN added ELSE 0

\* An export ends, when its client reads or disconnects and the others do not
\* add rows for ever: each further page is past all that was read before.
ExportEnds == Exporting ~> ~Exporting

\* export.go:12 has the exporter "call write for each row".  When nothing
\* fails and nobody else writes, the CSV has every row of the table.
ExportWritesEachRow ==
    phase = "done" /\ added + removed + moved = 0 =>
        stayed \subseteq Range(written)
===============================================================================

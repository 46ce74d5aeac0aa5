------------------------------- MODULE Grades -------------------------------
(***************************************************************************)
(* The screen /achievement/$studentId: the marks of one student in one age *)
(* group and semester, as a grid of inputs that save themselves, and as a  *)
(* CSV matrix that is exported, filled in by hand and imported again.      *)
(*                                                                         *)
(* Each save sends the mark: the edited field and, for the others, what    *)
(* the query cache holds, but not the notes (catatan), which so are        *)
(* erased.  Saves run concurrently, the server applies them in any order,  *)
(* and the answer to each starts a refetch, if the page is still there.    *)
(* The import reads and writes row by row, between the statements of       *)
(* others.                                                                 *)
(*                                                                         *)
(* Of a date only the month and whether it is the 15th are kept, because   *)
(* the matrix has a column per month and writes that day.  The month of a  *)
(* date is the same to the browser as to the server, as it is east of      *)
(* Greenwich.  The cache outlives a visit of the page (gcTime is 5 min).   *)
(***************************************************************************)
EXTENDS Naturals

CONSTANTS
    Materi,     \* materi of the age group and semester
    Statuses,   \* states of progress, among them Belum
    Belum,      \* the state of what has no mark
    Nilai,      \* values a mark can have
    Months,     \* months of the semester
    Notes,      \* notes an import can give to a mark (catatan)
    Blank,      \* null, an empty input or cell
    Slots,      \* bound: saves and deletes of this screen in flight
    MaxActs,    \* bound: edits, rows filled in, imports, writes of others
    MaxId       \* ids are numbered 1..MaxId and reused once nothing has them

ASSUME GrAssumption ==
    /\ Belum \in Statuses
    /\ Blank \notin Statuses \cup Nilai \cup Notes
    /\ Months \subseteq 1..12
    /\ MaxActs \in Nat
    /\ MaxId \in Nat \ {0}

VARIABLES
    marks,      \* server: table pencapaian of the student
    shown,      \* query cache: what ['pencapaian', student] holds
    loaded,     \* query cache: whether it holds anything
    here,       \* whether the page is on the screen
    flight,     \* the fetch of it that is under way
    requests,   \* saves and deletes in flight
    file,       \* the CSV on the person's disk
    importing,  \* the import that runs
    unseen,     \* history: rows others wrote, or whose answer or refetch was
                \* lost, since the marks were asked for
    behind,     \* history: rows this page wrote when the fetch under way had
                \* been answered, or none was, and no new one was started
    meant,      \* history: the mark an edit of a settled row has to lead to
    acts        \* history: what was done so far, for the bound

grVars == <<marks, shown, loaded, here, flight, requests, file, importing,
            unseen, behind, meant, acts>>

\* Month 0 is any month of the other semester. What is typed or entered by
\* others is some other day than the 15th.
Dates == [month: Months \cup {0}, mid: BOOLEAN]
Typed == {d \in Dates : ~d.mid}
Marks == [id: 0..MaxId, status: Statuses, nilai: Nilai \cup {Blank},
          tanggal: Dates \cup {Blank}, catatan: Notes \cup {Blank}]
Given(id) == [id: {id}, status: Statuses, nilai: Nilai \cup {Blank},
              tanggal: Typed \cup {Blank}, catatan: Notes \cup {Blank}]
NoMark == [id |-> 0, status |-> Belum, nilai |-> Blank, tanggal |-> Blank,
           catatan |-> Blank]
Tables == [Materi -> Marks]
NoTable == [m \in Materi |-> NoMark]

Rows == [status: Statuses \cup {Blank}, cells: [Months -> Nilai \cup {Blank}]]
Sheets == [Materi -> Rows]
EmptySheet == [m \in Materi |-> [status |-> Blank,
                                 cells |-> [mo \in Months |-> Blank]]]
NoFile == [rows |-> EmptySheet, exported |-> FALSE]

Requests == [state: {"free", "sent", "done"}, kind: {"save", "delete"},
             materi: Materi \cup {Blank}, mark: Marks]
Free == [state |-> "free", kind |-> "save", materi |-> Blank, mark |-> NoMark]

NotImporting == [on |-> FALSE, left |-> {}, row |-> {}, mark |-> NoMark]
NoFlight == [phase |-> "none", table |-> NoTable]
Unknown == [known |-> FALSE, mark |-> NoMark]
NothingMeant == [m \in Materi |-> Unknown]

\* Types of the table, its copy, the requests and the file.
GrTypeOK ==
    /\ marks \in Tables
    /\ shown \in Tables
    /\ loaded \in BOOLEAN /\ here \in BOOLEAN
    /\ flight \in [phase: {"none", "asked", "read"}, table: Tables]
    /\ requests \in [Slots -> Requests]
    /\ file \in [rows: Sheets, exported: BOOLEAN]
    /\ importing \in [on: BOOLEAN, left: SUBSET Materi, row: SUBSET Materi,
                      mark: Marks]
    /\ unseen \subseteq Materi /\ behind \subseteq Materi
    /\ meant \in [Materi -> [known: BOOLEAN, mark: Marks]]
    /\ acts \in 0..MaxActs

\* The page is opened: the marks are asked for, and until they come every row
\* stands as if it had none (existing = []).
GrOpened ==
    /\ shown = NoTable
    /\ loaded = FALSE /\ here = TRUE
    /\ flight = [NoFlight EXCEPT !.phase = "asked"]
    /\ requests = [i \in Slots |-> Free]
    /\ file = NoFile
    /\ importing = NotImporting
    /\ unseen = {} /\ behind = {}
    /\ meant = NothingMeant
    /\ acts = 0

\* One row has a whole mark to begin with.
GrInit ==
    /\ GrOpened
    /\ \E m \in Materi, p \in Given(1) :
          /\ \A f \in {"status", "nilai", "tanggal", "catatan"} :
                 p[f] # NoMark[f]
          /\ marks = [NoTable EXCEPT ![m] = p]

-----------------------------------------------------------------------------
(* The query of the marks. *)

AskAnew ==
    /\ flight' = [NoFlight EXCEPT !.phase = "asked"]
    /\ unseen' = {}
    /\ behind' = {}

\* A mistake the runs must notice: the fetch under way is always kept.
RefetchOnce(rows) ==
    IF here /\ flight.phase = "none" THEN AskAnew
    ELSE UNCHANGED <<flight, unseen, behind>>

\* invalidateQueries, after these rows were written. Only a query of a page on
\* the screen is fetched again; its fetch under way is then abandoned, unless
\* it is the first one, which is kept although it may have been read before.
Refetch(rows) ==
    IF here /\ (loaded \/ flight.phase = "none") THEN AskAnew
    ELSE /\ behind' = IF flight.phase = "asked" THEN behind
                         ELSE behind \cup rows
         /\ UNCHANGED <<flight, unseen>>

\* ListByStudent reads the table, then the answer arrives or is lost.
ReadMarks ==
    /\ flight.phase = "asked"
    /\ flight' = [phase |-> "read", table |-> marks]
    /\ UNCHANGED <<marks, shown, loaded, here, requests, file, importing,
                   unseen, behind, meant, acts>>

MarksArrive ==
    /\ flight.phase = "read"
    /\ shown' = flight.table
    /\ loaded' = TRUE
    /\ flight' = NoFlight
    /\ UNCHANGED <<marks, here, requests, file, importing, unseen, behind,
                   meant, acts>>

MarksLost ==
    /\ flight.phase # "none"
    /\ flight' = NoFlight
    /\ unseen' = Materi
    /\ UNCHANGED <<marks, shown, loaded, here, requests, file, importing,
                   behind, meant, acts>>

\* The page is left; what is in flight goes on.
Leave ==
    /\ here
    /\ here' = FALSE
    /\ UNCHANGED <<marks, shown, loaded, flight, requests, file, importing,
                   unseen, behind, meant, acts>>

\* It is opened again: what is cached is shown and asked for, but a fetch that
\* is still under way is joined.
ComeBack ==
    /\ ~here
    /\ here' = TRUE
    /\ IF flight.phase = "none" THEN AskAnew
       ELSE UNCHANGED <<flight, unseen, behind>>
    /\ UNCHANGED <<marks, shown, loaded, requests, file, importing, meant,
                   acts>>

-----------------------------------------------------------------------------
(* Edits on the grid. *)

\* No answer about this row is to come.
RowQuiet(m) ==
    /\ ~importing.on
    /\ \A i \in Slots : requests[i].state = "free" \/ requests[i].materi # m

\* Nothing under way and nothing missed: the grid shows what the table holds.
Settled(m) == /\ here /\ loaded /\ flight.phase = "none"
              /\ RowQuiet(m) /\ m \notin unseen \cup behind

SendMark(kind, m, p) ==
    /\ here
    /\ acts < MaxActs
    /\ acts' = acts + 1
    /\ \E i \in Slots :
        /\ requests[i].state = "free"
        /\ requests' = [requests EXCEPT ![i] =
             [state |-> "sent", kind |-> kind, materi |-> m, mark |-> p]]
    /\ UNCHANGED <<marks, shown, loaded, here, flight, file, importing,
                   unseen, behind>>

\* What the person expects of an edit; nothing unless the row was settled.
Expect(m, p) ==
    meant' = [meant EXCEPT ![m] = IF Settled(m)
                                  THEN [known |-> TRUE, mark |-> p]
                                  ELSE Unknown]

\* The fields a save sends of a mark: all but the notes.
Sent(p) == [p EXCEPT !.catatan = Blank]

\* A mistake the runs must notice: the state is sent alone.
ChooseStatusAlone(m, s) ==
    /\ s # shown[m].status
    /\ SendMark("save", m, [NoMark EXCEPT !.status = s])
    /\ Expect(m, Sent([marks[m] EXCEPT !.status = s]))

\* The status select: the mark of the cache with the chosen state.
ChooseStatus(m, s) ==
    /\ s # shown[m].status
    /\ SendMark("save", m, Sent([shown[m] EXCEPT !.status = s]))
    /\ Expect(m, Sent([marks[m] EXCEPT !.status = s]))

\* The value input is left: saved if it differs from the cache. The input is
\* uncontrolled, so v may as well be something typed long ago that the person
\* only tabs over.
BlurNilai(m, v) ==
    /\ v # shown[m].nilai
    /\ SendMark("save", m, Sent([shown[m] EXCEPT !.nilai = v]))
    /\ Expect(m, Sent([marks[m] EXCEPT !.nilai = v]))

\* The date input is left.
BlurTanggal(m, d) ==
    /\ d # shown[m].tanggal
    /\ SendMark("save", m, Sent([shown[m] EXCEPT !.tanggal = d]))
    /\ Expect(m, Sent([marks[m] EXCEPT !.tanggal = d]))

\* The trash button of a row that has a mark: deletes by the mark's id.
DeleteMark(m) ==
    /\ shown[m].id # 0
    /\ SendMark("delete", m, shown[m])
    /\ Expect(m, NoMark)

-----------------------------------------------------------------------------
(* The server, and what comes back. *)

\* A new id (ulid.Make): the least number nothing has.
Carried(m) == {marks[m].id, shown[m].id, flight.table[m].id}
                \cup {requests[i].mark.id : i \in Slots}
Fresh(m, id) ==
    /\ id \in 1..MaxId \ Carried(m)
    /\ \A x \in 1..MaxId \ Carried(m) : id <= x

\* INSERT ... ON CONFLICT DO UPDATE: the id stays, the rest is replaced.
Put(m, p) ==
    \E id \in 1..MaxId :
        /\ IF marks[m].id # 0 THEN id = marks[m].id ELSE Fresh(m, id)
        /\ marks' = [marks EXCEPT ![m] = [p EXCEPT !.id = id]]

\* The request's statement is executed; a delete of an id that is gone fails.
Apply(i) ==
    LET r == requests[i]
    IN  /\ r.state = "sent"
        /\ IF r.kind = "save" THEN Put(r.materi, r.mark)
           ELSE /\ marks[r.materi].id = r.mark.id
                /\ marks' = [marks EXCEPT ![r.materi] = NoMark]
        /\ requests' = [requests EXCEPT ![i].state = "done",
                                        ![i].mark = NoMark]
        /\ UNCHANGED <<shown, loaded, here, flight, file, importing, unseen,
                       behind, meant, acts>>

\* Refused, failed, or lost on the way: the grid shows no error.
Refused(i) ==
    /\ requests[i].state = "sent"
    /\ requests' = [requests EXCEPT ![i] = Free]
    /\ meant' = [meant EXCEPT ![requests[i].materi] = Unknown]
    /\ UNCHANGED <<marks, shown, loaded, here, flight, file, importing,
                   unseen, behind, acts>>

\* onSuccess of save and of del, also after the page was left.
Acknowledged(i) ==
    /\ requests[i].state = "done"
    /\ requests' = [requests EXCEPT ![i] = Free]
    /\ Refetch({requests[i].materi} \cap Materi)
    /\ UNCHANGED <<marks, shown, loaded, here, file, importing, meant, acts>>

AnswerLost(i) ==
    /\ requests[i].state = "done"
    /\ requests' = [requests EXCEPT ![i] = Free]
    /\ unseen' = unseen \cup ({requests[i].materi} \cap Materi)
    /\ UNCHANGED <<marks, shown, loaded, here, flight, file, importing,
                   behind, meant, acts>>

\* Another person, tab or import writes, or a request of this screen that is
\* executed after it was given up.
Others(m) ==
    /\ acts < MaxActs
    /\ acts' = acts + 1
    /\ unseen' = unseen \cup {m}
    /\ meant' = [meant EXCEPT ![m] = Unknown]
    /\ UNCHANGED <<shown, loaded, here, flight, requests, file, importing,
                   behind>>

\* They give a mark or change it; the list import (PencapaianBulk) brings
\* notes as well.
OthersPut(m, p) == Others(m) /\ p # marks[m] /\ Put(m, p)

OthersDelete(m) == /\ Others(m)
                   /\ marks[m].id # 0
                   /\ marks' = [marks EXCEPT ![m] = NoMark]

-----------------------------------------------------------------------------
(* The matrix file. *)

\* monthValue: the value of a dated mark, in the column of its month.
MonthValue(p, mo) == IF p.tanggal # Blank /\ p.tanggal.month = mo
                     THEN p.nilai ELSE Blank

\* downloadMatrixCsv: what the grid shows; the report tab's file has no
\* status column.
Sheet(table, withStatus) ==
    [m \in Materi |->
       [status |-> IF withStatus /\ table[m].id # 0 THEN table[m].status
                   ELSE Blank,
        cells |-> [mo \in Months |-> MonthValue(table[m], mo)]]]

\* The report tab's button gives the same without states. No file is taken
\* when nothing is left to be done with it (a bound).
Export(withStatus) ==
    /\ here /\ ~importing.on
    /\ acts < MaxActs
    /\ file' = [rows |-> Sheet(shown, withStatus), exported |-> TRUE]
    /\ UNCHANGED <<marks, shown, loaded, here, flight, requests, importing,
                   unseen, behind, meant, acts>>

\* The person fills in the file: a state or the value of a month.
FillIn(m, row) ==
    /\ ~importing.on
    /\ file.exported
    /\ acts < MaxActs
    /\ acts' = acts + 1
    /\ row # file.rows[m]
    /\ file' = [file EXCEPT !.rows[m] = row]
    /\ UNCHANGED <<marks, shown, loaded, here, flight, requests, importing,
                   unseen, behind, meant>>

\* importMut: one import at a time, also when the page was left and opened
\* again meanwhile (a bound).
StartImport ==
    /\ here /\ ~importing.on
    /\ file.exported
    /\ acts < MaxActs
    /\ acts' = acts + 1
    /\ importing' = [NotImporting EXCEPT !.on = TRUE, !.left = Materi]
    /\ meant' = NothingMeant
    /\ UNCHANGED <<marks, shown, loaded, here, flight, requests, file, unseen,
                   behind>>

\* A mistake the runs must notice: every filled month counts.
DifferingAlways(p, row) == {mo \in Months : row.cells[mo] # Blank}

\* pickChangedCell: filled months that differ from what the mark holds.
Differing(p, row) ==
    {mo \in Months : /\ row.cells[mo] # Blank
                     /\ row.cells[mo] # MonthValue(p, mo)}

\* A mistake the runs must notice: the columns are swapped.
MergedSwapped(p, row) ==
    LET new == Differing(p, row)
        latest == CHOOSE mo \in new : \A x \in new : x <= mo
    IN  IF new = {} THEN p
        ELSE [p EXCEPT !.nilai = row.status,
                       !.tanggal = [month |-> latest, mid |-> TRUE]]

\* The latest of them counts, dated the 15th. A blank status keeps the old;
\* notes are not kept.
Merged(p, row) ==
    LET new == Differing(p, row)
        latest == CHOOSE mo \in new : \A x \in new : x <= mo
        q == IF row.status = Blank THEN Sent(p)
             ELSE [Sent(p) EXCEPT !.status = row.status]
    IN  IF new = {} THEN q
        ELSE [q EXCEPT !.nilai = row.cells[latest],
                       !.tanggal = [month |-> latest, mid |-> TRUE]]

\* A row is left alone when neither a value nor the status is new to the
\* mark; without a mark every filled row is.
Touched(p, row) ==
    \/ Differing(p, row) # {}
    \/ row.status # Blank /\ (p.id = 0 \/ row.status # p.status)

\* findByKey, and what is to be written.
ReadRow(m) ==
    /\ m \in importing.left /\ importing.row = {}
    /\ importing' =
         IF Touched(marks[m], file.rows[m])
         THEN [importing EXCEPT !.left = @ \ {m}, !.row = {m},
                                !.mark = Merged(marks[m], file.rows[m])]
         ELSE [importing EXCEPT !.left = @ \ {m}]
    /\ UNCHANGED <<marks, shown, loaded, here, flight, requests, file,
                   unseen, behind, meant, acts>>

WriteRow(m) ==
    /\ importing.row = {m}
    /\ Put(m, importing.mark)
    /\ importing' = [importing EXCEPT !.row = {}, !.mark = NoMark]
    /\ UNCHANGED <<shown, loaded, here, flight, requests, file, unseen,
                   behind, meant, acts>>

\* A statement fails: the row is reported, the next one follows.
RowFails ==
    /\ importing.row # {}
    /\ importing' = [importing EXCEPT !.row = {}, !.mark = NoMark]
    /\ UNCHANGED <<marks, shown, loaded, here, flight, requests, file,
                   unseen, behind, meant, acts>>

\* onSuccess of importMut.
Imported ==
    /\ importing.on /\ importing.left = {} /\ importing.row = {}
    /\ importing' = NotImporting
    /\ Refetch(Materi)
    /\ UNCHANGED <<marks, shown, loaded, here, requests, file, meant, acts>>

\* The connection breaks: the rows written so far stay, and nothing tells the
\* grid of them.
ImportLost ==
    /\ importing.on
    /\ importing' = NotImporting
    /\ unseen' = Materi
    /\ UNCHANGED <<marks, shown, loaded, here, flight, requests, file,
                   behind, meant, acts>>

-----------------------------------------------------------------------------
GrNext ==
    \/ ReadMarks \/ MarksArrive \/ MarksLost \/ Leave \/ ComeBack
    \/ \E m \in Materi :
          \/ \E s \in Statuses : ChooseStatus(m, s)
          \/ \E v \in Nilai \cup {Blank} : BlurNilai(m, v)
          \/ \E d \in Typed \cup {Blank} : BlurTanggal(m, d)
          \/ DeleteMark(m)
          \/ \E p \in Given(marks[m].id) : OthersPut(m, p)
          \/ OthersDelete(m)
          \/ \E row \in Rows : FillIn(m, row)
          \/ ReadRow(m)
          \/ WriteRow(m)
    \/ \E i \in Slots :
          Apply(i) \/ Refused(i) \/ Acknowledged(i) \/ AnswerLost(i)
    \/ \E withStatus \in BOOLEAN : Export(withStatus)
    \/ StartImport \/ RowFails \/ Imported \/ ImportLost

GrSpec == GrInit /\ [][GrNext]_grVars

-----------------------------------------------------------------------------
\* When every answer about a row has come, the grid shows what the table holds
\* of it, in whatever order saves, deletes, an import, the refetches they start
\* and visits of the page overtook each other. Left out are rows that others
\* wrote, or whose answer or refetch was lost, since the marks were last asked
\* for (unseen), and rows this screen wrote while nothing asked for them again
\* (behind): the answer came when the page was away, or during the first
\* load, and the fetch then under way, which a return joins, had already been
\* read. Such a row shows the older mark until the next refetch.
GridSettles == \A m \in Materi : Settled(m) => shown[m] = marks[m]

\* An edit made on a settled row, with no other of that row until it is
\* answered, changes its own field and erases the notes, and does nothing else
\* to any row, although state, value and date travel together: those of the
\* cache are those of the table, whatever happens to the other rows meanwhile.
\* Of two edits of a row in flight, or one on a row that is not settled, the
\* property says nothing: the later one can put back an older field.
EditsStick ==
    \A m \in Materi :
        meant[m].known /\ RowQuiet(m) =>
            [marks[m] EXCEPT !.id = 0] = [meant[m].mark EXCEPT !.id = 0]

\* The import leaves a mark alone whose row says just what an export of it
\* would say now, with or without its status: an export that is imported
\* again keeps the days of all dates.
RoundTrip ==
    [][\A m \in Materi, withStatus \in BOOLEAN :
          ReadRow(m) /\ file.rows[m] = Sheet(marks, withStatus)[m] =>
              importing'.row = {}]_grVars
=============================================================================

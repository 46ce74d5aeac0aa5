------------------------------ MODULE Registry ------------------------------
(***************************************************************************)
(* The tables of the PPG dashboard and every statement the server runs     *)
(* against them: students, teachers, attendances, the curriculum (tingkat  *)
(* and materi_ajar), the achievement marks (pencapaian) and the users who  *)
(* record them.                                                            *)
(*                                                                         *)
(* store.Open limits the pool to one connection and turns foreign keys on, *)
(* so a handler that writes with one SQL statement is one atomic step; a   *)
(* statement refused by a key or foreign key changes nothing and answers   *)
(* with an error, so it is a step that is not enabled.  The read-back      *)
(* SELECT of the handlers changes nothing either.  Only DeleteTingkat      *)
(* decides on one statement and writes with another: other requests run    *)
(* between the two.                                                        *)
(*                                                                         *)
(* Of a row only its identity and its keys are kept.  Columns that no      *)
(* constraint looks at (names, dates, grades, notes) are left out, so the  *)
(* updates that only touch those are stuttering steps.                     *)
(***************************************************************************)
CONSTANTS
    Student, Teacher, User, Tingkat, Materi, Attendance, Mark,
                   \* the row ids the server may issue, by table
    Slot,          \* the (semester, nomor) pairs of materi_ajar
    Client,        \* the requests that may be in flight at a time
    None,          \* SQL NULL, and "no request in flight"
    SeedTingkat,   \* ids of the bundled curriculum (seed-data/kurikulum.sql)
    SeedMateri     \* its materi_ajar rows

VARIABLES
    students, teachers, users, tingkat,  \* ids of the live rows
    materi,        \* rows [id, tingkat, slot] of materi_ajar
    attendances,   \* rows [id, teacher, student]
    pencapaian,    \* rows [id, student, materi, by], by = recorded_by
    minted,        \* every ULID issued so far; one is never issued twice
    pending        \* per client, the tingkat whose materi_ajar COUNT was 0

tables == <<students, teachers, users, tingkat, materi, attendances,
            pencapaian>>
vars == <<students, teachers, users, tingkat, materi, attendances,
          pencapaian, minted, pending>>

AnyId == UNION {Student, Teacher, User, Tingkat, Materi, Attendance, Mark}

MateriRow == [id : Materi, tingkat : Tingkat, slot : Slot \cup {None}]
AttendanceRow == [id : Attendance, teacher : Teacher, student : Student]
MarkRow == [id : Mark, student : Student, materi : Materi,
            by : User \cup {None}]

Ids(rows) == {row.id : row \in rows}

\* The unique indexes of the schema.  A NULL semester never conflicts.
SlotFree(rows, m) ==
    m.slot # None =>
        \A n \in rows : ~(n.tingkat = m.tingkat /\ n.slot = m.slot)
OneRowPerId(rows) == \A r1, r2 \in rows : r1.id = r2.id => r1 = r2
SlotsUnique(rows) ==
    \A m \in rows : SlotFree(rows \ {m}, m)
OneMarkPerKey(rows) ==
    \A p, q \in rows :
        p.student = q.student /\ p.materi = q.materi => p = q

(***************************************************************************)
(* What is assumed of the constants: NULL is not an id, and the bundled    *)
(* curriculum satisfies its own schema.                                    *)
(***************************************************************************)
ASSUME NoneIsNotAnId == None \notin AnyId \cup Slot
ASSUME SeedFitsSchema ==
    /\ SeedTingkat \subseteq Tingkat
    /\ SeedTingkat # {}
    /\ SeedMateri \subseteq MateriRow
    /\ \A m \in SeedMateri : m.tingkat \in SeedTingkat
    /\ OneRowPerId(SeedMateri)
    /\ SlotsUnique(SeedMateri)

\* A first boot: migrations, SeedKurikulum, and no account or member yet.
Init ==
    /\ students = {} /\ teachers = {} /\ users = {}
    /\ tingkat = SeedTingkat
    /\ materi = SeedMateri
    /\ attendances = {} /\ pencapaian = {}
    /\ minted = SeedTingkat \cup Ids(SeedMateri)
    /\ pending = [c \in Client |-> None]

-----------------------------------------------------------------------------
\* A new row takes an id (a ULID) that was never issued.
Fresh(id) == id \notin minted /\ minted' = minted \cup {id}

(***************************************************************************)
(* Mistakes in the schema or the statements that the runs must notice.     *)
(***************************************************************************)
\* A missing semester stored as 0 instead of NULL.
CreateMateriZero(m) ==
    /\ m.tingkat \in tingkat
    /\ SlotFree(materi, m)
    /\ Fresh(m.id)
    /\ materi' = materi \cup
                     {[m EXCEPT !.slot = IF @ = None THEN 0 ELSE @]}
    /\ UNCHANGED <<students, teachers, users, tingkat, attendances,
                   pencapaian, pending>>

\* pencapaian.student_id without ON DELETE CASCADE.
DeleteStudentNoCascade(s) ==
    /\ s \in students
    /\ \A a \in attendances : a.student # s
    /\ students' = students \ {s}
    /\ UNCHANGED <<teachers, users, tingkat, materi, attendances, pencapaian,
                   minted, pending>>

\* attendances.teacher_id ON DELETE CASCADE instead of RESTRICT.
DeleteTeacherCascade(t) ==
    /\ t \in teachers
    /\ teachers' = teachers \ {t}
    /\ attendances' = {a \in attendances : a.teacher # t}
    /\ UNCHANGED <<students, users, tingkat, materi, pencapaian, minted,
                   pending>>

\* No unique index (tingkat_id, semester, nomor) when a materi is moved.
UpdateMateriUnchecked(m, t, slot) ==
    /\ t \in tingkat
    /\ materi' = (materi \ {m}) \cup
                     {[m EXCEPT !.tingkat = t, !.slot = slot]}
    /\ UNCHANGED <<students, teachers, users, tingkat, attendances,
                   pencapaian, minted, pending>>

\* INSERT OR REPLACE instead of ON CONFLICT DO UPDATE.
ReplaceMark(s, m, by) ==
    \E p \in pencapaian, id \in Mark :
        /\ p.student = s /\ p.materi = m
        /\ Fresh(id)
        /\ pencapaian' = (pencapaian \ {p}) \cup
               {[id |-> id, student |-> s, materi |-> m, by |-> by]}

-----------------------------------------------------------------------------
(***************************************************************************)
(* Members and accounts.                                                   *)
(***************************************************************************)
CreateStudent(s) ==
    /\ Fresh(s)
    /\ students' = students \cup {s}
    /\ UNCHANGED <<teachers, users, tingkat, materi, attendances, pencapaian,
                   pending>>

\* attendances.student_id is ON DELETE RESTRICT, pencapaian.student_id is
\* ON DELETE CASCADE.
DeleteStudent(s) ==
    /\ s \in students
    /\ \A a \in attendances : a.student # s
    /\ students' = students \ {s}
    /\ pencapaian' = {p \in pencapaian : p.student # s}
    /\ UNCHANGED <<teachers, users, tingkat, materi, attendances, minted,
                   pending>>

CreateTeacher(t) ==
    /\ Fresh(t)
    /\ teachers' = teachers \cup {t}
    /\ UNCHANGED <<students, users, tingkat, materi, attendances, pencapaian,
                   pending>>

\* attendances.teacher_id is ON DELETE RESTRICT.
DeleteTeacher(t) ==
    /\ t \in teachers
    /\ \A a \in attendances : a.teacher # t
    /\ teachers' = teachers \ {t}
    /\ UNCHANGED <<students, users, tingkat, materi, attendances, pencapaian,
                   minted, pending>>

CreateUser(u) ==
    /\ Fresh(u)
    /\ users' = users \cup {u}
    /\ UNCHANGED <<students, teachers, tingkat, materi, attendances,
                   pencapaian, pending>>

\* pencapaian.recorded_by has no ON DELETE action: a user who recorded a
\* mark cannot be deleted.
DeleteUser(u) ==
    /\ u \in users
    /\ \A p \in pencapaian : p.by # u
    /\ users' = users \ {u}
    /\ UNCHANGED <<students, teachers, tingkat, materi, attendances,
                   pencapaian, minted, pending>>

-----------------------------------------------------------------------------
(***************************************************************************)
(* Attendance.  The public form, the bulk import and the admin screens all *)
(* end in these statements, with teacher and student ids the caller read   *)
(* some time ago.                                                          *)
(***************************************************************************)
CreateAttendance(id, t, s) ==
    /\ t \in teachers /\ s \in students
    /\ Fresh(id)
    /\ attendances' = attendances \cup
                          {[id |-> id, teacher |-> t, student |-> s]}
    /\ UNCHANGED <<students, teachers, users, tingkat, materi, pencapaian,
                   pending>>

UpdateAttendance(a, t, s) ==
    /\ t \in teachers /\ s \in students
    /\ attendances' = (attendances \ {a}) \cup
                          {[a EXCEPT !.teacher = t, !.student = s]}
    /\ UNCHANGED <<students, teachers, users, tingkat, materi, pencapaian,
                   minted, pending>>

DeleteAttendance(a) ==
    /\ attendances' = attendances \ {a}
    /\ UNCHANGED <<students, teachers, users, tingkat, materi, pencapaian,
                   minted, pending>>

-----------------------------------------------------------------------------
(***************************************************************************)
(* The curriculum.                                                         *)
(***************************************************************************)
\* ON DELETE CASCADE from materi_ajar to pencapaian.
RemoveMateri(gone) ==
    /\ materi' = materi \ gone
    /\ pencapaian' = {p \in pencapaian : p.materi \notin Ids(gone)}

CreateTingkat(t) ==
    /\ Fresh(t)
    /\ tingkat' = tingkat \cup {t}
    /\ UNCHANGED <<students, teachers, users, materi, attendances, pencapaian,
                   pending>>

\* DeleteTingkat, first statement: COUNT(*) of the materi_ajar rows of t is
\* 0.  A count above 0 answers ErrTingkatInUse and changes nothing.
CountTingkat(c, t) ==
    /\ pending[c] = None
    /\ \A m \in materi : m.tingkat # t
    /\ pending' = [pending EXCEPT ![c] = t]
    /\ UNCHANGED <<tables, minted>>

\* DeleteTingkat, second statement: DELETE, which cascades to the materi_ajar
\* rows of the tingkat.  Deleting a row that is gone is ErrNotFound.
DeleteTingkat(c) ==
    /\ pending[c] # None
    /\ tingkat' = tingkat \ {pending[c]}
    /\ RemoveMateri({m \in materi : m.tingkat = pending[c]})
    /\ pending' = [pending EXCEPT ![c] = None]
    /\ UNCHANGED <<students, teachers, users, attendances, minted>>

\* The request context is cancelled between the two statements.
CancelDelete(c) ==
    /\ pending[c] # None
    /\ pending' = [pending EXCEPT ![c] = None]
    /\ UNCHANGED <<tables, minted>>

CreateMateri(m) ==
    /\ m.tingkat \in tingkat
    /\ SlotFree(materi, m)
    /\ Fresh(m.id)
    /\ materi' = materi \cup {m}
    /\ UNCHANGED <<students, teachers, users, tingkat, attendances,
                   pencapaian, pending>>

\* An update may move the row to another tingkat, semester or nomor.
UpdateMateri(m, t, slot) ==
    LET new == [m EXCEPT !.tingkat = t, !.slot = slot]
    IN  /\ t \in tingkat
        /\ SlotFree(materi \ {m}, new)
        /\ materi' = (materi \ {m}) \cup {new}
        /\ UNCHANGED <<students, teachers, users, tingkat, attendances,
                       pencapaian, minted, pending>>

DeleteMateri(m) ==
    /\ RemoveMateri({m})
    /\ UNCHANGED <<students, teachers, users, tingkat, attendances, minted,
                   pending>>

-----------------------------------------------------------------------------
(***************************************************************************)
(* Achievement marks.  PencapaianStore.Upsert is one INSERT ... ON CONFLICT*)
(* (student_id, materi_ajar_id) DO UPDATE: it keeps the row and its id and *)
(* overwrites recorded_by.  The handler passes the caller, whose account   *)
(* may be gone while the token still lives (then the foreign key refuses); *)
(* the CSV and matrix imports pass nobody.                                 *)
(***************************************************************************)
InsertMark(id, s, m, by) ==
    /\ \A p \in pencapaian : ~(p.student = s /\ p.materi = m)
    /\ Fresh(id)
    /\ pencapaian' = pencapaian \cup
           {[id |-> id, student |-> s, materi |-> m, by |-> by]}

OverwriteMark(s, m, by) ==
    /\ \E p \in pencapaian :
          /\ p.student = s /\ p.materi = m
          /\ pencapaian' = (pencapaian \ {p}) \cup {[p EXCEPT !.by = by]}
    /\ UNCHANGED minted

UpsertMark(s, m, by) ==
    /\ s \in students /\ m \in Ids(materi) /\ by \in users \cup {None}
    /\ (\E id \in Mark : InsertMark(id, s, m, by)) \/ OverwriteMark(s, m, by)
    /\ UNCHANGED <<students, teachers, users, tingkat, materi, attendances,
                   pending>>

DeleteMark(p) ==
    /\ pencapaian' = pencapaian \ {p}
    /\ UNCHANGED <<students, teachers, users, tingkat, materi, attendances,
                   minted, pending>>

-----------------------------------------------------------------------------
\* The process stops and boots again: requests in flight are gone, and
\* SeedKurikulum fills an empty curriculum, in one transaction, with the
\* rows and ids of the bundled file.
Restart ==
    /\ pending' = [c \in Client |-> None]
    /\ IF tingkat = {}
          THEN /\ tingkat' = SeedTingkat
               /\ materi' = materi \cup SeedMateri
          ELSE UNCHANGED <<tingkat, materi>>
    /\ UNCHANGED <<students, teachers, users, attendances, pencapaian, minted>>

MemberNext ==
    \/ \E s \in Student : CreateStudent(s) \/ DeleteStudent(s)
    \/ \E t \in Teacher : CreateTeacher(t) \/ DeleteTeacher(t)
    \/ \E u \in User : CreateUser(u) \/ DeleteUser(u)

AttendanceNext ==
    \/ \E id \in Attendance, t \in Teacher, s \in Student :
          CreateAttendance(id, t, s)
    \/ \E a \in attendances, t \in Teacher, s \in Student :
          UpdateAttendance(a, t, s)
    \/ \E a \in attendances : DeleteAttendance(a)

CurriculumNext ==
    \/ \E t \in Tingkat : CreateTingkat(t)
    \/ \E c \in Client, t \in Tingkat : CountTingkat(c, t)
    \/ \E c \in Client : DeleteTingkat(c) \/ CancelDelete(c)
    \/ \E m \in MateriRow : CreateMateri(m)
    \/ \E m \in materi, t \in Tingkat, slot \in Slot \cup {None} :
          UpdateMateri(m, t, slot)
    \/ \E m \in materi : DeleteMateri(m)

MarkNext ==
    \/ \E s \in Student, m \in Materi, by \in User \cup {None} :
          UpsertMark(s, m, by)
    \/ \E p \in pencapaian : DeleteMark(p)

Next == MemberNext \/ AttendanceNext \/ CurriculumNext \/ MarkNext \/ Restart

Spec == Init /\ [][Next]_vars

-----------------------------------------------------------------------------
(***************************************************************************)
(* Correctness.                                                            *)
(***************************************************************************)
\* The tables hold rows of their schema, under ids that were issued.
TypeOK ==
    /\ students \subseteq Student /\ teachers \subseteq Teacher
    /\ users \subseteq User /\ tingkat \subseteq Tingkat
    /\ materi \subseteq MateriRow
    /\ attendances \subseteq AttendanceRow
    /\ pencapaian \subseteq MarkRow
    /\ minted \subseteq AnyId
    /\ pending \in [Client -> Tingkat \cup {None}]

AttendancesRefer ==
    \A a \in attendances : a.teacher \in teachers /\ a.student \in students
MateriRefer == \A m \in materi : m.tingkat \in tingkat
MarksRefer ==
    \A p \in pencapaian :
        p.student \in students /\ p.materi \in Ids(materi)
MarksRecorded == \A p \in pencapaian : p.by \in users \cup {None}

\* No row refers to a row that is gone, whatever the order in which members,
\* accounts and the curriculum are deleted under the requests that use them:
\* RESTRICT, CASCADE and the refusals of the writes add up.
RefIntegrity == AttendancesRefer /\ MateriRefer /\ MarksRefer /\ MarksRecorded

\* No id names two rows, no two materi share a numbered place of a tingkat,
\* and a student has at most one mark for a materi: the grid of the
\* achievement screen has one value per cell.  Moves of a materi, overwrites
\* of a mark and the second seeding of an emptied curriculum keep it so.
UniqueKeys ==
    /\ OneRowPerId(materi) /\ OneRowPerId(attendances)
    /\ OneRowPerId(pencapaian)
    /\ SlotsUnique(materi)
    /\ OneMarkPerKey(pencapaian)

\* The part of the inductive invariant that no run states: an id in use was
\* issued, so a fresh one differs from all of them, and the ids of the bundled
\* rows stay reserved for a second seeding.
LiveIdsMinted ==
    /\ Ids(materi) \cup Ids(attendances) \cup Ids(pencapaian) \subseteq minted
    /\ Ids(SeedMateri) \subseteq minted

AttendanceStep ==
    \A a \in attendances :
        \/ \E b \in attendances' : b.id = a.id
        \/ /\ attendances' = attendances \ {a}
           /\ UNCHANGED <<students, teachers, users, tingkat, materi,
                          pencapaian>>

\* An attendance record only disappears by its own DELETE.  Deleting a
\* student or a teacher, in any order with the form that records them, never
\* takes attendance history along.
AttendanceKept == [][AttendanceStep]_vars

MarkStep ==
    \A p \in pencapaian :
        \/ \E q \in pencapaian' :
              q.id = p.id /\ q.student = p.student /\ q.materi = p.materi
        \/ p.student \notin students'
        \/ p.materi \notin Ids(materi')
        \/ /\ pencapaian' = pencapaian \ {p}
           /\ UNCHANGED <<students, teachers, users, tingkat, materi,
                          attendances>>

\* A mark only disappears with its student, with its materi, or by its own
\* DELETE and then alone.  Recording a mark over another one keeps the row
\* and its id, which the screens of other users still hold for DELETE.
MarkLossExplained == [][MarkStep]_vars

\* kurikulum.go:134 says "DeleteTingkat refuses when materi_ajar rows still
\* reference the tingkat": no tingkat disappears while a materi is in it.
TingkatDeleteKeepsMateri ==
    [][\A m \in materi : m.tingkat \in tingkat']_vars
=============================================================================

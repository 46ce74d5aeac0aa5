--------------------------- MODULE Registry_proofs ---------------------------
(***************************************************************************)
(* Proofs that the tables of Registry keep their schema whatever the       *)
(* requests and restarts, for any sets of ids and clients.                 *)
(***************************************************************************)
EXTENDS Registry, TLAPS

\* The inductive invariant.  RefIntegrity needs UniqueKeys (deleting the one
\* row of an id takes the id out of the table), UniqueKeys needs
\* LiveIdsMinted (a fresh id names no row) and RefIntegrity (an empty tingkat
\* table leaves no materi_ajar row in the way of the second seeding).
IInv == TypeOK /\ LiveIdsMinted /\ UniqueKeys /\ RefIntegrity

\* A freshly migrated and seeded database satisfies the invariant.
LEMMA InitIInv == Init => IInv
<1> SUFFICES ASSUME Init PROVE IInv
  OBVIOUS
<1>1. TypeOK
  BY SeedFitsSchema DEF Init, TypeOK, AnyId, Ids, MateriRow
<1>2. LiveIdsMinted
  BY DEF Init, LiveIdsMinted, Ids
<1>3. UniqueKeys
  BY SeedFitsSchema DEF Init, UniqueKeys, OneRowPerId, OneMarkPerKey
<1>4. RefIntegrity
  BY SeedFitsSchema DEF Init, RefIntegrity, AttendancesRefer, MateriRefer,
                        MarksRefer, MarksRecorded
<1> QED
  BY <1>1, <1>2, <1>3, <1>4 DEF IInv

-----------------------------------------------------------------------------
\* Whatever leaves the three keyed tables alone keeps their keys: the number
\* of ids issued only grows.
LEMMA RowsUntouched ==
    ASSUME IInv, UNCHANGED <<materi, attendances, pencapaian>>,
           minted \subseteq minted'
    PROVE  LiveIdsMinted' /\ UniqueKeys'
  BY DEF IInv, LiveIdsMinted, UniqueKeys, Ids, OneRowPerId, SlotsUnique,
         SlotFree, OneMarkPerKey

\* Fewer rows have no more collisions.
LEMMA FewerRows ==
    ASSUME IInv, materi' \subseteq materi, attendances' \subseteq attendances,
           pencapaian' \subseteq pencapaian, minted \subseteq minted'
    PROVE  LiveIdsMinted' /\ UniqueKeys'
  BY DEF IInv, LiveIdsMinted, UniqueKeys, Ids, OneRowPerId, SlotsUnique,
         SlotFree, OneMarkPerKey

\* An UPDATE keeps the id of its row, so the ids of the table stay the same.
LEMMA ReplaceRow ==
    ASSUME NEW rows, NEW r \in rows, NEW new, new.id = r.id, OneRowPerId(rows)
    PROVE  /\ Ids((rows \ {r}) \cup {new}) = Ids(rows)
           /\ OneRowPerId((rows \ {r}) \cup {new})
  BY DEF Ids, OneRowPerId

\* Creating and deleting students, teachers and users keeps it.
LEMMA MemberStep == IInv /\ MemberNext => IInv'
<1> SUFFICES ASSUME IInv, MemberNext PROVE IInv'
  OBVIOUS
<1> USE DEF IInv
<1>1. ASSUME NEW s \in Student, CreateStudent(s) PROVE IInv'
  <2>1. TypeOK'
    BY <1>1 DEF CreateStudent, Fresh, TypeOK, AnyId
  <2>2. LiveIdsMinted' /\ UniqueKeys'
    BY <1>1, RowsUntouched DEF CreateStudent, Fresh
  <2>3. RefIntegrity'
    BY <1>1 DEF CreateStudent, RefIntegrity, AttendancesRefer, MateriRefer,
                MarksRefer, MarksRecorded, Ids
  <2> QED
    BY <2>1, <2>2, <2>3
<1>2. ASSUME NEW s \in Student, DeleteStudent(s) PROVE IInv'
  <2>1. TypeOK'
    BY <1>2 DEF DeleteStudent, TypeOK
  <2>2. LiveIdsMinted' /\ UniqueKeys'
    BY <1>2, FewerRows DEF DeleteStudent
  <2>3. RefIntegrity'
    BY <1>2 DEF DeleteStudent, RefIntegrity, AttendancesRefer, MateriRefer,
                MarksRefer, MarksRecorded, Ids
  <2> QED
    BY <2>1, <2>2, <2>3
<1>3. ASSUME NEW t \in Teacher, CreateTeacher(t) PROVE IInv'
  <2>1. TypeOK'
    BY <1>3 DEF CreateTeacher, Fresh, TypeOK, AnyId
  <2>2. LiveIdsMinted' /\ UniqueKeys'
    BY <1>3, RowsUntouched DEF CreateTeacher, Fresh
  <2>3. RefIntegrity'
    BY <1>3 DEF CreateTeacher, RefIntegrity, AttendancesRefer, MateriRefer,
                MarksRefer, MarksRecorded, Ids
  <2> QED
    BY <2>1, <2>2, <2>3
<1>4. ASSUME NEW t \in Teacher, DeleteTeacher(t) PROVE IInv'
  <2>1. TypeOK'
    BY <1>4 DEF DeleteTeacher, TypeOK
  <2>2. LiveIdsMinted' /\ UniqueKeys'
    BY <1>4, RowsUntouched DEF DeleteTeacher
  <2>3. RefIntegrity'
    BY <1>4 DEF DeleteTeacher, RefIntegrity, AttendancesRefer, MateriRefer,
                MarksRefer, MarksRecorded, Ids
  <2> QED
    BY <2>1, <2>2, <2>3
<1>5. ASSUME NEW u \in User, CreateUser(u) PROVE IInv'
  <2>1. TypeOK'
    BY <1>5 DEF CreateUser, Fresh, TypeOK, AnyId
  <2>2. LiveIdsMinted' /\ UniqueKeys'
    BY <1>5, RowsUntouched DEF CreateUser, Fresh
  <2>3. RefIntegrity'
    BY <1>5 DEF CreateUser, RefIntegrity, AttendancesRefer, MateriRefer,
                MarksRefer, MarksRecorded, Ids
  <2> QED
    BY <2>1, <2>2, <2>3
<1>6. ASSUME NEW u \in User, DeleteUser(u) PROVE IInv'
  <2>1. TypeOK'
    BY <1>6 DEF DeleteUser, TypeOK
  <2>2. LiveIdsMinted' /\ UniqueKeys'
    BY <1>6, RowsUntouched DEF DeleteUser
  <2>3. RefIntegrity'
    BY <1>6 DEF DeleteUser, RefIntegrity, AttendancesRefer, MateriRefer,
                MarksRefer, MarksRecorded, Ids
  <2> QED
    BY <2>1, <2>2, <2>3
<1> QED
  BY <1>1, <1>2, <1>3, <1>4, <1>5, <1>6 DEF MemberNext

\* The attendance statements keep it: the foreign keys refuse stale ids.
LEMMA AttendanceNextStep == IInv /\ AttendanceNext => IInv'
<1> SUFFICES ASSUME IInv, AttendanceNext PROVE IInv'
  OBVIOUS
<1> USE DEF IInv
<1>1. ASSUME NEW id \in Attendance, NEW t \in Teacher, NEW s \in Student,
          CreateAttendance(id, t, s) PROVE IInv'
  <2>1. TypeOK'
    BY <1>1 DEF CreateAttendance, Fresh, AttendanceRow, TypeOK, AnyId
  <2>2. LiveIdsMinted' /\ UniqueKeys'
    BY <1>1 DEF CreateAttendance, Fresh, TypeOK, LiveIdsMinted, UniqueKeys, Ids,
                OneRowPerId, SlotsUnique, SlotFree, OneMarkPerKey
  <2>3. RefIntegrity'
    BY <1>1 DEF CreateAttendance, RefIntegrity, AttendancesRefer, MateriRefer,
                MarksRefer, MarksRecorded, Ids
  <2> QED
    BY <2>1, <2>2, <2>3
<1>2. ASSUME NEW a \in attendances, NEW t \in Teacher, NEW s \in Student,
          UpdateAttendance(a, t, s) PROVE IInv'
  <2>1. TypeOK'
    BY <1>2 DEF UpdateAttendance, AttendanceRow, TypeOK
  <2>2. LiveIdsMinted' /\ UniqueKeys'
    <3> DEFINE new == [a EXCEPT !.teacher = t, !.student = s]
    <3>1. new.id = a.id
      BY DEF TypeOK, AttendanceRow
    <3>2. attendances' = (attendances \ {a}) \cup {new}
      BY <1>2 DEF UpdateAttendance
    <3>3. Ids(attendances') = Ids(attendances) /\ OneRowPerId(attendances')
      <4> HIDE DEF new
      <4> QED BY <3>1, <3>2, ReplaceRow DEF UniqueKeys
    <3> QED
      BY <1>2, <3>3 DEF UpdateAttendance, LiveIdsMinted, UniqueKeys
  <2>3. RefIntegrity'
    BY <1>2 DEF UpdateAttendance, TypeOK, AttendanceRow, RefIntegrity,
                AttendancesRefer, MateriRefer, MarksRefer, MarksRecorded, Ids
  <2> QED
    BY <2>1, <2>2, <2>3
<1>3. ASSUME NEW a \in attendances, DeleteAttendance(a) PROVE IInv'
  <2>1. TypeOK'
    BY <1>3 DEF DeleteAttendance, TypeOK
  <2>2. LiveIdsMinted' /\ UniqueKeys'
    BY <1>3, FewerRows DEF DeleteAttendance
  <2>3. RefIntegrity'
    BY <1>3 DEF DeleteAttendance, RefIntegrity, AttendancesRefer, MateriRefer,
                MarksRefer, MarksRecorded, Ids
  <2> QED
    BY <2>1, <2>2, <2>3
<1> QED
  BY <1>1, <1>2, <1>3 DEF AttendanceNext

\* The curriculum statements keep it, also when a materi was created between
\* the COUNT and the DELETE of its tingkat: the cascade takes it along.
LEMMA CurriculumStep == IInv /\ CurriculumNext => IInv'
<1> SUFFICES ASSUME IInv, CurriculumNext PROVE IInv'
  OBVIOUS
<1> USE DEF IInv
<1>1. ASSUME NEW t \in Tingkat, CreateTingkat(t) PROVE IInv'
  <2>1. TypeOK'
    BY <1>1 DEF CreateTingkat, Fresh, TypeOK, AnyId
  <2>2. LiveIdsMinted' /\ UniqueKeys'
    BY <1>1, RowsUntouched DEF CreateTingkat, Fresh
  <2>3. RefIntegrity'
    BY <1>1 DEF CreateTingkat, RefIntegrity, AttendancesRefer, MateriRefer,
                MarksRefer, MarksRecorded, Ids
  <2> QED
    BY <2>1, <2>2, <2>3
<1>2. ASSUME NEW c \in Client, NEW t \in Tingkat, CountTingkat(c, t) PROVE IInv'
  <2>1. TypeOK'
    BY <1>2 DEF CountTingkat, tables, TypeOK
  <2>2. LiveIdsMinted' /\ UniqueKeys'
    BY <1>2, RowsUntouched DEF CountTingkat, tables
  <2>3. RefIntegrity'
    BY <1>2 DEF CountTingkat, tables, RefIntegrity, AttendancesRefer,
                MateriRefer, MarksRefer, MarksRecorded, Ids
  <2> QED
    BY <2>1, <2>2, <2>3
<1>3. ASSUME NEW c \in Client, DeleteTingkat(c) PROVE IInv'
  <2>1. TypeOK'
    BY <1>3 DEF DeleteTingkat, RemoveMateri, TypeOK
  <2>2. LiveIdsMinted' /\ UniqueKeys'
    BY <1>3, FewerRows DEF DeleteTingkat, RemoveMateri
  <2>3. RefIntegrity'
    BY <1>3 DEF DeleteTingkat, RemoveMateri, RefIntegrity, AttendancesRefer,
                MateriRefer, MarksRefer, MarksRecorded, Ids
  <2> QED
    BY <2>1, <2>2, <2>3
<1>4. ASSUME NEW c \in Client, CancelDelete(c) PROVE IInv'
  <2>1. TypeOK'
    BY <1>4 DEF CancelDelete, tables, TypeOK
  <2>2. LiveIdsMinted' /\ UniqueKeys'
    BY <1>4, RowsUntouched DEF CancelDelete, tables
  <2>3. RefIntegrity'
    BY <1>4 DEF CancelDelete, tables, RefIntegrity, AttendancesRefer,
                MateriRefer, MarksRefer, MarksRecorded, Ids
  <2> QED
    BY <2>1, <2>2, <2>3
<1>5. ASSUME NEW m \in MateriRow, CreateMateri(m) PROVE IInv'
  <2>1. TypeOK'
    BY <1>5 DEF CreateMateri, Fresh, MateriRow, TypeOK, AnyId
  <2>2. LiveIdsMinted' /\ UniqueKeys'
    BY <1>5 DEF CreateMateri, Fresh, TypeOK, MateriRow, LiveIdsMinted,
                UniqueKeys, Ids, OneRowPerId, SlotsUnique, SlotFree,
                OneMarkPerKey
  <2>3. RefIntegrity'
    BY <1>5 DEF CreateMateri, RefIntegrity, AttendancesRefer, MateriRefer,
                MarksRefer, MarksRecorded, Ids
  <2> QED
    BY <2>1, <2>2, <2>3
<1>6. ASSUME NEW m \in materi, NEW t \in Tingkat,
          NEW slot \in Slot \cup {None}, UpdateMateri(m, t, slot) PROVE IInv'
  <2>1. TypeOK'
    BY <1>6 DEF UpdateMateri, MateriRow, TypeOK
  <2> DEFINE new == [m EXCEPT !.tingkat = t, !.slot = slot]
  <2>a. /\ new \in MateriRow /\ new.id = m.id /\ new.tingkat = t
        /\ materi' = (materi \ {m}) \cup {new} /\ SlotFree(materi \ {m}, new)
    BY <1>6 DEF UpdateMateri, TypeOK, MateriRow
  <2> HIDE DEF new
  <2>b. Ids(materi') = Ids(materi) /\ OneRowPerId(materi')
    BY <2>a, ReplaceRow DEF UniqueKeys
  <2>c. SlotsUnique(materi')
    BY <2>a DEF UniqueKeys, SlotsUnique, SlotFree
  <2>2. LiveIdsMinted' /\ UniqueKeys'
    BY <1>6, <2>b, <2>c DEF UpdateMateri, LiveIdsMinted, UniqueKeys
  <2>3. RefIntegrity'
    BY <1>6, <2>a, <2>b DEF UpdateMateri, RefIntegrity, AttendancesRefer,
                MateriRefer, MarksRefer, MarksRecorded, Ids
  <2> QED
    BY <2>1, <2>2, <2>3
<1>7. ASSUME NEW m \in materi, DeleteMateri(m) PROVE IInv'
  <2>1. TypeOK'
    BY <1>7 DEF DeleteMateri, RemoveMateri, TypeOK
  <2>2. LiveIdsMinted' /\ UniqueKeys'
    BY <1>7, FewerRows DEF DeleteMateri, RemoveMateri
  <2>3. RefIntegrity'
    BY <1>7 DEF DeleteMateri, RemoveMateri, TypeOK, MateriRow, UniqueKeys,
                OneRowPerId, RefIntegrity, AttendancesRefer, MateriRefer,
                MarksRefer, MarksRecorded, Ids
  <2> QED
    BY <2>1, <2>2, <2>3
<1> QED
  BY <1>1, <1>2, <1>3, <1>4, <1>5, <1>6, <1>7 DEF CurriculumNext

\* Recording, overwriting and deleting a mark keeps it.
LEMMA MarkNextStep == IInv /\ MarkNext => IInv'
<1> SUFFICES ASSUME IInv, MarkNext PROVE IInv'
  OBVIOUS
<1> USE DEF IInv
<1>1. ASSUME NEW s \in Student, NEW m \in Materi, NEW by \in User \cup {None},
             UpsertMark(s, m, by)
      PROVE  IInv'
  <2>1. CASE \E id \in Mark : InsertMark(id, s, m, by)
    <3>1. PICK id \in Mark : InsertMark(id, s, m, by)
      BY <2>1
    <3>2. TypeOK'
      BY <1>1, <3>1 DEF UpsertMark, InsertMark, Fresh, TypeOK, AnyId, MarkRow
    <3>3. LiveIdsMinted' /\ UniqueKeys'
      BY <1>1, <3>1 DEF UpsertMark, InsertMark, Fresh, LiveIdsMinted,
                        UniqueKeys, Ids, OneRowPerId, SlotsUnique, SlotFree,
                        OneMarkPerKey
    <3>4. RefIntegrity'
      BY <1>1, <3>1 DEF UpsertMark, InsertMark, RefIntegrity, AttendancesRefer,
                        MateriRefer, MarksRefer, MarksRecorded, Ids
    <3> QED
      BY <3>2, <3>3, <3>4
  <2>2. CASE OverwriteMark(s, m, by)
    <3>1. PICK p \in pencapaian :
              /\ p.student = s /\ p.materi = m
              /\ pencapaian' = (pencapaian \ {p}) \cup {[p EXCEPT !.by = by]}
      BY <2>2 DEF OverwriteMark
    <3>2. TypeOK'
      BY <1>1, <2>2, <3>1 DEF UpsertMark, OverwriteMark, TypeOK, MarkRow
    <3>3. LiveIdsMinted' /\ UniqueKeys'
      BY <1>1, <2>2, <3>1 DEF UpsertMark, OverwriteMark, TypeOK, MarkRow,
                        LiveIdsMinted, UniqueKeys, Ids, OneRowPerId,
                        SlotsUnique, SlotFree, OneMarkPerKey
    <3>4. RefIntegrity'
      BY <1>1, <3>1 DEF UpsertMark, TypeOK, MarkRow, RefIntegrity,
                        AttendancesRefer, MateriRefer, MarksRefer,
                        MarksRecorded, Ids
    <3> QED
      BY <3>2, <3>3, <3>4
  <2> QED
    BY <1>1, <2>1, <2>2 DEF UpsertMark
<1>2. ASSUME NEW p \in pencapaian, DeleteMark(p) PROVE IInv'
  <2>1. TypeOK'
    BY <1>2 DEF DeleteMark, TypeOK
  <2>2. LiveIdsMinted' /\ UniqueKeys'
    BY <1>2, FewerRows DEF DeleteMark
  <2>3. RefIntegrity'
    BY <1>2 DEF DeleteMark, RefIntegrity, AttendancesRefer, MateriRefer,
                MarksRefer, MarksRecorded, Ids
  <2> QED
    BY <2>1, <2>2, <2>3
<1> QED
  BY <1>1, <1>2 DEF MarkNext

\* A reboot keeps it, whether or not the curriculum is seeded again.
LEMMA RestartStep == IInv /\ Restart => IInv'
<1> SUFFICES ASSUME IInv, Restart PROVE IInv'
  OBVIOUS
<1> USE DEF IInv
<1>1. CASE tingkat = {}
  \* Nothing is left of the curriculum, so the seed is all there is after it.
  <2>1. materi = {} /\ pencapaian = {}
    BY <1>1 DEF RefIntegrity, MateriRefer, MarksRefer, Ids
  <2>2. /\ tingkat' = SeedTingkat /\ materi' = SeedMateri
        /\ UNCHANGED <<students, teachers, users, attendances, pencapaian,
                       minted>>
    BY <1>1, <2>1 DEF Restart
  <2>3. TypeOK'
    BY <2>2, SeedFitsSchema DEF Restart, TypeOK
  <2>4. LiveIdsMinted' /\ UniqueKeys'
    BY <2>1, <2>2, SeedFitsSchema DEF LiveIdsMinted, UniqueKeys, Ids,
       OneRowPerId, OneMarkPerKey
  <2>5. RefIntegrity'
    BY <2>1, <2>2, SeedFitsSchema DEF RefIntegrity, AttendancesRefer,
       MateriRefer, MarksRefer, MarksRecorded
  <2> QED
    BY <2>3, <2>4, <2>5
<1>2. CASE tingkat # {}
  <2>1. UNCHANGED tables /\ UNCHANGED minted
    BY <1>2 DEF Restart, tables
  <2>2. TypeOK'
    BY <2>1 DEF Restart, TypeOK, tables
  <2>3. LiveIdsMinted' /\ UniqueKeys'
    BY <2>1, RowsUntouched DEF tables
  <2>4. RefIntegrity'
    BY <2>1 DEF tables, RefIntegrity, AttendancesRefer, MateriRefer,
                MarksRefer, MarksRecorded, Ids
  <2> QED
    BY <2>2, <2>3, <2>4
<1> QED
  BY <1>1, <1>2

\* Steps of the rest of the program do not touch the tables.
LEMMA StutterStep == IInv /\ UNCHANGED vars => IInv'
  BY DEF vars, IInv, TypeOK, LiveIdsMinted, UniqueKeys, RefIntegrity, Ids,
         OneRowPerId, SlotsUnique, SlotFree, OneMarkPerKey, AttendancesRefer,
         MateriRefer, MarksRefer, MarksRecorded

\* The invariant holds in every state, for any number of rows and requests.
THEOREM Invariance == Spec => []IInv
<1>1. IInv /\ [Next]_vars => IInv'
  BY MemberStep, AttendanceNextStep, CurriculumStep, MarkNextStep, RestartStep,
     StutterStep DEF Next
<1> QED
  BY InitIInv, <1>1, PTL DEF Spec

-----------------------------------------------------------------------------
(***************************************************************************)
(* The safety invariants.                                                  *)
(***************************************************************************)
\* Every table keeps rows of its schema.
THEOREM TypeCorrect == Spec => []TypeOK
  BY Invariance, PTL DEF IInv

\* No row ever refers to a row that is gone (migrations 013, 015 and 016).
THEOREM Referential == Spec => []RefIntegrity
  BY Invariance, PTL DEF IInv

\* Ids, numbered places of a tingkat and (student, materi) pairs stay unique.
THEOREM Keys == Spec => []UniqueKeys
  BY Invariance, PTL DEF IInv

-----------------------------------------------------------------------------
(***************************************************************************)
(* The action properties.                                                  *)
(***************************************************************************)
LEMMA AttendanceSteps == TypeOK /\ [Next]_vars => [AttendanceStep]_vars
<1> SUFFICES ASSUME TypeOK, Next PROVE AttendanceStep
  OBVIOUS
<1>1. CASE UNCHANGED attendances
  BY <1>1 DEF AttendanceStep
<1>2. CASE AttendanceNext
  <2>1. ASSUME NEW id \in Attendance, NEW t \in Teacher, NEW s \in Student,
               CreateAttendance(id, t, s)
        PROVE  AttendanceStep
    BY <2>1 DEF CreateAttendance, AttendanceStep
  <2>2. ASSUME NEW a \in attendances, NEW t \in Teacher, NEW s \in Student,
               UpdateAttendance(a, t, s)
        PROVE  AttendanceStep
    <3> DEFINE new == [a EXCEPT !.teacher = t, !.student = s]
    <3>1. new.id = a.id
      BY DEF TypeOK, AttendanceRow
    <3>2. attendances' = (attendances \ {a}) \cup {new}
      BY <2>2 DEF UpdateAttendance
    <3> HIDE DEF new
    <3> QED
      BY <3>1, <3>2 DEF AttendanceStep
  <2>3. ASSUME NEW a \in attendances, DeleteAttendance(a) PROVE AttendanceStep
    BY <2>3 DEF DeleteAttendance, AttendanceStep
  <2> QED
    BY <1>2, <2>1, <2>2, <2>3 DEF AttendanceNext
<1>3. MemberNext \/ CurriculumNext \/ MarkNext \/ Restart
         => UNCHANGED attendances
  BY DEF MemberNext, CreateStudent, DeleteStudent, CreateTeacher,
         DeleteTeacher, CreateUser, DeleteUser, CurriculumNext, CreateTingkat,
         CountTingkat, DeleteTingkat, CancelDelete, CreateMateri,
         UpdateMateri, DeleteMateri, MarkNext, UpsertMark, DeleteMark,
         Restart, tables
<1> QED
  BY <1>1, <1>2, <1>3 DEF Next

\* Attendance history is only ever removed row by row, by its own DELETE.
THEOREM AttendanceHistory == Spec => AttendanceKept
  BY TypeCorrect, AttendanceSteps, PTL DEF Spec, AttendanceKept

\* Deleting materi_ajar rows takes their marks and no others.
LEMMA MarksGoWithMateri ==
    ASSUME UniqueKeys, NEW gone \in SUBSET materi, RemoveMateri(gone)
    PROVE  MarkStep
<1> SUFFICES ASSUME NEW p \in pencapaian, p \notin pencapaian'
             PROVE  p.materi \notin Ids(materi')
  BY DEF MarkStep
<1>1. PICK m \in gone : m.id = p.materi
  BY DEF RemoveMateri, Ids
<1>2. ASSUME NEW n \in materi' PROVE n.id # p.materi
  BY <1>1 DEF RemoveMateri, UniqueKeys, OneRowPerId
<1> QED
  BY <1>2 DEF Ids

\* A mark is lost only in the ways MarkStep names: one step per action.
LEMMA MarkSteps == IInv /\ [Next]_vars => [MarkStep]_vars
<1> SUFFICES ASSUME IInv, Next PROVE MarkStep
  OBVIOUS
<1>1. ASSUME UNCHANGED pencapaian PROVE MarkStep
  BY <1>1 DEF MarkStep
<1>2. ASSUME MemberNext PROVE MarkStep
  <2>1. ASSUME NEW s \in Student, DeleteStudent(s) PROVE MarkStep
    BY <2>1 DEF DeleteStudent, MarkStep
  <2> QED
    BY <1>1, <1>2, <2>1 DEF MemberNext, CreateStudent, CreateTeacher,
       DeleteTeacher, CreateUser, DeleteUser
<1>3. ASSUME CurriculumNext PROVE MarkStep
  <2>1. ASSUME NEW c \in Client, DeleteTingkat(c) PROVE MarkStep
    BY <2>1, MarksGoWithMateri DEF DeleteTingkat, IInv
  <2>2. ASSUME NEW m \in materi, DeleteMateri(m) PROVE MarkStep
    BY <2>2, MarksGoWithMateri DEF DeleteMateri, IInv
  <2> QED
    BY <1>1, <1>3, <2>1, <2>2 DEF CurriculumNext, CreateTingkat, CountTingkat,
       CancelDelete, CreateMateri, UpdateMateri, tables
<1>4. ASSUME MarkNext PROVE MarkStep
  <2>1. ASSUME NEW s \in Student, NEW m \in Materi,
               NEW by \in User \cup {None}, UpsertMark(s, m, by)
        PROVE  MarkStep
    <3>1. CASE \E id \in Mark : InsertMark(id, s, m, by)
      BY <3>1 DEF InsertMark, MarkStep
    <3>2. CASE OverwriteMark(s, m, by)
      <4>1. PICK p \in pencapaian :
                pencapaian' = (pencapaian \ {p}) \cup {[p EXCEPT !.by = by]}
        BY <3>2 DEF OverwriteMark
      <4> DEFINE new == [p EXCEPT !.by = by]
      <4>2. /\ new.id = p.id /\ new.student = p.student
            /\ new.materi = p.materi
        BY DEF IInv, TypeOK, MarkRow
      <4>3. pencapaian' = (pencapaian \ {p}) \cup {new}
        BY <4>1
      <4> HIDE DEF new
      <4> QED
        BY <4>2, <4>3 DEF MarkStep
    <3> QED
      BY <2>1, <3>1, <3>2 DEF UpsertMark
  <2>2. ASSUME NEW p \in pencapaian, DeleteMark(p) PROVE MarkStep
    BY <2>2 DEF DeleteMark, MarkStep
  <2> QED
    BY <1>4, <2>1, <2>2 DEF MarkNext
<1>5. AttendanceNext \/ Restart => UNCHANGED pencapaian
  BY DEF AttendanceNext, CreateAttendance, UpdateAttendance, DeleteAttendance,
         Restart
<1> QED
  BY <1>1, <1>2, <1>3, <1>4, <1>5 DEF Next

\* Achievements only disappear with their student, with their materi, or one
\* at a time by their own DELETE; an upsert never replaces the row.
THEOREM MarkHistory == Spec => MarkLossExplained
  BY Invariance, MarkSteps, PTL DEF Spec, MarkLossExplained
==============================================================================

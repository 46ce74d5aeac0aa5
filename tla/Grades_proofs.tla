---------------------------- MODULE Grades_proofs ----------------------------
(***************************************************************************)
(* Proofs about the marks of one student: a row of the grid catches up, an *)
(* edit of a settled row changes its own field and erases the notes only,  *)
(* and an export imported again changes nothing; for any materi, months,   *)
(* values and number of requests.                                          *)
(***************************************************************************)
EXTENDS Grades, TLAPS

-----------------------------------------------------------------------------
(* Marks, rows and files. *)

\* A month of a year, if there is any, has a last one.
LEMMA LatestMonth ==
    ASSUME NEW S, S \subseteq 1..12, S # {}
    PROVE  \E mo \in S : \A x \in S : x <= mo
<1>1. CASE S \cap 9..12 # {}
  BY <1>1
<1>2. CASE S \cap 5..8 # {} /\ S \cap 9..12 = {}
  <2>1. S \subseteq 1..8
    BY <1>2
  <2>2. S \cap 5..8 # {}
    BY <1>2
  <2> QED
    BY <2>1, <2>2
<1>3. CASE S \cap 5..8 = {} /\ S \cap 9..12 = {}
  <2>1. ASSUME NEW x \in S PROVE x \in 1..4
    <3>1. x \in 1..12 /\ x \notin 5..8 /\ x \notin 9..12
      BY <1>3
    <3> QED
      BY <3>1
  <2>2. S \cap 1..4 # {} /\ S \subseteq 1..4
    BY <2>1
  <2> QED
    BY <2>2
<1> QED
  BY <1>1, <1>2, <1>3

\* What the constants of the specification are.
LEMMA Constants ==
    /\ NoMark \in Marks /\ NoMark.id = 0
    /\ NoTable \in Tables
    /\ EmptySheet \in Sheets
    /\ Free \in Requests /\ Free.state = "free"
    /\ NotImporting \in [on: BOOLEAN, left: SUBSET Materi,
                         row: SUBSET Materi, mark: Marks]
    /\ ~NotImporting.on /\ NotImporting.row = {} /\ NotImporting.left = {}
    /\ NoFlight \in [phase: {"none", "asked", "read"}, table: Tables]
    /\ NoFlight.phase = "none"
    /\ Unknown \in [known: BOOLEAN, mark: Marks] /\ ~Unknown.known
    /\ NothingMeant \in [Materi -> [known: BOOLEAN, mark: Marks]]
    /\ \A m \in Materi : ~NothingMeant[m].known
<1>1. NoMark \in Marks /\ NoMark.id = 0
  BY GrAssumption DEF NoMark, Marks
<1>2. NoTable \in Tables
  BY <1>1 DEF NoTable, Tables
<1>3. EmptySheet \in Sheets
  BY DEF EmptySheet, Sheets, Rows
<1> QED
  BY <1>1, <1>2, <1>3 DEF Free, Requests, NotImporting, NoFlight, Unknown,
                       NothingMeant

\* Each way to change a mark yields a mark.
LEMMA Edited ==
    ASSUME NEW p \in Marks
    PROVE  /\ \A id \in 0..MaxId : [p EXCEPT !.id = id] \in Marks
           /\ \A s \in Statuses : [p EXCEPT !.status = s] \in Marks
           /\ \A v \in Nilai \cup {Blank} : [p EXCEPT !.nilai = v] \in Marks
           /\ \A d \in Dates \cup {Blank} : [p EXCEPT !.tanggal = d] \in Marks
           /\ Sent(p) \in Marks
  BY DEF Marks, Sent

\* So does a row of the file.
LEMMA MergedMark ==
    ASSUME NEW p \in Marks, NEW row \in Rows
    PROVE  Merged(p, row) \in Marks
<1> DEFINE new == Differing(p, row)
           latest == CHOOSE mo \in new : \A x \in new : x <= mo
           q == IF row.status = Blank THEN Sent(p)
                ELSE [Sent(p) EXCEPT !.status = row.status]
<1>1. row.status \in Statuses \cup {Blank}
      /\ \A mo \in Months : row.cells[mo] \in Nilai \cup {Blank}
  BY DEF Rows
<1>2. q \in Marks
  BY <1>1, Edited
<1>3. CASE new = {}
  BY <1>2, <1>3 DEF Merged
<1>4. CASE new # {}
  <2>1. new \subseteq Months /\ new \subseteq 1..12
    BY GrAssumption DEF Differing
  <2>2. latest \in Months
    BY <1>4, <2>1, LatestMonth
  <2>3. /\ row.cells[latest] \in Nilai \cup {Blank}
        /\ [month |-> latest, mid |-> TRUE] \in Dates \cup {Blank}
    BY <1>1, <2>2 DEF Dates
  <2>4. [q EXCEPT !.nilai = row.cells[latest],
                  !.tanggal = [month |-> latest, mid |-> TRUE]] \in Marks
    BY <1>2, <2>3 DEF Marks
  <2> QED
    BY <1>4, <2>4 DEF Merged
<1> QED
  BY <1>3, <1>4

\* What is exported is a file.
LEMMA SheetType ==
    ASSUME NEW table \in Tables, NEW withStatus \in BOOLEAN
    PROVE  Sheet(table, withStatus) \in Sheets
<1>1. \A m \in Materi : /\ table[m].status \in Statuses
                        /\ table[m].nilai \in Nilai \cup {Blank}
  BY DEF Tables, Marks
<1>2. \A m \in Materi, mo \in Months :
         MonthValue(table[m], mo) \in Nilai \cup {Blank}
  BY <1>1 DEF MonthValue
<1> QED
  BY <1>1, <1>2 DEF Sheet, Sheets, Rows

\* The row that an export writes of a mark leaves that mark alone.
LEMMA OwnRow ==
    ASSUME NEW table \in Tables, NEW m \in Materi, NEW withStatus \in BOOLEAN
    PROVE  ~Touched(table[m], Sheet(table, withStatus)[m])
<1> DEFINE row == Sheet(table, withStatus)[m]
<1>1. /\ row.status = IF withStatus /\ table[m].id # 0 THEN table[m].status
                      ELSE Blank
      /\ \A mo \in Months : row.cells[mo] = MonthValue(table[m], mo)
  BY DEF Sheet
<1>2. Differing(table[m], row) = {}
  BY <1>1 DEF Differing
<1> QED
  BY <1>1, <1>2 DEF Touched

-----------------------------------------------------------------------------
(* The inductive invariant. *)

\* The answer under way, or the cache when there is none, is what the table
\* holds of a row, when every write of it is either still to come or followed
\* by a new fetch.
InStep(m) ==
    /\ m \notin unseen \cup behind /\ ~importing.on
    /\ \A i \in Slots : requests[i].state = "done" => requests[i].materi # m
    => /\ flight.phase = "read" => flight.table[m] = marks[m]
       /\ flight.phase = "none" => loaded /\ shown[m] = marks[m]

\* An import that does not run has nothing to write.
ImportIdle == ~importing.on => importing.row = {} /\ importing.left = {}

\* Two marks that differ in their ids only.
SameMark(p, q) == [p EXCEPT !.id = 0] = [q EXCEPT !.id = 0]

\* What a request makes of its row.
Effect(r) == IF r.kind = "save" THEN r.mark ELSE NoMark

\* A request of this row that is still to be executed.
Sends(i, m) == requests[i].state = "sent" /\ requests[i].materi = m

\* The edit of a settled row is still to be executed, as the only one of that
\* row, or it is done.
Promised(m) ==
    meant[m].known =>
        /\ ~importing.on
        /\ \/ /\ \A i \in Slots : ~Sends(i, m)
              /\ SameMark(marks[m], meant[m].mark)
           \/ \E i \in Slots :
                 /\ Sends(i, m)
                 /\ \A j \in Slots \ {i} : ~Sends(j, m)
                 /\ SameMark(Effect(requests[i]), meant[m].mark)

IInv == /\ GrTypeOK /\ ImportIdle
        /\ \A m \in Materi : InStep(m) /\ Promised(m)

\* The page is opened.
LEMMA InitIInv == GrInit => IInv
<1> SUFFICES ASSUME GrInit PROVE IInv
  OBVIOUS
<1>1. PICK m \in Materi, p \in Given(1) : marks = [NoTable EXCEPT ![m] = p]
  BY DEF GrInit
<1>2. p \in Marks
  BY <1>1, GrAssumption DEF Given, Marks, Typed
<1>3. marks \in Tables
  BY <1>1, <1>2, Constants DEF Tables
<1>4. [NoFlight EXCEPT !.phase = "asked"]
          \in [phase: {"none", "asked", "read"}, table: Tables]
  BY Constants
<1>5. NoFile \in [rows: Sheets, exported: BOOLEAN]
  BY Constants DEF NoFile
<1>6. GrTypeOK
  <2>1. /\ shown \in Tables /\ loaded \in BOOLEAN /\ here \in BOOLEAN
        /\ flight \in [phase: {"none", "asked", "read"}, table: Tables]
        /\ requests \in [Slots -> Requests]
    BY <1>4, Constants DEF GrInit, GrOpened
  <2>2. /\ file \in [rows: Sheets, exported: BOOLEAN]
        /\ unseen \subseteq Materi /\ behind \subseteq Materi
    BY <1>5 DEF GrInit, GrOpened
  <2>4. acts \in 0..MaxActs
    BY GrAssumption DEF GrInit, GrOpened
  <2>3. /\ importing \in [on: BOOLEAN, left: SUBSET Materi,
                           row: SUBSET Materi, mark: Marks]
        /\ meant \in [Materi -> [known: BOOLEAN, mark: Marks]]
    BY Constants DEF GrInit, GrOpened
  <2> QED
    BY <1>3, <2>1, <2>2, <2>3, <2>4 DEF GrTypeOK
<1>7. /\ flight.phase = "asked" /\ importing = NotImporting
      /\ \A x \in Materi : ~meant[x].known
  BY Constants DEF GrInit, GrOpened
<1> QED
  BY <1>6, <1>7, Constants DEF IInv, InStep, ImportIdle, Promised

-----------------------------------------------------------------------------
(* The steps keep it. *)

\* A step that touches neither the table nor a request keeps each promise.
LEMMA PromisesStand ==
    ASSUME IInv, UNCHANGED <<marks, requests, meant>>,
           importing'.on = importing.on, NEW m \in Materi
    PROVE  Promised(m)'
  BY DEF IInv, Promised, Sends

\* The marks are asked for again.
LEMMA AskAnewType ==
    ASSUME AskAnew
    PROVE  /\ flight' \in [phase: {"none", "asked", "read"}, table: Tables]
           /\ unseen' = {} /\ behind' = {}
           /\ flight'.phase = "asked"
  BY Constants DEF AskAnew

\* invalidateQueries: the marks are asked for again, or are still to be read,
\* or what is under way is known to lack these rows.
LEMMA RefetchType ==
    ASSUME GrTypeOK, NEW rows \in SUBSET Materi, Refetch(rows)
    PROVE  /\ flight' \in [phase: {"none", "asked", "read"}, table: Tables]
           /\ unseen' \subseteq Materi /\ behind' \subseteq Materi
           /\ \/ flight'.phase = "asked"
              \/ /\ UNCHANGED <<flight, unseen>>
                 /\ behind' = behind \cup rows
  BY AskAnewType DEF Refetch, GrTypeOK

LEMMA QueryStep ==
    ASSUME IInv, ReadMarks \/ MarksArrive \/ MarksLost
    PROVE  IInv'
<1> USE DEF IInv
<1>0. \A m \in Materi : Promised(m)'
  BY PromisesStand DEF ReadMarks, MarksArrive, MarksLost
<1>1. CASE ReadMarks
  <2>1. /\ flight' \in [phase: {"none", "asked", "read"}, table: Tables]
        /\ flight'.phase = "read" /\ flight'.table = marks
    BY <1>1 DEF ReadMarks, GrTypeOK
  <2>2. GrTypeOK' /\ ImportIdle'
    BY <1>1, <2>1 DEF ReadMarks, GrTypeOK, ImportIdle
  <2>3. \A m \in Materi : InStep(m)'
    BY <1>1, <2>1 DEF ReadMarks, InStep
  <2> QED
    BY <1>0, <2>2, <2>3
<1>2. CASE MarksArrive
  <2>1. flight.table \in Tables
    BY DEF GrTypeOK
  <2>2. GrTypeOK' /\ ImportIdle'
    BY <1>2, <2>1, Constants DEF MarksArrive, GrTypeOK, ImportIdle
  <2>3. \A m \in Materi : InStep(m)'
    BY <1>2, Constants DEF MarksArrive, InStep
  <2> QED
    BY <1>0, <2>2, <2>3
<1>3. CASE MarksLost
  <2>1. GrTypeOK' /\ ImportIdle'
    BY <1>3, Constants DEF MarksLost, GrTypeOK, ImportIdle
  <2>2. \A m \in Materi : InStep(m)'
    BY <1>3 DEF MarksLost, InStep
  <2> QED
    BY <1>0, <2>1, <2>2
<1> QED
  BY <1>1, <1>2, <1>3

\* The page is left, and opened again.
LEMMA VisitStep ==
    ASSUME IInv, Leave \/ ComeBack
    PROVE  IInv'
<1> USE DEF IInv
<1>0. /\ UNCHANGED <<marks, shown, loaded, requests, file, importing, meant,
                     acts>>
      /\ here' \in BOOLEAN
  BY DEF Leave, ComeBack
<1>1. /\ flight' \in [phase: {"none", "asked", "read"}, table: Tables]
      /\ unseen' \subseteq Materi /\ behind' \subseteq Materi
      /\ flight'.phase = "asked" \/ UNCHANGED <<flight, unseen, behind>>
  BY AskAnewType DEF Leave, ComeBack, GrTypeOK
<1>2. GrTypeOK' /\ ImportIdle'
  BY <1>0, <1>1 DEF GrTypeOK, ImportIdle
<1>3. ASSUME NEW m \in Materi PROVE InStep(m)' /\ Promised(m)'
  BY <1>0, <1>1, PromisesStand DEF InStep
<1> QED
  BY <1>2, <1>3

\* A settled row shows the table.
LEMMA SettledShows ==
    ASSUME IInv, NEW m \in Materi, Settled(m)
    PROVE  shown[m] = marks[m]
  BY DEF IInv, InStep, Settled, RowQuiet

\* A request is sent.
LEMMA EditStep ==
    ASSUME IInv, NEW m \in Materi, NEW kind \in {"save", "delete"},
           NEW p \in Marks, NEW q \in Marks,
           SendMark(kind, m, p), Expect(m, q),
           Settled(m) /\ kind = "save" => p = q,
           kind = "delete" => q = NoMark
    PROVE  IInv'
<1> USE DEF IInv
<1> DEFINE r == [state |-> "sent", kind |-> kind, materi |-> m, mark |-> p]
<1>0. UNCHANGED <<marks, shown, loaded, here, flight, file, importing,
                  unseen, behind>>
  BY DEF SendMark
<1>1. /\ requests \in [Slots -> Requests] /\ marks \in Tables
      /\ acts \in 0..MaxActs /\ MaxActs \in Nat
      /\ meant \in [Materi -> [known: BOOLEAN, mark: Marks]]
  BY GrAssumption DEF GrTypeOK
<1>2. PICK i \in Slots : /\ requests[i].state = "free"
                         /\ requests' = [requests EXCEPT ![i] = r]
  BY DEF SendMark
<1>3. r \in Requests /\ r.state = "sent" /\ r.materi = m /\ r.kind = kind
      /\ r.mark = p
  BY DEF Requests
<1>4. /\ requests' \in [Slots -> Requests] /\ requests'[i] = r
      /\ \A j \in Slots \ {i} : requests'[j] = requests[j]
  BY <1>1, <1>2, <1>3
<1>5. acts' \in 0..MaxActs
  BY <1>1 DEF SendMark
<1>6. /\ meant' \in [Materi -> [known: BOOLEAN, mark: Marks]]
      /\ meant'[m].known => Settled(m) /\ meant'[m].mark = q
      /\ \A x \in Materi \ {m} : meant'[x] = meant[x]
  <2>1. CASE Settled(m)
    BY <1>1, <2>1 DEF Expect
  <2>2. CASE ~Settled(m)
    BY <1>1, <2>2, Constants DEF Expect
  <2> QED
    BY <2>1, <2>2
<1> HIDE DEF r
<1>7. GrTypeOK' /\ ImportIdle'
  BY <1>0, <1>4, <1>5, <1>6 DEF GrTypeOK, ImportIdle
<1>8. ASSUME NEW x \in Materi PROVE InStep(x)'
  <2>1. (\A j \in Slots : requests'[j].state = "done"
                            => requests'[j].materi # x)
        => \A j \in Slots : requests[j].state = "done"
                            => requests[j].materi # x
    BY <1>2, <1>4
  <2> QED
    BY <1>0, <2>1 DEF InStep
<1>9. ASSUME NEW x \in Materi \ {m} PROVE Promised(x)'
  <2>1. \A j \in Slots : Sends(j, x)' <=> Sends(j, x)
    BY <1>2, <1>3, <1>4, <1>9 DEF Sends
  <2>2. \A j \in Slots : Sends(j, x) => requests'[j] = requests[j]
    BY <1>2, <1>4 DEF Sends
  <2>3. Promised(x) /\ meant'[x] = meant[x]
    BY <1>6, <1>9
  <2> QED
    BY <1>0, <2>1, <2>2, <2>3 DEF Promised
<1>10. Promised(m)'
  <2> SUFFICES ASSUME meant'[m].known
               PROVE  /\ ~importing'.on
                      /\ Sends(i, m)'
                      /\ \A j \in Slots \ {i} : ~Sends(j, m)'
                      /\ SameMark(Effect(requests'[i]), meant'[m].mark)
    BY DEF Promised
  <2>1. Settled(m) /\ meant'[m].mark = q
    BY <1>6
  <2>2. ~importing.on /\ \A j \in Slots : ~Sends(j, m)
    BY <2>1 DEF Settled, RowQuiet, Sends
  <2>3. Effect(requests'[i]) = q
    BY <1>3, <1>4, <2>1 DEF Effect
  <2> QED
    BY <1>0, <1>3, <1>4, <2>1, <2>2, <2>3 DEF Sends, SameMark
<1> QED
  BY <1>7, <1>8, <1>9, <1>10

\* The edits are of that kind.
LEMMA PersonStep ==
    ASSUME IInv, NEW m \in Materi,
           \/ \E s \in Statuses : ChooseStatus(m, s)
           \/ \E v \in Nilai \cup {Blank} : BlurNilai(m, v)
           \/ \E d \in Typed \cup {Blank} : BlurTanggal(m, d)
           \/ DeleteMark(m)
    PROVE  IInv'
<1>1. shown[m] \in Marks /\ marks[m] \in Marks
  BY DEF IInv, GrTypeOK, Tables
<1>2. Settled(m) => shown[m] = marks[m]
  BY SettledShows
<1>3. ASSUME NEW s \in Statuses, ChooseStatus(m, s) PROVE IInv'
  <2> DEFINE p == Sent([shown[m] EXCEPT !.status = s])
             q == Sent([marks[m] EXCEPT !.status = s])
  <2>1. p \in Marks /\ q \in Marks /\ (Settled(m) => p = q)
    BY <1>1, <1>2, Edited
  <2>2. SendMark("save", m, p) /\ Expect(m, q)
    BY <1>3 DEF ChooseStatus
  <2> QED
    BY <2>1, <2>2, EditStep
<1>4. ASSUME NEW v \in Nilai \cup {Blank}, BlurNilai(m, v) PROVE IInv'
  <2> DEFINE p == Sent([shown[m] EXCEPT !.nilai = v])
             q == Sent([marks[m] EXCEPT !.nilai = v])
  <2>1. p \in Marks /\ q \in Marks /\ (Settled(m) => p = q)
    BY <1>1, <1>2, Edited
  <2>2. SendMark("save", m, p) /\ Expect(m, q)
    BY <1>4 DEF BlurNilai
  <2> QED
    BY <2>1, <2>2, EditStep
<1>5. ASSUME NEW d \in Typed \cup {Blank}, BlurTanggal(m, d) PROVE IInv'
  <2> DEFINE p == Sent([shown[m] EXCEPT !.tanggal = d])
             q == Sent([marks[m] EXCEPT !.tanggal = d])
  <2>1. d \in Dates \cup {Blank}
    BY DEF Typed
  <2>2. p \in Marks /\ q \in Marks /\ (Settled(m) => p = q)
    BY <1>1, <1>2, <2>1, Edited
  <2>3. SendMark("save", m, p) /\ Expect(m, q)
    BY <1>5 DEF BlurTanggal
  <2> QED
    BY <2>2, <2>3, EditStep
<1>6. CASE DeleteMark(m)
  <2>1. SendMark("delete", m, shown[m]) /\ Expect(m, NoMark)
    BY <1>6 DEF DeleteMark
  <2> QED
    BY <1>1, <2>1, Constants, EditStep
<1> QED
  BY <1>3, <1>4, <1>5, <1>6

\* A mark that is put is a mark, and only its row changes.
LEMMA PutTable ==
    ASSUME GrTypeOK, NEW m, NEW p \in Marks, Put(m, p)
    PROVE  /\ marks' \in Tables
           /\ m \in Materi => SameMark(marks'[m], p)
           /\ \A x \in Materi \ {m} : marks'[x] = marks[x]
<1>1. PICK id \in 1..MaxId : marks' = [marks EXCEPT ![m] = [p EXCEPT !.id = id]]
  BY DEF Put
<1> DEFINE q == [p EXCEPT !.id = id]
<1>2. q \in Marks
  BY GrAssumption, Edited
<1>3. marks \in Tables
  BY DEF GrTypeOK
<1>4. marks' \in Tables
  BY <1>1, <1>2, <1>3 DEF Tables
<1>5. SameMark(q, p)
  BY DEF Marks, SameMark
<1>6. m \in Materi => marks'[m] = q
  BY <1>1, <1>3 DEF Tables
<1>7. \A x \in Materi \ {m} : marks'[x] = marks[x]
  BY <1>1, <1>3 DEF Tables
<1> HIDE DEF q
<1> QED
  BY <1>4, <1>5, <1>6, <1>7

\* So does a mark that is taken away.
LEMMA DropTable ==
    ASSUME GrTypeOK, NEW m, marks' = [marks EXCEPT ![m] = NoMark]
    PROVE  /\ marks' \in Tables
           /\ m \in Materi => marks'[m] = NoMark
           /\ \A x \in Materi \ {m} : marks'[x] = marks[x]
  BY Constants DEF GrTypeOK, Tables

\* The server executes a request: what was promised is kept.
LEMMA ApplyStep ==
    ASSUME IInv, NEW i \in Slots, Apply(i)
    PROVE  IInv'
<1> USE DEF IInv
<1> DEFINE r == requests[i]
<1>1. /\ requests \in [Slots -> Requests] /\ r \in Requests
      /\ r.state = "sent" /\ r.mark \in Marks /\ r.kind \in {"save", "delete"}
  BY DEF GrTypeOK, Requests, Apply
<1>2. /\ r.kind = "save" => Put(r.materi, r.mark)
      /\ r.kind = "delete" => marks' = [marks EXCEPT ![r.materi] = NoMark]
      /\ UNCHANGED <<shown, loaded, here, flight, file, importing, unseen,
                     behind, meant, acts>>
  BY <1>1 DEF Apply
<1>3. /\ marks' \in Tables
      /\ r.materi \in Materi => SameMark(marks'[r.materi], Effect(r))
      /\ \A x \in Materi \ {r.materi} : marks'[x] = marks[x]
  <2>1. CASE r.kind = "save"
    BY <1>1, <1>2, <2>1, PutTable DEF Effect
  <2>2. CASE r.kind = "delete"
    BY <1>2, <2>2, DropTable DEF Effect, SameMark
  <2> QED
    BY <1>1, <2>1, <2>2
<1>4. /\ requests' \in [Slots -> Requests]
      /\ requests'[i].state = "done" /\ requests'[i].materi = r.materi
      /\ \A j \in Slots \ {i} : requests'[j] = requests[j]
  <2> DEFINE s == [r EXCEPT !.state = "done", !.mark = NoMark]
  <2>1. s \in Requests /\ s.state = "done" /\ s.materi = r.materi
    BY <1>1, Constants DEF Requests
  <2>2. requests' = [requests EXCEPT ![i] = s]
    BY <1>1 DEF Apply, Requests
  <2> HIDE DEF s
  <2> QED
    BY <1>1, <2>1, <2>2
<1>5. GrTypeOK' /\ ImportIdle'
  BY <1>2, <1>3, <1>4 DEF GrTypeOK, ImportIdle
<1> HIDE DEF r
<1>6. ASSUME NEW m \in Materi PROVE InStep(m)'
  <2>1. CASE m = r.materi
    BY <1>4, <2>1 DEF InStep
  <2>2. CASE m # r.materi
    <3>1. (\A j \in Slots : requests'[j].state = "done"
                              => requests'[j].materi # m)
          => \A j \in Slots : requests[j].state = "done"
                              => requests[j].materi # m
      BY <1>1, <1>4 DEF r
    <3>2. marks'[m] = marks[m]
      BY <1>3, <2>2
    <3> QED
      BY <1>2, <3>1, <3>2 DEF InStep
  <2> QED
    BY <2>1, <2>2
<1>7. ASSUME NEW m \in Materi PROVE Promised(m)'
  <2>1. /\ \A j \in Slots \ {i} : Sends(j, m)' <=> Sends(j, m)
        /\ ~Sends(i, m)'
        /\ Sends(i, m) <=> r.materi = m
    BY <1>1, <1>4 DEF Sends, r
  <2>2. CASE m = r.materi
    <3> SUFFICES ASSUME meant[m].known
                 PROVE  /\ ~importing.on
                        /\ \A j \in Slots : ~Sends(j, m)'
                        /\ SameMark(marks'[m], meant[m].mark)
      BY <1>2 DEF Promised
    <3>1. PICK k \in Slots :
            /\ Sends(k, m)
            /\ \A j \in Slots \ {k} : ~Sends(j, m)
            /\ SameMark(Effect(requests[k]), meant[m].mark)
      BY <2>1, <2>2 DEF Promised
    <3>2. k = i
      BY <2>1, <2>2, <3>1
    <3>3. SameMark(marks'[m], Effect(r))
      BY <1>3, <2>2
    <3>4. SameMark(marks'[m], meant[m].mark)
      BY <3>1, <3>2, <3>3 DEF SameMark, r
    <3> QED
      BY <2>1, <3>1, <3>2, <3>4 DEF Promised
  <2>3. CASE m # r.materi
    <3>1. marks'[m] = marks[m] /\ \A j \in Slots : Sends(j, m)' <=> Sends(j, m)
      BY <1>3, <2>1, <2>3
    <3>2. \A j \in Slots : Sends(j, m) => requests'[j] = requests[j]
      BY <1>4, <2>1, <2>3
    <3> QED
      BY <1>2, <3>1, <3>2 DEF Promised
  <2> QED
    BY <2>2, <2>3
<1> QED
  BY <1>5, <1>6, <1>7

\* A request is given up or answered.
LEMMA AnswerStep ==
    ASSUME IInv, NEW i \in Slots,
           Refused(i) \/ Acknowledged(i) \/ AnswerLost(i)
    PROVE  IInv'
<1> USE DEF IInv
<1> DEFINE x == requests[i].materi
<1>1. /\ requests' = [requests EXCEPT ![i] = Free]
      /\ UNCHANGED <<marks, shown, loaded, here, file, importing, acts>>
  BY DEF Refused, Acknowledged, AnswerLost
<1>2. /\ requests' \in [Slots -> Requests]
      /\ requests'[i].state = "free"
      /\ \A j \in Slots \ {i} : requests'[j] = requests[j]
  BY <1>1, Constants DEF GrTypeOK
<1>3. \A m \in Materi :
         /\ \A j \in Slots \ {i} : Sends(j, m)' <=> Sends(j, m)
         /\ ~Sends(i, m)'
         /\ (\A j \in Slots : requests'[j].state = "done"
                                => requests'[j].materi # m)
            /\ (m # x \/ requests[i].state # "done")
            => \A j \in Slots : requests[j].state = "done"
                                => requests[j].materi # m
  BY <1>2 DEF Sends
<1>4. \/ /\ requests[i].state = "sent"
         /\ meant' = [meant EXCEPT ![x] = Unknown]
      \/ requests[i].state = "done" /\ meant' = meant
  BY DEF Refused, Acknowledged, AnswerLost
<1>5. meant' \in [Materi -> [known: BOOLEAN, mark: Marks]]
  BY <1>4, Constants DEF GrTypeOK
<1>6. ASSUME NEW m \in Materi PROVE Promised(m)'
  <2>1. CASE ~meant'[m].known
    BY <2>1 DEF Promised
  <2>2. CASE meant'[m].known
    <3>1. meant'[m] = meant[m] /\ ~Sends(i, m)
      <4>1. meant \in [Materi -> [known: BOOLEAN, mark: Marks]]
        BY DEF GrTypeOK
      <4> QED
        BY <1>4, <2>2, <4>1, Constants DEF Sends
    <3>2. \A j \in Slots : Sends(j, m) => requests'[j] = requests[j]
      BY <1>2, <3>1
    <3> QED
      BY <1>1, <1>3, <3>1, <3>2 DEF Promised
  <2> QED
    BY <2>1, <2>2
<1>7. /\ flight' \in [phase: {"none", "asked", "read"}, table: Tables]
      /\ unseen' \subseteq Materi /\ behind' \subseteq Materi
      /\ \/ flight'.phase = "asked"
         \/ /\ flight' = flight
            /\ unseen \cup behind \subseteq unseen' \cup behind'
            /\ requests[i].state = "done" /\ x \in Materi
                  => x \in unseen' \cup behind'
  <2>1. CASE Refused(i)
    BY <2>1 DEF Refused, GrTypeOK
  <2>2. CASE Acknowledged(i)
    <3> DEFINE rows == {x} \cap Materi
    <3>1. Refetch(rows) /\ rows \in SUBSET Materi
      BY <2>2 DEF Acknowledged
    <3>2. x \in Materi => x \in rows
      OBVIOUS
    <3> HIDE DEF rows, x
    <3> QED
      BY <3>1, <3>2, RefetchType
  <2>3. CASE AnswerLost(i)
    BY <2>3 DEF AnswerLost, GrTypeOK
  <2> QED
    BY <2>1, <2>2, <2>3
<1>8. GrTypeOK' /\ ImportIdle'
  BY <1>1, <1>2, <1>5, <1>7 DEF GrTypeOK, ImportIdle
<1>9. ASSUME NEW m \in Materi PROVE InStep(m)'
  <2>1. CASE flight'.phase = "asked"
    BY <2>1 DEF InStep
  <2>2. CASE flight'.phase # "asked" /\ m \notin unseen' \cup behind'
    <3>1. /\ flight' = flight /\ m \notin unseen \cup behind
          /\ m # x \/ requests[i].state # "done"
      BY <1>7, <2>2
    <3> QED
      BY <1>1, <1>3, <3>1 DEF InStep
  <2>3. CASE m \in unseen' \cup behind'
    BY <2>3 DEF InStep
  <2> QED
    BY <2>1, <2>2, <2>3
<1> QED
  BY <1>6, <1>8, <1>9

\* Somebody else writes.
LEMMA OthersStep ==
    ASSUME IInv, NEW m \in Materi,
           \/ \E p \in Given(marks[m].id) : OthersPut(m, p)
           \/ OthersDelete(m)
    PROVE  IInv'
<1> USE DEF IInv
<1>1. marks[m] \in Marks /\ marks[m].id \in 0..MaxId
  BY DEF GrTypeOK, Tables, Marks
<1>2. marks' \in Tables /\ \A x \in Materi \ {m} : marks'[x] = marks[x]
  <2>1. CASE OthersDelete(m)
    BY <2>1, DropTable DEF OthersDelete
  <2>2. ASSUME NEW p \in Given(marks[m].id), OthersPut(m, p)
        PROVE  marks' \in Tables /\ \A x \in Materi \ {m} : marks'[x] = marks[x]
    <3>1. p \in Marks
      BY <1>1 DEF Given, Typed, Marks
    <3> QED
      BY <2>2, <3>1, PutTable DEF OthersPut
  <2> QED
    BY <2>1, <2>2
<1>3. /\ acts' \in 0..MaxActs /\ unseen' = unseen \cup {m}
      /\ meant' = [meant EXCEPT ![m] = Unknown]
      /\ UNCHANGED <<shown, loaded, here, flight, requests, file, importing,
                     behind>>
  BY GrAssumption DEF OthersPut, OthersDelete, Others, GrTypeOK
<1>4. /\ meant' \in [Materi -> [known: BOOLEAN, mark: Marks]]
      /\ ~meant'[m].known
      /\ \A x \in Materi \ {m} : meant'[x] = meant[x]
  BY <1>3, Constants DEF GrTypeOK
<1>5. GrTypeOK' /\ ImportIdle'
  BY <1>2, <1>3, <1>4 DEF GrTypeOK, ImportIdle
<1>6. InStep(m)' /\ Promised(m)'
  BY <1>3, <1>4 DEF InStep, Promised
<1>7. ASSUME NEW x \in Materi \ {m} PROVE InStep(x)' /\ Promised(x)'
  <2>1. InStep(x)'
    BY <1>2, <1>3 DEF InStep
  <2>2. Promised(x)'
    BY <1>2, <1>3, <1>4 DEF Promised, Sends
  <2> QED
    BY <2>1, <2>2
<1> QED
  BY <1>5, <1>6, <1>7

\* The file is exported, filled in, and its import begins.
LEMMA FileStep ==
    ASSUME IInv,
           \/ \E withStatus \in BOOLEAN : Export(withStatus)
           \/ \E m \in Materi, row \in Rows : FillIn(m, row)
           \/ StartImport
    PROVE  IInv'
<1> USE DEF IInv
<1>1. /\ file \in [rows: Sheets, exported: BOOLEAN]
      /\ acts \in 0..MaxActs /\ MaxActs \in Nat
  BY GrAssumption DEF GrTypeOK
<1>2. CASE \/ \E withStatus \in BOOLEAN : Export(withStatus)
           \/ \E m \in Materi, row \in Rows : FillIn(m, row)
  <2>1. UNCHANGED <<marks, shown, loaded, here, flight, requests, importing,
                    unseen, behind, meant>>
    BY <1>2 DEF Export, FillIn
  <2>2. file' \in [rows: Sheets, exported: BOOLEAN] /\ acts' \in 0..MaxActs
    <3>1. ASSUME NEW withStatus \in BOOLEAN, Export(withStatus)
          PROVE  /\ file' \in [rows: Sheets, exported: BOOLEAN]
                 /\ acts' \in 0..MaxActs
      <4>1. Sheet(shown, withStatus) \in Sheets
        BY SheetType DEF GrTypeOK
      <4> QED
        BY <1>1, <3>1, <4>1 DEF Export
    <3>2. ASSUME NEW m \in Materi, NEW row \in Rows, FillIn(m, row)
          PROVE  /\ file' \in [rows: Sheets, exported: BOOLEAN]
                 /\ acts' \in 0..MaxActs
      <4>1. file' = [file EXCEPT !.rows = [file.rows EXCEPT ![m] = row]]
        BY <1>1, <3>2 DEF FillIn
      <4>2. [file.rows EXCEPT ![m] = row] \in Sheets
        BY <1>1 DEF Sheets
      <4>3. acts' \in 0..MaxActs
        BY <1>1, <3>2 DEF FillIn
      <4> QED
        BY <1>1, <4>1, <4>2, <4>3
    <3> QED
      BY <1>2, <3>1, <3>2
  <2>3. GrTypeOK' /\ ImportIdle'
    BY <2>1, <2>2 DEF GrTypeOK, ImportIdle
  <2>4. \A m \in Materi : InStep(m)' /\ Promised(m)'
    BY <2>1, PromisesStand DEF InStep
  <2> QED
    BY <2>3, <2>4
<1>4. CASE StartImport
  <2>1. /\ importing' \in [on: BOOLEAN, left: SUBSET Materi,
                           row: SUBSET Materi, mark: Marks]
        /\ importing'.on
        /\ meant' = NothingMeant
        /\ UNCHANGED <<marks, shown, loaded, here, flight, requests, file,
                       unseen, behind>>
    BY <1>4, Constants DEF StartImport
  <2>2. acts' \in 0..MaxActs
    BY <1>1, <1>4 DEF StartImport
  <2> QED
    BY <2>1, <2>2, Constants DEF GrTypeOK, InStep, ImportIdle, Promised
<1> QED
  BY <1>2, <1>4

\* The import goes on to a row, writes it, or fails to.
LEMMA RowStep ==
    ASSUME IInv,
           \/ \E m \in Materi : ReadRow(m) \/ WriteRow(m)
           \/ RowFails
    PROVE  IInv'
<1> USE DEF IInv
<1> DEFINE Imports == [on: BOOLEAN, left: SUBSET Materi,
                       row: SUBSET Materi, mark: Marks]
<1>1. importing \in Imports /\ marks \in Tables /\ file.rows \in Sheets
  BY DEF GrTypeOK
<1>2. importing.on
  BY DEF ReadRow, WriteRow, RowFails, ImportIdle
<1>3. \A m \in Materi : ~meant[m].known
  BY <1>2 DEF Promised
<1>4. ASSUME NEW m \in Materi, ReadRow(m)
      PROVE  importing' \in Imports /\ importing'.on
  <2>1. Merged(marks[m], file.rows[m]) \in Marks
    BY <1>1, MergedMark DEF Tables, Sheets
  <2>2. importing.left \ {m} \in SUBSET Materi /\ {m} \in SUBSET Materi
    BY <1>1
  <2> QED
    BY <1>1, <1>2, <1>4, <2>1, <2>2 DEF ReadRow
<1>5. ASSUME importing' = [importing EXCEPT !.row = {}, !.mark = NoMark]
      PROVE  importing' \in Imports /\ importing'.on
  BY <1>1, <1>2, <1>5, Constants
<1>6. importing' \in Imports /\ importing'.on
  BY <1>4, <1>5 DEF WriteRow, RowFails
<1>7. marks' \in Tables
  <2>1. ASSUME NEW m \in Materi, WriteRow(m) PROVE marks' \in Tables
    <3>1. importing.mark \in Marks /\ Put(m, importing.mark)
      BY <1>1, <2>1 DEF WriteRow
    <3> QED
      BY <3>1, PutTable
  <2>2. ASSUME NEW m \in Materi, ReadRow(m) PROVE marks' \in Tables
    BY <1>1, <2>2 DEF ReadRow
  <2>3. CASE RowFails
    BY <1>1, <2>3 DEF RowFails
  <2> QED
    BY <2>1, <2>2, <2>3
<1>8. UNCHANGED <<shown, loaded, here, flight, requests, file, unseen, behind,
                  meant, acts>>
  BY DEF ReadRow, WriteRow, RowFails
<1> QED
  BY <1>3, <1>6, <1>7, <1>8
     DEF GrTypeOK, InStep, ImportIdle, Promised

\* The import ends, answered or not.
LEMMA ImportEnds ==
    ASSUME IInv, Imported \/ ImportLost
    PROVE  IInv'
<1> USE DEF IInv
<1>1. /\ importing.on /\ importing' = NotImporting
      /\ UNCHANGED <<marks, shown, loaded, here, requests, file, meant, acts>>
  BY DEF Imported, ImportLost
<1>2. \A m \in Materi : ~meant[m].known
  BY <1>1 DEF Promised
<1>3. /\ flight' \in [phase: {"none", "asked", "read"}, table: Tables]
      /\ unseen' \subseteq Materi /\ behind' \subseteq Materi
      /\ flight'.phase = "asked" \/ Materi \subseteq unseen' \cup behind'
  BY RefetchType DEF Imported, ImportLost, GrTypeOK
<1>4. GrTypeOK' /\ ImportIdle'
  BY <1>1, <1>3, Constants DEF GrTypeOK, ImportIdle
<1>5. \A m \in Materi : InStep(m)' /\ Promised(m)'
  BY <1>1, <1>2, <1>3 DEF InStep, Promised
<1> QED
  BY <1>4, <1>5

\* No step, and every step.
LEMMA NextIInv == IInv /\ [GrNext]_grVars => IInv'
<1> SUFFICES ASSUME IInv, [GrNext]_grVars PROVE IInv'
  OBVIOUS
<1>1. CASE UNCHANGED grVars
  <2>1. \A m \in Materi : Promised(m)'
    BY <1>1, PromisesStand DEF grVars
  <2> QED
    BY <1>1, <2>1 DEF grVars, IInv, GrTypeOK, InStep, ImportIdle
<1>2. CASE ReadMarks \/ MarksArrive \/ MarksLost
  BY <1>2, QueryStep
<1>10. CASE Leave \/ ComeBack
  BY <1>10, VisitStep
<1>3. ASSUME NEW m \in Materi,
             \/ \E s \in Statuses : ChooseStatus(m, s)
             \/ \E v \in Nilai \cup {Blank} : BlurNilai(m, v)
             \/ \E d \in Typed \cup {Blank} : BlurTanggal(m, d)
             \/ DeleteMark(m)
      PROVE  IInv'
  BY <1>3, PersonStep
<1>4. ASSUME NEW m \in Materi,
             \/ \E p \in Given(marks[m].id) : OthersPut(m, p)
             \/ OthersDelete(m)
      PROVE  IInv'
  BY <1>4, OthersStep
<1>5. CASE \/ \E withStatus \in BOOLEAN : Export(withStatus)
           \/ \E m \in Materi, row \in Rows : FillIn(m, row)
           \/ StartImport
  BY <1>5, FileStep
<1>6. CASE \/ \E m \in Materi : ReadRow(m) \/ WriteRow(m)
           \/ RowFails
  BY <1>6, RowStep
<1>7. ASSUME NEW i \in Slots, Apply(i) PROVE IInv'
  BY <1>7, ApplyStep
<1>8. ASSUME NEW i \in Slots,
             Refused(i) \/ Acknowledged(i) \/ AnswerLost(i)
      PROVE  IInv'
  BY <1>8, AnswerStep
<1>9. CASE Imported \/ ImportLost
  BY <1>9, ImportEnds
<1> QED
  BY <1>1, <1>2, <1>3, <1>4, <1>5, <1>6, <1>7, <1>8, <1>9, <1>10 DEF GrNext

-----------------------------------------------------------------------------
(* What every behaviour of the screen satisfies. *)

LEMMA Inductive == GrSpec => []IInv
  BY InitIInv, NextIInv, PTL DEF GrSpec

\* The state of the screen, the file and the table is of the types the code
\* gives it.
THEOREM GrTypeCorrect == GrSpec => []GrTypeOK
<1>1. IInv => GrTypeOK
  BY DEF IInv
<1> QED
  BY <1>1, Inductive, PTL

\* A row of the grid shows what the table holds once every answer about it has
\* come (invalidateQueries after each save, delete and import), visits of the
\* page included, unless it is in unseen (others wrote, or an answer or refetch
\* was lost) or in behind (the answer of this screen's own save started no
\* refetch, the page being away or in its first load, and what was under way
\* had been read before).
THEOREM GridCatchesUp == GrSpec => []GridSettles
<1>1. IInv => GridSettles
  BY SettledShows DEF GridSettles
<1> QED
  BY <1>1, Inductive, PTL

\* An edit of one field of a settled row changes that field, erases the notes
\* and does nothing else, though the mark is sent and replaced as a whole and
\* other rows are edited at the same time.
THEOREM EditsKept == GrSpec => []EditsStick
<1>1. IInv => EditsStick
  <2> SUFFICES ASSUME IInv, NEW m \in Materi, meant[m].known, RowQuiet(m)
               PROVE  SameMark(marks[m], meant[m].mark)
    BY DEF EditsStick, SameMark
  <2>1. \A i \in Slots : ~Sends(i, m)
    BY DEF RowQuiet, Sends
  <2> QED
    BY <2>1 DEF IInv, Promised
<1> QED
  BY <1>1, Inductive, PTL

\* Importing what an export of the table would say writes nothing.
THEOREM ExportsReturn == GrSpec => RoundTrip
<1>1. ASSUME GrTypeOK, NEW m \in Materi, NEW withStatus \in BOOLEAN,
             ReadRow(m), file.rows[m] = Sheet(marks, withStatus)[m]
      PROVE  importing'.row = {}
  <2>1. ~Touched(marks[m], file.rows[m])
    BY <1>1, OwnRow DEF GrTypeOK
  <2>2. importing.row = {} /\ importing' = [importing EXCEPT !.left = @ \ {m}]
    BY <1>1, <2>1 DEF ReadRow
  <2>3. importing \in [on: BOOLEAN, left: SUBSET Materi, row: SUBSET Materi,
                       mark: Marks]
    BY <1>1 DEF GrTypeOK
  <2> QED
    BY <2>2, <2>3
<1>2. GrTypeOK /\ [GrNext]_grVars =>
        [\A m \in Materi, withStatus \in BOOLEAN :
           ReadRow(m) /\ file.rows[m] = Sheet(marks, withStatus)[m] =>
              importing'.row = {}]_grVars
  BY <1>1
<1> QED
  BY <1>2, GrTypeCorrect, PTL DEF GrSpec, RoundTrip
=============================================================================

-------------------------- MODULE BulkImport_proofs --------------------------
(***************************************************************************)
(* Proofs about the CSV import, for any number of importers, files, modes  *)
(* and other requests: every line is reported once, the report is true of  *)
(* the table, no second row comes for a natural key, and a repeated upsert *)
(* converges.                                                              *)
(***************************************************************************)
EXTENDS BulkImport, WellFoundedInduction, SequenceTheorems, TLAPS

(***************************************************************************)
(* What holds of a request q by itself.                                    *)
(***************************************************************************)
Halves == {"found", "wrote"}

\* A line is being written only where there is one that ParseRow accepted.
Placed(q) ==
    /\ q.line <= Len(q.file) + 1
    /\ q.phase \in Halves => /\ q.line <= Len(q.file)
                             /\ q.file[q.line] \notin {Bad, Blank}
                             /\ q.mode # "dry-run"
    /\ q.phase = "answered" => q.line = Len(q.file) + 1

\* The lines before the one being worked on are in the report, in order.
Reported(q) ==
    /\ {q.results[k].line : k \in DOMAIN q.results} =
           {n \in DOMAIN q.file : n < q.line /\ q.file[n] # Blank}
    /\ \A j, k \in DOMAIN q.results :
           j < k => q.results[j].line < q.results[k].line

\* A line writes once; the current one has, when its row is to be read back.
Logged(q) ==
    /\ \A w1, w2 \in q.log : w1[1] = w2[1] => w1 = w2
    /\ \A w \in q.log : w[1] < q.line \/ (w[1] = q.line /\ q.phase = "wrote")
    /\ q.phase = "wrote" => \E w \in q.log : w[1] = q.line

\* What the report says of a line, the log says too; kd is the table.
Told(q, kd) ==
    \A k \in DOMAIN q.results :
        LET res == q.results[k]
            writes == {w \in q.log : w[1] = res.line}
        IN  /\ res.outcome = "skipped" => writes = {}
            /\ res.outcome = "created" => writes # {}
            /\ res.outcome = "updated" /\ kd # "unique" => writes # {}

Sound(q, kd) == Placed(q) /\ Reported(q) /\ Logged(q) /\ Told(q, kd)

(***************************************************************************)
(* What holds of it and the rows T of the table.                           *)
(***************************************************************************)
\* What Lookup finds: the least id of the rows with the key.
Oldest(T, key) ==
    LET rows == {r \in T : r.key = key}
    IN  IF rows = {} THEN NoId
        ELSE CHOOSE id \in {r.id : r \in rows} : \A r \in rows : id <= r.id

\* Where nobody else adds rows, a key that was not found has none until the
\* line is written.
Unmatched(q, kd, T) ==
    kd \notin OverlapKinds /\ q.phase = "found" /\ q.existing = NoId =>
        \A r \in T : r.key # q.file[q.line].key

\* While nobody else writes, the lookup stays true ...
Matched(q, T) ==
    q.phase = "found" /\ q.calm /\ q.mode = "upsert" =>
        q.existing = Oldest(T, q.file[q.line].key)

\* ... and the lines that were written are in the table, but for the ones
\* whose key came again.
Stored(q) ==
    {n \in Records(q.file) : n < q.line \/ (n = q.line /\ q.phase = "wrote")}
LastStored(q, n) ==
    \A m \in Stored(q) : q.file[m].key = q.file[n].key => m <= n
Unfailing(q) ==
    /\ q.calm /\ q.mode = "upsert"
    /\ \A k \in DOMAIN q.results : q.results[k].outcome # "failed"
Converges(q, T) ==
    Unfailing(q) =>
        \A n \in Stored(q) : LastStored(q, n) =>
            \E r \in T : /\ r.id = Oldest(T, q.file[n].key)
                         /\ r.val = q.file[n].val

(***************************************************************************)
(* The invariant.                                                          *)
(***************************************************************************)
RequestOK(q, kd, T) ==
    /\ q \in Request
    /\ q.phase \in {"next", "answered"} => q.existing = NoId
    /\ Sound(q, kd)
    /\ Unmatched(q, kd, T) /\ Matched(q, T) /\ Converges(q, T)

\* An id is given once.
IdsUnique == \A r, s \in table : r.id = s.id => r = s

\* Where imports do not overlap, one runs.
Alone ==
    kind \notin OverlapKinds =>
        \A i, j \in Importer : Running(i) /\ Running(j) => i = j

ImInv ==
    /\ TypeOK /\ IdsUnique /\ Alone
    /\ DOMAIN imp = Importer
    /\ \A i \in Importer : imp[i] # Idle => RequestOK(imp[i], kind, table)

-----------------------------------------------------------------------------
(* Lemmas about the operators. *)

\* A set of numbers has a least one.
LEMMA LeastExists ==
    ASSUME NEW S \in SUBSET Nat, S # {}
    PROVE  \E x \in S : \A y \in S : x <= y
<1> DEFINE R == OpToRel(<, Nat)
<1>1. IsWellFoundedOn(R, Nat)
  BY NatLessThanWellFounded
<1>2. \A x, y \in Nat : <<x, y>> \in R <=> x < y
  BY DEF OpToRel
<1> HIDE DEF R
<1>3. PICK x \in S : \A y \in S : ~(<<y, x>> \in R)
  BY <1>1, WFMin
<1>4. ASSUME NEW y \in S PROVE x <= y
  <2>1. x \in Nat /\ y \in Nat /\ ~(<<y, x>> \in R)
    BY <1>3
  <2>2. ~(y < x)
    BY <1>2, <2>1
  <2> QED
    BY <2>1, <2>2
<1> QED
  BY <1>4

\* A set of numbers up to N has a greatest one.
LEMMA GreatestExists ==
    ASSUME NEW N \in Nat, NEW S \in SUBSET (1 .. N), S # {}
    PROVE  \E x \in S : \A y \in S : y <= x
<1> DEFINE T == {n \in Nat : N - n \in S}
<1>1. T # {}
  <2>1. PICK x \in S : TRUE
    OBVIOUS
  <2>2. N - x \in Nat /\ N - (N - x) = x
    OBVIOUS
  <2> QED
    BY <2>1, <2>2
<1>2. PICK t \in T : \A y \in T : t <= y
  <2>1. T \in SUBSET Nat
    OBVIOUS
  <2> HIDE DEF T
  <2> QED
    BY <1>1, <2>1, LeastExists
<1>3. ASSUME NEW y \in S PROVE y <= N - t
  <2>1. N - y \in Nat /\ N - (N - y) = y
    OBVIOUS
  <2>2. t <= N - y
    BY <1>2, <2>1
  <2> QED
    BY <2>1, <2>2
<1>4. N - t \in S
  OBVIOUS
<1> QED
  BY <1>3, <1>4

\* Lookup finds it now and after a step.
LEMMA LookupOldest ==
    \A key : Lookup(key) = Oldest(table, key)
             /\ Lookup(key)' = Oldest(table', key)
  BY DEF Lookup, Oldest, WithKey

\* It is found when there is a row with the key.
LEMMA OldestFound ==
    ASSUME NEW T \in SUBSET Row, NEW key
    PROVE  /\ Oldest(T, key) \in 0 .. MaxId
           /\ \A r \in T : r.key = key => Oldest(T, key) # NoId
           /\ Oldest(T, key) # NoId =>
                 /\ \E r \in T : r.key = key /\ r.id = Oldest(T, key)
                 /\ \A r \in T : r.key = key => Oldest(T, key) <= r.id
<1> DEFINE rows == {r \in T : r.key = key}
           ids == {r.id : r \in rows}
<1> USE BulkAssumption
<1>1. \A r \in T : r.id \in 1 .. MaxId
  BY DEF Row
<1>2. CASE rows = {}
  BY <1>2 DEF Oldest, NoId
<1>3. CASE rows # {}
  <2>1. ids \subseteq Nat /\ ids # {}
    BY <1>1, <1>3
  <2>2. PICK x \in ids : \A y \in ids : x <= y
    <3> HIDE DEF ids
    <3> QED
      BY <2>1, LeastExists
  <2>3. x \in ids /\ \A r \in rows : x <= r.id
    BY <2>2
  <2>4. Oldest(T, key) = CHOOSE id \in ids : \A r \in rows : id <= r.id
    BY <1>3 DEF Oldest
  <2>5. /\ Oldest(T, key) \in ids
        /\ \A r \in rows : Oldest(T, key) <= r.id
    <3> HIDE DEF ids, rows
    <3> QED
      BY <2>3, <2>4
  <2>6. PICK r \in rows : r.id = Oldest(T, key)
    BY <2>5
  <2> QED
    BY <1>1, <1>3, <2>5, <2>6 DEF NoId
<1> QED
  BY <1>2, <1>3

\* Where it is found, its row is one of the key and no row of the key is older;
\* where it is not, there is none.
LEMMA OldestRow ==
    ASSUME NEW T \in SUBSET Row, NEW key
    PROVE  /\ Oldest(T, key) = NoId => \A r \in T : r.key # key
           /\ Oldest(T, key) # NoId => Oldest(T, key) \in 1 .. MaxId
           /\ \A r \in T : r.id = Oldest(T, key) =>
                 \E s \in T : s.key = key /\ s.id = r.id
           /\ \A r \in T : r.key = key =>
                 \E s \in T : s.key = key /\ s.id = Oldest(T, key)
<1>1. \A r \in T : r.id \in 1 .. MaxId
  BY DEF Row
<1>2. Oldest(T, key) = NoId => \A r \in T : r.key # key
  BY OldestFound
<1>3. ASSUME Oldest(T, key) # NoId
      PROVE  /\ Oldest(T, key) \in 1 .. MaxId
             /\ \E s \in T : s.key = key /\ s.id = Oldest(T, key)
  <2>1. PICK s \in T : s.key = key /\ s.id = Oldest(T, key)
    BY <1>3, OldestFound
  <2> QED
    BY <1>1, <2>1
<1>4. ASSUME NEW r \in T, r.id = Oldest(T, key) PROVE Oldest(T, key) # NoId
  <2>1. r.id \in 1 .. MaxId
    BY <1>1
  <2>2. r.id # 0
    BY <2>1, BulkAssumption
  <2> QED
    BY <1>4, <2>2 DEF NoId
<1>5. ASSUME NEW r \in T, r.key = key PROVE Oldest(T, key) # NoId
  BY <1>5, OldestFound
<1> QED
  BY <1>2, <1>3, <1>4, <1>5

\* The id that Lookup finds does not depend on the other columns, nor on rows
\* of other keys.
LEMMA OldestSame ==
    ASSUME NEW T \in SUBSET Row, NEW U \in SUBSET Row, NEW key,
           \A r \in T : r.key = key => \E s \in U : s.key = key /\ s.id = r.id,
           \A s \in U : s.key = key => \E r \in T : r.key = key /\ r.id = s.id
    PROVE  Oldest(T, key) = Oldest(U, key)
<1>1. \A r \in T \cup U : r.id \in 1 .. MaxId
  BY DEF Row
<1>2. CASE Oldest(T, key) = NoId
  <2>1. \A s \in U : s.key # key
    BY <1>2, OldestFound
  <2> QED
    BY <1>2, <2>1, OldestFound
<1>3. CASE Oldest(T, key) # NoId
  <2>1. PICK r \in T : r.key = key /\ r.id = Oldest(T, key)
    BY <1>3, OldestFound
  <2>2. Oldest(U, key) # NoId
    <3>1. PICK s \in U : s.key = key
      BY <2>1
    <3> QED
      BY <3>1, OldestFound
  <2>3. PICK s \in U : s.key = key /\ s.id = Oldest(U, key)
    BY <2>2, OldestFound
  <2>4. Oldest(U, key) <= Oldest(T, key)
    BY <2>1, <2>2, OldestFound
  <2>5. Oldest(T, key) <= Oldest(U, key)
    BY <1>3, <2>3, OldestFound
  <2> QED
    BY <1>1, <2>1, <2>3, <2>4, <2>5
<1> QED
  BY <1>2, <1>3

\* A file is a sequence of lines; a line that is neither rejected nor blank
\* is a record.
LEMMA FileLines ==
    ASSUME NEW q \in Request
    PROVE  /\ Len(q.file) \in Nat /\ DOMAIN q.file = 1 .. Len(q.file)
           /\ \A n \in 1 .. Len(q.file) :
                 q.file[n] \notin {Bad, Blank} =>
                     q.file[n] \in [key : Key, val : Val]
           /\ q.mode \in {"create", "upsert", "dry-run"}
<1>1. q.file \in Seq([key : Key, val : Val] \cup {Bad, Blank})
      /\ q.mode \in {"create", "upsert", "dry-run"}
  BY BulkAssumption DEF Request
<1> QED
  BY <1>1

\* The report is a sequence of results.
LEMMA ReportLine ==
    ASSUME NEW s \in Seq(Result), NEW x \in Result
    PROVE  /\ Append(s, x) \in Seq(Result)
           /\ Len(s) \in Nat /\ DOMAIN s = 1 .. Len(s)
           /\ DOMAIN Append(s, x) = 1 .. Len(s) + 1
           /\ \A k \in 1 .. Len(s) : Append(s, x)[k] = s[k]
           /\ Append(s, x)[Len(s) + 1] = x
  BY AppendProperties, LenProperties

-----------------------------------------------------------------------------
(* What one request keeps. *)

\* The types of a request's fields, by name.
Phases == {"next", "found", "wrote", "answered"}
Files == {up.file : up \in Uploads}
Modes == {up.mode : up \in Uploads}
LineNumbers == Nat \ {0}
RowIds == 0 .. MaxId
Reports == Seq(Result)
Answers == {0, 200, 413}
Logs == SUBSET (Nat \X (1 .. MaxId))
Calms == BOOLEAN

LEMMA RequestIs ==
    Request = [phase : Phases, file : Files, mode : Modes, line : LineNumbers,
               existing : RowIds, written : RowIds, results : Reports,
               answer : Answers, log : Logs, calm : Calms]
  BY DEF Request, Phases, Files, Modes, LineNumbers, RowIds, Reports, Answers,
         Logs, Calms

\* A line goes into the report and the next one follows.
LEMMA ReportIs ==
    ASSUME NEW i, NEW q \in Request, q = imp[i],
           NEW o \in Outcome, NEW x \in 0 .. MaxId, NEW p, p = Report(i, o, x)
    PROVE  /\ p \in Request /\ p.phase = "next" /\ p.existing = NoId
           /\ p.line = q.line + 1 /\ p.file = q.file /\ p.mode = q.mode
           /\ p.calm = q.calm /\ p.log = q.log
           /\ p.results = Append(q.results,
                                 [line |-> q.line, outcome |-> o, id |-> x])
<1> DEFINE res == [line |-> q.line, outcome |-> o, id |-> x]
<1>1. q.line \in Nat /\ q.results \in Seq(Result) /\ res \in Result
  BY DEF Request, Result
<1>2. Append(q.results, res) \in Reports
  BY <1>1 DEF Reports
<1>3. "next" \in Phases /\ NoId \in RowIds /\ q.line + 1 \in LineNumbers
  BY <1>1, BulkAssumption DEF Phases, NoId, RowIds, LineNumbers
<1>4. p = [q EXCEPT !.phase = "next", !.line = q.line + 1,
                    !.existing = NoId, !.written = NoId,
                    !.results = Append(q.results, res)]
  BY DEF Report
<1> HIDE DEF res
<1>5. p \in Request
  BY <1>2, <1>3, <1>4, RequestIs
<1>6. /\ p.phase = "next" /\ p.existing = NoId
      /\ p.line = q.line + 1 /\ p.file = q.file /\ p.mode = q.mode
      /\ p.calm = q.calm /\ p.log = q.log
      /\ p.results = Append(q.results, res)
  BY <1>4, RequestIs
<1> QED
  BY <1>5, <1>6 DEF res

\* A row is written for the line.
LEMMA WroteIs ==
    ASSUME NEW i, NEW q \in Request, q = imp[i],
           NEW id \in 1 .. MaxId, NEW p, p = Wrote(i, id)
    PROVE  /\ p \in Request /\ p.phase = "wrote" /\ p.written = id
           /\ p.existing = q.existing /\ p.line = q.line /\ p.file = q.file
           /\ p.mode = q.mode /\ p.calm = q.calm /\ p.results = q.results
           /\ p.log = q.log \cup {<<q.line, id>>}
<1>1. "wrote" \in Phases /\ id \in RowIds
      /\ q.log \cup {<<q.line, id>>} \in Logs
  BY BulkAssumption DEF Phases, RowIds, Logs, Request
<1>2. p = [q EXCEPT !.phase = "wrote", !.written = id,
                    !.log = q.log \cup {<<q.line, id>>}]
  BY DEF Wrote
<1> QED
  BY <1>1, <1>2, RequestIs

\* A line of q ends, with the outcome o in the report; p is the request after
\* it. Writes of this step may be logged.
LEMMA LineEnds ==
    ASSUME NEW q \in Request, NEW p \in Request, NEW kd, Sound(q, kd),
           q.phase # "answered", q.line <= Len(q.file),
           q.file[q.line] # Blank,
           NEW o \in Outcome, NEW x \in 0 .. MaxId, NEW L,
           p.phase = "next", p.line = q.line + 1, p.file = q.file,
           p.results = Append(q.results,
                              [line |-> q.line, outcome |-> o, id |-> x]),
           p.log = q.log \cup L,
           L = {} \/ (q.phase = "found" /\ \E id : L = {<<q.line, id>>}),
           o = "skipped" => q.phase = "next" /\ L = {},
           o = "created" => q.phase = "wrote",
           o = "updated" => q.phase = "wrote" \/ kd = "unique"
    PROVE  Sound(p, kd)
<1> DEFINE res == [line |-> q.line, outcome |-> o, id |-> x]
           N == Len(q.results)
<1>1. /\ q.line \in Nat \ {0} /\ Len(q.file) \in Nat
      /\ DOMAIN q.file = 1 .. Len(q.file)
      /\ \A w \in q.log : w[1] \in Nat
      /\ q.results \in Seq(Result)
  BY FileLines DEF Request
<1>2. res \in Result
  BY <1>1 DEF Result
<1>3. /\ N \in Nat /\ DOMAIN q.results = 1 .. N
      /\ DOMAIN p.results = 1 .. N + 1
      /\ \A k \in 1 .. N :
            p.results[k] = q.results[k] /\ q.results[k] \in Result
      /\ p.results[N + 1] = res
  <2> HIDE DEF res
  <2> QED
    BY <1>1, <1>2, ReportLine, ElementOfSeq DEF res
<1>4. res.line = q.line /\ res.outcome = o
  OBVIOUS
<1>5. /\ \A k \in 1 .. N : q.results[k].line < q.line
      /\ \A k \in 1 .. N : q.results[k].line \in Nat
  <2>1. \A k \in 1 .. N : q.results[k].line \in
            {n \in DOMAIN q.file : n < q.line /\ q.file[n] # Blank}
    BY <1>3 DEF Sound, Reported
  <2> QED
    BY <1>1, <2>1
<1> HIDE DEF res, N
<1>6. Placed(p)
  BY <1>1 DEF Placed, Halves
<1>7. Reported(p)
  <2>1. {p.results[k].line : k \in 1 .. N + 1}
            = {q.results[k].line : k \in 1 .. N} \cup {q.line}
    BY <1>3, <1>4
  <2>2. {n \in DOMAIN p.file : n < p.line /\ p.file[n] # Blank}
           = {n \in DOMAIN q.file : n < q.line /\ q.file[n] # Blank}
                \cup {q.line}
    BY <1>1
  <2>3. ASSUME NEW j \in 1 .. N + 1, NEW k \in 1 .. N + 1, j < k
        PROVE  p.results[j].line < p.results[k].line
    <3>1. CASE k = N + 1
      BY <1>3, <1>4, <1>5, <2>3, <3>1
    <3>2. CASE k # N + 1
      BY <1>3, <2>3, <3>2 DEF Sound, Reported
    <3> QED
      BY <3>1, <3>2
  <2> QED
    BY <1>3, <2>1, <2>2, <2>3 DEF Sound, Reported
<1>8. Logged(p)
  <2>1. ASSUME NEW w1 \in p.log, NEW w2 \in p.log, w1[1] = w2[1]
        PROVE  w1 = w2
    BY <1>1, <2>1 DEF Sound, Logged
  <2>2. ASSUME NEW w \in p.log PROVE w[1] < p.line
    BY <1>1 DEF Sound, Logged
  <2> QED
    BY <2>1, <2>2 DEF Logged
<1>9. Told(p, kd)
  <2> SUFFICES ASSUME NEW k \in 1 .. N + 1
               PROVE  LET writes == {w \in p.log : w[1] = p.results[k].line}
                      IN  /\ p.results[k].outcome = "skipped" => writes = {}
                          /\ p.results[k].outcome = "created" => writes # {}
                          /\ p.results[k].outcome = "updated"
                               /\ kd # "unique" => writes # {}
    BY <1>3 DEF Told
  <2>1. CASE k \in 1 .. N
    <3>1. {w \in p.log : w[1] = p.results[k].line}
            = {w \in q.log : w[1] = q.results[k].line}
      BY <1>1, <1>3, <1>5, <2>1
    <3> QED
      BY <1>3, <2>1, <3>1 DEF Sound, Told
  <2>2. CASE k = N + 1
    <3>1. p.results[k].line = q.line /\ p.results[k].outcome = o
      BY <1>3, <1>4, <2>2
    <3>2. q.phase = "wrote" => \E w \in p.log : w[1] = q.line
      BY DEF Sound, Logged
    <3>3. q.phase = "next" /\ L = {} => \A w \in p.log : w[1] # q.line
      BY <1>1 DEF Sound, Logged
    <3> QED
      BY <3>1, <3>2, <3>3
  <2> QED
    BY <1>3, <2>1, <2>2
<1> QED
  BY <1>6, <1>7, <1>8, <1>9 DEF Sound

\* The row of a line is written, and then to be read back.
LEMMA LineWritten ==
    ASSUME NEW q \in Request, NEW p \in Request, NEW kd, Sound(q, kd),
           q.phase = "found", p.phase = "wrote", p.mode = q.mode,
           p.line = q.line, p.file = q.file, p.results = q.results,
           NEW id, p.log = q.log \cup {<<q.line, id>>}
    PROVE  Sound(p, kd)
<1>1. /\ q.line \in Nat \ {0}
      /\ \A w \in q.log : w[1] \in Nat
  BY DEF Request
<1>2. Placed(p) /\ Reported(p)
  BY DEF Sound, Placed, Reported, Halves
<1>3. Logged(p)
  <2>0. \A w \in q.log : w[1] < q.line
    BY DEF Sound, Logged
  <2>1. ASSUME NEW w1 \in p.log, NEW w2 \in p.log, w1[1] = w2[1]
        PROVE  w1 = w2
    BY <1>1, <2>0, <2>1 DEF Sound, Logged
  <2>2. \A w \in p.log : w[1] < p.line \/ w[1] = p.line
    BY <1>1, <2>0
  <2>3. <<q.line, id>> \in p.log /\ <<q.line, id>>[1] = p.line
    OBVIOUS
  <2> QED
    BY <2>1, <2>2, <2>3 DEF Logged
<1>4. Told(p, kd)
  <2> SUFFICES ASSUME NEW k \in DOMAIN q.results
               PROVE  {w \in p.log : w[1] = q.results[k].line}
                        = {w \in q.log : w[1] = q.results[k].line}
    BY DEF Told, Sound
  <2>1. q.results[k].line < q.line
    <3>1. q.results[k].line \in
            {n \in DOMAIN q.file : n < q.line /\ q.file[n] # Blank}
      BY DEF Sound, Reported
    <3> QED
      BY <3>1
  <2> QED
    BY <1>1, <2>1
<1> QED
  BY <1>2, <1>3, <1>4 DEF Sound

\* Others write: only calm changes.
LEMMA Uncalmed ==
    ASSUME NEW q, NEW kd, NEW T, RequestOK(q, kd, T),
           NEW p, p = [q EXCEPT !.calm = FALSE]
    PROVE  /\ p \in Request /\ Sound(p, kd) /\ p.phase = q.phase
           /\ p.phase \in {"next", "answered"} => p.existing = NoId
           /\ ~p.calm /\ p.file = q.file /\ p.line = q.line
           /\ p.existing = q.existing
<1>0. q \in Request
  BY DEF RequestOK
<1>a. p \in Request
  <2>1. FALSE \in Calms
    BY DEF Calms
  <2> QED
    BY <1>0, <2>1, RequestIs
<1>1. /\ ~p.calm
      /\ p.phase = q.phase /\ p.file = q.file /\ p.line = q.line
      /\ p.existing = q.existing /\ p.results = q.results /\ p.log = q.log
      /\ p.mode = q.mode
  BY <1>0 DEF Request
<1> QED
  BY <1>a, <1>1 DEF RequestOK, Sound, Placed, Reported, Logged, Told

-----------------------------------------------------------------------------
(* What a step of one request, or of others, means for all. *)

\* A request that is there is no idle slot.
LEMMA Present ==
    ASSUME ImInv, NEW i \in Importer
    PROVE  /\ imp[i].phase \in {"next", "found", "wrote", "answered"} =>
                 imp[i] # Idle /\ RequestOK(imp[i], kind, table)
                               /\ imp[i] \in Request
           /\ Running(i) => imp[i].phase \in {"next", "found", "wrote"}
  BY DEF ImInv, Idle, RequestOK, Running

\* A step of request i that leaves the table alone.
LEMMA OwnStep ==
    ASSUME ImInv, NEW i \in Importer, NEW new, Step(i, new), Running(i),
           UNCHANGED <<kind, table, nextId, begun>>,
           new = Idle \/ RequestOK(new, kind, table)
    PROVE  ImInv'
<1>1. /\ imp'[i] = new /\ DOMAIN imp' = Importer
      /\ \A j \in Importer \ {i} : imp'[j] = imp[j]
  BY DEF Step, ImInv
<1>2. \A j \in Importer :
         imp'[j] # Idle => RequestOK(imp'[j], kind', table')
  BY <1>1 DEF ImInv
<1>3. TypeOK'
  BY <1>2 DEF ImInv, TypeOK, RequestOK
<1>4. Alone'
  BY <1>1 DEF ImInv, Alone, Running
<1> QED
  BY <1>1, <1>2, <1>3, <1>4 DEF ImInv, IdsUnique

\* A step of request i that writes the table T.
LEMMA OwnWrite ==
    ASSUME ImInv, NEW i \in Importer, NEW new, StepWriting(i, new), Running(i),
           UNCHANGED <<kind, begun>>,
           table' \subseteq Row, nextId' \in 1 .. MaxId + 1,
           \A r \in table' : r.id < nextId', IdsUnique',
           RequestOK(new, kind, table')
    PROVE  ImInv'
<1>1. /\ imp'[i] = new /\ DOMAIN imp' = Importer
      /\ \A j \in Importer \ {i} :
            imp'[j] = IF imp[j] = Idle THEN Idle
                      ELSE [imp[j] EXCEPT !.calm = FALSE]
  BY DEF StepWriting
<1>2. ASSUME NEW j \in Importer, imp'[j] # Idle
      PROVE  RequestOK(imp'[j], kind', table')
  <2>1. CASE j = i
    BY <1>1, <2>1
  <2>2. CASE j # i
    <3>1. /\ imp[j] # Idle /\ RequestOK(imp[j], kind, table)
          /\ imp'[j] = [imp[j] EXCEPT !.calm = FALSE]
      BY <1>1, <1>2, <2>2 DEF ImInv
    <3>2. /\ imp'[j] \in Request /\ Sound(imp'[j], kind)
          /\ imp'[j].phase = imp[j].phase
          /\ imp'[j].phase \in {"next", "answered"} => imp'[j].existing = NoId
          /\ ~imp'[j].calm
      BY <3>1, Uncalmed
    <3>3. kind \notin OverlapKinds => imp[j].phase # "found"
      BY <2>2 DEF ImInv, Alone, Running
    <3> QED
      BY <3>2, <3>3 DEF RequestOK, Unmatched, Matched, Converges, Unfailing
  <2> QED
    BY <2>1, <2>2
<1>3. TypeOK'
  BY <1>2 DEF ImInv, TypeOK, RequestOK
<1>4. \A j \in Importer : Running(j)' => Running(j)
  <2> SUFFICES ASSUME NEW j \in Importer, Running(j)' PROVE Running(j)
    OBVIOUS
  <2>1. CASE j = i
    BY <2>1
  <2>2. CASE j # i
    <3>1. imp[j] # Idle /\ imp'[j] = [imp[j] EXCEPT !.calm = FALSE]
      BY <1>1, <2>2 DEF Running, Idle
    <3>2. imp'[j].phase = imp[j].phase
      BY <3>1, Uncalmed DEF ImInv
    <3> QED
      BY <3>2 DEF Running
  <2> QED
    BY <2>1, <2>2
<1>5. Alone'
  BY <1>4 DEF ImInv, Alone
<1> QED
  BY <1>1, <1>2, <1>3, <1>5 DEF ImInv

\* A step of others that writes the table.
LEMMA OtherWrite ==
    ASSUME ImInv, imp' = Disturbed, UNCHANGED <<kind, begun>>,
           table' \subseteq Row, nextId' \in 1 .. MaxId + 1,
           \A r \in table' : r.id < nextId', IdsUnique',
           MayInterfere \/ table' \subseteq table
    PROVE  ImInv'
<1>1. /\ DOMAIN imp' = Importer
      /\ \A j \in Importer :
            imp'[j] = IF imp[j] = Idle THEN Idle
                      ELSE [imp[j] EXCEPT !.calm = FALSE]
  BY DEF Disturbed
<1>2. ASSUME NEW j \in Importer, imp[j] # Idle
      PROVE  RequestOK(imp'[j], kind', table') /\ imp'[j].phase = imp[j].phase
  <2>1. /\ RequestOK(imp[j], kind, table)
        /\ imp'[j] = [imp[j] EXCEPT !.calm = FALSE]
    BY <1>1, <1>2 DEF ImInv
  <2>2. /\ imp'[j] \in Request /\ Sound(imp'[j], kind)
        /\ imp'[j].phase = imp[j].phase
        /\ imp'[j].phase \in {"next", "answered"} => imp'[j].existing = NoId
        /\ ~imp'[j].calm /\ imp'[j].file = imp[j].file
        /\ imp'[j].line = imp[j].line /\ imp'[j].existing = imp[j].existing
    BY <2>1, Uncalmed
  <2>3. Unmatched(imp'[j], kind, table')
    <3>1. CASE table' \subseteq table
      BY <2>1, <2>2, <3>1 DEF RequestOK, Unmatched
    <3>2. CASE MayInterfere
      BY <2>2, <3>2 DEF MayInterfere, Unmatched, Running
    <3> QED
      BY <3>1, <3>2
  <2> QED
    BY <2>2, <2>3 DEF RequestOK, Matched, Converges, Unfailing
<1>3. TypeOK'
  BY <1>1, <1>2 DEF ImInv, TypeOK, RequestOK
<1>4. \A j \in Importer : Running(j)' => Running(j)
  BY <1>1, <1>2 DEF Running, Idle
<1>5. Alone'
  BY <1>4 DEF ImInv, Alone
<1> QED
  BY <1>1, <1>2, <1>3, <1>5 DEF ImInv

-----------------------------------------------------------------------------
(* The steps of an import that leave the table alone. *)

\* A line goes into the report without a write in this step. It was written
\* before, or is a failed one, or the import is not one that converges.
LEMMA ReportStep ==
    ASSUME ImInv, NEW i \in Importer, Running(i),
           imp[i].line <= Len(imp[i].file), Line(i) # Blank,
           NEW o \in Outcome, NEW x \in 0 .. MaxId, Step(i, Report(i, o, x)),
           UNCHANGED <<kind, table, nextId, begun>>,
           o = "skipped" => imp[i].phase = "next",
           o = "created" => imp[i].phase = "wrote",
           o = "updated" => imp[i].phase = "wrote" \/ kind = "unique",
           \/ o = "failed" \/ imp[i].phase = "wrote"
           \/ ~(imp[i].calm /\ imp[i].mode = "upsert")
    PROVE  ImInv'
<1> DEFINE q == imp[i]
           p == Report(i, o, x)
           res == [line |-> q.line, outcome |-> o, id |-> x]
<1>1. /\ q \in Request /\ RequestOK(q, kind, table) /\ Sound(q, kind)
      /\ q.phase \in {"next", "found", "wrote"}
  BY Present DEF RequestOK
<1>2. /\ p \in Request /\ p.phase = "next" /\ p.existing = NoId
      /\ p.line = q.line + 1 /\ p.file = q.file /\ p.mode = q.mode
      /\ p.calm = q.calm /\ p.log = q.log
      /\ p.results = Append(q.results, res)
  <2> HIDE DEF p, q
  <2> QED
    BY <1>1, ReportIs DEF p, q
<1>3. q.file[q.line] # Blank /\ q.line <= Len(q.file)
  BY DEF Line
<1> HIDE DEF p, q
<1>4. Sound(p, kind)
  <2>1. p.log = q.log \cup {}
    BY <1>2
  <2> QED
    BY <1>1, <1>2, <1>3, <2>1, LineEnds DEF q
<1>5. Converges(p, table)
  <2> SUFFICES ASSUME Unfailing(p),
                      NEW n \in Stored(p), LastStored(p, n)
               PROVE  \E r \in table : /\ r.id = Oldest(table, p.file[n].key)
                                       /\ r.val = p.file[n].val
    BY DEF Converges
  <2>1. /\ Len(q.results) \in Nat
        /\ DOMAIN q.results = 1 .. Len(q.results)
        /\ DOMAIN p.results = 1 .. Len(q.results) + 1
        /\ \A k \in 1 .. Len(q.results) : p.results[k] = q.results[k]
        /\ p.results[Len(q.results) + 1] = res
    <3>1. q.results \in Seq(Result) /\ res \in Result
      BY <1>1 DEF Request, Result
    <3> HIDE DEF res
    <3> QED
      BY <1>2, <3>1, ReportLine
  <2>2. o # "failed"
    BY <2>1 DEF Unfailing
  <2>3. Unfailing(q)
    BY <1>2, <2>1 DEF Unfailing
  <2>4. q.phase = "wrote"
    BY <2>2, <2>3 DEF Unfailing, q
  <2>5. Stored(p) = Stored(q)
    <3>1. q.line \in Nat /\ Records(q.file) \subseteq Nat
      BY <1>1, FileLines DEF Request, Records
    <3> QED
      BY <1>2, <2>4, <3>1 DEF Stored
  <2>6. n \in Stored(q) /\ LastStored(q, n)
    BY <1>2, <2>5 DEF LastStored
  <2> QED
    BY <1>1, <1>2, <2>3, <2>6 DEF RequestOK, Converges
<1>6. RequestOK(p, kind, table)
  BY <1>2, <1>4, <1>5 DEF RequestOK, Unmatched, Matched
<1> QED
  BY <1>6, OwnStep DEF p

\* A line that is accepted, and what Upsert looks up.
LEMMA AcceptedLine ==
    ASSUME ImInv, NEW i \in Importer,
           IsRecord(i) \/ imp[i].phase \in Halves
    PROVE  /\ Running(i) /\ imp[i].line \in 1 .. Len(imp[i].file)
           /\ Line(i) # Blank /\ Line(i) \in [key : Key, val : Val]
           /\ imp[i].phase # "wrote" => \A w \in imp[i].log : w[1] < imp[i].line
           /\ imp[i].phase \in Halves => imp[i].mode # "dry-run"
<1>1. imp[i].phase \in {"next", "found", "wrote"}
  BY DEF IsRecord, AtLine, Halves
<1>2. imp[i] \in Request /\ Sound(imp[i], kind)
  BY <1>1, Present DEF RequestOK
<1>3. imp[i].line <= Len(imp[i].file) /\ Line(i) \notin {Bad, Blank}
  BY <1>2 DEF IsRecord, AtLine, Line, Sound, Placed
<1>4. imp[i].line \in 1 .. Len(imp[i].file)
  BY <1>2, <1>3, FileLines DEF Request
<1>5. imp[i].phase # "wrote" => \A w \in imp[i].log : w[1] < imp[i].line
  BY <1>2 DEF Sound, Logged
<1>6. imp[i].phase \in Halves => imp[i].mode # "dry-run"
  BY <1>2 DEF Sound, Placed
<1> QED
  BY <1>1, <1>2, <1>3, <1>4, <1>5, <1>6, FileLines DEF Running, Line

\* The lines that are rejected, skipped or fail.
LEMMA LineReported ==
    ASSUME ImInv, NEW i \in Importer,
           RejectLine(i) \/ DryRunLine(i) \/ StatementFails(i)
    PROVE  ImInv'
<1>0. NoId \in 0 .. MaxId /\ "failed" \in Outcome /\ "skipped" \in Outcome
  BY BulkAssumption DEF NoId, Outcome
<1>1. CASE RejectLine(i)
  <2>1. Running(i) /\ imp[i].line <= Len(imp[i].file) /\ Line(i) # Blank
    BY <1>1, BulkAssumption DEF RejectLine, AtLine, Running
  <2> QED
    BY <1>0, <1>1, <2>1, ReportStep DEF RejectLine
<1>2. CASE DryRunLine(i)
  <2>1. IsRecord(i)
    BY <1>2 DEF DryRunLine
  <2>2. imp[i].line <= Len(imp[i].file) /\ imp[i].phase = "next"
    BY <2>1 DEF IsRecord, AtLine
  <2> QED
    BY <1>0, <1>2, <2>1, <2>2, AcceptedLine, ReportStep DEF DryRunLine
<1>3. CASE StatementFails(i)
  <2>1. IsRecord(i) \/ imp[i].phase \in Halves
    BY <1>3 DEF StatementFails, Halves
  <2>2. imp[i].line <= Len(imp[i].file)
    BY <2>1, AcceptedLine
  <2> QED
    BY <1>0, <1>3, <2>1, <2>2, AcceptedLine, ReportStep DEF StatementFails
<1> QED
  BY <1>1, <1>2, <1>3

\* The read-back of a line that was written.
LEMMA LineReadBack ==
    ASSUME ImInv, NEW i \in Importer, ReadBack(i)
    PROVE  ImInv'
<1> DEFINE found == IF kind = "merge" THEN Lookup(Line(i).key)
                    ELSE IF WithId(imp[i].written) = {} THEN NoId
                    ELSE imp[i].written
           o == IF found = NoId THEN "failed"
                ELSE IF imp[i].existing = NoId THEN "created" ELSE "updated"
           x == IF found = NoId THEN NoId ELSE found
<1>1. imp[i].phase = "wrote" /\ UNCHANGED <<kind, table, nextId, begun>>
  BY DEF ReadBack
<1>2. Step(i, Report(i, o, x))
  BY DEF ReadBack
<1>3. /\ Running(i) /\ imp[i].line <= Len(imp[i].file) /\ Line(i) # Blank
      /\ imp[i] \in Request
  BY <1>1, AcceptedLine, Present DEF Halves
<1>4. x \in 0 .. MaxId
  <2>1. Lookup(Line(i).key) \in 0 .. MaxId
    BY LookupOldest, OldestFound DEF ImInv, TypeOK
  <2>2. imp[i].written \in 0 .. MaxId
    BY <1>3 DEF Request
  <2> QED
    BY <2>1, <2>2, BulkAssumption DEF NoId
<1>5. o \in Outcome /\ o # "skipped"
  BY DEF Outcome
<1> HIDE DEF o, x
<1> QED
  BY <1>1, <1>2, <1>3, <1>4, <1>5, ReportStep

\* The blank lines, which no report has.
LEMMA LineSkipped ==
    ASSUME ImInv, NEW i \in Importer, SkipBlank(i)
    PROVE  ImInv'
<1> DEFINE q == imp[i]
           p == [q EXCEPT !.line = q.line + 1]
<1>1. /\ q.phase = "next" /\ q.line <= Len(q.file) /\ q.file[q.line] = Blank
      /\ Step(i, p) /\ UNCHANGED <<kind, table, nextId, begun>>
  BY DEF SkipBlank, AtLine, Line
<1>2. /\ q \in Request /\ RequestOK(q, kind, table) /\ Sound(q, kind)
      /\ q.existing = NoId
  BY <1>1, Present DEF RequestOK
<1>3. /\ q.line \in Nat \ {0} /\ Len(q.file) \in Nat
      /\ DOMAIN q.file = 1 .. Len(q.file) /\ q.line + 1 \in LineNumbers
      /\ \A w \in q.log : w[1] \in Nat
  BY <1>2, FileLines DEF Request, LineNumbers
<1> HIDE DEF q
<1>4. /\ p \in Request /\ p.phase = "next" /\ p.line = q.line + 1
      /\ p.existing = NoId /\ p.file = q.file /\ p.log = q.log
      /\ p.results = q.results /\ p.mode = q.mode /\ p.calm = q.calm
  BY <1>1, <1>2, <1>3, RequestIs
<1> HIDE DEF p
<1>5. Placed(p)
  BY <1>1, <1>3, <1>4 DEF Placed, Halves
<1>6. Reported(p)
  <2>1. {n \in DOMAIN p.file : n < p.line /\ p.file[n] # Blank}
          = {n \in DOMAIN q.file : n < q.line /\ q.file[n] # Blank}
    BY <1>1, <1>3, <1>4
  <2> QED
    BY <1>2, <1>4, <2>1 DEF Sound, Reported
<1>7. Logged(p)
  BY <1>1, <1>2, <1>3, <1>4 DEF Sound, Logged
<1>8. Told(p, kind)
  BY <1>2, <1>4 DEF Sound, Told
<1>9. Converges(p, table)
  <2>1. Stored(p) = Stored(q)
    BY <1>1, <1>3, <1>4 DEF Stored, Records
  <2> QED
    BY <1>2, <1>4, <2>1 DEF RequestOK, Converges, Unfailing, LastStored
<1>10. RequestOK(p, kind, table)
  BY <1>4, <1>5, <1>6, <1>7, <1>8, <1>9
     DEF RequestOK, Sound, Unmatched, Matched
<1> QED
  BY <1>1, <1>10, OwnStep DEF Running, q

\* The lookup of a line. In create mode a hit is a failed line.
LEMMA LineFound ==
    ASSUME ImInv, NEW i \in Importer, FindLine(i)
    PROVE  ImInv'
<1> DEFINE q == imp[i]
           e == Lookup(Line(i).key)
           p == [q EXCEPT !.phase = "found", !.existing = e]
<1>0. /\ IsRecord(i) /\ q.mode # "dry-run"
      /\ UNCHANGED <<kind, table, nextId, begun>>
      /\ Step(i, IF e # NoId /\ q.mode # "upsert"
                    THEN Report(i, "failed", NoId) ELSE p)
  BY DEF FindLine
<1>1. /\ Running(i) /\ q.line \in 1 .. Len(q.file)
      /\ Line(i) # Blank /\ Line(i) \notin {Bad, Blank}
      /\ q.phase = "next"
  BY <1>0, AcceptedLine DEF IsRecord, AtLine
<1>2. /\ q \in Request /\ RequestOK(q, kind, table) /\ Sound(q, kind)
  BY <1>1, Present DEF RequestOK
<1>3. CASE e # NoId /\ q.mode # "upsert"
  <2>1. Step(i, Report(i, "failed", NoId))
    BY <1>0, <1>3
  <2>2. NoId \in 0 .. MaxId /\ "failed" \in Outcome
    BY BulkAssumption DEF NoId, Outcome
  <2>3. q.line <= Len(q.file)
    BY <1>2, FileLines, <1>1
  <2> QED
    BY <1>0, <1>1, <2>1, <2>2, <2>3, ReportStep
<1>4. CASE ~(e # NoId /\ q.mode # "upsert")
  <2>1. /\ e = Oldest(table, q.file[q.line].key) /\ e \in 0 .. MaxId
        /\ e = NoId => \A r \in table : r.key # q.file[q.line].key
    <3>1. table \in SUBSET Row
      BY DEF ImInv, TypeOK
    <3>2. e = Oldest(table, q.file[q.line].key)
      BY LookupOldest DEF Line
    <3> HIDE DEF e, q
    <3> QED
      BY <3>1, <3>2, OldestFound
  <2>2. Step(i, p)
    BY <1>0, <1>4
  <2>3. q.file[q.line] \notin {Bad, Blank}
    BY <1>1 DEF Line
  <2>4. "found" \in Phases /\ e \in RowIds
    BY <2>1 DEF Phases, RowIds
  <2> HIDE DEF q, e
  <2>5. /\ p \in Request /\ p.phase = "found" /\ p.line = q.line
        /\ p.existing = e /\ p.file = q.file /\ p.log = q.log
        /\ p.results = q.results /\ p.mode = q.mode /\ p.calm = q.calm
    BY <1>2, <2>4, RequestIs
  <2> HIDE DEF p
  <2>6. Placed(p)
    <3>1. q.line <= Len(q.file)
      BY <1>1, <1>2, FileLines
    <3>2. Len(q.file) \in Nat /\ q.line \in Nat
      BY <1>2, FileLines DEF Request
    <3> QED
      BY <1>0, <2>3, <2>5, <3>1, <3>2 DEF Placed, Halves, q
  <2>7. Reported(p)
    BY <1>2, <2>5 DEF Sound, Reported
  <2>8. Logged(p)
    BY <1>1, <1>2, <2>5 DEF Sound, Logged
  <2>9. Told(p, kind)
    BY <1>2, <2>5 DEF Sound, Told
  <2>10. Converges(p, table)
    <3>1. Stored(p) = Stored(q)
      BY <1>1, <2>5 DEF Stored
    <3> QED
      BY <1>2, <2>5, <3>1 DEF RequestOK, Converges, Unfailing, LastStored
  <2>11. RequestOK(p, kind, table)
    BY <2>1, <2>5, <2>6, <2>7, <2>8, <2>9, <2>10
       DEF RequestOK, Sound, Unmatched, Matched
  <2> QED
    BY <1>0, <1>1, <2>2, <2>11, OwnStep
<1> QED
  BY <1>3, <1>4

\* The end of the file, and of the process.
LEMMA ImportFinished ==
    ASSUME ImInv, NEW i \in Importer, Finish(i) \/ Abort(i)
    PROVE  ImInv'
<1>1. CASE Finish(i)
  <2> DEFINE q == imp[i]
             a == IF Len(q.results) > MaxRows THEN 413 ELSE 200
             p == [q EXCEPT !.phase = "answered", !.answer = a]
  <2>1. /\ q.phase = "next" /\ q.line > Len(q.file) /\ Step(i, p)
        /\ UNCHANGED <<kind, table, nextId, begun>> /\ Running(i)
    BY <1>1 DEF Finish, Running
  <2>2. /\ q \in Request /\ RequestOK(q, kind, table) /\ Sound(q, kind)
        /\ q.existing = NoId
    BY <2>1, Present DEF RequestOK
  <2>3. "answered" \in Phases /\ a \in Answers
    BY DEF Phases, Answers
  <2>4. q.line = Len(q.file) + 1
    <3>1. q.line \in Nat /\ Len(q.file) \in Nat /\ q.line <= Len(q.file) + 1
      BY <2>2, FileLines DEF Request, Sound, Placed
    <3> QED
      BY <2>1, <3>1
  <2> HIDE DEF q, a
  <2>5. /\ p \in Request /\ p.phase = "answered" /\ p.line = q.line
        /\ p.existing = NoId /\ p.file = q.file /\ p.log = q.log
        /\ p.results = q.results /\ p.mode = q.mode /\ p.calm = q.calm
    BY <2>2, <2>3, RequestIs
  <2> HIDE DEF p
  <2>6. Placed(p) /\ Reported(p)
    BY <2>2, <2>4, <2>5 DEF Sound, Placed, Reported, Halves
  <2>7. Logged(p) /\ Told(p, kind)
    BY <2>1, <2>2, <2>5 DEF Sound, Logged, Told
  <2>8. Converges(p, table)
    <3>1. Stored(p) = Stored(q)
      BY <2>1, <2>5 DEF Stored
    <3> QED
      BY <2>2, <2>5, <3>1 DEF RequestOK, Converges, Unfailing, LastStored
  <2>9. RequestOK(p, kind, table)
    BY <2>5, <2>6, <2>7, <2>8 DEF RequestOK, Sound, Unmatched, Matched
  <2> QED
    BY <2>1, <2>9, OwnStep
<1>2. CASE Abort(i)
  BY <1>2, OwnStep DEF Abort
<1> QED
  BY <1>1, <1>2

\* An import begins with an empty report and an empty log.
LEMMA ImportBegun ==
    ASSUME ImInv, NEW i \in Importer, NEW up \in Uploads, Begin(i, up)
    PROVE  ImInv'
<1> DEFINE new == [phase |-> "next", file |-> up.file, mode |-> up.mode,
                   line |-> 1, existing |-> NoId, written |-> NoId,
                   results |-> <<>>, answer |-> 0, log |-> {}, calm |-> TRUE]
<1>1. /\ ~Running(i) /\ begun < MaxImports /\ begun' = begun + 1
      /\ kind \in OverlapKinds \/ \A j \in Importer : ~Running(j)
      /\ Step(i, new) /\ UNCHANGED <<kind, table, nextId>>
  BY DEF Begin
<1>2. /\ imp'[i] = new /\ DOMAIN imp' = Importer
      /\ \A j \in Importer \ {i} : imp'[j] = imp[j]
  BY <1>1 DEF Step, ImInv
<1>3. new \in Request
  <2>1. /\ "next" \in Phases /\ up.file \in Files /\ up.mode \in Modes
        /\ 1 \in LineNumbers /\ NoId \in RowIds /\ <<>> \in Reports
        /\ 0 \in Answers /\ {} \in Logs /\ TRUE \in Calms
    BY BulkAssumption
       DEF Phases, Files, Modes, LineNumbers, NoId, RowIds, Reports, Answers,
           Logs, Calms
  <2> QED
    BY <2>1, RequestIs
<1>4. /\ new.phase = "next" /\ new.line = 1 /\ new.log = {}
      /\ new.results = <<>> /\ new.existing = NoId
      /\ DOMAIN new.results = {}
  OBVIOUS
<1> HIDE DEF new
<1>5. Len(new.file) \in Nat /\ DOMAIN new.file = 1 .. Len(new.file)
  BY <1>3, FileLines
<1>6. Placed(new) /\ Reported(new)
  BY <1>4, <1>5 DEF Placed, Reported, Halves
<1>7. Logged(new) /\ Told(new, kind)
  BY <1>4 DEF Logged, Told
<1>8. Stored(new) = {}
  BY <1>4, <1>5 DEF Stored, Records
<1>9. RequestOK(new, kind, table)
  BY <1>3, <1>4, <1>6, <1>7, <1>8
     DEF RequestOK, Sound, Unmatched, Matched, Converges
<1>10. \A j \in Importer :
          imp'[j] # Idle => RequestOK(imp'[j], kind', table')
  BY <1>1, <1>2, <1>9 DEF ImInv
<1>11. TypeOK'
  <2>1. begun' \in 0 .. MaxImports
    BY <1>1, BulkAssumption DEF ImInv, TypeOK
  <2> QED
    BY <1>1, <1>10, <2>1 DEF ImInv, TypeOK, RequestOK
<1>12. Alone'
  BY <1>1, <1>2 DEF ImInv, Alone, Running
<1> QED
  BY <1>1, <1>2, <1>10, <1>11, <1>12 DEF ImInv, IdsUnique

-----------------------------------------------------------------------------
(* The steps that write the table. *)

\* A row is added, with an id of its own.
LEMMA RowInserted ==
    ASSUME ImInv, NEW key \in Key, NEW val \in Val, InsertRow(key, val)
    PROVE  /\ nextId \in 1 .. MaxId
           /\ table' = table \cup {[id |-> nextId, key |-> key, val |-> val]}
           /\ table' \subseteq Row /\ nextId' \in 1 .. MaxId + 1
           /\ \A r \in table' : r.id < nextId'
           /\ IdsUnique'
<1> DEFINE row == [id |-> nextId, key |-> key, val |-> val]
<1>1. /\ nextId \in 1 .. MaxId + 1 /\ nextId <= MaxId /\ nextId' = nextId + 1
      /\ table \subseteq Row /\ \A r \in table : r.id < nextId
      /\ table' = table \cup {row}
  BY DEF ImInv, TypeOK, InsertRow
<1>2. nextId \in 1 .. MaxId /\ nextId' \in 1 .. MaxId + 1
  BY <1>1, BulkAssumption
<1>3. row \in Row /\ row.id = nextId
  BY <1>2 DEF Row
<1>4. \A r \in table : r.id \in Nat
  BY <1>1 DEF Row
<1> HIDE DEF row
<1>5. \A r \in table' : r.id < nextId'
  BY <1>1, <1>2, <1>3, <1>4
<1>6. IdsUnique'
  BY <1>1, <1>2, <1>3, <1>4 DEF ImInv, IdsUnique
<1> QED
  BY <1>1, <1>2, <1>3, <1>5, <1>6 DEF row

\* The row with an id is written, and no other.
LEMMA RowUpdated ==
    ASSUME ImInv, NEW id \in 1 .. MaxId, NEW key \in Key, NEW val \in Val,
           UpdateRow(id, key, val), NEW row,
           row = [id |-> id, key |-> key, val |-> val]
    PROVE  /\ row.id = id /\ row.key = key /\ row.val = val
           /\ (\E r \in table : r.id = id) => row \in table'
           /\ \A r \in table : r.id # id => r \in table'
           /\ \A r \in table' : r = row \/ (r \in table /\ r.id # id)
           /\ table' \subseteq Row /\ nextId' \in 1 .. MaxId + 1
           /\ \A r \in table' : r.id < nextId'
           /\ IdsUnique'
<1>1. /\ nextId' = nextId /\ nextId \in 1 .. MaxId + 1
      /\ table \subseteq Row /\ \A r \in table : r.id < nextId
      /\ table' = {IF r.id = id THEN row ELSE r : r \in table}
  BY DEF ImInv, TypeOK, UpdateRow
<1>2. row \in Row /\ row.id = id /\ row.key = key /\ row.val = val
  BY DEF Row
<1>3. /\ (\E r \in table : r.id = id) => row \in table'
      /\ \A r \in table : r.id # id => r \in table'
      /\ \A r \in table' : \/ r = row /\ \E s \in table : s.id = id
                           \/ r \in table /\ r.id # id
  BY <1>1
<1>4. table' \subseteq Row /\ \A r \in table' : r.id < nextId'
  BY <1>1, <1>2, <1>3
<1>5. IdsUnique'
  BY <1>2, <1>3 DEF ImInv, IdsUnique
<1> QED
  BY <1>1, <1>2, <1>3, <1>4, <1>5

\* When a line was written where the lookup says, and rows of other keys are
\* as before, the import still converges. T and U are the rows before and
\* after.
LEMMA StillConverges ==
    ASSUME NEW q \in Request, NEW p \in Request,
           NEW T \in SUBSET Row, NEW U \in SUBSET Row,
           \A r, s \in T : r.id = s.id => r = s,
           Converges(q, T), Unfailing(p) => Unfailing(q), p.file = q.file,
           q.line \in 1 .. Len(q.file), Stored(p) = Stored(q) \cup {q.line},
           \A n \in Stored(q) : n < q.line,
           Unfailing(p) =>
             /\ \E r \in U : /\ r.id = Oldest(U, q.file[q.line].key)
                             /\ r.val = q.file[q.line].val
             /\ \A r \in T : r.key # q.file[q.line].key => r \in U
             /\ \A r \in U : r.key # q.file[q.line].key => r \in T
    PROVE  Converges(p, U)
<1> SUFFICES ASSUME Unfailing(p), NEW n \in Stored(p), LastStored(p, n)
             PROVE  \E r \in U : /\ r.id = Oldest(U, q.file[n].key)
                                 /\ r.val = q.file[n].val
  BY DEF Converges
<1>1. CASE n = q.line
  BY <1>1
<1>2. CASE n # q.line
  <2>1. n \in Stored(q) /\ LastStored(q, n)
    BY <1>2 DEF LastStored
  <2>2. PICK r \in T : /\ r.id = Oldest(T, q.file[n].key)
                       /\ r.val = q.file[n].val
    BY <2>1 DEF Converges
  <2>3. q.file[n].key # q.file[q.line].key
    <3>1. q.line \in Nat /\ n \in Nat /\ n < q.line
      BY <2>1, FileLines DEF Stored, Records
    <3> QED
      BY <3>1 DEF LastStored
  <2>4. r.key = q.file[n].key
    <3>1. PICK s \in T : s.key = q.file[n].key /\ s.id = r.id
      BY <2>2, OldestRow
    <3> QED
      BY <3>1
  <2>5. Oldest(T, q.file[n].key) = Oldest(U, q.file[n].key)
    <3>1. \A s \in T : s.key = q.file[n].key => s \in U
      BY <2>3
    <3>2. \A s \in U : s.key = q.file[n].key => s \in T
      BY <2>3
    <3> QED
      BY <3>1, <3>2, OldestSame
  <2> QED
    BY <2>2, <2>3, <2>4, <2>5
<1> QED
  BY <1>1, <1>2

\* The same for the two ways in which a step writes a line: a new row where
\* there was none with the key, or the row that the lookup finds now.
LEMMA WriteConverges ==
    ASSUME ImInv, NEW q \in Request, NEW p \in Request,
           Converges(q, table), Matched(q, table), q.phase = "found",
           Unfailing(p) => Unfailing(q), p.file = q.file,
           q.line \in 1 .. Len(q.file), q.file[q.line] \notin {Bad, Blank},
           Stored(p) = Stored(q) \cup {q.line},
           NEW key, key = q.file[q.line].key, NEW val, val = q.file[q.line].val,
           NEW id, Unfailing(q) => id = Oldest(table, key),
           \/ (Unfailing(q) => id = NoId) /\ InsertRow(key, val)
           \/ id # NoId /\ UpdateRow(id, key, val)
    PROVE  Converges(p, table')
<1>1. key \in Key /\ val \in Val /\ q.line \in Nat /\ table \in SUBSET Row
  BY FileLines DEF ImInv, TypeOK
<1>2. \A n \in Stored(q) : n < q.line
  BY DEF Stored
<1>3. ASSUME Unfailing(q), InsertRow(key, val), id = NoId
      PROVE  Converges(p, table')
  <2> DEFINE row == [id |-> nextId, key |-> key, val |-> val]
  <2>1. /\ table' = table \cup {row} /\ table' \in SUBSET Row
        /\ row.id = nextId /\ row.key = key /\ row.val = val
        /\ nextId \in 1 .. MaxId
    BY <1>1, <1>3, RowInserted
  <2>2. \A r \in table : r.key # key
    <3>1. Oldest(table, key) = NoId
      BY <1>3
    <3> QED
      BY <1>1, <3>1, OldestRow
  <2>3. Oldest(table', key) = nextId
    <3> DEFINE T == table'
    <3>1. T \in SUBSET Row /\ \E r \in T : r.key = key
      BY <2>1
    <3> HIDE DEF T
    <3>2. \E r \in T : r.key = key /\ r.id = Oldest(T, key)
      BY <3>1, OldestRow
    <3> QED
      BY <2>1, <2>2, <3>2 DEF T
  <2>4. row \in table' /\ row.id = Oldest(table', key) /\ row.val = val
    BY <2>1, <2>3
  <2> HIDE DEF row
  <2> QED
    BY <1>1, <1>2, <2>1, <2>2, <2>4, StillConverges DEF ImInv, IdsUnique
<1>4. ASSUME Unfailing(q), UpdateRow(id, key, val), id # NoId
      PROVE  Converges(p, table')
  <2> DEFINE row == [id |-> id, key |-> key, val |-> val]
  <2>0. id = Oldest(table, key) /\ Oldest(table, key) # NoId
    BY <1>4
  <2>1. id \in 1 .. MaxId
    BY <1>1, <2>0, OldestRow
  <2>2. PICK old \in table : old.id = id /\ old.key = key
    <3>1. table \in SUBSET Row
      BY <1>1
    <3>2. \E r \in table : r.key = key /\ r.id = Oldest(table, key)
      BY <2>0, <3>1, OldestFound
    <3> QED
      BY <2>0, <3>2
  <2>3. /\ row.id = id /\ row.key = key /\ row.val = val /\ row \in table'
        /\ \A r \in table : r.id # id => r \in table'
        /\ \A r \in table' : r = row \/ (r \in table /\ r.id # id)
        /\ table' \in SUBSET Row
    BY <1>1, <1>4, <2>1, <2>2, RowUpdated
  <2> HIDE DEF row
  <2>4. \A r \in table : r.key # key => r.id # id
    BY <2>2 DEF ImInv, IdsUnique
  <2>5. Oldest(table', key) = id
    <3>1. \A r \in table : r.key = key =>
             \E s \in table' : s.key = key /\ s.id = r.id
      BY <2>3
    <3>2. \A s \in table' : s.key = key =>
             \E r \in table : r.key = key /\ r.id = s.id
      BY <2>2, <2>3
    <3>3. Oldest(table, key) = Oldest(table', key)
      BY <1>1, <2>3, <3>1, <3>2, OldestSame
    <3> QED
      BY <1>4, <3>3
  <2>6. /\ \E r \in table' : r.id = Oldest(table', key) /\ r.val = val
        /\ \A r \in table : r.key # key => r \in table'
        /\ \A r \in table' : r.key # key => r \in table
    BY <2>3, <2>4, <2>5
  <2> QED
    BY <1>1, <1>2, <2>3, <2>6, StillConverges DEF ImInv, IdsUnique
<1>5. CASE ~Unfailing(q)
  BY <1>5 DEF Converges
<1> QED
  BY <1>3, <1>4, <1>5

\* Request i writes its line: it becomes p, and the table has the row that
\* was added, or changed under id.
LEMMA LineWrites ==
    ASSUME ImInv, NEW i \in Importer, NEW q, q = imp[i], q.phase = "found",
           NEW p \in Request, Sound(p, kind), p.file = q.file,
           \/ p.phase = "wrote" /\ p.line = q.line
           \/ p.phase = "next" /\ p.line = q.line + 1 /\ p.existing = NoId,
           Unfailing(p) => Unfailing(q),
           StepWriting(i, p), UNCHANGED <<kind, begun>>,
           NEW key, key = q.file[q.line].key, NEW val, val = q.file[q.line].val,
           NEW id, Unfailing(q) => id = Oldest(table, key),
           \/ (Unfailing(q) => id = NoId) /\ InsertRow(key, val)
           \/ id \in 1 .. MaxId /\ UpdateRow(id, key, val)
    PROVE  ImInv'
<1>1. /\ q \in Request /\ RequestOK(q, kind, table) /\ Sound(q, kind)
      /\ Running(i) /\ q.line \in 1 .. Len(q.file) /\ q.line \in Nat
      /\ q.file[q.line] \notin {Bad, Blank}
  <2>1. q \in Request /\ RequestOK(q, kind, table) /\ Sound(q, kind)
    BY Present DEF RequestOK
  <2>2. q.file[q.line] \notin {Bad, Blank}
    BY <2>1 DEF Sound, Placed, Halves
  <2> QED
    BY <2>1, <2>2, AcceptedLine, FileLines DEF Halves, Line
<1>2. key \in Key /\ val \in Val
  BY <1>1, FileLines
<1>3. Stored(p) = Stored(q) \cup {q.line}
  <2>1. q.line \in Records(q.file) /\ Records(q.file) \subseteq Nat
    BY <1>1, FileLines DEF Records
  <2> QED
    BY <1>1, <2>1 DEF Stored
<1>4. id \in 1 .. MaxId => id # NoId
  BY BulkAssumption DEF NoId
<1>5. Converges(q, table) /\ Matched(q, table)
  BY <1>1 DEF RequestOK
<1>6. Converges(p, table')
  BY <1>1, <1>3, <1>4, <1>5, WriteConverges
<1>7. RequestOK(p, kind, table')
  BY <1>6 DEF RequestOK, Unmatched, Matched
<1>8. /\ table' \subseteq Row /\ nextId' \in 1 .. MaxId + 1
      /\ \A r \in table' : r.id < nextId'
      /\ IdsUnique'
  <2>1. CASE InsertRow(key, val)
    BY <1>2, <2>1, RowInserted
  <2>2. CASE id \in 1 .. MaxId /\ UpdateRow(id, key, val)
    BY <1>2, <2>2, RowUpdated
  <2> QED
    BY <2>1, <2>2
<1> QED
  BY <1>1, <1>7, <1>8, OwnWrite

\* The same where the row is to be read back.
LEMMA LineWrote ==
    ASSUME ImInv, NEW i \in Importer, imp[i].phase = "found",
           UNCHANGED <<kind, begun>>,
           NEW key, key = Line(i).key, NEW val, val = Line(i).val,
           NEW id, Unfailing(imp[i]) => id = Oldest(table, key),
           NEW w \in 1 .. MaxId, StepWriting(i, Wrote(i, w)),
           \/ (Unfailing(imp[i]) => id = NoId) /\ InsertRow(key, val)
           \/ id \in 1 .. MaxId /\ UpdateRow(id, key, val)
    PROVE  ImInv'
<1> DEFINE q == imp[i]
           p == Wrote(i, w)
<1>1. q \in Request /\ Sound(q, kind)
  BY Present DEF RequestOK
<1>2. key = q.file[q.line].key /\ val = q.file[q.line].val
  BY DEF Line
<1> HIDE DEF q, p
<1>3. /\ p \in Request /\ p.phase = "wrote"
      /\ p.existing = q.existing /\ p.line = q.line /\ p.file = q.file
      /\ p.mode = q.mode /\ p.calm = q.calm /\ p.results = q.results
      /\ p.log = q.log \cup {<<q.line, w>>}
  BY <1>1, WroteIs DEF q, p
<1>4. Sound(p, kind)
  BY <1>1, <1>3, LineWritten DEF q
<1>5. Unfailing(p) => Unfailing(q)
  BY <1>3 DEF Unfailing
<1> QED
  BY <1>2, <1>3, <1>4, <1>5, LineWrites DEF q, p

\* The insert of Upsert, which the unique index may refuse.
LEMMA LineInserted ==
    ASSUME ImInv, NEW i \in Importer, InsertLine(i)
    PROVE  ImInv'
<1> DEFINE key == Line(i).key
           val == Line(i).val
<1>1. /\ imp[i].phase = "found" /\ imp[i].existing = NoId
      /\ UNCHANGED <<kind, begun>>
  BY DEF InsertLine
<1>2. /\ Running(i) /\ imp[i].line <= Len(imp[i].file) /\ Line(i) # Blank
      /\ key \in Key /\ val \in Val /\ RequestOK(imp[i], kind, table)
  BY <1>1, AcceptedLine, Present DEF Halves
<1>3. CASE KeyTaken(key, NoId)
  <2>1. Step(i, Report(i, "failed", NoId)) /\ UNCHANGED <<table, nextId>>
    BY <1>3 DEF InsertLine
  <2>2. NoId \in 0 .. MaxId /\ "failed" \in Outcome
    BY BulkAssumption DEF NoId, Outcome
  <2> QED
    BY <1>1, <1>2, <2>1, <2>2, ReportStep
<1>4. CASE ~KeyTaken(key, NoId)
  <2>1. InsertRow(key, val) /\ StepWriting(i, Wrote(i, nextId))
    BY <1>4 DEF InsertLine
  <2> HIDE DEF key, val
  <2>2. nextId \in 1 .. MaxId
    BY <1>2, <2>1, RowInserted
  <2>3. Unfailing(imp[i]) => NoId = Oldest(table, key)
    BY <1>1, <1>2 DEF RequestOK, Matched, Unfailing, key, Line
  <2> QED
    BY <1>1, <2>1, <2>2, <2>3, LineWrote DEF key, val
<1> QED
  BY <1>3, <1>4

\* The update of the row that the lookup found.
LEMMA LineUpdated ==
    ASSUME ImInv, NEW i \in Importer, UpdateLine(i)
    PROVE  ImInv'
<1> DEFINE q == imp[i]
           id == q.existing
           key == Line(i).key
           val == Line(i).val
<1>1. /\ q.phase = "found" /\ id # NoId /\ kind # "merge"
      /\ UNCHANGED <<kind, begun>>
  BY DEF UpdateLine
<1>2. /\ Running(i) /\ q.line \in 1 .. Len(q.file) /\ Line(i) # Blank
      /\ key \in Key /\ val \in Val /\ q \in Request
      /\ RequestOK(q, kind, table) /\ Sound(q, kind)
  BY <1>1, AcceptedLine, Present DEF Halves, RequestOK
<1>3. id \in 1 .. MaxId /\ id \in 0 .. MaxId
  BY <1>1, <1>2, BulkAssumption DEF NoId, Request
<1>4. Unfailing(q) => id = Oldest(table, key)
  BY <1>1, <1>2 DEF RequestOK, Matched, Unfailing, Line
<1>5. q.line \in Nat /\ q.line <= Len(q.file)
  BY <1>2, FileLines
<1>6. CASE WithId(id) # {} /\ ~KeyTaken(key, id)
  <2>1. /\ UpdateRow(id, key, val)
        /\ StepWriting(i, IF kind = "loose" THEN Wrote(i, id)
                          ELSE [Report(i, "updated", id) EXCEPT
                                   !.log = @ \cup {<<q.line, id>>}])
    BY <1>6 DEF UpdateLine
  <2>2. CASE kind = "loose"
    <3> HIDE DEF id, key, val
    <3>1. StepWriting(i, Wrote(i, id))
      BY <2>1, <2>2 DEF id
    <3> QED
      BY <1>1, <1>3, <1>4, <2>1, <3>1, LineWrote DEF key, val
  <2>3. CASE kind # "loose"
    <3> DEFINE p0 == Report(i, "updated", id)
               p == [p0 EXCEPT !.log = p0.log \cup {<<q.line, id>>}]
    <3>1. StepWriting(i, p)
      BY <2>1, <2>3
    <3>2. kind = "unique"
      BY <1>1, <2>3, BulkAssumption DEF ImInv, TypeOK
    <3> HIDE DEF q, id, p0
    <3>3. /\ p0 \in Request /\ p0.phase = "next" /\ p0.existing = NoId
          /\ p0.line = q.line + 1 /\ p0.file = q.file /\ p0.mode = q.mode
          /\ p0.calm = q.calm /\ p0.log = q.log
          /\ p0.results = Append(q.results, [line |-> q.line,
                                   outcome |-> "updated", id |-> id])
      <4>1. "updated" \in Outcome
        BY DEF Outcome
      <4> QED
        BY <1>2, <1>3, <4>1, ReportIs DEF q, p0
    <3>4. p0.log \cup {<<q.line, id>>} \in Logs
      BY <1>3, <1>5, <3>3 DEF Logs, Request
    <3>5. /\ p \in Request /\ p.phase = "next" /\ p.existing = NoId
          /\ p.line = q.line + 1 /\ p.file = q.file /\ p.mode = q.mode
          /\ p.calm = q.calm /\ p.log = q.log \cup {<<q.line, id>>}
          /\ p.results = p0.results
      BY <3>3, <3>4, RequestIs
    <3> HIDE DEF p
    <3>6. Sound(p, kind)
      <4>1. q.file[q.line] # Blank
        BY <1>2 DEF Line, q
      <4>2. "updated" \in Outcome
        BY DEF Outcome
      <4> QED
        BY <1>1, <1>2, <1>3, <1>5, <3>2, <3>3, <3>5, <4>1, <4>2, LineEnds
    <3>7. Unfailing(p) => Unfailing(q)
      <4>1. q.results \in Seq(Result)
        BY <1>2 DEF Request
      <4>2. [line |-> q.line, outcome |-> "updated", id |-> id] \in Result
        BY <1>3, <1>5 DEF Result, Outcome
      <4>3. \A k \in DOMAIN q.results :
               k \in DOMAIN p.results /\ p.results[k] = q.results[k]
        BY <3>3, <3>5, <4>1, <4>2, ReportLine
      <4> QED
        BY <3>5, <4>3 DEF Unfailing
    <3>8. key = q.file[q.line].key /\ val = q.file[q.line].val
      BY DEF Line, q
    <3> HIDE DEF key, val
    <3> QED
      BY <1>1, <1>3, <1>4, <2>1, <3>1, <3>5, <3>6, <3>7, <3>8, LineWrites
         DEF q
  <2> QED
    BY <2>2, <2>3
<1>7. CASE ~(WithId(id) # {} /\ ~KeyTaken(key, id))
  <2>1. /\ Step(i, IF kind = "unique" /\ WithId(id) = {}
                   THEN Report(i, "updated", id) ELSE Report(i, "failed", NoId))
        /\ UNCHANGED <<table, nextId>>
    BY <1>7 DEF UpdateLine
  <2>2. CASE kind = "unique" /\ WithId(id) = {}
    <3>1. Step(i, Report(i, "updated", id)) /\ "updated" \in Outcome
      BY <2>1, <2>2 DEF Outcome
    <3>2. ~(q.calm /\ q.mode = "upsert")
      <4>1. SUFFICES ASSUME q.calm, q.mode = "upsert" PROVE FALSE
        OBVIOUS
      <4>2. id = Oldest(table, key)
        BY <1>1, <1>2, <4>1 DEF RequestOK, Matched, Line
      <4>3. table \in SUBSET Row
        BY DEF ImInv, TypeOK
      <4> HIDE DEF id, key
      <4>4. \E r \in table : r.key = key /\ r.id = Oldest(table, key)
        BY <1>1, <4>2, <4>3, OldestFound
      <4> QED
        BY <2>2, <4>2, <4>4 DEF WithId
    <3> QED
      BY <1>1, <1>2, <1>3, <1>5, <2>1, <2>2, <3>1, <3>2, ReportStep
  <2>3. CASE ~(kind = "unique" /\ WithId(id) = {})
    <3>1. Step(i, Report(i, "failed", NoId)) /\ "failed" \in Outcome
      BY <2>1, <2>3 DEF Outcome
    <3>2. NoId \in 0 .. MaxId
      BY BulkAssumption DEF NoId
    <3> QED
      BY <1>1, <1>2, <1>5, <2>1, <3>1, <3>2, ReportStep
  <2> QED
    BY <2>2, <2>3
<1> QED
  BY <1>6, <1>7

\* The INSERT ... ON CONFLICT DO UPDATE of pencapaian.
LEMMA LineMerged ==
    ASSUME ImInv, NEW i \in Importer, MergeLine(i)
    PROVE  ImInv'
<1> DEFINE key == Line(i).key
           val == Line(i).val
           id == Oldest(table, key)
<1>1. imp[i].phase = "found" /\ UNCHANGED <<kind, begun>>
  BY DEF MergeLine
<1>2. key \in Key /\ val \in Val /\ table \in SUBSET Row
  BY <1>1, AcceptedLine DEF Halves, ImInv, TypeOK
<1>3. Lookup(key) = id
  BY LookupOldest
<1>4. CASE id = NoId
  <2>1. InsertRow(key, val) /\ StepWriting(i, Wrote(i, nextId))
    BY <1>3, <1>4 DEF MergeLine
  <2> HIDE DEF key, val, id
  <2>2. nextId \in 1 .. MaxId
    BY <1>2, <2>1, RowInserted
  <2> QED
    BY <1>1, <1>4, <2>1, <2>2, LineWrote DEF key, val, id
<1>5. CASE id # NoId
  <2>1. UpdateRow(id, key, val) /\ StepWriting(i, Wrote(i, id))
    BY <1>3, <1>5 DEF MergeLine
  <2> HIDE DEF key, val
  <2>2. id \in 1 .. MaxId
    BY <1>2, <1>5, OldestRow
  <2> HIDE DEF id
  <2> QED
    BY <1>1, <2>1, <2>2, LineWrote DEF key, val, id
<1> QED
  BY <1>4, <1>5

\* What other requests do to the table.
LEMMA OthersWrite ==
    ASSUME ImInv,
           \/ \E key \in Key, val \in Val : OtherCreate(key, val)
           \/ \E r \in table, key \in Key, val \in Val :
                 OtherUpdate(r, key, val)
           \/ \E r \in table : OtherDelete(r)
    PROVE  ImInv'
<1>1. CASE \E key \in Key, val \in Val : OtherCreate(key, val)
  <2>1. PICK key \in Key, val \in Val : OtherCreate(key, val)
    BY <1>1
  <2> QED
    BY <2>1, RowInserted, OtherWrite DEF OtherCreate
<1>2. CASE \E r \in table, key \in Key, val \in Val : OtherUpdate(r, key, val)
  <2>1. PICK r \in table, key \in Key, val \in Val : OtherUpdate(r, key, val)
    BY <1>2
  <2>2. r.id \in 1 .. MaxId
    BY DEF ImInv, TypeOK, Row
  <2> QED
    BY <2>1, <2>2, RowUpdated, OtherWrite DEF OtherUpdate
<1>3. CASE \E r \in table : OtherDelete(r)
  <2>1. PICK r \in table : OtherDelete(r)
    BY <1>3
  <2> QED
    BY <2>1, OtherWrite DEF OtherDelete, ImInv, TypeOK, IdsUnique
<1> QED
  BY <1>1, <1>2, <1>3

-----------------------------------------------------------------------------
(* The invariant is inductive. *)

LEMMA InitImInv ==
    Init => ImInv
<1> SUFFICES ASSUME Init PROVE ImInv
  OBVIOUS
<1>1. \A i \in Importer : imp[i] = Idle /\ ~Running(i)
  BY DEF Init, Running, Idle
<1>2. TypeOK
  BY <1>1, BulkAssumption DEF Init, TypeOK
<1> QED
  BY <1>1, <1>2 DEF Init, ImInv, Alone, IdsUnique

\* One case per action of Process.
LEMMA ProcessImInv ==
    ASSUME ImInv, NEW i \in Importer, Process(i)
    PROVE  ImInv'
<1>1. CASE SkipBlank(i)
  BY <1>1, LineSkipped
<1>2. CASE RejectLine(i) \/ DryRunLine(i) \/ StatementFails(i)
  BY <1>2, LineReported
<1>3. CASE FindLine(i)
  BY <1>3, LineFound
<1>4. CASE InsertLine(i)
  BY <1>4, LineInserted
<1>5. CASE UpdateLine(i)
  BY <1>5, LineUpdated
<1>6. CASE MergeLine(i)
  BY <1>6, LineMerged
<1>7. CASE ReadBack(i)
  BY <1>7, LineReadBack
<1>8. CASE Finish(i)
  BY <1>8, ImportFinished
<1> QED
  BY <1>1, <1>2, <1>3, <1>4, <1>5, <1>6, <1>7, <1>8 DEF Process

LEMMA NextImInv ==
    ImInv /\ [Next]_vars => ImInv'
<1> SUFFICES ASSUME ImInv, [Next]_vars PROVE ImInv'
  OBVIOUS
<1>1. ASSUME NEW i \in Importer, NEW up \in Uploads, Begin(i, up)
      PROVE  ImInv'
  BY <1>1, ImportBegun
<1>2. ASSUME NEW i \in Importer, Process(i) PROVE ImInv'
  BY <1>2, ProcessImInv
<1>3. ASSUME NEW i \in Importer, Abort(i) PROVE ImInv'
  BY <1>3, ImportFinished
<1>4. CASE \/ \E key \in Key, val \in Val : OtherCreate(key, val)
           \/ \E r \in table, key \in Key, val \in Val :
                 OtherUpdate(r, key, val)
           \/ \E r \in table : OtherDelete(r)
  BY <1>4, OthersWrite
<1>5. CASE UNCHANGED vars
  BY <1>5 DEF vars, ImInv, TypeOK, IdsUnique, Alone, Running
<1> QED
  BY <1>1, <1>2, <1>3, <1>4, <1>5 DEF Next

\* ImInv holds in every reachable state.
LEMMA ImInvariant ==
    Spec => []ImInv
<1>1. Init => ImInv
  BY InitImInv
<1>2. ImInv /\ [Next]_vars => ImInv'
  BY NextImInv
<1> QED
  BY <1>1, <1>2, PTL DEF Spec

-----------------------------------------------------------------------------
(* What follows. *)

\* The rows and the requests keep their form, and a lookup result is held
\* only while the line it belongs to is written (bulk.Process, Upsert).
THEOREM TypeCorrect ==
    Spec => []TypeOK
<1>1. ImInv => TypeOK
  BY DEF ImInv
<1> QED
  BY <1>1, ImInvariant, PTL

\* The report of an import that is read to its end names every line that is
\* not blank, once and in order (bulk.Process), however many imports and
\* other requests run beside it.
THEOREM LinesReported ==
    Spec => []EveryLineReported
<1>1. ImInv => EveryLineReported
  <2> SUFFICES ASSUME ImInv, NEW i \in Importer, imp[i] # Idle,
                      imp[i].phase = "answered"
               PROVE  /\ ReportLines(i) = {n \in DOMAIN imp[i].file :
                                              imp[i].file[n] # Blank}
                      /\ \A j, k \in DOMAIN imp[i].results :
                            j < k => imp[i].results[j].line
                                        < imp[i].results[k].line
    BY DEF EveryLineReported
  <2> DEFINE q == imp[i]
  <2>1. q \in Request /\ Sound(q, kind)
    BY DEF ImInv, RequestOK
  <2>2. /\ Len(q.file) \in Nat /\ DOMAIN q.file = 1 .. Len(q.file)
        /\ q.line = Len(q.file) + 1
    BY <2>1, FileLines DEF Sound, Placed
  <2>3. ReportLines(i) = {n \in DOMAIN q.file : n < q.line /\ q.file[n] # Blank}
    BY <2>1 DEF ReportLines, Sound, Reported
  <2>4. \A n \in DOMAIN q.file : n < q.line
    BY <2>2
  <2> QED
    BY <2>1, <2>3, <2>4 DEF Sound, Reported
<1> QED
  BY <1>1, ImInvariant, PTL

\* What the report says of a line is what happened to the table, with the one
\* exception of a user deleted between the lookup and the UPDATE.
THEOREM ReportTrue ==
    Spec => []ReportFaithful
<1>1. ImInv => ReportFaithful
  BY DEF ImInv, RequestOK, Sound, Logged, Told, ReportFaithful
<1> QED
  BY <1>1, ImInvariant, PTL

\* An undisturbed upsert without failed lines leaves the row of every key as
\* its last line says, from any table and for any file.
THEOREM UpsertSettles ==
    Spec => []UpsertConverges
<1>1. ImInv => UpsertConverges
  <2> SUFFICES ASSUME ImInv, NEW i \in Importer, imp[i] # Idle,
                      imp[i].phase = "answered", Unfailing(imp[i]),
                      NEW n \in Records(imp[i].file)
               PROVE  \E r \in WithId(Lookup(imp[i].file[n].key)) :
                         r.val = imp[i].file[LastOf(imp[i].file,
                                                imp[i].file[n].key)].val
    BY DEF UpsertConverges, Unfailing
  <2> DEFINE q == imp[i]
             key == q.file[n].key
             S == {m \in Records(q.file) : q.file[m].key = key}
             last == LastOf(q.file, key)
  <2>1. q \in Request /\ Placed(q) /\ Converges(q, table)
    BY DEF ImInv, RequestOK, Sound
  <2>2. /\ Len(q.file) \in Nat /\ Records(q.file) \subseteq 1 .. Len(q.file)
        /\ q.line = Len(q.file) + 1
    BY <2>1, FileLines DEF Records, Placed
  <2>3. Stored(q) = Records(q.file)
    BY <2>2 DEF Stored
  <2>4. \E x \in S : \A y \in S : y <= x
    <3>1. S \in SUBSET (1 .. Len(q.file)) /\ S # {}
      BY <2>2
    <3> HIDE DEF S
    <3> QED
      BY <2>2, <3>1, GreatestExists
  <2>5. /\ last \in Records(q.file) /\ q.file[last].key = key
        /\ \A m \in Records(q.file) : q.file[m].key = key => m <= last
    BY <2>4 DEF LastOf
  <2> HIDE DEF last
  <2>6. LastStored(q, last)
    BY <2>3, <2>5 DEF LastStored
  <2>7. PICK r \in table : /\ r.id = Oldest(table, key)
                           /\ r.val = q.file[last].val
    BY <2>1, <2>3, <2>5, <2>6 DEF Converges
  <2>8. r \in WithId(Lookup(key))
    BY <2>7, LookupOldest DEF WithId
  <2> QED
    BY <2>7, <2>8 DEF last
<1> QED
  BY <1>1, ImInvariant, PTL

-----------------------------------------------------------------------------
(* No second row for a natural key. *)

\* A row is new only where its key had none.
NewRowsAlone == \A r \in table' : r.id >= nextId => WithKey(r.key) = {}

LEMMA InsertAlone ==
    ASSUME ImInv, NEW key \in Key, NEW val \in Val, InsertRow(key, val),
           WithKey(key) = {}
    PROVE  NewRowsAlone
<1> DEFINE row == [id |-> nextId, key |-> key, val |-> val]
<1>1. /\ table' = table \cup {row} /\ row.key = key
      /\ \A r \in table : r.id < nextId /\ r.id \in Nat /\ nextId \in Nat
  BY RowInserted DEF ImInv, TypeOK, Row
<1> HIDE DEF row
<1> QED
  BY <1>1 DEF NewRowsAlone

LEMMA UpdateAlone ==
    ASSUME ImInv, NEW id \in 1 .. MaxId, NEW key \in Key, NEW val \in Val,
           UpdateRow(id, key, val)
    PROVE  NewRowsAlone
<1>1. /\ \A r \in table' : r.id < nextId' /\ r.id \in Nat
      /\ nextId' = nextId /\ nextId \in Nat
  BY RowUpdated DEF UpdateRow, ImInv, TypeOK, Row
<1> QED
  BY <1>1 DEF NewRowsAlone

LEMMA SameRowsAlone ==
    ASSUME ImInv, table' \subseteq table
    PROVE  NewRowsAlone
<1>1. \A r \in table : r.id < nextId /\ r.id \in Nat /\ nextId \in Nat
  BY DEF ImInv, TypeOK, Row
<1> QED
  BY <1>1 DEF NewRowsAlone

\* A unique index admits a key only where no row has it.
LEMMA FreeKey ==
    ASSUME ImInv, NEW key, kind # "loose", ~KeyTaken(key, NoId)
    PROVE  WithKey(key) = {}
<1>1. \A r \in table : r.id \in 1 .. MaxId
  BY DEF ImInv, TypeOK, Row
<1>2. \A r \in table : r.id # NoId
  BY <1>1, BulkAssumption DEF NoId
<1> QED
  BY <1>2 DEF KeyTaken, WithKey

\* A step of an import, where nobody adds rows of a loose table beside it.
LEMMA ImportAlone ==
    ASSUME ImInv, "loose" \notin OverlapKinds,
           NEW i \in Importer, Process(i) \/ Abort(i)
    PROVE  NewRowsAlone
<1> DEFINE key == Line(i).key
           val == Line(i).val
<1>1. CASE InsertLine(i)
  <2>1. imp[i].phase = "found" /\ imp[i].existing = NoId
    BY <1>1 DEF InsertLine
  <2>2. key \in Key /\ val \in Val /\ RequestOK(imp[i], kind, table)
    BY <2>1, AcceptedLine, Present DEF Halves
  <2>3. CASE KeyTaken(key, NoId)
    BY <1>1, <2>3, SameRowsAlone DEF InsertLine
  <2>4. CASE ~KeyTaken(key, NoId)
    <3>1. InsertRow(key, val)
      BY <1>1, <2>4 DEF InsertLine
    <3>2. WithKey(key) = {}
      <4>1. CASE kind = "loose"
        BY <2>1, <2>2, <4>1 DEF RequestOK, Unmatched, WithKey, Line
      <4>2. CASE kind # "loose"
        BY <2>4, <4>2, FreeKey
      <4> QED
        BY <4>1, <4>2
    <3> HIDE DEF key, val
    <3> QED
      BY <2>2, <3>1, <3>2, InsertAlone
  <2> QED
    BY <2>3, <2>4
<1>2. CASE UpdateLine(i)
  <2> DEFINE id == imp[i].existing
  <2>1. imp[i].phase = "found" /\ id # NoId
    BY <1>2 DEF UpdateLine
  <2>2. key \in Key /\ val \in Val /\ imp[i] \in Request
    BY <2>1, AcceptedLine, Present DEF Halves
  <2>3. id \in 1 .. MaxId
    BY <2>1, <2>2, BulkAssumption DEF NoId, Request
  <2>4. UpdateRow(id, key, val) \/ table' = table
    BY <1>2 DEF UpdateLine
  <2> HIDE DEF id, key, val
  <2> QED
    BY <2>2, <2>3, <2>4, UpdateAlone, SameRowsAlone
<1>3. CASE MergeLine(i)
  <2> DEFINE id == Oldest(table, key)
  <2>1. imp[i].phase = "found" /\ Lookup(key) = id
    BY <1>3, LookupOldest DEF MergeLine
  <2>2. key \in Key /\ val \in Val /\ table \in SUBSET Row
    BY <2>1, AcceptedLine DEF Halves, ImInv, TypeOK
  <2>3. CASE id = NoId
    <3>1. InsertRow(key, val)
      BY <1>3, <2>1, <2>3 DEF MergeLine
    <3> HIDE DEF key, val
    <3>2. \A r \in table : r.key # key
      BY <2>2, <2>3, OldestRow
    <3> QED
      BY <2>2, <3>1, <3>2, InsertAlone DEF WithKey
  <2>4. CASE id # NoId
    <3>1. UpdateRow(id, key, val)
      BY <1>3, <2>1, <2>4 DEF MergeLine
    <3> HIDE DEF key, val
    <3>2. id \in 1 .. MaxId
      BY <2>2, <2>4, OldestRow
    <3> HIDE DEF id
    <3> QED
      BY <2>2, <3>1, <3>2, UpdateAlone
  <2> QED
    BY <2>3, <2>4
<1>4. CASE ~(InsertLine(i) \/ UpdateLine(i) \/ MergeLine(i))
  <2>1. table' = table
    BY <1>4 DEF Process, Abort, SkipBlank, RejectLine, DryRunLine, FindLine,
                ReadBack, StatementFails, Finish
  <2> QED
    BY <2>1, SameRowsAlone
<1> QED
  BY <1>1, <1>2, <1>3, <1>4

\* A step of others while an import is being written.
LEMMA OthersAlone ==
    ASSUME ImInv, "loose" \notin OverlapKinds,
           NEW i \in Importer, Running(i),
           \/ \E key \in Key, val \in Val : OtherCreate(key, val)
           \/ \E r \in table, key \in Key, val \in Val :
                 OtherUpdate(r, key, val)
           \/ \E r \in table : OtherDelete(r)
    PROVE  NewRowsAlone
<1>1. CASE \E key \in Key, val \in Val : OtherCreate(key, val)
  <2>1. PICK key \in Key, val \in Val : OtherCreate(key, val)
    BY <1>1
  <2>2. kind # "loose"
    BY <2>1 DEF OtherCreate, MayInterfere
  <2>3. WithKey(key) = {}
    BY <2>1, <2>2, FreeKey DEF OtherCreate
  <2> QED
    BY <2>1, <2>3, InsertAlone DEF OtherCreate
<1>2. CASE \E r \in table, key \in Key, val \in Val : OtherUpdate(r, key, val)
  <2>1. PICK r \in table, key \in Key, val \in Val : OtherUpdate(r, key, val)
    BY <1>2
  <2>2. r.id \in 1 .. MaxId
    BY DEF ImInv, TypeOK, Row
  <2> QED
    BY <2>1, <2>2, UpdateAlone DEF OtherUpdate
<1>3. CASE \E r \in table : OtherDelete(r)
  BY <1>3, SameRowsAlone DEF OtherDelete
<1> QED
  BY <1>1, <1>2, <1>3

\* An import adds no second row for a natural key: for users and pencapaian
\* whatever runs beside it, for the tables without a unique index as long as
\* no other request adds or renames their rows while it runs.
THEOREM NoDuplicateAdded ==
    ASSUME "loose" \notin OverlapKinds
    PROVE  Spec => ImportAddsNoDuplicate
<1>1. ImInv /\ [Next]_vars => [AddStep]_vars
  <2> SUFFICES ASSUME ImInv, Next, NEW i \in Importer, imp[i].phase = "found"
               PROVE  NewRowsAlone
    BY DEF AddStep, NewRowsAlone
  <2>1. ASSUME NEW j \in Importer, NEW up \in Uploads, Begin(j, up)
        PROVE  NewRowsAlone
    BY <2>1, SameRowsAlone DEF Begin
  <2>2. ASSUME NEW j \in Importer, Process(j) \/ Abort(j) PROVE NewRowsAlone
    BY <2>2, ImportAlone
  <2>3. CASE \/ \E key \in Key, val \in Val : OtherCreate(key, val)
             \/ \E r \in table, key \in Key, val \in Val :
                   OtherUpdate(r, key, val)
             \/ \E r \in table : OtherDelete(r)
    BY <2>3, OthersAlone DEF Running
  <2> QED
    BY <2>1, <2>2, <2>3 DEF Next
<1> QED
  BY <1>1, ImInvariant, PTL DEF Spec, ImportAddsNoDuplicate

-----------------------------------------------------------------------------
(* Create mode keeps the rows there are, but for pencapaian. *)

\* A line that is to be created had no row at its lookup.
CreateInv ==
    \A i \in Importer :
        imp[i] # Idle /\ imp[i].phase = "found" /\ imp[i].mode = "create" =>
            imp[i].existing = NoId

\* Others only take the calm away.
LEMMA OnlyUncalmed ==
    ASSUME ImInv, NEW i \in Importer, NEW p, p # Idle,
           p = imp[i] \/ p = (IF imp[i] = Idle THEN Idle
                              ELSE [imp[i] EXCEPT !.calm = FALSE])
    PROVE  /\ imp[i] # Idle /\ p.phase = imp[i].phase
           /\ p.mode = imp[i].mode /\ p.existing = imp[i].existing
<1>1. imp[i] # Idle /\ imp[i] \in Request
  BY DEF ImInv, RequestOK
<1> QED
  BY <1>1 DEF Request

\* What the steps of an import leave of the line being written.
LEMMA LineOver ==
    ASSUME ImInv, NEW i \in Importer, Process(i), ~SkipBlank(i), ~FindLine(i)
    PROVE  \E new : /\ Step(i, new) \/ StepWriting(i, new)
                    /\ new.phase # "found"
<1>1. imp[i].phase \in {"next", "found", "wrote"}
  BY DEF Process, RejectLine, DryRunLine, InsertLine, UpdateLine, MergeLine,
         ReadBack, StatementFails, Finish, IsRecord, AtLine
<1>2. imp[i] \in Request
  BY <1>1, Present
<1>3. ASSUME NEW o, NEW x PROVE Report(i, o, x).phase # "found"
  BY <1>2 DEF Request, Report
<1>4. ASSUME NEW x PROVE Wrote(i, x).phase # "found"
  BY <1>2 DEF Request, Wrote
<1>5. CASE RejectLine(i) \/ DryRunLine(i) \/ StatementFails(i)
  BY <1>3, <1>5 DEF RejectLine, DryRunLine, StatementFails
<1>6. CASE InsertLine(i) \/ MergeLine(i)
  BY <1>3, <1>4, <1>6 DEF InsertLine, MergeLine
<1>7. CASE UpdateLine(i)
  <2> DEFINE new == [Report(i, "updated", imp[i].existing) EXCEPT
                        !.log = @ \cup {<<imp[i].line, imp[i].existing>>}]
  <2>1. new.phase # "found"
    BY <1>2, <1>3 DEF Request, Report
  <2> HIDE DEF new
  <2>2. \/ Step(i, Report(i, "failed", NoId))
        \/ Step(i, Report(i, "updated", imp[i].existing))
        \/ StepWriting(i, Wrote(i, imp[i].existing))
        \/ StepWriting(i, new)
    BY <1>7 DEF UpdateLine, new
  <2> QED
    BY <1>3, <1>4, <2>1, <2>2
<1>8. CASE ReadBack(i)
  BY <1>3, <1>8 DEF ReadBack
<1>9. CASE Finish(i)
  <2> DEFINE a == IF Len(imp[i].results) > MaxRows THEN 413 ELSE 200
             new == [imp[i] EXCEPT !.phase = "answered", !.answer = a]
  <2>1. Step(i, new)
    BY <1>9 DEF Finish
  <2> HIDE DEF a
  <2>2. new.phase # "found"
    BY <1>2 DEF Request
  <2> QED
    BY <2>1, <2>2
<1> QED
  BY <1>5, <1>6, <1>7, <1>8, <1>9 DEF Process

LEMMA CreateKept ==
    ASSUME ImInv, CreateInv, [Next]_vars
    PROVE  CreateInv'
<1> SUFFICES ASSUME NEW i \in Importer, imp'[i] # Idle,
                    imp'[i].phase = "found", imp'[i].mode = "create"
             PROVE  imp'[i].existing = NoId
  BY DEF CreateInv
<1>1. CASE \/ imp'[i] = imp[i]
           \/ imp'[i] = (IF imp[i] = Idle THEN Idle
                         ELSE [imp[i] EXCEPT !.calm = FALSE])
  BY <1>1, OnlyUncalmed DEF CreateInv
<1>2. DOMAIN imp = Importer
  BY DEF ImInv
<1>3. ASSUME NEW j \in Importer, NEW up \in Uploads, Begin(j, up)
      PROVE  imp'[i].existing = NoId
  BY <1>1, <1>2, <1>3 DEF Begin, Step
<1>4. ASSUME NEW j \in Importer, Process(j)
      PROVE  imp'[i].existing = NoId
  <2>1. CASE SkipBlank(j)
    <3>1. imp[j].phase = "next" /\ imp[j] \in Request
      BY <2>1, Present DEF SkipBlank, AtLine
    <3>2. j # i
      BY <1>2, <2>1, <3>1 DEF SkipBlank, Step, Request
    <3> QED
      BY <1>1, <1>2, <2>1, <3>2 DEF SkipBlank, Step
  <2>2. CASE FindLine(j)
    <3> DEFINE e == Lookup(Line(j).key)
               p == [imp[j] EXCEPT !.phase = "found", !.existing = e]
    <3>1. imp[j].phase = "next" /\ imp[j] \in Request
      BY <2>2, Present DEF FindLine, IsRecord, AtLine
    <3>2. Step(j, IF e # NoId /\ imp[j].mode # "upsert"
                     THEN Report(j, "failed", NoId) ELSE p)
      BY <2>2 DEF FindLine
    <3>3. Report(j, "failed", NoId).phase = "next"
      BY <3>1 DEF Report, Request
    <3>4. p.mode = imp[j].mode /\ p.existing = e
      BY <3>1 DEF Request
    <3> HIDE DEF e, p
    <3>5. CASE i = j
      BY <1>2, <3>2, <3>3, <3>4, <3>5 DEF Step
    <3>6. CASE i # j
      BY <1>1, <1>2, <3>2, <3>6 DEF Step
    <3> QED
      BY <3>5, <3>6
  <2>3. CASE ~SkipBlank(j) /\ ~FindLine(j)
    <3>1. PICK new : /\ Step(j, new) \/ StepWriting(j, new)
                     /\ new.phase # "found"
      BY <1>4, <2>3, LineOver
    <3>2. j # i
      BY <1>2, <3>1 DEF Step, StepWriting
    <3> QED
      BY <1>1, <1>2, <3>1, <3>2 DEF Step, StepWriting
  <2> QED
    BY <2>1, <2>2, <2>3
<1>5. ASSUME NEW j \in Importer, Abort(j) PROVE imp'[i].existing = NoId
  BY <1>1, <1>2, <1>5 DEF Abort, Step
<1>6. CASE imp' = Disturbed
  BY <1>1, <1>6 DEF Disturbed
<1>7. CASE UNCHANGED vars
  BY <1>1, <1>7 DEF vars
<1> QED
  BY <1>3, <1>4, <1>5, <1>6, <1>7
     DEF Next, OtherCreate, OtherUpdate, OtherDelete

\* An import in create mode changes no row that is already there (Upsert of
\* students, teachers, attendances and users), whatever else runs.  It is the
\* ON CONFLICT DO UPDATE of pencapaian alone that can overwrite one.
THEOREM CreateKeepsRows ==
    ASSUME "merge" \notin Kinds
    PROVE  Spec => CreateRejectsDuplicates
<1>1. ImInv /\ CreateInv /\ [Next]_vars => [CreateStep]_vars
  <2> SUFFICES ASSUME ImInv, CreateInv, Next, NEW i \in Importer,
                      imp[i] # Idle, imp[i].phase = "found",
                      imp[i].mode = "create", imp'[i].phase # "found"
               PROVE  table \subseteq table'
    BY DEF CreateStep
  <2>1. kind # "merge" /\ imp[i].existing = NoId /\ DOMAIN imp = Importer
    BY DEF ImInv, TypeOK, CreateInv
  <2>2. [imp[i] EXCEPT !.calm = FALSE].phase = "found"
    BY DEF ImInv, RequestOK, Request
  <2>3. ASSUME NEW j \in Importer, Process(j) PROVE table \subseteq table'
    <3>1. CASE InsertLine(j)
      BY <3>1 DEF InsertLine, InsertRow
    <3>2. CASE UpdateLine(j)
      <4>1. j # i
        BY <2>1, <3>2 DEF UpdateLine
      <4>2. ASSUME NEW new PROVE ~StepWriting(j, new)
        BY <2>1, <2>2, <4>1 DEF StepWriting
      <4> QED
        BY <3>2, <4>2 DEF UpdateLine
    <3>3. CASE ~InsertLine(j) /\ ~UpdateLine(j)
      BY <2>1, <2>3, <3>3
         DEF Process, SkipBlank, RejectLine, DryRunLine, FindLine, MergeLine,
             ReadBack, StatementFails, Finish
    <3> QED
      BY <3>1, <3>2, <3>3
  <2>4. imp' # Disturbed
    BY <2>2 DEF Disturbed
  <2> QED
    BY <2>3, <2>4
       DEF Next, Begin, Abort, OtherCreate, OtherUpdate, OtherDelete
<1>2. Init => CreateInv
  BY DEF Init, CreateInv
<1>3. ImInv /\ CreateInv /\ [Next]_vars => CreateInv'
  BY CreateKept
<1> QED
  BY <1>1, <1>2, <1>3, ImInvariant, PTL DEF Spec, CreateRejectsDuplicates
=============================================================================

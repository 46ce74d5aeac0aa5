---------------------------- MODULE Export_proofs ----------------------------
(***************************************************************************)
(* Proofs about the CSV export, for tables of any size, any page sizes in  *)
(* the order of the code's, and any writes of others: where the connection *)
(* is held, and how many rows an export can miss or repeat.                *)
(***************************************************************************)
EXTENDS Export, SequenceTheorems, FiniteSetTheorems, TLAPS

\* The rows up to a place of the table, and those behind it.
Upto(s, n) == {s[k] : k \in {j \in DOMAIN s : j <= n}}
Beyond(s, n) == {s[k] : k \in {j \in DOMAIN s : j > n}}

\* The ids given so far.
Given == 1 .. MaxRows + added

Shape ==
    /\ table \in Seq(Given) /\ page \in Seq(Given) /\ written \in Seq(Given)
    /\ Len(table) + removed <= MaxRows + added

\* The place of the table up to which pages were read, and what they had.
Seen == offset + (IF phase = "write" THEN got ELSE 0)
Taken == Range(written) \cup Range(page)

\* What a page is.  A list export reads one page only; a result set holds the
\* connection, so that nobody else moves the rows it stands for.
Fetched ==
    /\ conn <=> (phase = "write" /\ kind # "list")
    /\ phase # "write" => page = <<>>
    /\ IsInjective(page)
    /\ kind # "direct" => offset = 0
    /\ phase = "idle" => written = <<>> /\ offset = 0
    /\ phase = "read" /\ kind # "direct" => written = <<>>
    /\ phase = "write" =>
         /\ kind = "list" => got < Page
         /\ kind = "direct" =>
              /\ got <= Page
              /\ got > 0 => Seen <= Len(table)
              /\ got < Page => Seen >= Len(table)
              /\ Range(page) \subseteq Upto(table, Seen)
         /\ kind = "whole" => Ids \subseteq Taken

\* A row that stayed is behind the place reached, or was taken, but for one
\* row per deletion, which moved the rows behind it to the front.
Missed == (stayed \cap Upto(table, Seen)) \ Taken
MissInv ==
    /\ kind = "direct" /\ Exporting => Cardinality(Missed) <= removed
    /\ MissesBounded

\* The rows still to be written, and those of them that are written already:
\* one per row added, which moved a row behind the place reached.
Ahead == Range(page) \cup (IF kind = "direct" THEN Beyond(table, Seen) ELSE {})
Repeats == Len(written) - Cardinality(Range(written))
Allowed == IF kind = "direct" THEN added ELSE 0
RepeatInv ==
    /\ Repeats <= Allowed
    /\ Exporting => Repeats + Cardinality(Range(written) \cap Ahead) <= Allowed

ExInv == TypeOK /\ Shape /\ Fetched /\ MissInv /\ RepeatInv

-----------------------------------------------------------------------------
(* Lemmas about the operators. *)

LEMMA MinOfTwo ==
    ASSUME NEW a \in Int, NEW b \in Int
    PROVE  Min({a, b}) = IF a <= b THEN a ELSE b
<1> DEFINE m == IF a <= b THEN a ELSE b
<1>1. m \in {a, b} /\ \A y \in {a, b} : m <= y
  OBVIOUS
<1>2. \A x \in {a, b} : (\A y \in {a, b} : x <= y) => x = m
  OBVIOUS
<1> QED
  BY <1>1, <1>2 DEF Min

\* A row is put in at place k.
LEMMA Inserted ==
    ASSUME NEW S, NEW s \in Seq(S), NEW k \in 1 .. Len(s) + 1, NEW e \in S,
           NEW t, t = InsertAt(s, k, e)
    PROVE  /\ t \in Seq(S) /\ Len(t) = Len(s) + 1
           /\ Len(s) \in Nat /\ DOMAIN s = 1 .. Len(s)
           /\ DOMAIN t = 1 .. Len(s) + 1
           /\ \A j \in 1 .. Len(s) + 1 :
                 t[j] = IF j < k THEN s[j] ELSE IF j = k THEN e ELSE s[j - 1]
<1> DEFINE a == SubSeq(s, 1, k - 1)
           b == SubSeq(s, k, Len(s))
<1>1. Len(s) \in Nat /\ DOMAIN s = 1 .. Len(s) /\ k \in Nat /\ k >= 1
      /\ k <= Len(s) + 1
  BY LenProperties
<1>2. \A j \in 1 .. Len(s) : s[j] \in S
  BY ElementOfSeq
<1>3. a \in Seq(S) /\ Len(a) = k - 1 /\ \A j \in 1 .. k - 1 : a[j] = s[j]
  <2>1. \A j \in 1 .. k - 1 : s[j] \in S
    BY <1>1, <1>2
  <2> QED
    BY <1>1, <2>1, SubSeqProperties
<1>4. b \in Seq(S) /\ Len(b) = Len(s) - k + 1
      /\ \A j \in 1 .. Len(s) - k + 1 : b[j] = s[k + j - 1]
  <2>1. \A j \in k .. Len(s) : s[j] \in S
    BY <1>1, <1>2
  <2> QED
    BY <1>1, <2>1, SubSeqProperties
<1>5. <<e>> \in Seq(S) /\ Len(<<e>>) = 1 /\ <<e>>[1] = e
  OBVIOUS
<1> HIDE DEF a, b
<1> DEFINE ae == a \o <<e>>
<1>6. /\ ae \in Seq(S) /\ Len(ae) = k
      /\ \A j \in 1 .. k : ae[j] = IF j < k THEN s[j] ELSE e
  BY <1>1, <1>3, <1>5, ConcatProperties
<1> HIDE DEF ae
<1>7. t = ae \o b
  BY DEF InsertAt, a, b, ae
<1>8. /\ t \in Seq(S) /\ Len(t) = Len(s) + 1
      /\ \A j \in 1 .. Len(s) + 1 :
            t[j] = IF j <= k THEN ae[j] ELSE b[j - k]
  <2>1. /\ t \in Seq(S) /\ Len(t) = Len(ae) + Len(b)
        /\ \A j \in 1 .. Len(ae) + Len(b) :
              t[j] = IF j <= Len(ae) THEN ae[j] ELSE b[j - Len(ae)]
    BY <1>4, <1>6, <1>7, ConcatProperties
  <2>2. Len(ae) + Len(b) = Len(s) + 1
    BY <1>1, <1>4, <1>6
  <2> QED
    BY <1>6, <2>1, <2>2
<1>9. ASSUME NEW j \in 1 .. Len(s) + 1
      PROVE  t[j] = IF j < k THEN s[j] ELSE IF j = k THEN e ELSE s[j - 1]
  <2>1. CASE j <= k
    <3>1. j \in 1 .. k
      BY <1>1, <2>1
    <3> QED
      BY <1>1, <1>6, <1>8, <2>1, <3>1
  <2>2. CASE j > k
    <3>1. j - k \in 1 .. Len(s) - k + 1 /\ k + (j - k) - 1 = j - 1
      BY <1>1, <2>2
    <3>2. b[j - k] = s[j - 1]
      BY <1>4, <3>1
    <3> QED
      BY <1>1, <1>8, <2>2, <3>2
  <2> QED
    BY <1>1, <2>1, <2>2
<1>10. DOMAIN t = 1 .. Len(s) + 1
  BY <1>8, LenProperties
<1> QED
  BY <1>1, <1>8, <1>9, <1>10

\* The row at place k is taken out.
LEMMA Removed ==
    ASSUME NEW S, NEW s \in Seq(S), NEW k \in 1 .. Len(s),
           NEW t, t = RemoveAt(s, k)
    PROVE  /\ t \in Seq(S) /\ Len(t) = Len(s) - 1
           /\ Len(s) \in Nat /\ DOMAIN s = 1 .. Len(s)
           /\ DOMAIN t = 1 .. Len(s) - 1
           /\ \A j \in 1 .. Len(s) - 1 :
                 t[j] = IF j < k THEN s[j] ELSE s[j + 1]
<1> DEFINE a == SubSeq(s, 1, k - 1)
           b == SubSeq(s, k + 1, Len(s))
<1>1. Len(s) \in Nat /\ DOMAIN s = 1 .. Len(s) /\ k \in Nat /\ k >= 1
      /\ k <= Len(s)
  BY LenProperties
<1>2. \A j \in 1 .. Len(s) : s[j] \in S
  BY ElementOfSeq
<1>3. a \in Seq(S) /\ Len(a) = k - 1 /\ \A j \in 1 .. k - 1 : a[j] = s[j]
  <2>1. \A j \in 1 .. k - 1 : s[j] \in S
    BY <1>1, <1>2
  <2> QED
    BY <1>1, <2>1, SubSeqProperties
<1>4. b \in Seq(S) /\ Len(b) = Len(s) - k
      /\ \A j \in 1 .. Len(s) - k : b[j] = s[k + j]
  <2>1. \A j \in k + 1 .. Len(s) : s[j] \in S
    BY <1>1, <1>2
  <2>2. /\ b \in Seq(S)
        /\ Len(b) = IF k + 1 <= Len(s) THEN Len(s) - (k + 1) + 1 ELSE 0
        /\ \A j \in 1 .. Len(s) - (k + 1) + 1 : b[j] = s[k + 1 + j - 1]
    BY <1>1, <2>1, SubSeqProperties
  <2> HIDE DEF b
  <2>3. Len(s) - (k + 1) + 1 = Len(s) - k
    BY <1>1
  <2>4. ASSUME NEW j \in 1 .. Len(s) - k PROVE b[j] = s[k + j]
    <3>1. k + 1 + j - 1 = k + j
      BY <1>1
    <3> QED
      BY <1>1, <2>2, <2>3, <3>1
  <2>5. Len(b) = Len(s) - k
    <3>1. CASE k + 1 <= Len(s)
      BY <2>2, <2>3, <3>1
    <3>2. CASE ~(k + 1 <= Len(s))
      <4>0. k \in Nat /\ Len(s) \in Nat /\ k <= Len(s)
        BY <1>1
      <4>1. k = Len(s)
        BY <3>2, <4>0
      <4>2. Len(b) = 0
        BY <2>2, <3>2
      <4> QED
        BY <1>1, <4>1, <4>2
    <3> QED
      BY <3>1, <3>2
  <2> QED
    BY <2>2, <2>4, <2>5
<1> HIDE DEF a, b
<1>5. t = a \o b
  BY DEF RemoveAt, a, b
<1>6. /\ t \in Seq(S) /\ Len(t) = Len(s) - 1
      /\ \A j \in 1 .. Len(s) - 1 :
            t[j] = IF j <= k - 1 THEN a[j] ELSE b[j - (k - 1)]
  <2>0. a \in Seq(S) /\ b \in Seq(S)
    BY <1>3, <1>4
  <2>1. /\ t \in Seq(S) /\ Len(t) = Len(a) + Len(b)
        /\ \A j \in 1 .. Len(a) + Len(b) :
              t[j] = IF j <= Len(a) THEN a[j] ELSE b[j - Len(a)]
    BY <1>5, <2>0, ConcatProperties
  <2>2. Len(a) + Len(b) = Len(s) - 1
    BY <1>1, <1>3, <1>4
  <2> QED
    BY <1>3, <2>1, <2>2
<1>7. ASSUME NEW j \in 1 .. Len(s) - 1
      PROVE  t[j] = IF j < k THEN s[j] ELSE s[j + 1]
  <2>1. CASE j < k
    BY <1>1, <1>3, <1>6, <2>1
  <2>2. CASE j >= k
    <3>1. j - (k - 1) \in 1 .. Len(s) - k /\ k + (j - (k - 1)) = j + 1
      BY <1>1, <2>2
    <3>2. b[j - (k - 1)] = s[j + 1]
      BY <1>4, <3>1
    <3> QED
      BY <1>1, <1>6, <2>2, <3>2
  <2> QED
    BY <1>1, <2>1, <2>2
<1>8. DOMAIN t = 1 .. Len(s) - 1
  BY <1>6, LenProperties
<1> QED
  BY <1>1, <1>6, <1>7, <1>8

\* What the new row does to the rows before and behind a place: the rows
\* behind its own place move back by one.
LEMMA InsertedRows ==
    ASSUME NEW S, NEW s \in Seq(S), NEW k \in 1 .. Len(s) + 1, NEW e \in S,
           NEW t, t = InsertAt(s, k, e), IsInjective(s), e \notin Range(s)
    PROVE  /\ t \in Seq(S) /\ Len(t) = Len(s) + 1 /\ IsInjective(t)
           /\ Range(t) = Range(s) \cup {e}
           /\ \A n \in Nat :
                 /\ Upto(t, n) \subseteq Upto(s, n) \cup {e}
                 /\ Beyond(t, n) \subseteq Beyond(s, n) \cup {e, s[n]}
<1> DEFINE N == Len(s)
<1>1. /\ t \in Seq(S) /\ Len(t) = N + 1 /\ N \in Nat /\ k \in Nat
      /\ 1 <= k /\ k <= N + 1
      /\ DOMAIN s = 1 .. N /\ DOMAIN t = 1 .. N + 1
      /\ \A j \in 1 .. N + 1 :
            t[j] = IF j < k THEN s[j] ELSE IF j = k THEN e ELSE s[j - 1]
  <2>1. N \in Nat
    BY LenProperties
  <2>2. k \in Nat /\ 1 <= k /\ k <= N + 1
    BY <2>1
  <2>3. /\ t \in Seq(S) /\ Len(t) = Len(s) + 1
        /\ DOMAIN s = 1 .. Len(s) /\ DOMAIN t = 1 .. Len(s) + 1
        /\ \A j \in 1 .. Len(s) + 1 :
              t[j] = IF j < k THEN s[j] ELSE IF j = k THEN e ELSE s[j - 1]
    BY Inserted, SMTT(60)
  <2> QED
    BY <2>1, <2>2, <2>3
<1> HIDE DEF N
<1>d. DOMAIN s = 1 .. N
  BY <1>1
<1>p. /\ \A x : x \in Range(s) <=> \E j \in 1 .. N : x = s[j]
      /\ \A x, n : x \in Upto(s, n) <=> \E j \in 1 .. N : j <= n /\ x = s[j]
      /\ \A x, n : x \in Beyond(s, n) <=> \E j \in 1 .. N : j > n /\ x = s[j]
  <2>1. \A x : x \in Range(s) <=> \E j \in 1 .. N : x = s[j]
    BY <1>d DEF Range
  <2>2. \A x, n : x \in Upto(s, n) <=> \E j \in 1 .. N : j <= n /\ x = s[j]
    BY <1>d DEF Upto
  <2>3. \A x, n : x \in Beyond(s, n) <=> \E j \in 1 .. N : j > n /\ x = s[j]
    BY <1>d DEF Beyond
  <2> QED
    BY <2>1, <2>2, <2>3
<1>t. /\ \A x : x \in Range(t) <=> \E j \in 1 .. N + 1 : x = t[j]
      /\ \A x, n : x \in Upto(t, n) <=> \E j \in 1 .. N + 1 : j <= n /\ x = t[j]
      /\ \A x, n : x \in Beyond(t, n) <=>
                     \E j \in 1 .. N + 1 : j > n /\ x = t[j]
  <2>0. DOMAIN t = 1 .. N + 1
    BY <1>1
  <2>1. \A x : x \in Range(t) <=> \E j \in 1 .. N + 1 : x = t[j]
    BY <2>0 DEF Range
  <2>2. \A x, n : x \in Upto(t, n) <=>
                     \E j \in 1 .. N + 1 : j <= n /\ x = t[j]
    BY <2>0 DEF Upto
  <2>3. \A x, n : x \in Beyond(t, n) <=>
                     \E j \in 1 .. N + 1 : j > n /\ x = t[j]
    BY <2>0 DEF Beyond
  <2> QED
    BY <2>1, <2>2, <2>3
<1>2. \A j \in 1 .. N : s[j] # e
  BY <1>1, <1>p, <1>t
<1>3. IsInjective(t)
  <2> SUFFICES ASSUME NEW i \in 1 .. N + 1, NEW j \in 1 .. N + 1, t[i] = t[j]
               PROVE  i = j
    BY <1>1 DEF IsInjective
  <2>1. \A m \in 1 .. N + 1 : /\ m < k => m \in 1 .. N
                              /\ m > k => m - 1 \in 1 .. N
    BY <1>1
  <2>2. \A m, n \in 1 .. N : s[m] = s[n] => m = n
    BY <1>1 DEF IsInjective
  <2>3. CASE i = k \/ j = k
    BY <1>1, <1>2, <2>1, <2>3
  <2>4. CASE i # k /\ j # k
    BY <1>1, <2>1, <2>2, <2>4
  <2> QED
    BY <2>3, <2>4
<1>4. Range(t) = Range(s) \cup {e}
  <2>1. \A j \in 1 .. N + 1 : t[j] \in Range(s) \cup {e}
    BY <1>1, <1>p, <1>t
  <2>2. t[k] = e /\ k \in 1 .. N + 1
    BY <1>1
  <2>3. ASSUME NEW j \in 1 .. N PROVE \E m \in 1 .. N + 1 : t[m] = s[j]
    <3>1. CASE j < k
      BY <1>1, <3>1
    <3>2. CASE j >= k
      <4>1. j + 1 \in 1 .. N + 1 /\ j + 1 > k /\ j + 1 - 1 = j
        BY <1>1, <3>2
      <4>2. t[j + 1] = s[j]
        BY <1>1, <4>1
      <4> QED
        BY <4>1, <4>2
    <3> QED
      BY <1>1, <3>1, <3>2
  <2> QED
    BY <1>1, <2>1, <2>2, <2>3, <1>p, <1>t
<1>5. ASSUME NEW n \in Nat PROVE Upto(t, n) \subseteq Upto(s, n) \cup {e}
  <2> SUFFICES ASSUME NEW j \in 1 .. N + 1, j <= n
               PROVE  t[j] \in Upto(s, n) \cup {e}
    BY <1>1, <1>p, <1>t
  <2>1. CASE j < k
    BY <1>1, <2>1, <1>p, <1>t
  <2>2. CASE j > k
    <3>1. j - 1 \in 1 .. N /\ j - 1 <= n /\ t[j] = s[j - 1]
      BY <1>1, <2>2
    <3> QED
      BY <1>1, <3>1, <1>p, <1>t
  <2> QED
    BY <1>1, <2>1, <2>2
<1>6. ASSUME NEW n \in Nat
      PROVE  Beyond(t, n) \subseteq Beyond(s, n) \cup {e, s[n]}
  <2> SUFFICES ASSUME NEW j \in 1 .. N + 1, j > n
               PROVE  t[j] \in Beyond(s, n) \cup {e, s[n]}
    BY <1>1, <1>p, <1>t
  <2>1. CASE j < k
    BY <1>1, <2>1, <1>p, <1>t
  <2>2. CASE j > k
    <3>1. j - 1 \in 1 .. N /\ t[j] = s[j - 1] /\ (j - 1 > n \/ j - 1 = n)
      BY <1>1, <2>2
    <3> QED
      BY <1>1, <3>1, <1>p, <1>t
  <2> QED
    BY <1>1, <2>1, <2>2
<1> QED
  BY <1>1, <1>3, <1>4, <1>5, <1>6 DEF N

\* ... and what taking a row out does: the rows behind its place move up.
LEMMA RemovedRows ==
    ASSUME NEW S, NEW s \in Seq(S), NEW k \in 1 .. Len(s),
           NEW t, t = RemoveAt(s, k), IsInjective(s)
    PROVE  /\ t \in Seq(S) /\ Len(t) = Len(s) - 1 /\ IsInjective(t)
           /\ s[k] \in Range(s) /\ Range(t) = Range(s) \ {s[k]}
           /\ \A n \in Nat : /\ Upto(t, n) \subseteq Upto(s, n) \cup {s[n + 1]}
                             /\ Beyond(t, n) \subseteq Beyond(s, n)
<1> DEFINE N == Len(s)
<1>1. /\ t \in Seq(S) /\ Len(t) = N - 1 /\ N \in Nat /\ k \in Nat
      /\ 1 <= k /\ k <= N
      /\ DOMAIN s = 1 .. N /\ DOMAIN t = 1 .. N - 1
      /\ \A j \in 1 .. N - 1 : t[j] = IF j < k THEN s[j] ELSE s[j + 1]
  <2>1. N \in Nat
    BY LenProperties
  <2>2. k \in Nat /\ 1 <= k /\ k <= N
    BY <2>1
  <2>3. /\ t \in Seq(S) /\ Len(t) = Len(s) - 1
        /\ DOMAIN s = 1 .. Len(s) /\ DOMAIN t = 1 .. Len(s) - 1
        /\ \A j \in 1 .. Len(s) - 1 : t[j] = IF j < k THEN s[j] ELSE s[j + 1]
    BY Removed, SMTT(60)
  <2> QED
    BY <2>1, <2>2, <2>3
<1> HIDE DEF N
<1>d. DOMAIN s = 1 .. N
  BY <1>1
<1>p. /\ \A x : x \in Range(s) <=> \E j \in 1 .. N : x = s[j]
      /\ \A x, n : x \in Upto(s, n) <=> \E j \in 1 .. N : j <= n /\ x = s[j]
      /\ \A x, n : x \in Beyond(s, n) <=> \E j \in 1 .. N : j > n /\ x = s[j]
  <2>1. \A x : x \in Range(s) <=> \E j \in 1 .. N : x = s[j]
    BY <1>d DEF Range
  <2>2. \A x, n : x \in Upto(s, n) <=> \E j \in 1 .. N : j <= n /\ x = s[j]
    BY <1>d DEF Upto
  <2>3. \A x, n : x \in Beyond(s, n) <=> \E j \in 1 .. N : j > n /\ x = s[j]
    BY <1>d DEF Beyond
  <2> QED
    BY <2>1, <2>2, <2>3
<1>t. /\ \A x : x \in Range(t) <=> \E j \in 1 .. N - 1 : x = t[j]
      /\ \A x, n : x \in Upto(t, n) <=> \E j \in 1 .. N - 1 : j <= n /\ x = t[j]
      /\ \A x, n : x \in Beyond(t, n) <=>
                     \E j \in 1 .. N - 1 : j > n /\ x = t[j]
  <2>0. DOMAIN t = 1 .. N - 1
    BY <1>1
  <2>1. \A x : x \in Range(t) <=> \E j \in 1 .. N - 1 : x = t[j]
    BY <2>0 DEF Range
  <2>2. \A x, n : x \in Upto(t, n) <=>
                     \E j \in 1 .. N - 1 : j <= n /\ x = t[j]
    BY <2>0 DEF Upto
  <2>3. \A x, n : x \in Beyond(t, n) <=>
                     \E j \in 1 .. N - 1 : j > n /\ x = t[j]
    BY <2>0 DEF Beyond
  <2> QED
    BY <2>1, <2>2, <2>3
<1>2. \A m, n \in 1 .. N : s[m] = s[n] => m = n
  BY <1>1 DEF IsInjective
<1>3. IsInjective(t)
  <2> SUFFICES ASSUME NEW i \in 1 .. N - 1, NEW j \in 1 .. N - 1, t[i] = t[j]
               PROVE  i = j
    BY <1>1 DEF IsInjective
  <2>1. \A m \in 1 .. N - 1 : m \in 1 .. N /\ m + 1 \in 1 .. N
    BY <1>1
  <2> QED
    BY <1>1, <1>2, <2>1
<1>4. Range(t) = Range(s) \ {s[k]}
  <2>1. ASSUME NEW j \in 1 .. N - 1 PROVE t[j] \in Range(s) \ {s[k]}
    <3>1. j \in 1 .. N /\ j + 1 \in 1 .. N /\ k \in 1 .. N
      BY <1>1
    <3> QED
      BY <1>1, <1>2, <3>1, <1>p, <1>t
  <2>2. ASSUME NEW j \in 1 .. N, j # k PROVE \E m \in 1 .. N - 1 : t[m] = s[j]
    <3>1. CASE j < k
      <4>1. j \in 1 .. N - 1
        BY <1>1, <3>1
      <4> QED
        BY <1>1, <3>1, <4>1
    <3>2. CASE j > k
      <4>1. j - 1 \in 1 .. N - 1 /\ ~(j - 1 < k) /\ j - 1 + 1 = j
        BY <1>1, <3>2
      <4>2. t[j - 1] = s[j]
        BY <1>1, <4>1
      <4> QED
        BY <4>1, <4>2
    <3> QED
      BY <1>1, <2>2, <3>1, <3>2
  <2>3. ASSUME NEW x \in Range(t) PROVE x \in Range(s) \ {s[k]}
    BY <1>t, <2>1, <2>3
  <2>4. ASSUME NEW x \in Range(s) \ {s[k]} PROVE x \in Range(t)
    <3>1. PICK j \in 1 .. N : x = s[j]
      BY <1>p, <2>4
    <3>2. j # k
      BY <2>4, <3>1
    <3> QED
      BY <1>t, <2>2, <3>1, <3>2
  <2> QED
    BY <2>3, <2>4
<1>5. ASSUME NEW n \in Nat
      PROVE  Upto(t, n) \subseteq Upto(s, n) \cup {s[n + 1]}
  <2> SUFFICES ASSUME NEW j \in 1 .. N - 1, j <= n
               PROVE  t[j] \in Upto(s, n) \cup {s[n + 1]}
    BY <1>1, <1>p, <1>t
  <2>1. j \in 1 .. N /\ j + 1 \in 1 .. N /\ (j + 1 <= n \/ j + 1 = n + 1)
    BY <1>1
  <2>2. t[j] = s[j] \/ t[j] = s[j + 1]
    BY <1>1
  <2> QED
    BY <1>1, <2>1, <2>2, <1>p, <1>t
<1>6. ASSUME NEW n \in Nat PROVE Beyond(t, n) \subseteq Beyond(s, n)
  <2> SUFFICES ASSUME NEW j \in 1 .. N - 1, j > n
               PROVE  t[j] \in Beyond(s, n)
    BY <1>1, <1>p, <1>t
  <2>1. j \in 1 .. N /\ j + 1 \in 1 .. N /\ j + 1 > n
    BY <1>1
  <2>2. t[j] = s[j] \/ t[j] = s[j + 1]
    BY <1>1
  <2> QED
    BY <1>1, <2>1, <2>2, <1>p, <1>t
<1>7. s[k] \in Range(s)
  BY <1>1, <1>p, <1>t
<1> QED
  BY <1>1, <1>3, <1>4, <1>5, <1>6, <1>7 DEF N

\* A row that moves stays in the table.
LEMMA MovedRows ==
    ASSUME NEW S, NEW s \in Seq(S), IsInjective(s),
           NEW k \in 1 .. Len(s), NEW l \in 1 .. Len(s),
           NEW t, t = InsertAt(RemoveAt(s, k), l, s[k])
    PROVE  /\ t \in Seq(S) /\ Len(t) = Len(s) /\ IsInjective(t)
           /\ Range(t) = Range(s)
<1> DEFINE u == RemoveAt(s, k)
<1>1. /\ u \in Seq(S) /\ Len(u) = Len(s) - 1 /\ IsInjective(u)
      /\ s[k] \in Range(s) /\ Range(u) = Range(s) \ {s[k]}
  BY RemovedRows
<1>2. Len(s) \in Nat /\ s[k] \in S
  BY LenProperties, ElementOfSeq
<1>3. l \in 1 .. Len(u) + 1
  BY <1>1, <1>2
<1>4. t = InsertAt(u, l, s[k])
  OBVIOUS
<1> HIDE DEF u
<1>5. s[k] \notin Range(u)
  BY <1>1
<1>6. /\ t \in Seq(S) /\ Len(t) = Len(u) + 1 /\ IsInjective(t)
      /\ Range(t) = Range(u) \cup {s[k]}
  BY <1>1, <1>2, <1>3, <1>4, <1>5, InsertedRows
<1> QED
  BY <1>1, <1>2, <1>6

\* The page of n rows behind the place from.
LEMMA Paged ==
    ASSUME NEW S, NEW s \in Seq(S), NEW from \in Nat, NEW n \in Nat,
           NEW t, t = SubSeq(s, from + 1, Min({from + n, Len(s)})),
           IsInjective(s)
    PROVE  /\ t \in Seq(S) /\ IsInjective(t)
           /\ Len(t) \in Nat /\ Len(t) <= n /\ Len(t) <= Len(s)
           /\ Len(t) > 0 => from + Len(t) <= Len(s)
           /\ Len(t) < n => from + Len(t) >= Len(s)
           /\ Range(t) \subseteq Upto(s, from + Len(t))
           /\ Upto(s, from + Len(t)) \subseteq Upto(s, from) \cup Range(t)
           /\ Range(t) \cup Beyond(s, from + Len(t)) \subseteq Beyond(s, from)
<1> DEFINE N == Len(s)
           m == Min({from + n, N})
           L == Len(t)
<1>1. N \in Nat /\ DOMAIN s = 1 .. N /\ \A j \in 1 .. N : s[j] \in S
  BY LenProperties, ElementOfSeq
<1>2. m = IF from + n <= N THEN from + n ELSE N
  BY <1>1, MinOfTwo
<1> HIDE DEF m, N
<1>3. m \in Nat /\ m <= N
  BY <1>1, <1>2
<1>4. /\ t \in Seq(S)
      /\ L = IF from + 1 <= m THEN m - (from + 1) + 1 ELSE 0
      /\ \A j \in 1 .. m - (from + 1) + 1 : t[j] = s[from + 1 + j - 1]
  <2>1. \A j \in from + 1 .. m : s[j] \in S
    BY <1>1, <1>3
  <2>2. t = SubSeq(s, from + 1, m)
    BY DEF m, N
  <2>3. from + 1 \in Int /\ m \in Int
    BY <1>3
  <2>4. /\ SubSeq(s, from + 1, m) \in Seq(S)
        /\ Len(SubSeq(s, from + 1, m)) =
              IF from + 1 <= m THEN m - (from + 1) + 1 ELSE 0
        /\ \A j \in 1 .. m - (from + 1) + 1 :
              SubSeq(s, from + 1, m)[j] = s[from + 1 + j - 1]
    BY <2>1, <2>3, SubSeqProperties
  <2> QED
    BY <2>2, <2>4
<1>5. DOMAIN t = 1 .. L
  BY <1>4, LenProperties
<1> HIDE DEF L
<1>d. DOMAIN s = 1 .. N
  BY <1>1
<1>p. /\ \A x : x \in Range(s) <=> \E j \in 1 .. N : x = s[j]
      /\ \A x, i : x \in Upto(s, i) <=> \E j \in 1 .. N : j <= i /\ x = s[j]
      /\ \A x, i : x \in Beyond(s, i) <=> \E j \in 1 .. N : j > i /\ x = s[j]
  <2>1. \A x : x \in Range(s) <=> \E j \in 1 .. N : x = s[j]
    BY <1>d DEF Range
  <2>2. \A x, i : x \in Upto(s, i) <=> \E j \in 1 .. N : j <= i /\ x = s[j]
    BY <1>d DEF Upto
  <2>3. \A x, i : x \in Beyond(s, i) <=> \E j \in 1 .. N : j > i /\ x = s[j]
    BY <1>d DEF Beyond
  <2> QED
    BY <2>1, <2>2, <2>3
<1>t. /\ \A x : x \in Range(t) <=> \E j \in 1 .. L : x = t[j]
      /\ \A x, i : x \in Upto(t, i) <=> \E j \in 1 .. L : j <= i /\ x = t[j]
      /\ \A x, i : x \in Beyond(t, i) <=> \E j \in 1 .. L : j > i /\ x = t[j]
  <2>1. \A x : x \in Range(t) <=> \E j \in 1 .. L : x = t[j]
    BY <1>5 DEF Range
  <2>2. \A x, i : x \in Upto(t, i) <=> \E j \in 1 .. L : j <= i /\ x = t[j]
    BY <1>5 DEF Upto
  <2>3. \A x, i : x \in Beyond(t, i) <=> \E j \in 1 .. L : j > i /\ x = t[j]
    BY <1>5 DEF Beyond
  <2> QED
    BY <2>1, <2>2, <2>3
<1>6. /\ L \in Nat /\ L <= n /\ L <= N
      /\ L > 0 => from + L <= N
      /\ L < n => from + L >= N
  BY <1>1, <1>2, <1>4
<1>7. \A j \in 1 .. L : t[j] = s[from + j] /\ from + j \in 1 .. N
  <2> SUFFICES ASSUME NEW j \in 1 .. L
               PROVE  t[j] = s[from + j] /\ from + j \in 1 .. N
    OBVIOUS
  <2>1. from + 1 <= m /\ L = m - (from + 1) + 1
    BY <1>3, <1>4
  <2>2. j \in 1 .. m - (from + 1) + 1 /\ from + 1 + j - 1 = from + j
    BY <1>3, <2>1
  <2>3. from + j \in 1 .. N
    BY <1>1, <1>3, <2>1
  <2> QED
    BY <1>4, <2>2, <2>3
<1>8. IsInjective(t)
  <2> SUFFICES ASSUME NEW i \in 1 .. L, NEW j \in 1 .. L, t[i] = t[j]
               PROVE  i = j
    BY <1>5 DEF IsInjective
  <2>1. from + i = from + j
    BY <1>1, <1>7 DEF IsInjective
  <2> QED
    BY <2>1
<1>9. ASSUME NEW x \in Range(t)
      PROVE  x \in Upto(s, from + L) /\ x \in Beyond(s, from)
  <2>1. PICK j \in 1 .. L : x = t[j]
    BY <1>t, <1>9
  <2>2. x = s[from + j] /\ from + j \in 1 .. N
    BY <1>7, <2>1
  <2>3. from + j <= from + L /\ from + j > from
    BY <1>6, <2>1
  <2> QED
    BY <1>p, <2>2, <2>3
<1>10. ASSUME NEW x \in Upto(s, from + L)
       PROVE  x \in Upto(s, from) \cup Range(t)
  <2>1. PICK j \in 1 .. N : j <= from + L /\ x = s[j]
    BY <1>p, <1>10
  <2>2. CASE j <= from
    BY <1>p, <2>1, <2>2
  <2>3. CASE j > from
    <3>1. j - from \in 1 .. L /\ from + (j - from) = j
      BY <1>6, <2>1, <2>3
    <3>2. t[j - from] = s[j]
      BY <1>7, <3>1
    <3> QED
      BY <1>t, <2>1, <3>1, <3>2
  <2> QED
    BY <2>1, <2>2, <2>3
<1>11. ASSUME NEW x \in Beyond(s, from + L) PROVE x \in Beyond(s, from)
  <2>1. PICK j \in 1 .. N : j > from + L /\ x = s[j]
    BY <1>p, <1>11
  <2>2. j > from
    BY <1>6, <2>1
  <2> QED
    BY <1>p, <2>1, <2>2
<1> QED
  BY <1>4, <1>6, <1>8, <1>9, <1>10, <1>11 DEF L, N

\* The rows up to a place and those behind it are different rows.
LEMMA Apart ==
    ASSUME NEW S, NEW s \in Seq(S), IsInjective(s), NEW n \in Nat
    PROVE  /\ Upto(s, n) \subseteq Range(s) /\ Beyond(s, n) \subseteq Range(s)
           /\ Upto(s, n) \cap Beyond(s, n) = {}
           /\ Upto(s, 0) = {}
           /\ n >= Len(s) => Upto(s, n) = Range(s)
<1> DEFINE N == Len(s)
<1>1. N \in Nat /\ DOMAIN s = 1 .. N
  BY LenProperties
<1> HIDE DEF N
<1>2. Upto(s, n) \subseteq Range(s) /\ Beyond(s, n) \subseteq Range(s)
  BY DEF Upto, Beyond, Range
<1>3. Upto(s, n) \cap Beyond(s, n) = {}
  BY <1>1 DEF Upto, Beyond, IsInjective
<1>4. Upto(s, 0) = {}
  BY <1>1 DEF Upto
<1>5. ASSUME n >= N PROVE Upto(s, n) = Range(s)
  BY <1>1, <1>5 DEF Upto, Range
<1> QED
  BY <1>2, <1>3, <1>4, <1>5 DEF N

\* The first row of a page is taken from it.
LEMMA HeadRows ==
    ASSUME NEW S, NEW s \in Seq(S), s # <<>>, IsInjective(s)
    PROVE  /\ Head(s) \in S /\ Tail(s) \in Seq(S) /\ IsInjective(Tail(s))
           /\ Range(s) = Range(Tail(s)) \cup {Head(s)}
           /\ Head(s) \notin Range(Tail(s))
<1> DEFINE N == Len(s)
           t == Tail(s)
           h == Head(s)
<1>1. /\ N \in Nat /\ N >= 1 /\ DOMAIN s = 1 .. N /\ h = s[1]
      /\ h \in S /\ t \in Seq(S) /\ Len(t) = N - 1
      /\ \A j \in 1 .. N - 1 : t[j] = s[j + 1]
  <2>1. N \in Nat /\ N # 0
    BY EmptySeq, LenProperties
  <2>2. h \in S /\ t \in Seq(S) /\ Len(t) = N - 1
        /\ \A j \in 1 .. Len(t) : t[j] = s[j + 1]
    BY HeadTailProperties
  <2>3. DOMAIN s = 1 .. N
    BY LenProperties
  <2> QED
    BY <2>1, <2>2, <2>3 DEF Head
<1>2. DOMAIN t = 1 .. N - 1
  BY <1>1, LenProperties
<1> HIDE DEF N, t, h
<1>3. \A i, j \in 1 .. N : s[i] = s[j] => i = j
  BY <1>1 DEF IsInjective
<1>4. \A j \in 1 .. N - 1 : j + 1 \in 1 .. N /\ j + 1 # 1
  BY <1>1
<1>5. IsInjective(t)
  <2> SUFFICES ASSUME NEW i \in 1 .. N - 1, NEW j \in 1 .. N - 1, t[i] = t[j]
               PROVE  i = j
    BY <1>2 DEF IsInjective
  <2>1. i + 1 = j + 1
    BY <1>1, <1>3, <1>4
  <2> QED
    BY <2>1
<1>6. h \notin Range(t)
  BY <1>1, <1>2, <1>3, <1>4 DEF Range
<1>7. ASSUME NEW x \in Range(s) PROVE x \in Range(t) \cup {h}
  <2>1. PICK j \in 1 .. N : x = s[j]
    BY <1>1 DEF Range
  <2>2. CASE j = 1
    BY <1>1, <2>1, <2>2
  <2>3. CASE j # 1
    <3>1. j - 1 \in 1 .. N - 1 /\ j - 1 + 1 = j
      BY <1>1, <2>3
    <3>2. t[j - 1] = x
      BY <1>1, <2>1, <3>1
    <3> QED
      BY <1>2, <3>1, <3>2 DEF Range
  <2> QED
    BY <2>2, <2>3
<1>8. ASSUME NEW x \in Range(t) \cup {h} PROVE x \in Range(s)
  <2>1. CASE x = h
    BY <1>1, <2>1 DEF Range
  <2>2. CASE x \in Range(t)
    <3>1. PICK j \in 1 .. N - 1 : x = t[j]
      BY <1>2, <2>2 DEF Range
    <3>2. x = s[j + 1] /\ j + 1 \in 1 .. N
      BY <1>1, <1>4, <3>1
    <3> QED
      BY <1>1, <3>2 DEF Range
  <2> QED
    BY <1>8, <2>1, <2>2
<1> QED
  BY <1>1, <1>5, <1>6, <1>7, <1>8 DEF t, h

\* ... and goes to the end of the CSV.
LEMMA AppendRows ==
    ASSUME NEW S, NEW s \in Seq(S), NEW e \in S
    PROVE  /\ Append(s, e) \in Seq(S) /\ Len(Append(s, e)) = Len(s) + 1
           /\ Range(Append(s, e)) = Range(s) \cup {e}
<1> DEFINE N == Len(s)
           t == Append(s, e)
<1>1. /\ N \in Nat /\ DOMAIN s = 1 .. N
      /\ t \in Seq(S) /\ Len(t) = N + 1
      /\ \A j \in 1 .. N : t[j] = s[j]
      /\ t[N + 1] = e
  BY AppendProperties, LenProperties
<1>2. DOMAIN t = 1 .. N + 1
  BY <1>1, LenProperties
<1> HIDE DEF N, t
<1>3. ASSUME NEW x \in Range(t) PROVE x \in Range(s) \cup {e}
  <2>1. PICK j \in 1 .. N + 1 : x = t[j]
    BY <1>2, <1>3 DEF Range
  <2>2. CASE j = N + 1
    BY <1>1, <2>1, <2>2
  <2>3. CASE j # N + 1
    <3>1. j \in 1 .. N
      BY <1>1, <2>3
    <3> QED
      BY <1>1, <2>1, <3>1 DEF Range
  <2> QED
    BY <2>2, <2>3
<1>4. ASSUME NEW x \in Range(s) \cup {e} PROVE x \in Range(t)
  <2>1. CASE x = e
    <3>1. N + 1 \in 1 .. N + 1
      BY <1>1
    <3> QED
      BY <1>1, <1>2, <2>1, <3>1 DEF Range
  <2>2. CASE x \in Range(s)
    <3>1. PICK j \in 1 .. N : x = s[j]
      BY <1>1, <2>2 DEF Range
    <3>2. j \in 1 .. N + 1 /\ t[j] = x
      BY <1>1, <3>1
    <3> QED
      BY <1>2, <3>2 DEF Range
  <2> QED
    BY <1>4, <2>1, <2>2
<1> QED
  BY <1>1, <1>3, <1>4 DEF N, t

\* Sets of rows are finite, and one more row makes a set larger by one.
LEMMA Counted ==
    ASSUME NEW m \in Nat, NEW A \in SUBSET (1 .. m)
    PROVE  /\ IsFiniteSet(A) /\ Cardinality(A) \in Nat
           /\ \A T : T \subseteq A =>
                 Cardinality(T) \in Nat /\ Cardinality(T) <= Cardinality(A)
           /\ \A T, x : T \subseteq A \cup {x} =>
                 Cardinality(T) \in Nat /\ Cardinality(T) <= Cardinality(A) + 1
<1>1. IsFiniteSet(A) /\ Cardinality(A) \in Nat
  <2>1. IsFiniteSet(1 .. m)
    BY FS_Interval
  <2>2. IsFiniteSet(A)
    BY <2>1, FS_Subset
  <2> QED
    BY <2>2, FS_CardinalityType
<1>2. ASSUME NEW B, IsFiniteSet(B), NEW T, T \subseteq B
      PROVE  Cardinality(T) \in Nat /\ Cardinality(T) <= Cardinality(B)
  BY <1>2, FS_Subset, FS_CardinalityType
<1>3. ASSUME NEW T, NEW x, T \subseteq A \cup {x}
      PROVE  Cardinality(T) \in Nat /\ Cardinality(T) <= Cardinality(A) + 1
  <2> DEFINE B == A \cup {x}
  <2>1. /\ IsFiniteSet(B)
        /\ Cardinality(B) = IF x \in A THEN Cardinality(A)
                            ELSE Cardinality(A) + 1
    BY <1>1, FS_AddElement
  <2>2. Cardinality(B) \in Nat /\ Cardinality(B) <= Cardinality(A) + 1
    <3> HIDE DEF B
    <3> QED
      BY <1>1, <2>1
  <2>3. T \subseteq B
    BY <1>3
  <2> HIDE DEF B
  <2>4. Cardinality(T) \in Nat /\ Cardinality(T) <= Cardinality(B)
    BY <1>2, <2>1, <2>3
  <2> QED
    BY <1>1, <2>2, <2>4
<1> QED
  BY <1>1, <1>2, <1>3

-----------------------------------------------------------------------------
(* The steps. *)

LEMMA Known ==
    ASSUME ExInv
    PROVE  /\ kind \in {"list", "direct", "whole"} /\ kind \in Kinds
           /\ table \in Seq(Given) /\ page \in Seq(Given)
           /\ written \in Seq(Given) /\ IsInjective(table)
           /\ Len(table) \in Nat /\ Len(page) \in Nat /\ Len(written) \in Nat
           /\ removed \in Nat /\ added \in 0 .. MaxAdded
           /\ moved \in 0 .. MaxMoved
           /\ offset \in Nat /\ got \in Nat /\ Seen \in Nat
           /\ MaxRows + added \in Nat /\ MaxRows + added <= MaxId
           /\ Len(table) + removed <= MaxRows + added
           /\ Len(table) <= MaxId /\ MaxId \in Nat
           /\ Ids \subseteq Given /\ Range(page) \subseteq Given
           /\ Range(written) \subseteq Given /\ stayed \subseteq Ids
<1>1. /\ added \in 0 .. MaxAdded /\ removed \in Nat /\ offset \in Nat
      /\ got \in Nat /\ MaxId = MaxRows + MaxAdded /\ MaxRows \in Nat
      /\ MaxAdded \in Nat /\ moved \in 0 .. MaxMoved
      /\ kind \in {"list", "direct", "whole"} /\ kind \in Kinds
      /\ IsInjective(table) /\ stayed \subseteq Ids
  BY ExportAssumption DEF ExInv, TypeOK, MaxId
<1>2. /\ table \in Seq(Given) /\ page \in Seq(Given) /\ written \in Seq(Given)
      /\ Len(table) + removed <= MaxRows + added
  BY DEF ExInv, Shape
<1>3. Len(table) \in Nat /\ Len(page) \in Nat /\ Len(written) \in Nat
  BY <1>2, LenProperties
<1>4. /\ Range(table) \subseteq Given /\ Range(page) \subseteq Given
      /\ Range(written) \subseteq Given
  BY <1>2, RangeOfSeq
<1>5. /\ MaxRows + added \in Nat /\ MaxRows + added <= MaxId /\ MaxId \in Nat
      /\ Seen \in Nat
  BY <1>1 DEF Seen
<1>6. Len(table) <= MaxId
  BY <1>1, <1>2, <1>3, <1>5
<1> QED
  BY <1>1, <1>2, <1>3, <1>4, <1>5, <1>6 DEF Ids

\* The types, from the shape of the sequences.
Typing ==
    /\ Shape /\ kind \in Kinds /\ conn \in BOOLEAN
    /\ phase \in {"idle", "read", "write", "done", "failed"}
    /\ IsInjective(table) /\ offset \in 0 .. MaxId /\ got \in 0 .. MaxId
    /\ stayed \subseteq Ids /\ added \in 0 .. MaxAdded /\ removed \in Nat
    /\ moved \in 0 .. MaxMoved
    => TypeOK

\* ... which are the types the run checks.
LEMMA Typed ==
    Typing
<1>1. ASSUME Shape, added \in 0 .. MaxAdded, removed \in Nat
      PROVE  /\ Range(table) \subseteq 1 .. MaxId
             /\ Range(page) \cup Range(written) \subseteq 1 .. MaxId
             /\ removed \in 0 .. MaxId
  <2>1. /\ table \in Seq(Given) /\ page \in Seq(Given)
        /\ written \in Seq(Given) /\ Len(table) + removed <= MaxRows + added
    BY <1>1 DEF Shape
  <2>2. Len(table) \in Nat
    BY <2>1, LenProperties
  <2>3. /\ Range(table) \subseteq Given /\ Range(page) \subseteq Given
        /\ Range(written) \subseteq Given
    BY <2>1, RangeOfSeq
  <2>4. /\ MaxRows + added \in Nat /\ MaxRows + added <= MaxId
        /\ MaxId \in Nat /\ MaxRows \in Nat
    BY <1>1, ExportAssumption DEF MaxId
  <2>5. removed \in 0 .. MaxId
    BY <1>1, <2>1, <2>2, <2>4
  <2>6. Given \subseteq 1 .. MaxId
    BY <2>4 DEF Given
  <2> QED
    BY <2>3, <2>5, <2>6
<1> QED
  BY <1>1 DEF Typing, TypeOK, Ids

\* The same, of the state after a step.
LEMMA TypedNext ==
    Typing'
<1>1. Typing
  BY Typed DEF Typing
<1> QED
  BY <1>1, PTL

LEMMA InitExInv ==
    Init => ExInv
<1> SUFFICES ASSUME Init PROVE ExInv
  OBVIOUS
<1> USE ExportAssumption
<1>1. PICK n \in 0 .. MaxRows : table = [i \in 1 .. n |-> i]
  BY DEF Init
<1>2. added = 0 /\ removed = 0 /\ Given = 1 .. MaxRows
  BY DEF Init, Given
<1>3. table \in Seq(Given) /\ Len(table) = n /\ DOMAIN table = 1 .. n
  <2>1. table \in [1 .. n -> Given] /\ n \in Nat
    BY <1>1, <1>2
  <2>2. table \in Seq(Given)
    BY <2>1, SeqDef
  <2>3. DOMAIN table = 1 .. n
    BY <1>1
  <2> QED
    BY <2>1, <2>2, <2>3, LenProperties
<1>4. page = <<>> /\ written = <<>> /\ page \in Seq(Given)
  BY EmptySeq DEF Init
<1>5. Shape
  BY <1>2, <1>3, <1>4 DEF Shape
<1>6. IsInjective(table) /\ IsInjective(page)
  BY <1>1, <1>3, <1>4 DEF IsInjective
<1>7. Range(page) = {} /\ Range(written) = {} /\ Len(written) = 0
  BY <1>4, EmptySeq DEF Range
<1>8. TypeOK
  <2>1. 0 \in 0 .. MaxId /\ 0 \in 0 .. MaxAdded /\ 0 \in 0 .. MaxMoved
    BY DEF MaxId
  <2>2. stayed \subseteq Ids /\ 0 \in Nat
    BY DEF Init
  <2> QED
    BY <1>5, <1>6, <2>1, <2>2, Typed DEF Init, Typing
<1>9. Fetched
  BY <1>4, <1>6 DEF Init, Fetched
<1>10. MissInv
  BY DEF Init, MissInv, Exporting, MissesBounded
<1>11. RepeatInv
  BY <1>2, <1>7, FS_EmptySet DEF Init, RepeatInv, Exporting, Repeats, Allowed
<1> QED
  BY <1>5, <1>8, <1>9, <1>10, <1>11 DEF ExInv

\* The export begins, at the front of the table.
LEMMA StartStep ==
    ASSUME ExInv, Start
    PROVE  ExInv'
<1>1. /\ phase = "idle" /\ phase' = "read" /\ stayed' = Ids
      /\ UNCHANGED <<kind, table, conn, offset, page, got, written>>
      /\ UNCHANGED <<added, removed, moved>>
  BY DEF Start
<1>2. written = <<>> /\ page = <<>> /\ offset = 0 /\ conn = FALSE
  BY <1>1 DEF ExInv, Fetched
<1>3. Range(page) = {} /\ Range(written) = {} /\ Len(written) = 0
  BY <1>2, EmptySeq DEF Range
<1>4. Shape'
  BY <1>1 DEF ExInv, Shape, Given
<1>5. TypeOK'
  BY <1>1 DEF ExInv, TypeOK, Ids
<1>6. Fetched'
  BY <1>1, <1>2 DEF ExInv, Fetched
<1>7. MissInv'
  <2>1. Seen' = 0
    BY <1>1, <1>2 DEF Seen
  <2>2. Upto(table', 0) = {}
    BY <1>1, Known, Apart
  <2>3. Missed' = {}
    BY <2>1, <2>2 DEF Missed
  <2> QED
    BY <1>1, <2>3, FS_EmptySet, Known DEF MissInv, MissesBounded
<1>8. RepeatInv'
  <2>1. Repeats' = 0 /\ (Range(written) \cap Ahead)' = {} /\ Allowed' \in Nat
    BY <1>1, <1>3, FS_EmptySet, Known DEF Repeats, Allowed
  <2>2. Cardinality((Range(written) \cap Ahead)') = 0 /\ Repeats' <= Allowed'
    BY <2>1, FS_EmptySet
  <2> QED
    BY <2>1, <2>2 DEF RepeatInv
<1> QED
  BY <1>4, <1>5, <1>6, <1>7, <1>8 DEF ExInv

\* A page of no rows.
LEMMA NoRows ==
    /\ Range(<<>>) = {} /\ IsInjective(<<>>)
    /\ Len(<<>>) = 0 /\ <<>> \in Seq(Given)
<1>1. DOMAIN <<>> = {}
  OBVIOUS
<1> QED
  BY <1>1, EmptySeq DEF Range, IsInjective

\* The sets of rows that are counted are sets of ids.
LEMMA Sized ==
    ASSUME ExInv
    PROVE  /\ Missed \subseteq Given
           /\ Range(written) \cap Ahead \subseteq Given
           /\ Cardinality(Range(written)) \in Nat /\ Repeats \in Int
           /\ Allowed \in Nat
           /\ \A A \in SUBSET Given :
                 /\ IsFiniteSet(A) /\ Cardinality(A) \in Nat
                 /\ \A T : T \subseteq A =>
                       /\ Cardinality(T) \in Nat
                       /\ Cardinality(T) <= Cardinality(A)
                 /\ \A T, x : T \subseteq A \cup {x} =>
                       /\ Cardinality(T) \in Nat
                       /\ Cardinality(T) <= Cardinality(A) + 1
<1> DEFINE M == MaxRows + added
<1>1. /\ M \in Nat /\ Ids \subseteq Given /\ stayed \subseteq Ids
      /\ Range(written) \subseteq Given /\ Len(written) \in Nat
      /\ added \in 0 .. MaxAdded
  BY Known
<1>2. Missed \subseteq Given /\ Range(written) \cap Ahead \subseteq Given
  BY <1>1 DEF Missed
<1>3. added \in Nat
  BY <1>1, ExportAssumption
<1>4. Given = 1 .. M
  BY DEF Given
<1> HIDE DEF M
<1>5. \A A \in SUBSET Given :
         /\ IsFiniteSet(A) /\ Cardinality(A) \in Nat
         /\ \A T : T \subseteq A =>
               Cardinality(T) \in Nat /\ Cardinality(T) <= Cardinality(A)
         /\ \A T, x : T \subseteq A \cup {x} =>
               Cardinality(T) \in Nat /\ Cardinality(T) <= Cardinality(A) + 1
  BY <1>1, <1>4, Counted
<1>6. Cardinality(Range(written)) \in Nat
  BY <1>1, <1>5
<1>7. Repeats \in Int /\ Allowed \in Nat
  BY <1>1, <1>3, <1>6 DEF Repeats, Allowed
<1> QED
  BY <1>2, <1>5, <1>6, <1>7

\* What a page is read to be.
LEMMA Pages ==
    ASSUME ExInv, phase = "read", NEW t, t = PageRows
    PROVE  /\ t \in Seq(Given) /\ IsInjective(t) /\ Len(t) \in Nat
           /\ Len(t) <= Len(table)
           /\ kind = "list" => Len(t) < Page
           /\ kind = "direct" =>
                /\ Len(t) <= Page
                /\ Len(t) > 0 => offset + Len(t) <= Len(table)
                /\ Len(t) < Page => offset + Len(t) >= Len(table)
                /\ Range(t) \subseteq Upto(table, offset + Len(t))
                /\ Upto(table, offset + Len(t))
                      \subseteq Upto(table, offset) \cup Range(t)
                /\ Range(t) \cup Beyond(table, offset + Len(t))
                      \subseteq Beyond(table, offset)
           /\ kind = "whole" => t = table
<1>1. /\ table \in Seq(Given) /\ IsInjective(table) /\ offset \in Nat
      /\ Len(table) \in Nat /\ kind \in {"list", "direct", "whole"}
  BY Known
<1>2. /\ Default \in Nat /\ Default < Page /\ Page \in Nat /\ Page > MaxLimit
  BY ExportAssumption
<1>3. ASSUME kind = "list"
      PROVE  /\ t \in Seq(Given) /\ IsInjective(t) /\ Len(t) \in Nat
             /\ Len(t) < Page /\ Len(t) <= Len(table)
  <2>1. t = SubSeq(table, offset + 1, Min({offset + Default, Len(table)}))
    BY <1>2, <1>3 DEF PageRows, Select, Clamped
  <2>2. /\ t \in Seq(Given) /\ IsInjective(t) /\ Len(t) \in Nat
        /\ Len(t) <= Default /\ Len(t) <= Len(table)
    BY <1>1, <1>2, <2>1, Paged
  <2> QED
    BY <1>2, <2>2
<1>4. ASSUME kind = "direct"
      PROVE  /\ t \in Seq(Given) /\ IsInjective(t) /\ Len(t) \in Nat
             /\ Len(t) <= Page /\ Len(t) <= Len(table)
             /\ Len(t) > 0 => offset + Len(t) <= Len(table)
             /\ Len(t) < Page => offset + Len(t) >= Len(table)
             /\ Range(t) \subseteq Upto(table, offset + Len(t))
             /\ Upto(table, offset + Len(t))
                   \subseteq Upto(table, offset) \cup Range(t)
             /\ Range(t) \cup Beyond(table, offset + Len(t))
                   \subseteq Beyond(table, offset)
  <2>1. t = SubSeq(table, offset + 1, Min({offset + Page, Len(table)}))
    BY <1>4 DEF PageRows, Select
  <2> QED
    BY <1>1, <1>2, <2>1, Paged
<1>5. ASSUME kind = "whole" PROVE t = table
  BY <1>5 DEF PageRows
<1> QED
  BY <1>1, <1>3, <1>4, <1>5

\* A page is read.  Its rows were behind the place reached, which goes past
\* them.
LEMMA ReadPageStep ==
    ASSUME ExInv, ReadPage
    PROVE  ExInv'
<1> DEFINE t == page'
<1>1. /\ phase = "read" /\ phase' = "write" /\ t = PageRows
      /\ got' = Len(t) /\ conn' = (kind # "list")
      /\ UNCHANGED <<kind, table, offset, written>>
      /\ UNCHANGED <<stayed, added, removed, moved>>
  BY DEF ReadPage, history
<1>2. /\ page = <<>> /\ conn = FALSE
      /\ kind # "direct" => written = <<>> /\ offset = 0
  BY <1>1 DEF ExInv, Fetched
<1>3. Range(page) = {} /\ Seen = offset /\ Seen' = offset + Len(t)
  <2>1. Range(page) = {}
    BY <1>2, NoRows
  <2>2. offset \in Nat
    BY Known
  <2> QED
    BY <1>1, <2>1, <2>2 DEF Seen
<1> HIDE DEF t
<1>4. /\ t \in Seq(Given) /\ IsInjective(t) /\ Len(t) \in Nat
      /\ Len(t) <= Len(table)
      /\ kind = "list" => Len(t) < Page
      /\ kind = "direct" =>
           /\ Len(t) <= Page
           /\ Len(t) > 0 => offset + Len(t) <= Len(table)
           /\ Len(t) < Page => offset + Len(t) >= Len(table)
           /\ Range(t) \subseteq Upto(table, offset + Len(t))
           /\ Upto(table, offset + Len(t))
                 \subseteq Upto(table, offset) \cup Range(t)
           /\ Range(t) \cup Beyond(table, offset + Len(t))
                 \subseteq Beyond(table, offset)
      /\ kind = "whole" => t = table
  BY <1>1, Pages
<1>5. page' = t
  BY DEF t
<1>6. Shape'
  BY <1>1, <1>4, <1>5 DEF ExInv, Shape, Given
<1>7. TypeOK'
  <2>1. got' \in 0 .. MaxId
    BY <1>1, <1>4, Known
  <2>2. /\ kind' \in Kinds /\ conn' \in BOOLEAN /\ IsInjective(table')
        /\ offset' \in 0 .. MaxId /\ stayed' \subseteq Ids'
        /\ added' \in 0 .. MaxAdded /\ removed' \in Nat
        /\ moved' \in 0 .. MaxMoved
    BY <1>1, Known DEF ExInv, TypeOK, Ids
  <2> QED
    BY <1>1, <1>6, <2>1, <2>2, TypedNext DEF Typing
<1>8. Fetched'
  <2>1. kind = "whole" => Ids' \subseteq Taken'
    BY <1>1, <1>4, <1>5 DEF Ids, Taken
  <2> QED
    BY <1>1, <1>2, <1>3, <1>4, <1>5, <2>1 DEF Fetched
<1>9. MissInv'
  <2>1. ASSUME kind = "direct" PROVE Cardinality(Missed') <= removed
    <3>1. Missed' \subseteq Missed
      BY <1>1, <1>3, <1>4, <1>5, <2>1 DEF Missed, Taken
    <3>2. Cardinality(Missed) <= removed
      BY <1>1, <2>1 DEF ExInv, MissInv, Exporting
    <3>3. /\ Cardinality(Missed') \in Nat /\ Cardinality(Missed) \in Nat
          /\ Cardinality(Missed') <= Cardinality(Missed)
      BY <3>1, Sized
    <3>4. removed \in Nat
      BY Known
    <3> QED
      BY <3>2, <3>3, <3>4
  <2> QED
    BY <1>1, <2>1 DEF MissInv, MissesBounded
<1>10. RepeatInv'
  <2>1. Repeats' = Repeats /\ Allowed' = Allowed
    BY <1>1 DEF Repeats, Allowed
  <2>2. Range(written') \cap Ahead' \subseteq Range(written) \cap Ahead
    <3>1. CASE kind = "direct"
      BY <1>1, <1>3, <1>4, <1>5, <3>1 DEF Ahead
    <3>2. CASE kind # "direct"
      BY <1>1, <1>2, <3>2, EmptySeq DEF Range
    <3> QED
      BY <3>1, <3>2
  <2>3. Repeats + Cardinality(Range(written) \cap Ahead) <= Allowed
        /\ Repeats <= Allowed
    BY <1>1 DEF ExInv, RepeatInv, Exporting
  <2>4. /\ Cardinality(Range(written') \cap Ahead')
              <= Cardinality(Range(written) \cap Ahead)
        /\ Cardinality(Range(written') \cap Ahead') \in Nat
        /\ Cardinality(Range(written) \cap Ahead) \in Nat
        /\ Repeats \in Int /\ Allowed \in Nat
    BY <2>2, Sized
  <2> QED
    BY <2>1, <2>3, <2>4 DEF RepeatInv
<1> QED
  BY <1>6, <1>7, <1>8, <1>9, <1>10 DEF ExInv

\* A row is written: it is one row less ahead, and one that is repeated if it
\* was written before.
LEMMA WriteRowStep ==
    ASSUME ExInv, WriteRow
    PROVE  ExInv'
<1> DEFINE r == Head(page)
           W == Range(written)
<1>1. /\ phase = "write" /\ page # <<>> /\ written' = Append(written, r)
      /\ page' = Tail(page)
      /\ UNCHANGED <<kind, table, conn, phase, offset, got>>
      /\ UNCHANGED <<stayed, added, removed, moved>>
  BY DEF WriteRow, history
<1>2. /\ page \in Seq(Given) /\ written \in Seq(Given) /\ IsInjective(page)
      /\ table \in Seq(Given) /\ IsInjective(table) /\ Seen \in Nat
      /\ Len(written) \in Nat
  BY Known DEF ExInv, Fetched
<1>3. /\ r \in Given /\ page' \in Seq(Given) /\ IsInjective(page')
      /\ Range(page) = Range(page') \cup {r} /\ r \notin Range(page')
  BY <1>1, <1>2, HeadRows
<1> HIDE DEF r
<1>4. /\ written' \in Seq(Given) /\ Len(written') = Len(written) + 1
      /\ Range(written') = W \cup {r}
  BY <1>1, <1>2, <1>3, AppendRows
<1>5. Seen' = Seen /\ Taken' = Taken /\ Missed' = Missed
  BY <1>1, <1>3, <1>4 DEF Seen, Taken, Missed
<1>6. Shape'
  BY <1>1, <1>3, <1>4 DEF ExInv, Shape, Given
<1>7. TypeOK'
  <2>1. /\ kind' \in Kinds /\ conn' \in BOOLEAN /\ IsInjective(table')
        /\ offset' \in 0 .. MaxId /\ got' \in 0 .. MaxId
        /\ stayed' \subseteq Ids'
        /\ added' \in 0 .. MaxAdded /\ removed' \in Nat
        /\ moved' \in 0 .. MaxMoved
    BY <1>1, Known DEF ExInv, TypeOK, Ids
  <2> QED
    BY <1>1, <1>6, <2>1, TypedNext DEF Typing
<1>8. Fetched'
  BY <1>1, <1>3, <1>5 DEF ExInv, Fetched, Ids
<1>9. MissInv'
  BY <1>1, <1>5 DEF ExInv, MissInv, MissesBounded, Exporting
<1>10. RepeatInv'
  <2> DEFINE A == Ahead
             B == Ahead'
  <2>1. A = B \cup {r} /\ r \notin B
    <3>1. CASE kind = "direct"
      <4>1. Range(page) \subseteq Upto(table, Seen)
        BY <1>1, <3>1 DEF ExInv, Fetched
      <4>2. r \notin Beyond(table, Seen)
        BY <1>2, <1>3, <4>1, Apart
      <4> QED
        BY <1>1, <1>3, <1>5, <3>1, <4>2 DEF Ahead
    <3>2. CASE kind # "direct"
      BY <1>1, <1>3, <3>2 DEF Ahead
    <3> QED
      BY <3>1, <3>2
  <2>2. /\ IsFiniteSet(W) /\ Cardinality(W) \in Nat
        /\ IsFiniteSet(W \cap B) /\ Cardinality(W \cap B) \in Nat
    <3>1. W \subseteq Given /\ W \cap B \subseteq Given
      BY Known
    <3> HIDE DEF W, B
    <3> QED
      BY <3>1, Sized
  <2>3. Len(written) - Cardinality(W) + Cardinality(W \cap A) <= Allowed
        /\ Allowed \in Nat
    BY <1>1, Sized DEF ExInv, RepeatInv, Exporting, Repeats
  <2>4. /\ Repeats' = Len(written) + 1 - Cardinality(W \cup {r})
        /\ Allowed' = Allowed /\ Range(written') \cap B = (W \cup {r}) \cap B
    <3> DEFINE V == W \cup {r}
    <3>1. Range(written') = V /\ Len(written') = Len(written) + 1
      BY <1>4
    <3>2. Allowed' = Allowed
      BY <1>1 DEF Allowed
    <3>3. Repeats' = Len(written') - Cardinality(Range(written'))
      BY DEF Repeats
    <3> HIDE DEF W, B, V
    <3>4. Cardinality(Range(written')) = Cardinality(V)
      BY <3>1
    <3>5. Cardinality(V) \in Nat
      BY <2>2, FS_AddElement DEF V
    <3> DEFINE v == Cardinality(Range(written'))
               n == Len(written')
    <3>6. /\ Repeats' = n - v /\ v = Cardinality(V) /\ v \in Nat
          /\ n = Len(written) + 1
      BY <3>1, <3>3, <3>4, <3>5
    <3> HIDE DEF v, n
    <3>7. Repeats' = Len(written) + 1 - v
      BY <1>2, <3>6
    <3>8. Repeats' = Len(written) + 1 - Cardinality(V)
      BY <3>6, <3>7
    <3>9. Range(written') \cap B = V \cap B
      BY <3>1
    <3> QED
      BY <3>2, <3>8, <3>9 DEF V
  <2> HIDE DEF W, A, B
  <2>5. (W \cup {r}) \cap B = W \cap B
    BY <2>1
  <2>6. /\ Cardinality(W \cup {r}) \in Nat
        /\ Cardinality(W \cup {r}) - Cardinality(W \cap B) =
              Cardinality(W) + 1 - Cardinality(W \cap A)
        /\ Cardinality(W \cap A) \in Nat
    <3>1. CASE r \in W
      <4>1. /\ W \cup {r} = W /\ W \cap A = (W \cap B) \cup {r}
            /\ r \notin W \cap B
        BY <2>1, <3>1
      <4>2. Cardinality(W \cap A) = Cardinality(W \cap B) + 1
        BY <2>2, <4>1, FS_AddElement
      <4>3. Cardinality(W \cup {r}) = Cardinality(W)
        BY <4>1
      <4> QED
        BY <2>2, <4>2, <4>3
    <3>2. CASE r \notin W
      <4>1. W \cap A = W \cap B
        BY <2>1, <3>2
      <4>2. Cardinality(W \cup {r}) = Cardinality(W) + 1
        BY <2>2, <3>2, FS_AddElement
      <4>3. Cardinality(W \cap A) = Cardinality(W \cap B)
        BY <4>1
      <4> QED
        BY <2>2, <4>2, <4>3
    <3> QED
      BY <3>1, <3>2
  <2>7. Repeats' + Cardinality(W \cap B) <= Allowed /\ Repeats' <= Allowed
    <3> DEFINE v == Cardinality(W \cup {r})
               w == Cardinality(W)
               x == Cardinality(W \cap A)
               y == Cardinality(W \cap B)
               n == Len(written)
    <3>1. /\ v \in Nat /\ w \in Nat /\ x \in Nat /\ y \in Nat /\ n \in Nat
          /\ v - y = w + 1 - x /\ n - w + x <= Allowed /\ Allowed \in Nat
          /\ Repeats' = n + 1 - v
      BY <1>2, <2>2, <2>3, <2>4, <2>6
    <3> HIDE DEF v, w, x, y, n
    <3>2. Repeats' + y <= Allowed /\ Repeats' <= Allowed
      BY <3>1
    <3> QED
      BY <3>2 DEF y
  <2>8. Cardinality(Range(written') \cap Ahead') = Cardinality(W \cap B)
    BY <2>4, <2>5 DEF B
  <2> QED
    BY <2>4, <2>7, <2>8 DEF RepeatInv
<1> QED
  BY <1>6, <1>7, <1>8, <1>9, <1>10 DEF ExInv

\* A page is over.  A page that is not full ends the export, and nothing of
\* the table is behind it; after a full one the next page begins where it
\* ended.
LEMMA EndPageStep ==
    ASSUME ExInv, EndPage
    PROVE  ExInv'
<1>1. /\ phase = "write" /\ page = <<>> /\ conn' = FALSE
      /\ IF kind = "whole" \/ got < Page
            THEN phase' = "done" /\ UNCHANGED offset
            ELSE phase' = "read" /\ offset' = offset + Page
      /\ UNCHANGED <<kind, table, page, got, written>>
      /\ UNCHANGED <<stayed, added, removed, moved>>
  BY DEF EndPage, history
<1>2. /\ kind \in {"list", "direct", "whole"} /\ table \in Seq(Given)
      /\ IsInjective(table) /\ Len(table) \in Nat /\ Len(table) <= MaxId
      /\ MaxId \in Nat /\ Seen \in Nat /\ stayed \subseteq Ids
      /\ Len(written) \in Nat /\ offset \in Nat /\ got \in Nat
  BY Known
<1>3. Page \in Nat /\ Page > 0
  BY ExportAssumption
<1>4. Range(page) = {} /\ Taken = Range(written) /\ Seen = offset + got
  BY <1>1, NoRows DEF Taken, Seen
<1>5. Shape'
  BY <1>1 DEF ExInv, Shape, Given
<1>6. ASSUME offset' \in 0 .. MaxId, phase' \in {"read", "done"}
      PROVE  TypeOK'
  <2>1. /\ kind' \in Kinds /\ conn' \in BOOLEAN /\ IsInjective(table')
        /\ got' \in 0 .. MaxId
        /\ stayed' \subseteq Ids'
        /\ added' \in 0 .. MaxAdded /\ removed' \in Nat
        /\ moved' \in 0 .. MaxMoved
    BY <1>1, Known DEF ExInv, TypeOK, Ids
  <2> QED
    BY <1>1, <1>5, <1>6, <2>1, TypedNext DEF Typing
<1>7. CASE kind = "whole" \/ got < Page
  <2>1. phase' = "done" /\ offset' = offset
    BY <1>1, <1>7
  <2>2. TypeOK'
    BY <1>6, <2>1 DEF ExInv, TypeOK
  <2>3. Fetched'
    BY <1>1, <2>1 DEF ExInv, Fetched
  <2>4. MissInv'
    <3>1. ASSUME kind = "whole" PROVE Cardinality(stayed \ Range(written)) <= 0
      <4>1. Ids \subseteq Taken
        BY <1>1, <3>1 DEF ExInv, Fetched
      <4>2. stayed \ Range(written) = {}
        BY <1>2, <1>4, <4>1
      <4> QED
        BY <4>2, FS_EmptySet
    <3>2. ASSUME kind = "direct"
          PROVE  Cardinality(stayed \ Range(written)) <= removed
      <4>1. Seen >= Len(table)
        BY <1>1, <1>7, <3>2 DEF ExInv, Fetched
      <4>2. Upto(table, Seen) = Ids
        BY <1>2, <4>1, Apart DEF Ids
      <4>3. Missed = stayed \ Range(written)
        BY <1>2, <1>4, <4>2 DEF Missed
      <4> QED
        BY <1>1, <3>2, <4>3 DEF ExInv, MissInv, Exporting
    <3> QED
      BY <1>1, <1>2, <2>1, <3>1, <3>2 DEF MissInv, MissesBounded, Exporting
  <2>5. RepeatInv'
    BY <1>1, <2>1 DEF ExInv, RepeatInv, Repeats, Allowed, Exporting
  <2> QED
    BY <1>5, <2>2, <2>3, <2>4, <2>5 DEF ExInv
<1>8. CASE ~(kind = "whole" \/ got < Page)
  <2>1. phase' = "read" /\ offset' = offset + Page
    BY <1>1, <1>8
  <2>2. kind = "direct" /\ got = Page /\ Seen <= Len(table)
    BY <1>1, <1>2, <1>3, <1>8 DEF ExInv, Fetched
  <2>3. offset' = Seen /\ Seen' = Seen
    BY <1>2, <1>4, <2>1, <2>2 DEF Seen
  <2>4. TypeOK'
    BY <1>2, <1>6, <2>1, <2>2, <2>3
  <2>5. Missed' = Missed /\ Ahead' = Ahead
    BY <1>1, <2>3 DEF Missed, Taken, Ahead
  <2>6. Fetched'
    BY <1>1, <2>1, <2>2 DEF ExInv, Fetched
  <2>7. MissInv'
    BY <1>1, <2>1, <2>5 DEF ExInv, MissInv, MissesBounded, Exporting
  <2>8. RepeatInv'
    BY <1>1, <2>1, <2>5 DEF ExInv, RepeatInv, Repeats, Allowed, Exporting
  <2> QED
    BY <1>5, <2>4, <2>6, <2>7, <2>8 DEF ExInv
<1> QED
  BY <1>7, <1>8

\* The export fails and lets the connection go.
LEMMA FailStep ==
    ASSUME ExInv, Fail
    PROVE  ExInv'
<1>1. /\ phase \in {"read", "write"} /\ phase' = "failed" /\ conn' = FALSE
      /\ page' = <<>> /\ UNCHANGED <<kind, table, offset, got, written>>
      /\ UNCHANGED <<stayed, added, removed, moved>>
  BY DEF Fail, history
<1>2. Shape'
  BY <1>1, NoRows DEF ExInv, Shape, Given
<1>3. TypeOK'
  <2>1. /\ kind' \in Kinds /\ conn' \in BOOLEAN /\ IsInjective(table')
        /\ offset' \in 0 .. MaxId /\ got' \in 0 .. MaxId
        /\ stayed' \subseteq Ids'
        /\ added' \in 0 .. MaxAdded /\ removed' \in Nat
        /\ moved' \in 0 .. MaxMoved
    BY <1>1, Known DEF ExInv, TypeOK, Ids
  <2> QED
    BY <1>1, <1>2, <2>1, TypedNext DEF Typing
<1>4. Fetched'
  BY <1>1, NoRows DEF ExInv, Fetched
<1>5. MissInv'
  BY <1>1 DEF MissInv, MissesBounded, Exporting
<1>6. RepeatInv'
  BY <1>1 DEF ExInv, RepeatInv, Repeats, Allowed, Exporting
<1> QED
  BY <1>2, <1>3, <1>4, <1>5, <1>6 DEF ExInv

\* A sequence of some ids is one of more ids.
LEMMA SeqWider ==
    ASSUME NEW S, NEW T, S \subseteq T, NEW s \in Seq(S)
    PROVE  s \in Seq(T)
<1>1. s \in [1 .. Len(s) -> S] /\ Len(s) \in Nat
  BY LenProperties
<1>2. s \in [1 .. Len(s) -> T]
  BY <1>1
<1> QED
  BY <1>1, <1>2, SeqDef

\* Another request adds a row.  It is not one that stayed; the row it moves
\* behind the place reached may be written again.
LEMMA CreateStep ==
    ASSUME ExInv, Create
    PROVE  ExInv'
<1> DEFINE e == MaxRows + added + 1
           t == table'
<1>1. /\ phase \in {"read", "write"} /\ conn = FALSE /\ added < MaxAdded
      /\ added' = added + 1
      /\ UNCHANGED <<kind, conn, phase, offset, page, got, written>>
      /\ UNCHANGED <<stayed, removed, moved>>
  BY DEF Create, Exporting, export, ExInv, TypeOK
<1>2. PICK k \in 1 .. Len(table) + 1 : t = InsertAt(table, k, e)
  BY DEF Create
<1>3. /\ table \in Seq(Given) /\ page \in Seq(Given) /\ written \in Seq(Given)
      /\ IsInjective(table) /\ Len(table) \in Nat /\ stayed \subseteq Ids
      /\ Range(written) \subseteq Given /\ Ids \subseteq Given /\ Seen \in Nat
      /\ MaxRows + added \in Nat /\ added \in 0 .. MaxAdded
      /\ Len(table) + removed <= MaxRows + added /\ removed \in Nat
  BY Known
<1>4. /\ added \in Nat /\ MaxAdded \in Nat /\ MaxRows \in Nat
      /\ added' \in 0 .. MaxAdded /\ MaxRows + added' = MaxRows + added + 1
  BY <1>1, <1>3, ExportAssumption
<1>5. Given' = Given \cup {e} /\ e \notin Given
  <2> DEFINE M == MaxRows + added
  <2>1. M \in Nat /\ e = M + 1 /\ MaxRows + added' = M + 1
    BY <1>3, <1>4
  <2>2. Given = 1 .. M /\ Given' = 1 .. MaxRows + added'
    BY DEF Given
  <2> HIDE DEF M, e
  <2>3. Given' = 1 .. M + 1
    BY <2>1, <2>2
  <2>4. 1 .. M + 1 = (1 .. M) \cup {M + 1} /\ M + 1 \notin 1 .. M
    BY <2>1
  <2> QED
    BY <2>1, <2>2, <2>3, <2>4
<1> HIDE DEF e, t
<1>6. /\ t \in Seq(Given') /\ Len(t) = Len(table) + 1 /\ IsInjective(t)
      /\ Range(t) = Ids \cup {e}
      /\ Upto(t, Seen) \subseteq Upto(table, Seen) \cup {e}
      /\ Beyond(t, Seen) \subseteq Beyond(table, Seen) \cup {e, table[Seen]}
  <2> DEFINE S == Given'
  <2>1. table \in Seq(S) /\ e \in S /\ e \notin Range(table)
    BY <1>3, <1>5, SeqWider DEF Ids
  <2> HIDE DEF S
  <2>2. /\ t \in Seq(S) /\ Len(t) = Len(table) + 1 /\ IsInjective(t)
        /\ Range(t) = Range(table) \cup {e}
        /\ \A n \in Nat :
              /\ Upto(t, n) \subseteq Upto(table, n) \cup {e}
              /\ Beyond(t, n) \subseteq Beyond(table, n) \cup {e, table[n]}
    BY <1>2, <1>3, <2>1, InsertedRows, SMTT(60)
  <2> QED
    BY <1>3, <2>2 DEF S, Ids
<1>7. table' = t /\ Ids' = Ids \cup {e}
  BY <1>6 DEF t, Ids
<1>8. Shape'
  <2>1. page' \in Seq(Given') /\ written' \in Seq(Given')
    BY <1>1, <1>3, <1>5, SeqWider
  <2>2. Len(table') + removed' <= MaxRows + added'
    BY <1>1, <1>3, <1>4, <1>6, <1>7
  <2> QED
    BY <1>6, <1>7, <2>1, <2>2 DEF Shape
<1>9. TypeOK'
  <2>1. /\ kind' \in Kinds /\ conn' \in BOOLEAN
        /\ phase' \in {"idle", "read", "write", "done", "failed"}
        /\ offset' \in 0 .. MaxId /\ got' \in 0 .. MaxId
        /\ removed' \in Nat /\ moved' \in 0 .. MaxMoved
    BY <1>1, <1>3, Known DEF ExInv, TypeOK
  <2>2. stayed' \subseteq Ids' /\ IsInjective(table')
    BY <1>1, <1>3, <1>6, <1>7
  <2> QED
    BY <1>4, <1>8, <2>1, <2>2, TypedNext DEF Typing
<1>10. Fetched'
  <2>1. phase = "write" => kind = "list" /\ got < Page
    BY <1>1 DEF ExInv, Fetched
  <2> QED
    BY <1>1, <2>1 DEF ExInv, Fetched
<1>11. Seen' = Seen /\ Taken' = Taken
  BY <1>1 DEF Seen, Taken
<1>12. MissInv'
  <2>1. ASSUME kind = "direct" PROVE Cardinality(Missed') <= removed
    <3>1. Missed' \subseteq Missed
      BY <1>1, <1>3, <1>5, <1>6, <1>7, <1>11 DEF Missed
    <3>2. Cardinality(Missed) <= removed
      BY <1>1, <2>1 DEF ExInv, MissInv, Exporting
    <3>3. /\ Cardinality(Missed') \in Nat /\ Cardinality(Missed) \in Nat
          /\ Cardinality(Missed') <= Cardinality(Missed)
      BY <3>1, Sized
    <3> QED
      BY <1>3, <3>2, <3>3
  <2> QED
    BY <1>1, <2>1 DEF MissInv, MissesBounded
<1>13. RepeatInv'
  <2> DEFINE A == Range(written) \cap Ahead
             B == Range(written') \cap Ahead'
  <2>1. Repeats' = Repeats
    BY <1>1 DEF Repeats
  <2>2. Repeats + Cardinality(A) <= Allowed /\ Repeats <= Allowed
    BY <1>1 DEF ExInv, RepeatInv, Exporting
  <2>3. CASE kind = "direct"
    <3>1. Ahead' \subseteq Ahead \cup {e, table[Seen]}
      BY <1>1, <1>6, <1>7, <1>11, <2>3 DEF Ahead
    <3>2. e \notin Range(written)
      BY <1>3, <1>5
    <3>3. B \subseteq A \cup {table[Seen]}
      BY <1>1, <3>1, <3>2
    <3>4. /\ Cardinality(A) \in Nat /\ Cardinality(B) \in Nat
          /\ Cardinality(B) <= Cardinality(A) + 1
          /\ Repeats \in Int /\ Allowed \in Nat
      BY <3>3, Sized
    <3>5. Allowed' = Allowed + 1
      BY <1>1, <2>3 DEF Allowed
    <3> HIDE DEF A, B
    <3>6. Repeats' + Cardinality(B) <= Allowed' /\ Repeats' <= Allowed'
      BY <2>1, <2>2, <3>4, <3>5
    <3> QED
      BY <3>6 DEF B, RepeatInv
  <2>4. CASE kind # "direct"
    <3>1. Ahead' = Ahead /\ Allowed' = Allowed
      BY <1>1, <2>4 DEF Ahead, Allowed
    <3>2. B = A
      BY <1>1, <3>1
    <3> QED
      BY <1>1, <2>1, <2>2, <3>1, <3>2 DEF RepeatInv
  <2> QED
    BY <2>3, <2>4
<1> QED
  BY <1>8, <1>9, <1>10, <1>12, <1>13 DEF ExInv

\* Another request deletes a row.  The row that moves up to the place reached
\* may be missed.
LEMMA DeleteStep ==
    ASSUME ExInv, Delete
    PROVE  ExInv'
<1> DEFINE t == table'
<1>1. /\ phase \in {"read", "write"} /\ conn = FALSE /\ removed' = removed + 1
      /\ UNCHANGED <<kind, conn, phase, offset, page, got, written>>
      /\ UNCHANGED <<added, moved>>
  BY DEF Delete, Exporting, export, ExInv, TypeOK
<1>2. PICK k \in 1 .. Len(table) : /\ t = RemoveAt(table, k)
                                   /\ stayed' = stayed \ {table[k]}
  BY DEF Delete
<1>3. /\ table \in Seq(Given) /\ IsInjective(table) /\ Len(table) \in Nat
      /\ stayed \subseteq Ids /\ Seen \in Nat /\ MaxRows + added \in Nat
      /\ Len(table) + removed <= MaxRows + added /\ removed \in Nat
  BY Known
<1>4. Given' = Given
  BY <1>1 DEF Given
<1> HIDE DEF t
<1>5. /\ t \in Seq(Given) /\ Len(t) = Len(table) - 1 /\ IsInjective(t)
      /\ Range(t) = Ids \ {table[k]}
      /\ Upto(t, Seen) \subseteq Upto(table, Seen) \cup {table[Seen + 1]}
      /\ Beyond(t, Seen) \subseteq Beyond(table, Seen)
  <2>1. /\ t \in Seq(Given) /\ Len(t) = Len(table) - 1 /\ IsInjective(t)
        /\ Range(t) = Range(table) \ {table[k]}
        /\ \A n \in Nat :
              /\ Upto(t, n) \subseteq Upto(table, n) \cup {table[n + 1]}
              /\ Beyond(t, n) \subseteq Beyond(table, n)
    BY <1>2, <1>3, RemovedRows, SMTT(60)
  <2> QED
    BY <1>3, <2>1 DEF Ids
<1>6. table' = t /\ Ids' = Ids \ {table[k]}
  BY <1>5 DEF t, Ids
<1>7. Shape'
  <2>1. Len(table') + removed' <= MaxRows + added'
    BY <1>1, <1>3, <1>5, <1>6
  <2> QED
    BY <1>1, <1>4, <1>5, <1>6, <2>1 DEF ExInv, Shape
<1>8. TypeOK'
  <2>1. /\ kind' \in Kinds /\ conn' \in BOOLEAN
        /\ phase' \in {"idle", "read", "write", "done", "failed"}
        /\ offset' \in 0 .. MaxId /\ got' \in 0 .. MaxId
        /\ removed' \in Nat /\ added' \in 0 .. MaxAdded
        /\ moved' \in 0 .. MaxMoved
    BY <1>1, <1>3, Known DEF ExInv, TypeOK
  <2>2. stayed' \subseteq Ids' /\ IsInjective(table')
    BY <1>2, <1>3, <1>5, <1>6
  <2> QED
    BY <1>7, <2>1, <2>2, TypedNext DEF Typing
<1>9. Fetched'
  <2>1. phase = "write" => kind = "list" /\ got < Page
    BY <1>1 DEF ExInv, Fetched
  <2> QED
    BY <1>1, <2>1 DEF ExInv, Fetched
<1>10. Seen' = Seen /\ Taken' = Taken
  BY <1>1 DEF Seen, Taken
<1>11. MissInv'
  <2>1. ASSUME kind = "direct" PROVE Cardinality(Missed') <= removed'
    <3>1. Missed' \subseteq Missed \cup {table[Seen + 1]}
      BY <1>2, <1>5, <1>6, <1>10 DEF Missed
    <3>2. Cardinality(Missed) <= removed
      BY <1>1, <2>1 DEF ExInv, MissInv, Exporting
    <3>3. /\ Cardinality(Missed') \in Nat /\ Cardinality(Missed) \in Nat
          /\ Cardinality(Missed') <= Cardinality(Missed) + 1
      BY <3>1, Sized
    <3> QED
      BY <1>1, <1>3, <3>2, <3>3
  <2> QED
    BY <1>1, <2>1 DEF MissInv, MissesBounded
<1>12. RepeatInv'
  <2> DEFINE A == Range(written) \cap Ahead
             B == Range(written') \cap Ahead'
  <2>1. Repeats' = Repeats /\ Allowed' = Allowed
    BY <1>1 DEF Repeats, Allowed
  <2>2. Repeats + Cardinality(A) <= Allowed /\ Repeats <= Allowed
    BY <1>1 DEF ExInv, RepeatInv, Exporting
  <2>3. Ahead' \subseteq Ahead
    BY <1>1, <1>5, <1>6, <1>10 DEF Ahead
  <2>4. B \subseteq A
    BY <1>1, <2>3
  <2>5. /\ Cardinality(A) \in Nat /\ Cardinality(B) \in Nat
        /\ Cardinality(B) <= Cardinality(A)
        /\ Repeats \in Int /\ Allowed \in Nat
    BY <2>4, Sized
  <2> HIDE DEF A, B
  <2>6. Repeats' + Cardinality(B) <= Allowed' /\ Repeats' <= Allowed'
    BY <2>1, <2>2, <2>5
  <2> QED
    BY <2>6 DEF B, RepeatInv
<1> QED
  BY <1>7, <1>8, <1>9, <1>11, <1>12 DEF ExInv

\* Another request moves a row, which an export that goes by places of the
\* table never sees: a list has its page, and the whole table is read at once.
LEMMA UpdateStep ==
    ASSUME ExInv, Update
    PROVE  ExInv'
<1> DEFINE t == table'
<1>1. /\ phase \in {"read", "write"} /\ conn = FALSE /\ kind # "direct"
      /\ moved < MaxMoved /\ moved' = moved + 1
      /\ UNCHANGED <<kind, conn, phase, offset, page, got, written>>
      /\ UNCHANGED <<stayed, added, removed>>
  BY DEF Update, Exporting, export, ExInv, TypeOK
<1>2. PICK k, l \in 1 .. Len(table) :
             t = InsertAt(RemoveAt(table, k), l, table[k])
  BY DEF Update
<1>3. /\ table \in Seq(Given) /\ IsInjective(table) /\ stayed \subseteq Ids
      /\ moved \in 0 .. MaxMoved
  BY Known
<1>4. Given' = Given
  BY <1>1 DEF Given
<1> HIDE DEF t
<1>5. /\ t \in Seq(Given) /\ Len(t) = Len(table) /\ IsInjective(t)
      /\ Range(t) = Range(table)
  BY <1>2, <1>3, MovedRows, SMTT(60)
<1>6. table' = t /\ Ids' = Ids
  BY <1>5 DEF t, Ids
<1>7. Shape'
  BY <1>1, <1>4, <1>5, <1>6 DEF ExInv, Shape
<1>8. TypeOK'
  <2>1. /\ kind' \in Kinds /\ conn' \in BOOLEAN
        /\ phase' \in {"idle", "read", "write", "done", "failed"}
        /\ offset' \in 0 .. MaxId /\ got' \in 0 .. MaxId
        /\ removed' \in Nat /\ added' \in 0 .. MaxAdded
    BY <1>1, Known DEF ExInv, TypeOK
  <2>2. moved' \in 0 .. MaxMoved
    BY <1>1, <1>3, ExportAssumption
  <2>3. stayed' \subseteq Ids' /\ IsInjective(table')
    BY <1>1, <1>3, <1>5, <1>6
  <2> QED
    BY <1>7, <2>1, <2>2, <2>3, TypedNext DEF Typing
<1>9. Fetched'
  <2>1. phase = "write" => kind = "list" /\ got < Page
    BY <1>1 DEF ExInv, Fetched
  <2> QED
    BY <1>1, <2>1 DEF ExInv, Fetched
<1>10. MissInv'
  BY <1>1 DEF MissInv, MissesBounded, Exporting
<1>11. RepeatInv'
  <2>1. Repeats' = Repeats /\ Allowed' = Allowed /\ Ahead' = Ahead
    BY <1>1 DEF Repeats, Allowed, Ahead
  <2> QED
    BY <1>1, <2>1 DEF ExInv, RepeatInv, Exporting
<1> QED
  BY <1>7, <1>8, <1>9, <1>10, <1>11 DEF ExInv

-----------------------------------------------------------------------------
(* The invariant and what follows from it. *)

LEMMA Inductive ==
    ASSUME ExInv, [Next]_vars
    PROVE  ExInv'
<1>1. CASE Start
  BY <1>1, StartStep
<1>2. CASE ReadPage
  BY <1>2, ReadPageStep
<1>3. CASE WriteRow
  BY <1>3, WriteRowStep
<1>4. CASE EndPage
  BY <1>4, EndPageStep
<1>5. CASE Fail
  BY <1>5, FailStep
<1>6. CASE Create
  BY <1>6, CreateStep
<1>7. CASE Delete
  BY <1>7, DeleteStep
<1>8. CASE Update
  BY <1>8, UpdateStep
<1>9. CASE UNCHANGED vars
  <2>1. /\ UNCHANGED <<kind, table, conn, phase, offset, page, got, written>>
        /\ UNCHANGED <<stayed, added, removed, moved>>
    BY <1>9 DEF vars, export, history
  <2>2. TypeOK' /\ Shape'
    BY <2>1 DEF ExInv, TypeOK, Shape, Ids, Given
  <2>3. Fetched'
    BY <2>1 DEF ExInv, Fetched, Seen, Ids, Taken
  <2>4. MissInv' /\ RepeatInv'
    <3>1. Missed' = Missed /\ Ahead' = Ahead
      BY <2>1 DEF Missed, Ahead, Seen, Taken
    <3> QED
      BY <2>1, <3>1
         DEF ExInv, MissInv, MissesBounded, RepeatInv, Repeats, Allowed,
             Exporting
  <2> QED
    BY <2>2, <2>3, <2>4 DEF ExInv
<1> QED
  BY <1>1, <1>2, <1>3, <1>4, <1>5, <1>6, <1>7, <1>8, <1>9 DEF Next, StreamRows

\* Every reachable state of an export, and of the table it reads, satisfies
\* the invariant.
LEMMA ExInvariant ==
    Spec => []ExInv
<1>1. ExInv /\ [Next]_vars => ExInv'
  BY Inductive
<1> QED
  BY InitExInv, <1>1, PTL DEF Spec

\* The variables keep their shape; no row is in the table twice, and an export
\* never asks for a page beyond the end of the longest table there can be.
THEOREM TypeCorrect ==
    Spec => []TypeOK
<1>1. ExInv => TypeOK
  BY DEF ExInv
<1> QED
  BY ExInvariant, <1>1, PTL

\* StreamRows holds the pool's one connection only while it writes the rows of
\* an open result set: on every path out of it, and between two pages, the
\* other requests can go on.
THEOREM ConnectionFreed ==
    Spec => []ConnHeldWhileWriting
<1>1. ExInv => ConnHeldWhileWriting
  BY DEF ExInv, Fetched, ConnHeldWhileWriting
<1> QED
  BY ExInvariant, <1>1, PTL

\* Paging by OFFSET without a transaction, the export misses at most as many
\* of the rows that were there all the time as others deleted meanwhile; one
\* SELECT misses none.
THEOREM MissesAreDeletions ==
    Spec => []MissesBounded
<1>1. ExInv => MissesBounded
  BY DEF ExInv, MissInv
<1> QED
  BY ExInvariant, <1>1, PTL

\* ... and it writes at most as many rows a second time as others added.
THEOREM RepeatsAreInsertions ==
    Spec => []RepeatsBounded
<1>1. ExInv => RepeatsBounded
  BY DEF ExInv, RepeatInv, RepeatsBounded, Repeats, Allowed
<1> QED
  BY ExInvariant, <1>1, PTL

\* export.go:12 has an exporter write each row: the exports that do not page
\* through List do, when nobody else writes.  List's own page size is what
\* the others fail by.
THEOREM EachRowWritten ==
    ASSUME "list" \notin Kinds
    PROVE  Spec => []ExportWritesEachRow
<1>1. ExInv => ExportWritesEachRow
  <2> SUFFICES ASSUME ExInv, phase = "done", added + removed + moved = 0
               PROVE  stayed \subseteq Range(written)
    BY DEF ExportWritesEachRow
  <2> DEFINE A == stayed \ Range(written)
  <2>1. /\ kind # "list" /\ removed \in Nat /\ added \in 0 .. MaxAdded
        /\ moved \in 0 .. MaxMoved /\ stayed \subseteq Given
    BY Known
  <2>2. removed = 0
    BY <2>1, ExportAssumption
  <2>3. Cardinality(A) <= 0
    BY <2>1, <2>2 DEF ExInv, MissInv, MissesBounded
  <2>4. A \subseteq Given
    BY <2>1
  <2> HIDE DEF A
  <2>5. IsFiniteSet(A) /\ Cardinality(A) = 0
    BY <2>3, <2>4, Sized
  <2>6. A = {}
    BY <2>5, FS_EmptySet
  <2> QED
    BY <2>6 DEF A
<1> QED
  BY ExInvariant, <1>1, PTL
=============================================================================

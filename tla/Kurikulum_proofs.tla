-------------------------- MODULE Kurikulum_proofs --------------------------
(***************************************************************************)
(* Proofs about the curriculum screen, for any number of age groups, of    *)
(* materi and of writes: its settled page shows what is stored, and a      *)
(* materi opened in the chosen age group is never saved into another one.  *)
(***************************************************************************)
EXTENDS Kurikulum, TLAPS

\* There is a fetch, or none under way, for each query; KurTypeOK says the rest.
KurFetchesOK == DOMAIN fetches = Queries

\* An id in use was given once; ids that are gone do not come back.
KurIdsGiven ==
    /\ live.set \subseteq used
    /\ \A m \in Items : /\ home[m] \in live.set \cup {"none"}
                        /\ home[m] # "none" => m \in used

\* What the page has heard of was given.
KurHeardGiven ==
    /\ list.order.set \subseteq used
    /\ fetches["list"].phase = "read" =>
           fetches["list"].data.set \subseteq used
    /\ picked # "none" => picked \in used
    /\ \A g \in AgeGroups :
          /\ rows[g].set \subseteq used
          /\ fetches[g].phase = "read" => fetches[g].data \subseteq used
          /\ g \notin used => fetches[g].phase = "none" /\ ~rows[g].known
    /\ dialogs.ma \in Items => dialogs.ma \in used
    /\ saves["saveMa"].phase = "sent" /\ saves["saveMa"].id \in Items =>
          saves["saveMa"].id \in used

\* A write that was executed and whose answer is still to come concerns q.
KurPending(q) == \E k \in Ops : saves[k].phase = "done" /\ q \in Concerned(k)

\* Entries that may lack a write, of others or of this page.
KurBehind == stale \cup overtaken

\* An entry that lacks no write: what was read for it, or what came, is what
\* is there. Of an age group that is gone nothing is said.
KurFresh(q) ==
    /\ q \notin KurBehind /\ ~KurPending(q)
    /\ q # "list" => q \in live.set
    => /\ fetches[q].phase = "read" => fetches[q].data = Content(q)
       /\ fetches[q].phase = "none" /\ Known(q) =>
             Content(q) = IF q = "list" THEN list.order ELSE rows[q].set

\* The materi the page shows came, are under way, or failed to come.
KurWatched ==
    Here \in AgeGroups =>
        fetches[Here].phase # "none" \/ rows[Here].known \/ Here \in stale

\* Lists that come later have every age group of an earlier one that is
\* still there; so the chosen age group leaves the list only when it is gone.
KurListsAgree ==
    /\ fetches["list"].phase = "read" =>
          list.order.set \cap live.set \subseteq fetches["list"].data.set
    /\ picked \in live.set => picked \in list.order.set

\* Wherever the page has heard of a materi, in the list of an age group, in
\* the form or in a save, it belongs to that age group or is gone.
KurInPlace(m) ==
    /\ \A g \in AgeGroups :
          /\ m \in rows[g].set => home[m] \in {g, "none"}
          /\ fetches[g].phase = "read" /\ m \in fetches[g].data =>
                home[m] \in {g, "none"}
    /\ dialogs.ma = m => home[m] \in {picked, "none"}
    /\ saves["saveMa"].phase = "sent" /\ saves["saveMa"].id = m =>
          home[m] \in {saves["saveMa"].to, "none"}

KurIInv ==
    /\ KurTypeOK /\ KurFetchesOK
    /\ KurIdsGiven /\ KurHeardGiven
    /\ \A q \in Queries : KurFresh(q)
    /\ KurWatched
    /\ KurListsAgree
    /\ ~astray => \A m \in Items : KurInPlace(m)

USE DEF KurBehind

-----------------------------------------------------------------------------
\* The names of queries, ids and null are different.
LEMMA KurNames ==
    /\ "list" \in Queries /\ AgeGroups \subseteq Queries
    /\ \A g \in AgeGroups : g # "list" /\ g # "none" /\ g # "new"
    /\ \A m \in Items : m # "list" /\ m # "none" /\ m # "new"
    /\ \A m \in Items : m \notin AgeGroups
  BY KurAssumption DEF Queries

\* An order is a set of age groups and its first, if any.
LEMMA KurOrders ==
    ASSUME NEW o \in Orders
    PROVE  /\ o.set \subseteq AgeGroups
           /\ o.first \in AgeGroups \cup {"none"}
           /\ o.first \in AgeGroups => o.first \in o.set
  BY KurNames DEF Orders

\* The page shows an age group of its list, the chosen one when it is there.
LEMMA KurHere ==
    ASSUME NEW l \in Orders, NEW p \in AgeGroups \cup {"none"},
           NEW shown, shown = Current([known |-> TRUE, order |-> l], p)
    PROVE  /\ shown \in AgeGroups \cup {"none"}
           /\ shown \in AgeGroups => shown \in l.set
           /\ p \in l.set => shown = p
  BY KurOrders, KurNames DEF Current

\* The same of what it shows now.
LEMMA KurHereNow ==
    ASSUME KurTypeOK
    PROVE  /\ Here \in AgeGroups \cup {"none"}
           /\ Here \in AgeGroups => Here \in list.order.set
           /\ picked \in list.order.set => Here = picked
<1>1. list.order \in Orders /\ picked \in AgeGroups \cup {"none"}
  BY DEF KurTypeOK, Lists
<1> QED
  BY <1>1, KurOrders, KurNames DEF Here, Current

\* What a query is asked for has its type.
LEMMA KurContent ==
    ASSUME KurTypeOK, NEW q \in Queries
    PROVE  Content(q) \in IF q = "list" THEN Orders ELSE SUBSET Items
  BY DEF Content, KurTypeOK

LEMMA KurNoFetch ==
    ASSUME NEW q \in Queries
    PROVE  /\ NoFetch(q).phase = "none" /\ Asked(q).phase = "asked"
           /\ NoFetch(q).data \in IF q = "list" THEN Orders ELSE SUBSET Items
           /\ Asked(q).data \in IF q = "list" THEN Orders ELSE SUBSET Items
  BY DEF NoFetch, Asked, NoGroups, Orders

-----------------------------------------------------------------------------
\* The page is opened with nothing on it but the list asked for.
LEMMA KurInitIInv == KurInit => KurIInv
<1> SUFFICES ASSUME KurInit PROVE KurIInv
  OBVIOUS
<1> USE KurNames
<1>0. NoGroups \in Orders
  BY DEF NoGroups, Orders
<1>1. PICK o \in Orders, h \in [Items -> AgeGroups \cup {"none"}] :
         /\ \A m \in Items : h[m] \in o.set \cup {"none"}
         /\ live = o /\ home = h
         /\ used = o.set \cup {m \in Items : h[m] # "none"}
  BY DEF KurInit
<1>2. o.set \subseteq AgeGroups
  BY KurOrders
<1>3. KurFetchesOK
  BY DEF KurInit, KurFetchesOK
<1>4. \A q \in Queries :
         /\ fetches[q].phase = IF q = "list" THEN "asked" ELSE "none"
         /\ fetches[q].data \in IF q = "list" THEN Orders ELSE SUBSET Items
  BY KurNoFetch DEF KurInit
<1>5. KurTypeOK
  <2>1. live \in Orders /\ home \in [Items -> AgeGroups \cup {"none"}]
        /\ used \subseteq AgeGroups \cup Items
    BY <1>1, <1>2
  <2>2. list \in Lists
    BY <1>0 DEF KurInit, Lists
  <2>3. rows \in [AgeGroups -> MateriLists]
    BY DEF KurInit, MateriLists
  <2>4. Rest \in [phase: {"idle", "sent", "counted", "done"},
                  id: AgeGroups \cup Items \cup {"none", "new"},
                  to: AgeGroups \cup {"none"}]
    BY DEF Rest
  <2>5. \A q \in Queries : fetches[q].phase \in {"none", "asked", "read"}
    BY <1>4
  <2>6. dialogs \in [groups: BOOLEAN, tk: AgeGroups \cup {"none", "new"},
                    ma: Items \cup {"none", "new"}]
    BY DEF KurInit
  <2>7. saves \in [Ops -> [phase: {"idle", "sent", "counted", "done"},
                          id: AgeGroups \cup Items \cup {"none", "new"},
                          to: AgeGroups \cup {"none"}]]
    BY <2>4 DEF KurInit
  <2>8. writes \in 0..MaxWrites /\ picked = "none"
        /\ stale = {} /\ overtaken = {} /\ ~astray
    BY KurAssumption DEF KurInit
  <2>9. astray \in BOOLEAN
    BY DEF KurInit
  <2> QED
    BY <1>4, <2>1, <2>2, <2>3, <2>5, <2>6, <2>7, <2>8, <2>9 DEF KurTypeOK
<1>6. KurIdsGiven
  BY <1>1 DEF KurIdsGiven
<1>7. KurHeardGiven
  BY <1>1, <1>4 DEF KurInit, KurHeardGiven, NoGroups, Rest, Ops
<1>8. ASSUME NEW q \in Queries PROVE KurFresh(q)
  BY <1>4 DEF KurInit, KurFresh, Known, Queries
<1>9. Here = "none"
  BY DEF KurInit, Here, Current, NoGroups
<1>10. KurWatched /\ KurListsAgree
  BY <1>4, <1>9, <1>2, <1>1
     DEF KurInit, KurWatched, KurListsAgree, NoGroups, Queries
<1>11. ASSUME NEW m \in Items PROVE KurInPlace(m)
  BY <1>4 DEF KurInit, KurInPlace, Rest, Ops
<1> QED
  BY <1>3, <1>5, <1>6, <1>7, <1>8, <1>10, <1>11 DEF KurIInv

-----------------------------------------------------------------------------
(* What a write does to the server. *)

\* The write of an age group or of a materi keeps the ids: what is new was
\* never given before, and an age group that is gone stays away.
KurServes ==
    /\ live' \in Orders
    /\ home' \in [Items -> AgeGroups \cup {"none"}]
    /\ used' \subseteq AgeGroups \cup Items /\ used \subseteq used'
    /\ KurIdsGiven'
    /\ live'.set \cap used \subseteq live.set

\* An age group is stored; no materi changes.
LEMMA KurGroupStored ==
    ASSUME KurIInv, NEW g \in AgeGroups, g \in live.set \/ g \notin used,
           live' \in WithGroup(g), used' = used \cup {g}, home' = home
    PROVE  KurServes /\ \A q \in Queries \ {"list"} : Content(q)' = Content(q)
<1>1. live' \in Orders /\ live'.set = live.set \cup {g}
  BY DEF WithGroup
<1>2. /\ live.set \subseteq used /\ used \subseteq AgeGroups \cup Items
      /\ home \in [Items -> AgeGroups \cup {"none"}]
  BY DEF KurIInv, KurTypeOK, KurIdsGiven
<1>3. KurIdsGiven'
  BY <1>1, <1>2 DEF KurIInv, KurIdsGiven
<1>4. KurServes
  BY <1>1, <1>2, <1>3 DEF KurServes
<1> QED
  BY <1>4 DEF Content

\* An age group is deleted with the materi that are in it.
LEMMA KurGroupDropped ==
    ASSUME KurIInv, NEW g, DropGroup(g)
    PROVE  /\ KurServes /\ g \notin live'.set
           /\ \A m \in Items : home'[m] \in {home[m], "none"}
           /\ \A q \in Queries \ {"list", g} : Content(q)' = Content(q)
<1> USE KurNames
<1>1. /\ live' \in Orders /\ live'.set = live.set \ {g} /\ g \in live.set
      /\ home' = [m \in Items |-> IF home[m] = g THEN "none" ELSE home[m]]
      /\ used' = used
  BY DEF DropGroup, WithoutGroup
<1>2. /\ live.set \subseteq used /\ used \subseteq AgeGroups \cup Items
      /\ home \in [Items -> AgeGroups \cup {"none"}]
  BY DEF KurIInv, KurTypeOK, KurIdsGiven
<1>3. \A m \in Items : home'[m] = IF home[m] = g THEN "none" ELSE home[m]
  BY <1>1
<1>4. KurIdsGiven'
  BY <1>1, <1>2, <1>3 DEF KurIInv, KurIdsGiven
<1>5. home' \in [Items -> AgeGroups \cup {"none"}]
  BY <1>1, <1>2
<1>6. KurServes
  BY <1>1, <1>2, <1>4, <1>5 DEF KurServes
<1>7. ASSUME NEW q \in Queries \ {"list", g} PROVE Content(q)' = Content(q)
  BY <1>3, <1>7 DEF Content, Queries
<1> QED
  BY <1>1, <1>3, <1>6, <1>7

\* A materi comes into an age group, or is deleted.
LEMMA KurMateriPut ==
    ASSUME KurIInv, NEW m \in Items, NEW g \in live.set \cup {"none"},
           home' = [home EXCEPT ![m] = g], live' = live,
           \/ used' = used \cup {m}
           \/ used' = used /\ home[m] # "none"
    PROVE  KurServes
<1>1. /\ live \in Orders /\ live.set \subseteq AgeGroups
      /\ home \in [Items -> AgeGroups \cup {"none"}]
      /\ used \subseteq AgeGroups \cup Items /\ live.set \subseteq used
      /\ home[m] # "none" => m \in used
  BY KurOrders DEF KurIInv, KurTypeOK, KurIdsGiven
<1>2. /\ \A n \in Items : home'[n] = IF n = m THEN g ELSE home[n]
      /\ home' \in [Items -> AgeGroups \cup {"none"}]
  BY <1>1
<1>3. KurIdsGiven'
  BY <1>1, <1>2 DEF KurIInv, KurIdsGiven
<1> QED
  BY <1>1, <1>2, <1>3 DEF KurServes

\* Nothing the page has heard of changes by a write, but what is deleted, if
\* the write moves no materi.
LEMMA KurServed ==
    ASSUME KurIInv, KurServes,
           UNCHANGED <<list, rows, fetches, picked, dialogs>>,
           stale \subseteq stale', astray => astray',
           \/ saves'["saveMa"].phase # "sent"
           \/ saves'["saveMa"] = saves["saveMa"],
           ~astray' => \A m \in Items \cap used : home'[m] \in {home[m], "none"}
    PROVE  /\ KurFetchesOK' /\ KurHeardGiven' /\ KurWatched' /\ KurListsAgree'
           /\ ~astray' => \A m \in Items : KurInPlace(m)'
<1> USE KurNames
<1>1. KurFetchesOK'
  BY DEF KurIInv, KurFetchesOK
<1>2. KurHeardGiven'
  BY DEF KurIInv, KurHeardGiven, KurServes
<1>3. KurWatched'
  BY DEF KurIInv, KurWatched, Here
<1>4. KurListsAgree'
  <2>1. /\ picked \in live'.set => picked \in live.set
        /\ list.order.set \cap live'.set \subseteq live.set
    <3>1. list.order \in Orders /\ picked \in AgeGroups \cup {"none"}
      BY DEF KurIInv, KurTypeOK, Lists
    <3>2. list.order.set \subseteq used /\ (picked # "none" => picked \in used)
      BY DEF KurIInv, KurHeardGiven
    <3>3. "none" \notin live'.set
      BY KurOrders DEF KurServes
    <3> QED
      BY <3>1, <3>2, <3>3 DEF KurServes
  <2> QED
    BY <2>1 DEF KurIInv, KurListsAgree
<1>5. ASSUME ~astray', NEW m \in Items PROVE KurInPlace(m)'
  <2>1. KurInPlace(m)
    BY <1>5 DEF KurIInv
  <2>2. CASE m \in used
    <3>1. home'[m] \in {home[m], "none"}
      BY <1>5, <2>2
    <3> QED
      BY <2>1, <3>1 DEF KurInPlace
  <2>3. CASE m \notin used
    BY <2>3 DEF KurIInv, KurHeardGiven, KurInPlace
  <2> QED
    BY <2>2, <2>3
<1> QED
  BY <1>1, <1>2, <1>3, <1>4, <1>5

\* What came of an entry stays true when its content does.
LEMMA KurFreshServed ==
    ASSUME KurIInv, KurServes, NEW q \in Queries,
           UNCHANGED <<list, rows, fetches>>,
           q \in KurBehind => q \in KurBehind',
           KurPending(q) => KurPending(q)',
           /\ q \notin KurBehind' /\ ~KurPending(q)'
           /\ q # "list" => q \in live'.set
           => Content(q)' = Content(q)
    PROVE  KurFresh(q)'
<1> SUFFICES ASSUME q \notin KurBehind', ~KurPending(q)',
                    q # "list" => q \in live'.set
             PROVE  /\ fetches[q].phase = "read" =>
                          fetches[q].data = Content(q)'
                    /\ fetches[q].phase = "none" /\ Known(q) =>
                          Content(q)' = IF q = "list" THEN list.order
                                        ELSE rows[q].set
  BY DEF KurFresh, Known
<1>1. Content(q)' = Content(q) /\ q \notin KurBehind /\ ~KurPending(q)
  OBVIOUS
<1>2. CASE q = "list" \/ q \in used
  <2>1. q # "list" => q \in live.set
    BY <1>2 DEF KurServes
  <2>2. KurFresh(q)
    BY DEF KurIInv
  <2> QED
    BY <1>1, <2>1, <2>2 DEF KurFresh
<1>3. CASE q # "list" /\ q \notin used
  BY <1>3 DEF KurIInv, KurHeardGiven, Known, Queries
<1> QED
  BY <1>2, <1>3

\* The mutation of a kind goes into another phase.
LEMMA KurSaveMoves ==
    ASSUME KurTypeOK, NEW k \in Ops,
           NEW p \in {"idle", "sent", "counted", "done"},
           saves' = [saves EXCEPT ![k].phase = p]
    PROVE  /\ saves' \in [Ops -> [phase: {"idle", "sent", "counted", "done"},
                                  id: AgeGroups \cup Items \cup {"none", "new"},
                                  to: AgeGroups \cup {"none"}]]
           /\ saves'[k].phase = p
           /\ \A j \in Ops \ {k} : saves'[j] = saves[j]
<1>1. saves \in [Ops -> [phase: {"idle", "sent", "counted", "done"},
                         id: AgeGroups \cup Items \cup {"none", "new"},
                         to: AgeGroups \cup {"none"}]]
  BY DEF KurTypeOK
<1> QED
  BY <1>1

\* A statement that is executed: the form of an opened materi was filled, and
\* its save sent, in the age group it belongs to.
LEMMA KurExecuted ==
    ASSUME KurIInv, NEW k \in Ops, Executed(k)
    PROVE  /\ KurServes
           /\ ~astray =>
                 \A m \in Items \cap used : home'[m] \in {home[m], "none"}
           /\ \A q \in Queries :
                 q \notin Concerned(k) /\ (q # "list" => q \in live'.set) =>
                     Content(q)' = Content(q)
<1> USE KurNames
<1>0. k \in {"saveTk", "delTk", "saveMa", "delMa"}
  BY DEF Ops
<1>1. CASE k = "saveTk"
  <2>1. PICK g \in AgeGroups : StoreGroup(g)
    BY <1>1 DEF Executed
  <2>2. /\ g \in live.set \/ g \notin used
        /\ live' \in WithGroup(g) /\ used' = used \cup {g} /\ home' = home
    BY <2>1 DEF StoreGroup
  <2>3. KurServes /\ \A q \in Queries \ {"list"} : Content(q)' = Content(q)
    BY <2>2, KurGroupStored
  <2> QED
    BY <1>1, <2>2, <2>3 DEF Concerned
<1>2. CASE k = "delTk"
  <2>1. DropGroup(saves[k].id)
    BY <1>2 DEF Executed
  <2> QED
    BY <1>2, <2>1, KurGroupDropped DEF Concerned
<1>3. CASE k = "saveMa"
  <2>1. PICK m \in Items : StoreMateri(m)
    BY <1>3 DEF Executed
  <2> DEFINE job == saves["saveMa"]
  <2>2. /\ IF job.id = "new" THEN m \notin used
           ELSE m = job.id /\ home[m] # "none"
        /\ job.to \in live.set /\ job.phase = "sent"
        /\ home' = [home EXCEPT ![m] = job.to]
        /\ used' = used \cup {m} /\ live' = live
    BY <1>3, <2>1 DEF StoreMateri, Executed
  <2>3. KurServes
    <3>1. PICK g \in live.set \cup {"none"} : home' = [home EXCEPT ![m] = g]
      BY <2>2
    <3>2. used' = used \cup {m} /\ live' = live
      BY <2>2
    <3> HIDE DEF job
    <3> QED
      BY <3>1, <3>2, KurMateriPut, Zenon
  <2>4. home \in [Items -> AgeGroups \cup {"none"}]
    BY DEF KurIInv, KurTypeOK
  <2>5. ASSUME ~astray, NEW n \in Items \cap used
        PROVE  home'[n] \in {home[n], "none"}
    <3>1. CASE n # m
      BY <2>2, <2>4, <3>1
    <3>2. CASE n = m
      <4>1. m = job.id /\ home[m] # "none"
        BY <2>2, <2>5, <3>2
      <4>2. home[m] \in {job.to, "none"}
        BY <2>2, <2>5, <4>1 DEF KurIInv, KurInPlace
      <4> QED
        BY <2>2, <2>4, <3>2, <4>1, <4>2
    <3> QED
      BY <3>1, <3>2
  <2> QED
    BY <1>3, <2>2, <2>3, <2>5 DEF Concerned, Content, Queries
<1>4. CASE k = "delMa"
  <2> DEFINE m == saves[k].id
  <2>1. home[m] # "none" /\ home' = [home EXCEPT ![m] = "none"]
        /\ live' = live /\ used' = used
    BY <1>4 DEF Executed, DropMateri
  <2>2. home \in [Items -> AgeGroups \cup {"none"}]
    BY DEF KurIInv, KurTypeOK
  <2>3. \A n \in Items : home'[n] \in {home[n], "none"}
    BY <2>1, <2>2
  <2>4. KurServes
    <3>1. CASE m \in Items
      BY <2>1, <3>1, KurMateriPut
    <3>2. CASE m \notin Items
      <4>1. home' = home
        BY <2>1, <2>2, <3>2
      <4> QED
        BY <2>1, <4>1 DEF KurServes, KurIInv, KurTypeOK, KurIdsGiven
    <3> QED
      BY <3>1, <3>2
  <2> QED
    BY <1>4, <2>1, <2>3, <2>4 DEF Concerned, Content, Queries
<1> QED
  BY <1>0, <1>1, <1>2, <1>3, <1>4

\* Executing a statement keeps the invariant.
LEMMA KurExecutedStep ==
    ASSUME KurIInv, NEW k \in Ops, Executed(k)
    PROVE  KurIInv'
<1>1. /\ KurServes
      /\ ~astray => \A m \in Items \cap used : home'[m] \in {home[m], "none"}
      /\ \A q \in Queries :
            q \notin Concerned(k) /\ (q # "list" => q \in live'.set) =>
                Content(q)' = Content(q)
  BY KurExecuted
<1>2. UNCHANGED <<list, rows, fetches, picked, dialogs, stale, overtaken,
                  astray, writes>>
  BY DEF Executed
<1>3. /\ saves' \in [Ops -> [phase: {"idle", "sent", "counted", "done"},
                             id: AgeGroups \cup Items \cup {"none", "new"},
                             to: AgeGroups \cup {"none"}]]
      /\ saves'[k].phase = "done"
      /\ \A j \in Ops \ {k} : saves'[j] = saves[j]
  BY KurSaveMoves DEF Executed, Done, KurIInv
<1>4. KurTypeOK'
  BY <1>1, <1>2, <1>3 DEF KurIInv, KurTypeOK, KurServes
<1>5. ASSUME NEW q \in Queries PROVE KurFresh(q)'
  <2>1. KurPending(q) => KurPending(q)'
    BY <1>3 DEF KurPending, Concerned
  <2>2. ~KurPending(q)' => q \notin Concerned(k)
    BY <1>3 DEF KurPending, Concerned
  <2> QED
    BY <1>1, <1>2, <2>1, <2>2, KurFreshServed
<1>6. saves'["saveMa"].phase # "sent" \/ saves'["saveMa"] = saves["saveMa"]
  BY <1>3 DEF Ops
<1>7. /\ KurFetchesOK' /\ KurHeardGiven' /\ KurWatched' /\ KurListsAgree'
      /\ ~astray' => \A m \in Items : KurInPlace(m)'
  BY <1>1, <1>2, <1>6, KurServed
<1>8. KurIdsGiven'
  BY <1>1 DEF KurServes
<1> QED
  BY <1>4, <1>5, <1>7, <1>8 DEF KurIInv

\* Others write: an entry whose content they change may lack it, and a materi
\* they move may have been opened where it was.
LEMMA KurElsewhereStep ==
    ASSUME KurIInv, Elsewhere
    PROVE  KurIInv'
<1> USE KurNames
<1>1. /\ writes < MaxWrites /\ writes' = writes + 1
      /\ stale' = stale \cup {q \in Queries : Content(q)' # Content(q)}
      /\ astray' = (astray \/ \E m \in Items :
                         home[m] # "none" /\ home'[m] \notin {home[m], "none"})
      /\ UNCHANGED <<list, rows, fetches, picked, dialogs, saves, overtaken>>
  BY DEF Elsewhere
<1>2. /\ home \in [Items -> AgeGroups \cup {"none"}]
      /\ live.set \subseteq AgeGroups
  BY KurOrders DEF KurIInv, KurTypeOK
<1>3. /\ KurServes
      /\ \A m \in Items \cap used : home[m] = "none" => home'[m] = "none"
  <2>1. \/ \E g \in AgeGroups : /\ g \in live.set \/ g \notin used
                                /\ live' \in WithGroup(g)
                                /\ used' = used \cup {g} /\ home' = home
        \/ \E g \in AgeGroups : DropGroup(g)
        \/ \E m \in Items, g \in live.set :
              /\ m \notin used \/ home[m] # "none"
              /\ home' = [home EXCEPT ![m] = g]
              /\ used' = used \cup {m} /\ live' = live
        \/ \E m \in Items : DropMateri(m)
    BY DEF Elsewhere
  <2>2. CASE \E g \in AgeGroups : /\ g \in live.set \/ g \notin used
                                  /\ live' \in WithGroup(g)
                                  /\ used' = used \cup {g} /\ home' = home
    BY <2>2, KurGroupStored
  <2>3. CASE \E g \in AgeGroups : DropGroup(g)
    BY <2>3, KurGroupDropped
  <2>4. CASE \E m \in Items, g \in live.set :
                /\ m \notin used \/ home[m] # "none"
                /\ home' = [home EXCEPT ![m] = g]
                /\ used' = used \cup {m} /\ live' = live
    <3>1. PICK m \in Items, g \in live.set :
                /\ m \notin used \/ home[m] # "none"
                /\ home' = [home EXCEPT ![m] = g]
                /\ used' = used \cup {m} /\ live' = live
      BY <2>4
    <3>2. KurServes
      BY <3>1, KurMateriPut
    <3> QED
      BY <1>2, <3>1, <3>2
  <2>5. CASE \E m \in Items : DropMateri(m)
    <3>1. PICK m \in Items : DropMateri(m)
      BY <2>5
    <3>2. KurServes
      BY <3>1, KurMateriPut DEF DropMateri
    <3> QED
      BY <1>2, <3>1, <3>2 DEF DropMateri
  <2> QED
    BY <2>1, <2>2, <2>3, <2>4, <2>5
<1>4. ~astray' => \A m \in Items \cap used : home'[m] \in {home[m], "none"}
  BY <1>1, <1>3
<1>5. KurTypeOK'
  <2>1. writes' \in 0..MaxWrites /\ stale' \subseteq Queries
    BY <1>1, KurAssumption DEF KurIInv, KurTypeOK
  <2>2. astray' \in BOOLEAN
    BY <1>1 DEF KurIInv, KurTypeOK
  <2> QED
    BY <1>1, <1>3, <2>1, <2>2 DEF KurIInv, KurTypeOK, KurServes
<1>6. ASSUME NEW q \in Queries PROVE KurFresh(q)'
  <2>1. KurPending(q) <=> KurPending(q)'
    BY <1>1 DEF KurPending, Concerned
  <2> QED
    BY <1>1, <1>3, <2>1, KurFreshServed
<1>7. /\ KurFetchesOK' /\ KurHeardGiven' /\ KurWatched' /\ KurListsAgree'
      /\ ~astray' => \A m \in Items : KurInPlace(m)'
  BY <1>1, <1>3, <1>4, KurServed
<1>8. KurIdsGiven'
  BY <1>3 DEF KurServes
<1> QED
  BY <1>5, <1>6, <1>7, <1>8 DEF KurIInv

-----------------------------------------------------------------------------
(* What the page does. *)

\* Counting, and what goes wrong with a save, change no entry; a write that
\* was executed and not answered leaves its entries stale.
LEMMA KurSaveStep ==
    ASSUME KurIInv, CountMateri \/ \E k \in Ops : Fails(k)
    PROVE  KurIInv'
<1> USE KurNames
<1>0. UNCHANGED <<live, home, used, list, rows, fetches, picked, dialogs,
                  overtaken, astray, writes>>
  BY DEF CountMateri, Fails
<1> DEFINE Moves(k, p) ==
             /\ \/ saves' = [saves EXCEPT ![k].phase = p]
                \/ p = "idle" /\ saves' = [saves EXCEPT ![k] = Rest]
             /\ saves[k].phase = "done" => stale' = stale \cup Concerned(k)
             /\ saves[k].phase # "done" => stale' = stale
<1>1. PICK k \in Ops, p \in {"idle", "counted"} : Moves(k, p)
  <2>1. CASE CountMateri
    <3>1. /\ saves["delTk"].phase = "sent" /\ stale' = stale
          /\ saves' = [saves EXCEPT !["delTk"].phase = "counted"]
      BY <2>1 DEF CountMateri
    <3>2. "delTk" \in Ops
      BY DEF Ops
    <3>3. Moves("delTk", "counted")
      BY <3>1
    <3> HIDE DEF Moves
    <3> QED
      BY <3>2, <3>3
  <2>2. CASE \E k \in Ops : Fails(k)
    <3>1. PICK k \in Ops : Fails(k)
      BY <2>2
    <3>2. Moves(k, "idle")
      BY <3>1 DEF Fails
    <3> QED
      BY <3>2
  <2> QED
    BY <2>1, <2>2
<1>2. /\ saves' \in [Ops -> [phase: {"idle", "sent", "counted", "done"},
                             id: AgeGroups \cup Items \cup {"none", "new"},
                             to: AgeGroups \cup {"none"}]]
      /\ saves'[k].phase = p
      /\ \A j \in Ops \ {k} : saves'[j] = saves[j]
  <2>1. CASE saves' = [saves EXCEPT ![k].phase = p]
    BY <1>1, <2>1, KurSaveMoves DEF KurIInv
  <2>2. CASE p = "idle" /\ saves' = [saves EXCEPT ![k] = Rest]
    BY <2>2 DEF KurIInv, KurTypeOK, Rest
  <2> QED
    BY <1>1, <2>1, <2>2
<1>3. stale' \subseteq Queries /\ stale \subseteq stale'
  BY <1>1 DEF KurIInv, KurTypeOK, Concerned, Queries
<1>4. KurTypeOK'
  BY <1>0, <1>2, <1>3 DEF KurIInv, KurTypeOK
<1>5. KurFetchesOK' /\ KurIdsGiven' /\ KurWatched' /\ KurListsAgree'
  BY <1>0, <1>3 DEF KurIInv, KurFetchesOK, KurIdsGiven, KurWatched,
                    KurListsAgree, Here
<1>6. ASSUME NEW q \in Queries PROVE KurFresh(q)'
  <2>1. KurPending(q) => KurPending(q)' \/ q \in stale'
    BY <1>1, <1>2 DEF KurPending, Concerned
  <2> QED
    BY <1>0, <1>3, <2>1 DEF KurIInv, KurFresh, Known, Content
<1>7. saves'["saveMa"].phase # "sent" \/ saves'["saveMa"] = saves["saveMa"]
  BY <1>1, <1>2 DEF Ops
<1>8. KurHeardGiven'
  BY <1>0, <1>7 DEF KurIInv, KurHeardGiven
<1>9. ASSUME ~astray', NEW m \in Items PROVE KurInPlace(m)'
  BY <1>0, <1>7, <1>9 DEF KurIInv, KurInPlace
<1> QED
  BY <1>4, <1>5, <1>6, <1>8, <1>9 DEF KurIInv

-----------------------------------------------------------------------------
(* The queries. *)

\* A read comes from what is there now.
LEMMA KurReadStep ==
    ASSUME KurIInv, NEW q \in Queries, ReadQuery(q)
    PROVE  KurIInv'
<1> USE KurNames
<1>0. UNCHANGED <<live, home, used, list, rows, picked, dialogs, saves, stale,
                  overtaken, astray, writes>>
  BY DEF ReadQuery
<1>1. /\ DOMAIN fetches' = Queries
      /\ fetches[q].phase = "asked"
      /\ fetches'[q].phase = "read" /\ fetches'[q].data = Content(q)
      /\ \A p \in Queries \ {q} : fetches'[p] = fetches[p]
  BY DEF ReadQuery, KurIInv, KurFetchesOK
<1>2. KurTypeOK'
  <2>1. ASSUME NEW p \in Queries
        PROVE  /\ fetches'[p].phase \in {"none", "asked", "read"}
               /\ fetches'[p].data
                     \in IF p = "list" THEN Orders ELSE SUBSET Items
    BY <1>1, KurContent DEF KurIInv, KurTypeOK
  <2> QED
    BY <1>0, <2>1 DEF KurIInv, KurTypeOK
<1>3. KurFetchesOK' /\ KurIdsGiven'
  BY <1>0, <1>1 DEF KurIInv, KurFetchesOK, KurIdsGiven
<1>4. KurHeardGiven'
  BY <1>0, <1>1 DEF KurIInv, KurHeardGiven, KurIdsGiven, Content, Queries
<1>5. ASSUME NEW p \in Queries PROVE KurFresh(p)'
  <2>1. KurPending(p)' <=> KurPending(p)
    BY <1>0 DEF KurPending, Concerned
  <2>2. Content(p)' = Content(p) /\ (Known(p)' <=> Known(p))
    BY <1>0 DEF Content, Known
  <2> QED
    BY <1>0, <1>1, <2>1, <2>2 DEF KurIInv, KurFresh
<1>6. Here' = Here
  BY <1>0 DEF Here
<1>7. KurWatched'
  BY <1>0, <1>1, <1>6 DEF KurIInv, KurWatched
<1>8. KurListsAgree'
  BY <1>0, <1>1 DEF KurIInv, KurListsAgree, Content
<1>9. ASSUME ~astray', NEW m \in Items PROVE KurInPlace(m)'
  BY <1>0, <1>1, <1>9 DEF KurIInv, KurInPlace, Content
<1> QED
  BY <1>2, <1>3, <1>4, <1>5, <1>7, <1>8, <1>9 DEF KurIInv

\* The materi of an age group arrive.
LEMMA KurMateriArriveStep ==
    ASSUME KurIInv, NEW g \in AgeGroups, MateriArrive(g)
    PROVE  KurIInv'
<1> USE KurNames
<1>0. UNCHANGED <<live, home, used, list, picked, dialogs, saves, stale,
                  overtaken, astray, writes>>
  BY DEF MateriArrive
<1>1. /\ DOMAIN fetches' = Queries
      /\ fetches[g].phase = "read" /\ fetches'[g] = NoFetch(g)
      /\ \A p \in Queries \ {g} : fetches'[p] = fetches[p]
  BY DEF MateriArrive, KurIInv, KurFetchesOK
<1>2. /\ fetches[g].data \subseteq Items
      /\ rows' \in [AgeGroups -> MateriLists]
      /\ rows'[g].known /\ rows'[g].set = fetches[g].data
      /\ \A h \in AgeGroups \ {g} : rows'[h] = rows[h]
  <2>1. fetches[g].data \subseteq Items
    BY DEF KurIInv, KurTypeOK
  <2>2. [known |-> TRUE, set |-> fetches[g].data] \in MateriLists
    BY <2>1 DEF MateriLists
  <2> QED
    BY <2>1, <2>2 DEF MateriArrive, KurIInv, KurTypeOK
<1>3. /\ fetches'[g].phase = "none" /\ fetches'[g].data \subseteq Items
  BY <1>1, KurNoFetch
<1>4. KurTypeOK'
  <2>1. ASSUME NEW p \in Queries
        PROVE  /\ fetches'[p].phase \in {"none", "asked", "read"}
               /\ fetches'[p].data
                     \in IF p = "list" THEN Orders ELSE SUBSET Items
    BY <1>1, KurNoFetch DEF KurIInv, KurTypeOK
  <2> QED
    BY <1>0, <1>2, <2>1 DEF KurIInv, KurTypeOK
<1>5. KurFetchesOK' /\ KurIdsGiven'
  BY <1>0, <1>1 DEF KurIInv, KurFetchesOK, KurIdsGiven
<1>6. KurHeardGiven'
  BY <1>0, <1>1, <1>2, <1>3 DEF KurIInv, KurHeardGiven, Queries
<1>7. ASSUME NEW p \in Queries PROVE KurFresh(p)'
  <2>1. KurPending(p)' <=> KurPending(p)
    BY <1>0 DEF KurPending, Concerned
  <2>2. Content(p)' = Content(p)
    BY <1>0 DEF Content
  <2>3. CASE p = g
    BY <1>0, <1>1, <1>2, <1>3, <2>1, <2>2, <2>3 DEF KurIInv, KurFresh
  <2>4. CASE p # g
    BY <1>0, <1>1, <1>2, <2>1, <2>2, <2>4
       DEF KurIInv, KurFresh, Known, Queries
  <2> QED
    BY <2>3, <2>4
<1>8. Here' = Here
  BY <1>0 DEF Here
<1>9. KurWatched'
  BY <1>0, <1>1, <1>2, <1>8 DEF KurIInv, KurWatched
<1>10. KurListsAgree'
  BY <1>0, <1>1 DEF KurIInv, KurListsAgree
<1>11. ASSUME ~astray', NEW m \in Items PROVE KurInPlace(m)'
  BY <1>0, <1>1, <1>2, <1>3, <1>11 DEF KurIInv, KurInPlace
<1> QED
  BY <1>4, <1>5, <1>6, <1>7, <1>9, <1>10, <1>11 DEF KurIInv

\* A query fails: its entry may lack a write from now on.
LEMMA KurFailsStep ==
    ASSUME KurIInv, NEW q \in Queries, QueryFails(q)
    PROVE  KurIInv'
<1> USE KurNames
<1>0. UNCHANGED <<live, home, used, list, rows, picked, dialogs, saves,
                  overtaken, astray, writes>>
  BY DEF QueryFails
<1>1. /\ DOMAIN fetches' = Queries
      /\ fetches'[q] = NoFetch(q) /\ fetches'[q].phase = "none"
      /\ fetches[q].phase # "none"
      /\ \A p \in Queries \ {q} : fetches'[p] = fetches[p]
      /\ stale' = stale \cup {q}
  BY KurNoFetch DEF QueryFails, KurIInv, KurFetchesOK
<1>2. KurTypeOK'
  <2>1. ASSUME NEW p \in Queries
        PROVE  /\ fetches'[p].phase \in {"none", "asked", "read"}
               /\ fetches'[p].data
                     \in IF p = "list" THEN Orders ELSE SUBSET Items
    BY <1>1, KurNoFetch DEF KurIInv, KurTypeOK
  <2> QED
    BY <1>0, <1>1, <2>1 DEF KurIInv, KurTypeOK
<1>3. KurFetchesOK' /\ KurIdsGiven'
  BY <1>0, <1>1 DEF KurIInv, KurFetchesOK, KurIdsGiven
<1>4. KurHeardGiven'
  BY <1>0, <1>1 DEF KurIInv, KurHeardGiven, Queries
<1>5. ASSUME NEW p \in Queries PROVE KurFresh(p)'
  <2>1. KurPending(p)' <=> KurPending(p)
    BY <1>0 DEF KurPending, Concerned
  <2>2. Content(p)' = Content(p) /\ (Known(p)' <=> Known(p))
    BY <1>0 DEF Content, Known
  <2> QED
    BY <1>0, <1>1, <2>1, <2>2 DEF KurIInv, KurFresh
<1>6. Here' = Here
  BY <1>0 DEF Here
<1>7. KurWatched'
  BY <1>0, <1>1, <1>6 DEF KurIInv, KurWatched, Queries
<1>8. KurListsAgree'
  BY <1>0, <1>1 DEF KurIInv, KurListsAgree
<1>9. ASSUME ~astray', NEW m \in Items PROVE KurInPlace(m)'
  BY <1>0, <1>1, <1>9 DEF KurIInv, KurInPlace
<1> QED
  BY <1>2, <1>3, <1>4, <1>5, <1>7, <1>8, <1>9 DEF KurIInv

\* The list arrives, and with it perhaps another age group on the page: the
\* chosen one is still in it, if it is there at all.
LEMMA KurGroupsArriveStep ==
    ASSUME KurIInv, GroupsArrive
    PROVE  KurIInv'
<1> USE KurNames
<1> DEFINE o == fetches["list"].data
           g == Current([known |-> TRUE, order |-> o], picked)
           turns == g # Here /\ g \in AgeGroups /\ fetches[g].phase = "none"
<1>0. /\ UNCHANGED <<live, home, used, rows, picked, dialogs, saves, astray,
                     writes>>
      /\ fetches["list"].phase = "read"
      /\ list' = [known |-> TRUE, order |-> o]
      /\ stale' = IF turns THEN stale \ {g} ELSE stale
      /\ overtaken' = IF turns THEN overtaken \ {g} ELSE overtaken
  BY DEF GroupsArrive
<1>1. /\ DOMAIN fetches' = Queries
      /\ fetches'["list"] = NoFetch("list")
      /\ \A q \in AgeGroups :
            fetches'[q] = IF turns /\ q = g THEN Asked(q) ELSE fetches[q]
  BY DEF GroupsArrive
<1>2. o \in Orders /\ picked \in AgeGroups \cup {"none"}
  BY DEF KurIInv, KurTypeOK
<1>3. /\ g \in AgeGroups \cup {"none"}
      /\ g \in AgeGroups => g \in o.set
      /\ Here' = g
  <2>1. Here' = g
    BY <1>0 DEF Here
  <2> HIDE DEF o
  <2> QED
    BY <1>2, <2>1, KurHere
<1>4. o.set \subseteq used
  BY <1>0 DEF KurIInv, KurHeardGiven
<1>5. fetches'["list"].phase = "none"
  BY <1>1, KurNoFetch
<1>6. \A q \in AgeGroups :
         \/ fetches'[q] = fetches[q] /\ (q \in stale <=> q \in stale')
              /\ (q \in overtaken <=> q \in overtaken')
         \/ q = g /\ q \in used /\ fetches'[q] = Asked(q)
              /\ fetches'[q].phase = "asked"
  BY <1>0, <1>1, <1>3, <1>4, KurNoFetch
<1> HIDE DEF turns, g, o
<1>7. KurTypeOK'
  <2>1. ASSUME NEW p \in Queries
        PROVE  /\ fetches'[p].phase \in {"none", "asked", "read"}
               /\ fetches'[p].data
                     \in IF p = "list" THEN Orders ELSE SUBSET Items
    BY <1>1, <1>6, KurNoFetch DEF KurIInv, KurTypeOK, Queries
  <2>2. list' \in Lists /\ stale' \subseteq Queries
        /\ overtaken' \subseteq Queries
    BY <1>0, <1>2 DEF Lists, KurIInv, KurTypeOK
  <2> QED
    BY <1>0, <2>1, <2>2 DEF KurIInv, KurTypeOK
<1>8. KurFetchesOK' /\ KurIdsGiven'
  BY <1>0, <1>1 DEF KurFetchesOK, KurIInv, KurIdsGiven
<1>9. KurHeardGiven'
  BY <1>0, <1>4, <1>5, <1>6 DEF KurIInv, KurHeardGiven
<1>10. ASSUME NEW q \in Queries PROVE KurFresh(q)'
  <2>1. /\ KurPending(q)' <=> KurPending(q)
        /\ Content(q)' = Content(q)
    BY <1>0 DEF KurPending, Concerned, Content
  <2>2. CASE q = "list"
    <3>1. q \notin KurBehind' => q \notin KurBehind
      BY <1>0, <1>3, <2>2
    <3>2. q \notin KurBehind' /\ ~KurPending(q) => o = Content(q)
      BY <1>0, <2>2, <3>1 DEF KurIInv, KurFresh, o
    <3> QED
      BY <1>0, <1>5, <2>1, <2>2, <3>2 DEF KurFresh
  <2>3. CASE q \in AgeGroups
    BY <1>0, <1>6, <2>1, <2>3 DEF KurIInv, KurFresh, Known
  <2> QED
    BY <2>2, <2>3 DEF Queries
<1>11. KurWatched'
  <2> SUFFICES ASSUME g \in AgeGroups
               PROVE  \/ fetches'[g].phase # "none"
                      \/ rows'[g].known \/ g \in stale'
    BY <1>3 DEF KurWatched
  <2>1. CASE g = Here
    <3>1. fetches'[g] = fetches[g] /\ stale' = stale
      BY <1>0, <1>1, <2>1 DEF turns
    <3> QED
      BY <1>0, <2>1, <3>1 DEF KurIInv, KurWatched
  <2>2. CASE g # Here /\ fetches[g].phase = "none"
    BY <1>1, <2>2, KurNoFetch DEF turns
  <2>3. CASE fetches[g].phase # "none"
    BY <1>6, <2>3
  <2> QED
    BY <2>1, <2>2, <2>3
<1>12. KurListsAgree'
  BY <1>0, <1>5 DEF KurIInv, KurListsAgree, o
<1>13. ASSUME ~astray', NEW m \in Items PROVE KurInPlace(m)'
  BY <1>0, <1>6, <1>13 DEF KurIInv, KurInPlace
<1> QED
  BY <1>7, <1>8, <1>9, <1>10, <1>11, <1>12, <1>13 DEF KurIInv

\* A person chooses an age group of the list, while no form is open.
LEMMA KurPickStep ==
    ASSUME KurIInv, NEW g \in AgeGroups, PickGroup(g)
    PROVE  KurIInv'
<1> USE KurNames
<1> DEFINE turns == g # Here /\ fetches[g].phase = "none"
<1>0. /\ UNCHANGED <<live, home, used, list, rows, dialogs, saves, astray,
                     writes>>
      /\ dialogs.ma = "none" /\ g \in list.order.set /\ picked' = g
      /\ stale' = IF turns THEN stale \ {g} ELSE stale
      /\ overtaken' = IF turns THEN overtaken \ {g} ELSE overtaken
      /\ fetches' = IF turns THEN [fetches EXCEPT ![g] = Asked(g)] ELSE fetches
  BY DEF PickGroup, NoDialog, Watch
<1>1. /\ DOMAIN fetches' = Queries /\ fetches'["list"] = fetches["list"]
      /\ \A q \in AgeGroups :
            fetches'[q] = IF turns /\ q = g THEN Asked(q) ELSE fetches[q]
  BY <1>0 DEF KurIInv, KurFetchesOK
<1>2. g \in used
  BY <1>0 DEF KurIInv, KurHeardGiven
<1>3. Here' = g
  BY <1>0 DEF Here, Current
<1>4. \A q \in AgeGroups :
         \/ fetches'[q] = fetches[q] /\ (q \in stale <=> q \in stale')
              /\ (q \in overtaken <=> q \in overtaken')
         \/ q = g /\ q \in used /\ fetches'[q] = Asked(q)
              /\ fetches'[q].phase = "asked"
  BY <1>0, <1>1, <1>2, KurNoFetch
<1>5. "list" \in KurBehind <=> "list" \in KurBehind'
  BY <1>0
<1>6. KurTypeOK'
  <2>1. ASSUME NEW p \in Queries
        PROVE  /\ fetches'[p].phase \in {"none", "asked", "read"}
               /\ fetches'[p].data
                     \in IF p = "list" THEN Orders ELSE SUBSET Items
    BY <1>1, <1>4, KurNoFetch DEF KurIInv, KurTypeOK, Queries
  <2>2. stale' \subseteq Queries /\ overtaken' \subseteq Queries
    BY <1>0 DEF KurIInv, KurTypeOK
  <2> QED
    BY <1>0, <2>1, <2>2 DEF KurIInv, KurTypeOK
<1>7. KurFetchesOK' /\ KurIdsGiven'
  BY <1>0, <1>1 DEF KurFetchesOK, KurIInv, KurIdsGiven
<1>8. KurHeardGiven'
  BY <1>0, <1>1, <1>2, <1>4 DEF KurIInv, KurHeardGiven
<1>9. ASSUME NEW q \in Queries PROVE KurFresh(q)'
  <2>1. /\ KurPending(q)' <=> KurPending(q)
        /\ Content(q)' = Content(q) /\ (Known(q)' <=> Known(q))
    BY <1>0 DEF KurPending, Concerned, Content, Known
  <2> QED
    BY <1>0, <1>1, <1>4, <1>5, <2>1 DEF KurIInv, KurFresh, Queries
<1>10. KurWatched'
  <2>1. CASE turns
    BY <1>1, <1>3, <2>1, KurNoFetch DEF KurWatched
  <2>2. CASE ~turns
    BY <1>0, <1>1, <1>3, <2>2 DEF KurIInv, KurWatched
  <2> QED
    BY <2>1, <2>2
<1>11. KurListsAgree'
  BY <1>0, <1>1 DEF KurIInv, KurListsAgree
<1>12. ASSUME ~astray', NEW m \in Items PROVE KurInPlace(m)'
  BY <1>0, <1>4, <1>12 DEF KurIInv, KurInPlace
<1> QED
  BY <1>6, <1>7, <1>8, <1>9, <1>10, <1>11, <1>12 DEF KurIInv

-----------------------------------------------------------------------------
(* The person's forms and buttons. *)

DialogTypes == [groups: BOOLEAN, tk: AgeGroups \cup {"none", "new"},
                ma: Items \cup {"none", "new"}]
SaveTypes == [phase: {"idle", "sent", "counted", "done"},
              id: AgeGroups \cup Items \cup {"none", "new"},
              to: AgeGroups \cup {"none"}]

\* A step that touches only forms and saves keeps the invariant, when the
\* materi in the form, or in the save it sends, was opened where it belongs.
LEMMA KurFormStep ==
    ASSUME KurIInv,
           UNCHANGED <<live, home, used, list, rows, fetches, picked, stale,
                       overtaken>>,
           dialogs' \in DialogTypes, saves' \in [Ops -> SaveTypes],
           writes' \in 0..MaxWrites,
           astray' \in BOOLEAN, astray => astray',
           \A k \in Ops : saves'[k].phase = "done" <=> saves[k].phase = "done",
           \/ dialogs'.ma \in {"none", "new", dialogs.ma}
           \/ /\ dialogs'.ma \in used
              /\ ~astray' => home[dialogs'.ma] \in {picked, "none"},
           \/ saves'["saveMa"] = saves["saveMa"]
           \/ /\ saves'["saveMa"].id \in Items => saves'["saveMa"].id \in used
              /\ ~astray' /\ saves'["saveMa"].id \in Items =>
                    home[saves'["saveMa"].id] \in {saves'["saveMa"].to, "none"}
    PROVE  KurIInv'
<1> USE KurNames
<1>1. KurTypeOK'
  BY DEF KurIInv, KurTypeOK, DialogTypes, SaveTypes
<1>2. KurFetchesOK' /\ KurIdsGiven' /\ KurWatched' /\ KurListsAgree'
  BY DEF KurIInv, KurFetchesOK, KurIdsGiven, KurWatched, KurListsAgree, Here
<1>3. KurHeardGiven'
  BY DEF KurIInv, KurHeardGiven
<1>4. ASSUME NEW q \in Queries PROVE KurFresh(q)'
  <2>1. KurPending(q)' <=> KurPending(q)
    BY DEF KurPending, Concerned
  <2> QED
    BY <2>1 DEF KurIInv, KurFresh, Known, Content
<1>5. ASSUME ~astray', NEW m \in Items PROVE KurInPlace(m)'
  BY <1>5 DEF KurIInv, KurInPlace
<1> QED
  BY <1>1, <1>2, <1>3, <1>4, <1>5 DEF KurIInv

\* Opening and closing dialogs. A pencil that is pressed while another age
\* group than the chosen one is shown makes the materi's form go astray.
LEMMA KurDialogStep ==
    ASSUME KurIInv,
           \/ OpenDialog \/ CloseDialog
           \/ \E g \in AgeGroups \cup {"new"} : EditGroup(g)
           \/ \E m \in Items : EditMateri(m)
    PROVE  KurIInv'
<1> USE KurNames
<1>1. /\ UNCHANGED <<live, home, used, list, rows, fetches, picked, stale,
                     overtaken, saves, writes>>
  BY DEF OpenDialog, CloseDialog, EditGroup, EditMateri
<1>2. dialogs \in DialogTypes /\ saves \in [Ops -> SaveTypes]
      /\ astray \in BOOLEAN /\ writes \in 0..MaxWrites
  BY DEF KurIInv, KurTypeOK, DialogTypes, SaveTypes
<1>3. /\ dialogs' \in DialogTypes /\ astray' \in BOOLEAN /\ (astray => astray')
      /\ \/ dialogs'.ma \in {"none", "new", dialogs.ma}
         \/ /\ dialogs'.ma \in used
            /\ ~astray' => home[dialogs'.ma] \in {picked, "none"}
  <2>1. CASE OpenDialog
    BY <1>2, <2>1 DEF OpenDialog, DialogTypes
  <2>2. CASE CloseDialog
    BY <1>2, <2>2 DEF CloseDialog, DialogTypes
  <2>3. CASE \E g \in AgeGroups \cup {"new"} : EditGroup(g)
    BY <1>2, <2>3 DEF EditGroup, DialogTypes
  <2>4. CASE \E m \in Items : EditMateri(m)
    <3>1. PICK m \in Items : EditMateri(m)
      BY <2>4
    <3>2. /\ Here \in AgeGroups /\ m \in rows[Here].set
          /\ dialogs' = [dialogs EXCEPT !.ma = m]
          /\ astray' = (astray \/ Here # picked)
      BY <3>1, KurHereNow DEF EditMateri, KurIInv
    <3>3. dialogs' \in DialogTypes /\ dialogs'.ma = m
      BY <1>2, <3>2 DEF DialogTypes
    <3>4. m \in used
      BY <3>2 DEF KurIInv, KurHeardGiven
    <3>5. ~astray' => home[m] \in {picked, "none"}
      BY <3>2 DEF KurIInv, KurInPlace
    <3> QED
      BY <1>2, <3>2, <3>3, <3>4, <3>5
  <2> QED
    BY <2>1, <2>2, <2>3, <2>4
<1> QED
  BY <1>1, <1>2, <1>3, KurFormStep

\* Sending a save. The age group the page turned to under an open form is
\* another than the materi's only when that one is gone, and the materi too.
LEMMA KurRequestStep ==
    ASSUME KurIInv,
           \/ SaveTingkat \/ SaveMateri
           \/ \E g \in AgeGroups : AskDeleteGroup(g)
           \/ \E m \in Items : AskDeleteMateri(m)
    PROVE  KurIInv'
<1> USE KurNames
<1> DEFINE Ids == AgeGroups \cup Items \cup {"none", "new"}
<1>1. dialogs \in DialogTypes /\ saves \in [Ops -> SaveTypes]
      /\ astray \in BOOLEAN /\ writes \in 0..MaxWrites
      /\ Here \in AgeGroups \cup {"none"}
      /\ list.order.set \subseteq AgeGroups
  <2>1. list.order \in Orders
    BY DEF KurIInv, KurTypeOK, Lists
  <2> QED
    BY <2>1, KurOrders, KurHereNow
       DEF KurIInv, KurTypeOK, DialogTypes, SaveTypes
<1>2. ASSUME NEW k \in Ops, NEW id \in Ids, NEW to \in AgeGroups \cup {"none"},
             Request(k, id, to),
             k = "saveMa" /\ id \in Items =>
                /\ id \in used
                /\ ~astray => home[id] \in {to, "none"}
      PROVE  KurIInv'
  <2>1. /\ UNCHANGED <<live, home, used, list, rows, fetches, picked, dialogs,
                       stale, overtaken, astray>>
        /\ saves' =
              [saves EXCEPT ![k] = [phase |-> "sent", id |-> id, to |-> to]]
        /\ saves[k].phase = "idle"
        /\ writes < MaxWrites /\ writes' = writes + 1
    BY <1>2 DEF Request
  <2>2. [phase |-> "sent", id |-> id, to |-> to] \in SaveTypes
    BY DEF SaveTypes
  <2>3. saves' \in [Ops -> SaveTypes]
    BY <1>1, <2>1, <2>2
  <2>4. writes' \in 0..MaxWrites
    BY <1>1, <2>1, KurAssumption
  <2>5. \A j \in Ops : saves'[j].phase = "done" <=> saves[j].phase = "done"
    BY <1>1, <2>1
  <2>6. \/ saves'["saveMa"] = saves["saveMa"]
        \/ /\ saves'["saveMa"].id \in Items => saves'["saveMa"].id \in used
           /\ ~astray' /\ saves'["saveMa"].id \in Items =>
                 home[saves'["saveMa"].id] \in {saves'["saveMa"].to, "none"}
    <3>1. CASE k = "saveMa"
      BY <1>1, <1>2, <2>1, <3>1
    <3>2. CASE k # "saveMa"
      BY <1>1, <2>1, <3>2
    <3> QED
      BY <3>1, <3>2
  <2> QED
    BY <1>1, <2>1, <2>3, <2>4, <2>5, <2>6, KurFormStep
<1>3. CASE SaveTingkat
  BY <1>1, <1>2, <1>3 DEF SaveTingkat, DialogTypes, Ops
<1>4. CASE SaveMateri
  <2>1. Request("saveMa", dialogs.ma, Here) /\ dialogs.ma \in Ids
    BY <1>1, <1>4 DEF SaveMateri, DialogTypes
  <2>2. ASSUME dialogs.ma \in Items PROVE dialogs.ma \in used
    BY <2>2 DEF KurIInv, KurHeardGiven
  <2>3. ASSUME dialogs.ma \in Items, ~astray
        PROVE  home[dialogs.ma] \in {Here, "none"}
    <3>1. home[dialogs.ma] \in {picked, "none"}
      BY <2>3 DEF KurIInv, KurInPlace
    <3>2. home[dialogs.ma] \in live.set \cup {"none"}
      BY <2>3 DEF KurIInv, KurIdsGiven
    <3>3. picked \in live.set => Here = picked
      BY KurHereNow DEF KurIInv, KurListsAgree
    <3> QED
      BY <3>1, <3>2, <3>3
  <2> QED
    BY <1>1, <1>2, <2>1, <2>2, <2>3 DEF Ops
<1>5. ASSUME NEW g \in AgeGroups, AskDeleteGroup(g) PROVE KurIInv'
  BY <1>2, <1>5 DEF AskDeleteGroup, Ops
<1>6. ASSUME NEW m \in Items, AskDeleteMateri(m) PROVE KurIInv'
  BY <1>2, <1>6 DEF AskDeleteMateri, Ops
<1> QED
  BY <1>3, <1>4, <1>5, <1>6

\* An answer: the entries that are shown are asked for again, the others and
\* the one whose first fetch is kept may lack the write.
LEMMA KurSucceedsStep ==
    ASSUME KurIInv, NEW k \in Ops, Succeeds(k)
    PROVE  KurIInv'
<1> USE KurNames
<1> DEFINE entries == Concerned(k)
           again == {q \in entries \cap {"list", Here} : Restarted(q)}
<1>0. /\ UNCHANGED <<live, home, used, list, rows, picked, astray, writes>>
      /\ saves[k].phase = "done" /\ saves' = [saves EXCEPT ![k] = Rest]
      /\ stale' = stale \ again
      /\ overtaken' = (overtaken \cup {q \in entries :
                                         fetches[q].phase # "asked"}) \ again
      /\ fetches' = [q \in Queries |-> IF q \in again THEN Asked(q)
                                       ELSE fetches[q]]
  BY DEF Succeeds, Invalidate
<1>1. dialogs \in DialogTypes /\ saves \in [Ops -> SaveTypes]
      /\ Here \in AgeGroups \cup {"none"}
      /\ list.order.set \subseteq AgeGroups
      /\ entries \subseteq Queries
  <2>1. list.order \in Orders
    BY DEF KurIInv, KurTypeOK, Lists
  <2> QED
    BY <2>1, KurOrders, KurHereNow
       DEF KurIInv, KurTypeOK, DialogTypes, SaveTypes, Concerned, Queries
<1>2. /\ \A j \in Ops \ {k} : saves'[j] = saves[j]
      /\ saves'[k] = Rest /\ Rest.phase = "idle"
      /\ saves' \in [Ops -> SaveTypes]
  BY <1>0, <1>1 DEF Rest, SaveTypes
<1>3. dialogs' \in DialogTypes /\ dialogs'.ma \in {dialogs.ma, "none"}
  BY <1>1 DEF Succeeds, DialogTypes
<1>4. \A q \in Queries :
         \/ q \in again /\ fetches'[q].phase = "asked" /\ q \notin stale'
              /\ fetches'[q] = Asked(q)
         \/ q \notin again /\ fetches'[q] = fetches[q]
              /\ (q \in stale' <=> q \in stale)
              /\ (q \in overtaken' <=>
                    \/ q \in overtaken
                    \/ q \in entries /\ fetches[q].phase # "asked")
  BY <1>0, KurNoFetch
<1>5. again \cap AgeGroups \subseteq used
  BY <1>1, KurHereNow DEF KurIInv, KurHeardGiven
<1> HIDE DEF again
<1>6. KurTypeOK'
  <2>1. ASSUME NEW p \in Queries
        PROVE  /\ fetches'[p].phase \in {"none", "asked", "read"}
               /\ fetches'[p].data
                     \in IF p = "list" THEN Orders ELSE SUBSET Items
    BY <1>4, KurNoFetch DEF KurIInv, KurTypeOK
  <2>2. stale' \subseteq Queries /\ overtaken' \subseteq Queries
    BY <1>0, <1>1 DEF KurIInv, KurTypeOK
  <2> QED
    BY <1>0, <1>2, <1>3, <2>1, <2>2
       DEF KurIInv, KurTypeOK, DialogTypes, SaveTypes
<1>7. KurFetchesOK' /\ KurIdsGiven'
  BY <1>0 DEF KurFetchesOK, KurIInv, KurIdsGiven
<1>8. saves'["saveMa"].phase # "sent" \/ saves'["saveMa"] = saves["saveMa"]
  BY <1>2 DEF Ops
<1>9. KurHeardGiven'
  BY <1>0, <1>3, <1>4, <1>5, <1>8 DEF KurIInv, KurHeardGiven
<1>10. ASSUME NEW q \in Queries PROVE KurFresh(q)'
  <2>1. KurPending(q) => KurPending(q)' \/ q \in entries
    BY <1>0, <1>2 DEF KurPending, Concerned
  <2>2. Content(q)' = Content(q) /\ (Known(q)' <=> Known(q))
    BY <1>0 DEF Content, Known
  <2> QED
    BY <1>0, <1>4, <2>1, <2>2 DEF KurIInv, KurFresh
<1>11. KurWatched'
  <2>1. Here' = Here
    BY <1>0 DEF Here
  <2> QED
    BY <1>0, <1>1, <1>4, <2>1 DEF KurIInv, KurWatched
<1>12. KurListsAgree'
  BY <1>0, <1>4 DEF KurIInv, KurListsAgree
<1>13. ASSUME ~astray', NEW m \in Items PROVE KurInPlace(m)'
  BY <1>0, <1>3, <1>4, <1>8, <1>13 DEF KurIInv, KurInPlace
<1> QED
  BY <1>6, <1>7, <1>9, <1>10, <1>11, <1>12, <1>13 DEF KurIInv

-----------------------------------------------------------------------------
\* Every step keeps the invariant.
LEMMA KurNextIInv == KurIInv /\ [KurNext]_kurVars => KurIInv'
<1>1. ASSUME KurIInv, KurNext PROVE KurIInv'
  BY <1>1, KurReadStep, KurFailsStep, KurGroupsArriveStep, KurMateriArriveStep,
     KurPickStep, KurDialogStep, KurRequestStep, KurSaveStep, KurExecutedStep,
     KurSucceedsStep, KurElsewhereStep DEF KurNext
<1>2. ASSUME KurIInv, UNCHANGED kurVars PROVE KurIInv'
  <2>1. /\ dialogs \in DialogTypes /\ saves \in [Ops -> SaveTypes]
        /\ writes \in 0..MaxWrites /\ astray \in BOOLEAN
    BY <1>2 DEF KurIInv, KurTypeOK, DialogTypes, SaveTypes
  <2> QED
    BY <1>2, <2>1, KurFormStep DEF kurVars
<1> QED
  BY <1>1, <1>2

\* The invariant holds in every reachable state.
LEMMA KurInductive == KurSpec => []KurIInv
  BY KurInitIInv, KurNextIInv, PTL DEF KurSpec

\* The variables keep their types: what arrives is a list or a set of materi,
\* and what a save carries was on the page.
THEOREM KurTypeCorrect == KurSpec => []KurTypeOK
<1>1. KurIInv => KurTypeOK
  BY DEF KurIInv
<1> QED
  BY <1>1, KurInductive, PTL

\* Once every answer has come, none was lost and nobody else wrote, the page
\* shows the age groups and the materi that are stored, although no mutation
\* waits for the refetch it starts and a delete of an age group refetches no
\* materi. Not so of an entry that had been read before a save of the page and
\* was then not asked for again, because it was its first fetch or because the
\* page showed another age group (overtaken).
THEOREM KurPageSettles == KurSpec => []KurSettles
<1>1. ASSUME KurIInv, \A k \in Ops : saves[k].phase = "idle", list.known,
             fetches["list"].phase = "none", "list" \notin KurBehind
      PROVE  /\ list.order = live
             /\ Here \in AgeGroups \ KurBehind /\ fetches[Here].phase = "none"
                  => rows[Here].set = Content(Here)
  <2>1. \A q \in Queries : ~KurPending(q)
    BY <1>1 DEF KurPending
  <2>2. list.order = live
    BY <1>1, <2>1, KurNames DEF KurIInv, KurFresh, Known, Content
  <2>3. ASSUME Here \in AgeGroups \ KurBehind, fetches[Here].phase = "none"
        PROVE  rows[Here].set = Content(Here)
    <3>1. rows[Here].known /\ Here \in live.set
      BY <1>1, <2>2, <2>3, KurHereNow DEF KurIInv, KurWatched
    <3>2. KurFresh(Here)
      BY <1>1, <2>3, KurNames DEF KurIInv
    <3> QED
      BY <2>1, <2>3, <3>1, <3>2, KurNames DEF KurFresh, Known
  <2> QED
    BY <2>2, <2>3
<1>2. KurIInv => KurSettles
  BY <1>1 DEF KurSettles
<1> QED
  BY <1>2, KurInductive, PTL

\* A materi that was opened in the age group somebody chose is not moved to
\* another one by saving it, whatever the list turned to under the form.
THEOREM KurMateriStays == KurSpec => MateriStays
<1>1. ASSUME KurIInv, NEW m \in Items, Executed("saveMa"), ~astray,
             home[m] # "none"
      PROVE  home'[m] = home[m]
  <2>1. PICK n \in Items : StoreMateri(n)
    BY <1>1 DEF Executed
  <2>2. home \in [Items -> AgeGroups \cup {"none"}]
    BY <1>1 DEF KurIInv, KurTypeOK
  <2>3. CASE m # n
    BY <2>1, <2>2, <2>3 DEF StoreMateri
  <2>4. CASE m = n
    <3>1. m \in used
      BY <1>1 DEF KurIInv, KurIdsGiven
    <3>2. saves["saveMa"].id = m /\ saves["saveMa"].phase = "sent"
      BY <1>1, <2>1, <2>4, <3>1 DEF StoreMateri, Executed
    <3>3. home[m] = saves["saveMa"].to
      BY <1>1, <3>2 DEF KurIInv, KurInPlace
    <3> QED
      BY <2>1, <2>2, <2>4, <3>3 DEF StoreMateri
  <2> QED
    BY <2>3, <2>4
<1>2. KurIInv /\ [KurNext]_kurVars =>
         [\A m \in Items : Executed("saveMa") /\ ~astray /\ home[m] # "none"
                             => home'[m] = home[m]]_kurVars
  BY <1>1
<1> QED
  BY <1>2, KurInductive, PTL DEF KurSpec, MateriStays
=============================================================================

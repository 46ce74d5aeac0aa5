----------------------------- MODULE MCRegistry -----------------------------
(* A small instance of Registry for TLC. *)
EXTENDS Registry, TLC

CONSTANTS s1, s2, t1, u1, k1, k2, m1, m2, a1, a2, p1, p2, c1, c2

MCStudent == {s1, s2}
MCTeacher == {t1}
MCUser == {u1}
MCTingkat == {k1, k2}
MCMateri == {m1, m2}
MCAttendance == {a1, a2}
MCMark == {p1, p2}
MCClient == {c1, c2}
MCSlot == {1}

\* One tingkat and one numbered materi are bundled, the rest is created.
MCSeedTingkat == {k1}
MCSeedMateri == {[id |-> m1, tingkat |-> k1, slot |-> 1]}

\* The ids of created rows and the clients are interchangeable.
Symmetry == Permutations({s1, s2}) \cup Permutations({a1, a2})
              \cup Permutations({p1, p2}) \cup Permutations({c1, c2})
=============================================================================

----------------------------- MODULE MCRecords ------------------------------
(* Records and lists are interchangeable. *)
EXTENDS RecordScreen, TLC

Symmetry == Permutations(Ids) \cup Permutations(Pages)
=============================================================================

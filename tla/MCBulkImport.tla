---------------------------- MODULE MCBulkImport ----------------------------
(* A small instance of BulkImport for TLC. *)
EXTENDS BulkImport, TLC

CONSTANTS i1, i2, k1, k2, v1, v2

MCImporter == {i1, i2}
MCKey == {k1, k2}
MCVal == {v1, v2}

\* A key twice in one file, and a file with lines that are not accepted.
Twice == <<[key |-> k1, val |-> v1], [key |-> k1, val |-> v2]>>
Faulty == <<Bad, Blank, [key |-> k1, val |-> v1]>>

MCUploads == {[file |-> Twice, mode |-> "upsert"],
              [file |-> Twice, mode |-> "create"],
              [file |-> Faulty, mode |-> "upsert"],
              [file |-> Faulty, mode |-> "dry-run"]}

\* Two importers, of which it does not matter who is who.
Symmetry == Permutations(MCImporter)

\* One importer among other requests.
AloneImporter == {i1}
=============================================================================

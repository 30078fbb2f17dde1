------------------------------ MODULE MCDbSync ------------------------------
(* Instances of DbSync for TLC. *)
EXTENDS DbSync

MCModes == {"schema", "full", "verify"}

(* Bound: only the first table has more than one row to copy. *)
ShortSecond == \A j \in Jobs : rows[j][2] <= 1
=============================================================================

------------------------------ MODULE MCDbPool ------------------------------
(* Instances of DbPool for TLC: connections, users and databases are each
   interchangeable. *)
EXTENDS DbPool, TLC

Symmetry == Permutations(Conns) \cup Permutations(Users) \cup Permutations(Dbs)
=============================================================================

----------------------------- MODULE MCSshPool -----------------------------
(* Instances of SshPool for TLC. *)
EXTENDS SshPool, TLC

\* Requests are interchangeable, and so are hosts.
Symmetry == Permutations(Callers) \cup Permutations(Hosts)

=============================================================================

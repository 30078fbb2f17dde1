---------------------------- MODULE MCCicdEngine ----------------------------
(* Instances of CicdEngine for TLC. *)
EXTENDS CicdEngine, TLC

CONSTANTS p1, p2, c1, c2, a1

\* Both stages of p1 need an approval: the second gate uses the entry of the first
\* one in e.approvals again.
TwoGates == (p1 :> <<TRUE, TRUE>>)

\* Bound: answers accepted in one behaviour.  Two let a run pass both gates; one
\* more may come late, for a wait that has ended, or contradict another.
AnswersBound ==
  Cardinality({<<r, i, answer>> \in RunIds \X StageIds \X Answer : answer \in answers[r][i]}) <= 3

\* p1 is one gated stage, p2 one open stage: enough where runs interact.
GateOrNot == (p1 :> <<TRUE>>) @@ (p2 :> <<FALSE>>)

Symmetry == Permutations(Callers)

=============================================================================

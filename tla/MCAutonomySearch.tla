-------------------------- MODULE MCAutonomySearch --------------------------
(* Instances of AutonomySearch for TLC. *)
EXTENDS AutonomySearch, TLC
CONSTANTS n1, n2, w1, w2

Symmetry == Permutations(Nodes) \cup Permutations(Networks)

\* At most two of the things that go wrong, in any order.
Few == faults + crashes + requests + epoch <= 2
=============================================================================

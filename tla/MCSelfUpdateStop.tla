--------------------------- MODULE MCSelfUpdateStop ---------------------------
(* An instance of SelfUpdateStop: two stops that name different transactions. *)
EXTENDS SelfUpdateStop, TLC

TwoTransactions ==
    {[id |-> "t1", revision |-> 1], [id |-> "t2", revision |-> 1]}

Symmetry == Permutations(Procs) \cup Permutations(Installations)
=============================================================================

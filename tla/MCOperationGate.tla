--------------------------- MODULE MCOperationGate ---------------------------
(***************************************************************************)
(* A finite instance of OperationGate: two goroutines compete for leases,  *)
(* two run callbacks, three admissions advance the generation.             *)
(***************************************************************************)
EXTENDS OperationGate
=============================================================================

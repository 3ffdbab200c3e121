--------------------------- MODULE MCContractRuns ---------------------------
(* Constants of ContractRuns for TLC. *)
EXTENDS ContractRuns, TLC
=============================================================================

-------------------------- MODULE MCContractCodes --------------------------
(* Values of the constants of ContractCodes for TLC. *)
EXTENDS ContractCodes, TLC

OneSeatOrAny == {0, 1}
NoneOrThree == {0, 3}

\* Workers are interchangeable, and so are learners.
CodeSymmetry == Permutations(Workers) \cup Permutations(Users)
=============================================================================

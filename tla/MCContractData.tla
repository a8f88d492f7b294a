---------------------------- MODULE MCContractData ----------------------------
(* Small instances of ContractData. *)
EXTENDS ContractData, TLC

\* Token rows are interchangeable.
TokenSymmetry == Permutations(Tokens)
=============================================================================

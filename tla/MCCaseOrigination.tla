--------------------------- MODULE MCCaseOrigination ---------------------------
(* Small instances of CaseOrigination. *)
EXTENDS CaseOrigination, TLC

CONSTANT l1

\* Every consent is the one lead's.
OneLead == [t \in Consents |-> l1]

\* Consents, cases and candidates are interchangeable.
OriginationSymmetry ==
  Permutations(Consents) \union Permutations(Cases) \union Permutations(Cuits)
=============================================================================

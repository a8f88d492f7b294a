--------------------------- MODULE MCCaseContract ---------------------------
(* Small instances of CaseContract. *)
EXTENDS CaseContract, TLC

CONSTANTS c1, c2, x1, NL

Row(t, g, r, d) == [caseType |-> t, requiresGuarantor |-> g, refinances |-> r, guarantor |-> d]

\* One loan with a codeudor.
CodeudorCase == (c1 :> Row("NEW", TRUE, NL, "complete"))

\* One loan with a single signer.
SingleCase == (c1 :> Row("NEW", FALSE, NL, "missing"))

\* Two cases that refinance the same loan.
RefinanceCases ==
  [c \in {c1, c2} |-> Row("REFINANCE", TRUE, x1, "complete")]

\* Contract rows are interchangeable; used for safety only.
ContractSymmetry == Permutations(Contracts)

\* So are two cases with the same data.
RefinanceSymmetry == Permutations(Contracts) \union Permutations(Cases)
=============================================================================

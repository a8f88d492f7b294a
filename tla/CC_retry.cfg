\* Two cases that set out to refinance the same loan, each contracted again.
CONSTANTS
  c1 = c1
  c2 = c2
  x1 = x1
  NL = NL
  NoLoan = NL
  NoCase = NoCase
  Cases = {c1, c2}
  Contracts = {k1, k2}
  OldLoans = {x1}
  CaseData <- RefinanceCases
  Environment = {"CRASH", "COMMIT_ACK"}
SPECIFICATION Spec
SYMMETRY RefinanceSymmetry
INVARIANTS OneActiveContractPerCase OneRefinancePerLoan SignedHasLoan NotifiedOnce
CHECK_DEADLOCK FALSE

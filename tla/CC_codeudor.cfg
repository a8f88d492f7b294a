\* One case with a codeudor, two contracts: the loan needs both signatures.
CONSTANTS
  c1 = c1
  c2 = c2
  x1 = x1
  NL = NL
  NoLoan = NL
  NoCase = NoCase
  Cases = {c1}
  Contracts = {k1, k2}
  OldLoans = {x1}
  CaseData <- CodeudorCase
  Environment = {"CRASH", "DECLINE", "CLOSE"}
SPECIFICATION Spec
SYMMETRY ContractSymmetry
INVARIANTS LoanIsBacked TitularSignatureIsHis
PROPERTIES ClosedIsFinal ImplementsLoanIssuance
CHECK_DEADLOCK FALSE

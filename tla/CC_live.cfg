\* Every failure of ours, declines and a provider that closes documents.
CONSTANTS
  c1 = c1
  c2 = c2
  x1 = x1
  NL = NL
  NoLoan = NL
  NoCase = NoCase
  Cases = {c1}
  Contracts = {k1, k2}
  OldLoans = {x1}
  CaseData <- SingleCase
  Environment = {"CRASH", "PDF", "DB", "COMMIT_ACK", "DECLINE", "CLOSE", "NEW_STATUS"}
SPECIFICATION FairSpec
INVARIANT ActiveContractIsInFlow
PROPERTIES PendingEnds CreatedEnds
CHECK_DEADLOCK FALSE

\* Answers of two debts and eight months; up to two offers of four instalments.
CONSTANTS
  MinDebt = 1
  MaxDebt = 15
  DebtCurve <- MCDebtCurve
  Installments = 4
  Reports <- MCReports
  NoReport = NoReport
  Terms <- MCTerms
  MaxOffers = 2
SPECIFICATION Spec
INVARIANTS WorseNeverScoresBetter OfferedIsCharged ScheduleAddsUp
CHECK_DEADLOCK FALSE

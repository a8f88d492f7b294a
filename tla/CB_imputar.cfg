\* Two payments and a quote; the clock moves while they are under way.
CONSTANTS
  Schedule <- MCSchedule
  Tna = 365
  Pagos = {p1, p2}
  Montos = {600, 1132, 1142, 1206, 1279, 2264}
  Instants <- MCInstants
SPECIFICATION CarteraSpec
SYMMETRY PagoSymmetry
INVARIANTS AppliedOnce SurplusOnlyWhenPaid SaldoAgrees ContractualOrder QuoteIsBetween
PROPERTIES NothingIsUndone FullPaymentSettles MilderOnlyWhenPaid
CHECK_DEADLOCK FALSE

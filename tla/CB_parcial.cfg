\* Two payments on the same day.
CONSTANTS
  Schedule <- MCSchedule
  Tna = 365
  Pagos = {p1, p2}
  Montos = {533, 600}
  Instants <- MCInstants
SPECIFICATION Spec
SYMMETRY PagoSymmetry
PROPERTY PartialPaymentLeavesDebt
CHECK_DEADLOCK FALSE

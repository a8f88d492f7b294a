\* One renewal.
CONSTANTS
  Cases = {c1}
  WithCodeudor = {c1}
  Tokens = {t1, t2, t3}
  NoCase = NoCase
SPECIFICATION Spec
SYMMETRY TokenSymmetry
INVARIANT CollectedIsCompleted
CHECK_DEADLOCK FALSE

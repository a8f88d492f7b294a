\* Two cases, one with a codeudor; tokens may expire.
CONSTANTS
  Cases = {c1, c2}
  WithCodeudor = {c1}
  Tokens = {t1, t2, t3, t4, t5}
  NoCase = NoCase
SPECIFICATION Spec
SYMMETRY TokenSymmetry
INVARIANTS OneUsableToken SubmittedOnce StartedIsCollected InTimeIsCompleted
CHECK_DEADLOCK FALSE

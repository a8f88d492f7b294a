\* Four logins and two logouts of one user, who is locked after two failures.
CONSTANTS
  Users = {u1}
  Logins = {l1, l2, l3, l4}
  Logouts = {o1, o2}
  MaxFailedAttempts = 2
  NoUser = NoUser
  NoSession = NoSession
SPECIFICATION Spec
SYMMETRY RequestSymmetry
INVARIANTS FailuresLock NoFailureIsLost RevokedOnce
CHECK_DEADLOCK FALSE

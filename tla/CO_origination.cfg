\* One lead with two consents, a second case waiting to happen, four candidates.
CONSTANTS
  l1 = l1
  Leads = {l1}
  Consents = {t1, t2}
  ConsentPhone <- OneLead
  Cases = {c1, c2}
  NoCase = NoCase
  Cuits = {g1, g2, g3, g4}
  MaxAttempts = 3
  MaxVersions = 3
SPECIFICATION Spec
SYMMETRY OriginationSymmetry
INVARIANTS OneCasePerLead OneOfferStands FinalIsBacked AttemptsAreSound
PROPERTIES DecisionsStand LeadLeavesOnlyByConsent
CHECK_DEADLOCK FALSE

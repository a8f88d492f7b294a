\* Four calls, two slots, one retry.
CONSTANTS
  Calls = {k1, k2, k3, k4}
  Concurrency = 2
  MaxRetries = 1
SPECIFICATION FairSpec
INVARIANTS SlotsAreCounted NobodyWaitsInVain
PROPERTIES FirstComeFirstServed CallsEnd

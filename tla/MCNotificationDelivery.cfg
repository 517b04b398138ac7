SPECIFICATION FairSpec
CONSTANTS
  Jobs = {j1}
  Workers = {w1, w2}
  MaxAttempts = 3
  MaxCrashes = 2
  None = None
INVARIANTS SingleFlight HandledOnce DeadLettered
PROPERTIES SettledForGood Settles
CHECK_DEADLOCK FALSE

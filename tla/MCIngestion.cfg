CONSTANTS
  Requests = {r1, r2}
  First = first
  Workers = {w1, w2}
  MaxTries = 2
  MaxFaults = 2
  Empty = empty
  None = none
SPECIFICATION FairSpec
INVARIANTS Searchable ProgressBacked
PROPERTIES Settles ReadableThroughout
CHECK_DEADLOCK FALSE

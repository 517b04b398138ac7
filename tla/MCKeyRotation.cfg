SPECIFICATION MCSpec
CONSTANTS
  Requests = {q1, q2}
  FileBlobs = {f1}
  InlineBlobs = {i1}
  BatchSize = 2
  MaxFaults = 1
  Original = original
  Garbage = garbage
  None = none
INVARIANTS Intact RetiredEmpty
PROPERTY RotationEnds
CHECK_DEADLOCK FALSE

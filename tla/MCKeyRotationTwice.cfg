SPECIFICATION Spec
CONSTANTS
  Requests = {q1, q2}
  FileBlobs = {f1}
  InlineBlobs = {i1}
  BatchSize = 2
  MaxFaults = 0
  Original = original
  Garbage = garbage
  None = none
SYMMETRY Symmetry
INVARIANT DataKept
CHECK_DEADLOCK FALSE

SPECIFICATION Spec
CONSTANTS
  Calls = {c1, c2, c3}
  Keys = {freeze, shed}
  Freezes = {freeze}
  MaxExpiries = 1
  None = None
SYMMETRY CallsAlike
INVARIANTS CyclesBounded OnePerClass RetriesHarmless AnswersAgree
CHECK_DEADLOCK FALSE

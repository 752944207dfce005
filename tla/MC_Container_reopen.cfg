\* a second run on the file of a first one is refused
SPECIFICATION Spec
CONSTANTS
  Process = {p1}
  MaxRuns = 2
CHECK_DEADLOCK FALSE
INVARIANT Reopenable

\* the INSERTs do not compile against the schema init() has made
SPECIFICATION Spec
CONSTANTS
  Process = {p1}
  MaxRuns = 1
CHECK_DEADLOCK FALSE
INVARIANT PreparesAfterInit

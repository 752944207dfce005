\* three processes with two runs each on one file; every process may be out of
\* runs, and then nothing moves
SPECIFICATION Spec
CONSTANTS
  Process = {p1, p2, p3}
  MaxRuns = 2
CHECK_DEADLOCK FALSE
SYMMETRY Symmetry
INVARIANTS
  RefusedOnlyWhenComplete
  SchemaBeforeInserts
  OneRunPerContainer

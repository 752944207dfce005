\* the whole backup on four volumes, three workers, every outcome of the
\* statements the workers prepare and of an exception in a task
SPECIFICATION FairSpec
CONSTANTS
  Record <- MCRecord
  Volumes <- MCVolumes
  Worker = {w1, w2, w3}
  FtPrepare = {TRUE, FALSE}
  DtPrepare = {TRUE, FALSE}
  PoolCatches = {TRUE, FALSE}
INVARIANTS
  TypeOK
  WaitIsComplete
  ReportIsExact
  OneTaskPerDirectory
  ContainerOutlivesInit
PROPERTIES
  ImplementsDirWalk
  Terminates

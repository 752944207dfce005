\* two threads on one handle; short reads, failures, and the volume's end
SPECIFICATION FairSpec
CONSTANTS
  Caller = {c1, c2}
  DiskSize = 5
  MaxSize = 2
  Dword = 3
  Offset <- MCOffset
INVARIANTS
  IoWithinCall
  NoEventLeak
PROPERTIES
  ImplementsBlockRead
  ReadEnds

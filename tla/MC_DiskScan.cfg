CONSTANTS
  Machines <- MCMachines
  Commands <- MCCommands
  SeekWord = 8
  Gap = 4
  Lba = 64
  GptSectors = 2
  MaxEbrs = 6
SPECIFICATION Spec
INVARIANTS TypeOK PartitionsFound NumbersGiveBack ListIsComplete NtfsDecision AskedVolumeIsUsed
PROPERTIES ScanEnds
CHECK_DEADLOCK FALSE

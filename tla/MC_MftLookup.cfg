\* every record of seven volumes, within the runs and beyond them, with up to
\* two writes of the record by NTFS while it is being read
SPECIFICATION LookupSpec
CONSTANTS
  Volumes <- MCVolumes
  Layouts <- MCLayouts
  Base = 8
  MaxWidth = 2
  Number = {0, 1, 2, 3, 4, 5, 6}
  MaxWrites = 2
INVARIANTS
  TypeOK
  QuietRecordIsExact
  NotFoundIsOutside

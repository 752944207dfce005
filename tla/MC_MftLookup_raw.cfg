\* the address printed for a record of a fragmented $MFT is not its own
SPECIFICATION LookupSpec
CONSTANTS
  Volumes <- MCVolumes
  Layouts <- MCLayouts
  Base = 8
  MaxWidth = 2
  Number = {0, 1, 2, 3, 4, 5, 6}
  MaxWrites = 0
INVARIANT RawAddressIsPlace

\* a hole after a run is not decoded as one
SPECIFICATION Spec
CONSTANTS
  Base = 4
  MaxWidth = 2
  Layouts <- FewLayouts
INVARIANT HolesAreZero

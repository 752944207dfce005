\* every layout of up to three runs, in every width that holds it
SPECIFICATION FairSpec
CONSTANTS
  Base = 4
  MaxWidth = 2
  Layouts <- MCLayouts
INVARIANTS
  DecodesLayout
  StaysInList
PROPERTY AlwaysAnswers

\* the calls of eight ways to keep a directory and eight histories of its
\* tree; paths of up to three parts on four volumes
SPECIFICATION PathSpec
CONSTANTS
  Directories <- MCDirectories
  HeaderSize = 9
  Requests <- MCRequests
  Fold <- MCFold
  Short <- MCShort
INVARIANTS
  QuietIndexIsExact
  NothingInvented
  RecursionBounded
  WellKeptIsAnswered
  PathIsExact
  ListIsExact
PROPERTY Ends

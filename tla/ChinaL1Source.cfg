CONSTANTS
  a = a
  b = b
  Names = {a, b}
  Captures <- Files
  FileHeader = 24
  QuoteBytes <- Guava2
  MaxPos = 2
  Counts <- Written
SPECIFICATION Spec
INVARIANTS
  LoadedInOrder
  CursorBacked
  DataAtCursor
PROPERTIES
  LoadEnds
CHECK_DEADLOCK FALSE

CONSTANTS
  Writers = {p, q}
  Readers = {p, r}
  Size = 3
  MaxMsgs = 4
  MaxReads = 3
SPECIFICATION Spec
INVARIANTS
  WholeMessages
  NeverLost
  InOrder
  PrintedOnce
CHECK_DEADLOCK FALSE

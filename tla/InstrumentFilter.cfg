CONSTANTS
  f1 = f1
  f2 = f2
  a = a
  b = b
  Filters = {f1, f2}
  Names = {a, b}
  Primary = 2
  MaxLen = 4
  WrittenSizes = {3}
SPECIFICATION Spec
INVARIANTS
  Backed
  ReadsBack
  ShortOnlyBySum
SYMMETRY Alike
CHECK_DEADLOCK FALSE

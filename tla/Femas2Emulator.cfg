CONSTANTS
  Sizes <- AskedSizes
  IntMax <- Largest
  BulkSize = 4
  Header = 256
  ShmSize = 1280
  Areas <- AreaSizes
  Types = {0, 1, 2, 3, 5, 8, 13}
  LocalIDs = {0, 1}
  MaxQueue = 2
SPECIFICATION FemasSpec
INVARIANTS
  BulksApart
  BulksMapped
  SessionBelieved
PROPERTIES
  BulksStay
CHECK_DEADLOCK FALSE

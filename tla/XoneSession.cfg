CONSTANTS
  Accounts = {a1, a2}
  OtherReqs = {}
  Addresses <- SomeAddresses
  MaxCalls = 4
  MaxPolls = 3
  LoginRounds = 3
  WaitCount = 4
SPECIFICATION SessionSpec
INVARIANTS
  LoginIsFresh
  ResponsesAreWhole
PROPERTIES
  SessionEnds
  WorkerIsGone

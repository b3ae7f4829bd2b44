CONSTANTS
  Accounts = {a1}
  OtherReqs = {order}
  Addresses <- SomeAddresses
  MaxCalls = 2
  MaxPolls = 2
SPECIFICATION XoneSpec
INVARIANT
  JoinWaits

CONSTANTS
  Accounts = {a1}
  OtherReqs = {order}
  Addresses <- SomeAddresses
  MaxCalls = 3
  MaxPolls = 2
SPECIFICATION Spec
INVARIANTS
  Inv
  ExactlyOnce
PROPERTIES
  MailboxRefined
  RequestIsTaken
  BatchIsServed
  WorkerExits
  CallsReturn

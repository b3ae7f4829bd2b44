SPECIFICATION Spec
CONSTANTS
  Addrs = {a1}
  NullWindow = null
  Stray = stray
  MaxProxies = 3
  Refs <- FewRefs
INVARIANTS
  ErrorsReported
  RedirectRestores
  
CHECK_DEADLOCK FALSE

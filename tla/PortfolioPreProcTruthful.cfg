CONSTANTS
  QuoteSize = 2
  FeatureSize = 4
  Feature <- FewFeatures
  Lanes = 2
  MaxTime = 2
SPECIFICATION Spec
INVARIANTS
  PreProcTruthful
CHECK_DEADLOCK FALSE

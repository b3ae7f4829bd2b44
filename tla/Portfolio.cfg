CONSTANTS
  QuoteSize = 2
  FeatureSize = 12
  Feature <- SomeFeatures
  Lanes = 4
  MaxTime = 3
SPECIFICATION Spec
INVARIANTS
  ReadyMeansSeen
  SignalsBehindForecast
PROPERTIES
  EmaForward
CHECK_DEADLOCK FALSE

CONSTANTS
  Products = {"cu", "ni"}
  Instruments = {1, 2, 3, 4, 5}
  Dates = {1, 2, 3}
  MaxGroups = 2
  Features <- SomeFeatures
SPECIFICATION Spec
INVARIANTS
  RolledToDate
  MostTraded

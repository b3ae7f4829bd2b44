SPECIFICATION FlipSpec
CONSTANTS
  Quarter = 10
  MaxClicks = 4
  MaxAngle = 40
INVARIANTS
  Facing
PROPERTIES
  TurnEnds
CHECK_DEADLOCK FALSE

CONSTANTS
  Partners <- MCPartners
  MaxPolls = 2
SPECIFICATION Spec
PROPERTIES
  SpeedAsNegotiated
CHECK_DEADLOCK FALSE

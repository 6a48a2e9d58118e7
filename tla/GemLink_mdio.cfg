CONSTANTS
  Partners <- MCPartners
  MaxPolls = 2
SPECIFICATION Spec
PROPERTIES
  UpIsTrue
CHECK_DEADLOCK FALSE

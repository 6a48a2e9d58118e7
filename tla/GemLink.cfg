CONSTANTS
  Partners <- MCPartners
  MaxPolls = 2
SPECIFICATION FairSpec
INVARIANTS
  Unloadable
  LineReady
PROPERTIES
  LinkIsReported
CHECK_DEADLOCK FALSE

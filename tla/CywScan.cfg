\* Three access points and a cache of two, two scans, one event of one result in the
\* chip besides the terminal ones.
CONSTANTS
  Beacons <- MCBeacons
  Channels <- MCChannels
  CacheSize = 2
  MaxScans = 2
  MaxEvents = 1
  MaxReports = 3
  Faults = TRUE
  NoBss = NoBss
SPECIFICATION MCSpec
INVARIANTS
  ScanStateSound
  JoinsAsHeard
PROPERTY FlagClears
CHECK_DEADLOCK FALSE

CONSTANTS
  Codes <- MCCodes
  Settings <- MCSettings
  Word = 1073741824
  MaxTemp = 120000
  Offset = 450000
  Slope = 550
  Period = 41566
  ClkPeriod = 163
  FullSpeed = 255
  DefaultTemp = 50000
  DefaultTemps <- MCTemps
  DefaultHysts <- MCHysts
  DefaultSpeeds <- MCSpeeds
SPECIFICATION FairSpec
INVARIANT OffAfterUnload
PROPERTIES
  LevelIsHighestRung
  CoolsAsPromised
  SpeedTakesEffect
  HotRunsMax

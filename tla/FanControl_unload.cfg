CONSTANTS
  Codes <- FewCodes
  Settings <- NoSettings
  Word = 1073741824
  MaxTemp = 120000
  Offset = 450000
  Slope = 550
  Period = 41566
  ClkPeriod = 163
  FullSpeed = 255
  DefaultTemp = 50000
  DefaultTemps <- MCTemps
  DefaultHysts <- MCHysts
  DefaultSpeeds <- MCSpeeds
SPECIFICATION FairSpec
PROPERTY SocUnloads

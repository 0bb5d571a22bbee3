SPECIFICATION Spec
CONSTANTS
  Absent = Absent
  dsr = dsr
  dpd = dpd
  age = age
  Missing = Absent
  Values <- MCValues
  Bins = 5
  MinBins = 3
  MinShare = 15
  BadRateUnit = 10
  Characteristics <- MCCharacteristics
  Bureau <- MCBureau
  Weight <- MCWeight
  BaseScore = 110
  MinScore = 112
  MaxScore = 150
  MaxReasons = 2
  Materiality = 8
  RateUnit = 10
  Target = 3
  GridStep = 5
  Window = 20
  MinMarginal = 2
  BandCount = 4
  ReferralWidth = 15
  LowestScore = 112
  MaxBands = 4
  MinPerBand = 2
  MinBands = 2
  CurrentCutoff = 122
  DevelopmentSamples <- MCDevelopmentSamples
  Sampled <- MCSampled
  Cells <- MCCells
  References <- MCReferences
  Lives <- MCLives
CHECK_DEADLOCK FALSE
INVARIANTS
  BinsAreSound
  TrainServeAgree
  ReasonsAreTheWorst
  RecommendedWithinAppetite
  EveryoneIsAccountedFor
  DriftReadsTrue

SPECIFICATION Spec
CONSTANTS
  NumSources = 2
  Profiles <- SixAndNine
  Temps <- Warm
  Luts <- OneLut
  BootLut <- Lut70
  Tach <- OffAndOn
  Trips <- HighTrip
  DebugModes <- OneDebug
  LutSources <- FirstSource
  Mixes <- SoccpAndPower
  QueueLen = 1
  MaxCalls = 1
INVARIANT ConstraintHolds

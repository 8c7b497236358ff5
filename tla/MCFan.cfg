SPECIFICATION FairSpec
CONSTANTS
  NumSources = 2
  Profiles <- SixAndNine
  Temps <- Warm
  Luts <- OneLut
  BootLut <- Lut70
  Tach <- OffAndOn
  Trips <- HighTrip
  DebugModes <- OneDebug
  LutSources <- FirstSource
  Mixes <- OneOfFour
  QueueLen = 1
  MaxCalls = 2
INVARIANTS TypeOK StatusAnnounced HottestSourceServed
PROPERTIES SettingsTakeEffect CrossingRepeats FanPowerFollows

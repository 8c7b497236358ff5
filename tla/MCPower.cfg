SPECIFICATION PowerSpec
CONSTANTS
  soccp = soccp
  HostRequests <- HostStates
  Callers <- SocCp
  CallerRequests <- SocCpStates
  ShellDp = TRUE
INVARIANTS SpacedHonoured SleepOnlyInStandby

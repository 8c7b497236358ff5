SPECIFICATION Spec
CONSTANTS
  HostRequests <- HostStates
  Callers <- NoOne
  CallerRequests <- NoOne
  ShellDp = FALSE
  Devices <- TwoDevices
  Working <- Second
  HostRates <- TooFast
  ShellRates <- Zero
  Guarded <- Second
INVARIANTS TypeOK ResumeLostOnlyInWindow ThresholdsOfOneWriter
PROPERTIES SamplingFollowsPower

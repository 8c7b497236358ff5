SPECIFICATION Spec
CONSTANTS
  Clients <- Threads
  Requests <- BootRequests
  Results <- BootResults
  QueueLen = 4
  EINPROGRESS = EINPROGRESS
  NoMessage = NoMessage
  Images <- OneImage
  Validation <- AllSum
  HostCommands = {"exit", "erase", "erase_region", "stage", "write"}
  FlashFails = TRUE
  MaxBoots = 1
  MaxUpdates = 2
  FailLimit = 2
  MaxFails = 2
INVARIANTS BootTypeOK LoadedIsVerified StuckImageStays
CHECK_DEADLOCK FALSE

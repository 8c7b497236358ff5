SPECIFICATION FairSpec
CONSTANTS
  Clients <- Threads
  Requests <- BootRequests
  Results <- BootResults
  QueueLen = 4
  EINPROGRESS = EINPROGRESS
  NoMessage = NoMessage
  Images <- OneImage
  Validation <- AllCrc
  HostCommands = {"enter", "exit", "reset", "oops", "assert", "watchdog", "jump", "crc", "read"}
  FlashFails = FALSE
  MaxBoots = 2
  MaxUpdates = 1
  FailLimit = 3
  MaxFails = 4
INVARIANTS ReasonIsLastAsked StaysUntilTold
PROPERTIES GoodImageBoots GoodNotCondemned
CHECK_DEADLOCK FALSE

SPECIFICATION FairFlashSpec
CONSTANTS
  main = main
  work = work
  acpi = acpi
  Clients <- ThreeClients
  Requests <- SomeRequests
  Results <- OkOrNot
  QueueLen = 2
  EINPROGRESS = EINPROGRESS
  NoMessage = NoMessage
INVARIANTS FlashTypeOK StackSafe OwnResult
PROPERTIES CallsSpec EveryCallReturns

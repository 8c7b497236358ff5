SPECIFICATION FairSpec
CONSTANTS
  AcpiMand <- FixedAndOptional
  SoccpMand <- SoccpTable
  Answering <- Reading
  Unknown = Unknown
  ReceLen = 3
  MaxLen = 4
  MaxLater = 2
  MaxCommands = 2
INVARIANTS TypeOK LastCommandSeen AnswerStands
PROPERTIES EveryTransferSeen RunsOnce

SPECIFICATION DriversSpec
CONSTANTS
  Size = 3
  MaxLen = 4
  Keys = {"LSHIFT", "LETTER", "TAB", "BACKSPACE", "ENTER"}
  MaxTyped = 5
  Sectors = 2
  SECTOR_SIZE = 2
  Ranges <- MCRanges
  Payload <- MCPayload
  Blank = 0
INVARIANTS KeyboardTypeOK CountAccounts OneLossAbsorbed TypeOK Durable ReadOK
PROPERTIES AvailableIsRead RequestEnds

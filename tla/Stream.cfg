SPECIFICATION FairSpec
CONSTANTS
  Kinds = {"transparent", "chat", "converting"}
  Adapters = {"plain", "ndjson"}
  MaxPieces = 3
INVARIANTS
  EndIsRecordedFirst
  SuccessIsEarned
PROPERTIES
  RecordsOnce
  RecordedInTheEnd
CHECK_DEADLOCK FALSE

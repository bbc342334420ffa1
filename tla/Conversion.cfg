SPECIFICATION MCSpec
CONSTANTS
  AdapterKinds = {"plain", "command_code"}
  Entries = {"claude", "responses"}
  CallIds = {1, 2}
  MaxEvents = 5
  HistoryCalls = {1, 2}
  MaxMessages = 3
  MaxInput = 5
  MaxParts = 2
INVARIANTS
  ClientUnderstands
  SameAnswer
  EveryCallAnsweredOnce
CHECK_DEADLOCK FALSE

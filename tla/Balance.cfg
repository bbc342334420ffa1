SPECIFICATION FairSpec
CONSTANTS
  c1 = c1
  c2 = c2
  a1 = a1
  s1 = s1
  Channels = {c1, c2}
  Offered = {"mimo", "openrouter"}
  Askers = {a1}
  Slots = {s1}
  Amounts <- MCAmounts
 
PROPERTIES BatchAnswersAll RefreshEnds
CHECK_DEADLOCK FALSE

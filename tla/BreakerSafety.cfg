SPECIFICATION Spec
CONSTANTS
  plain = plain
  cc = cc
  Channels = {plain, cc}
  CommandCode = {cc}
  Sound = {plain}
  Requests = {r1}
  Probes = {p1, p2}
  Priority <- MCPriority
  Threshold = 2
  OpenTicks = 1
  QuotaTicks = 1
  QueueBound = 2
SYMMETRY Symmetry
INVARIANTS
  OpenHasDeadline
  ActiveBelowThreshold
  InFlightSetExact
  SoundNeverOpens
CHECK_DEADLOCK FALSE

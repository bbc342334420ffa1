SPECIFICATION FairSpec
CONSTANTS
  plain = plain
  cc = cc
  Channels = {plain}
  CommandCode = {}
  Sound = {}
  Requests = {r1}
  Probes = {p1, p2}
  Priority <- MCPriority
  Threshold = 2
  OpenTicks = 1
  QuotaTicks = 1
  QueueBound = 1
PROPERTIES
  OpenIsProbed
  HealthyRecovers
CHECK_DEADLOCK FALSE

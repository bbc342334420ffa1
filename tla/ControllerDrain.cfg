SPECIFICATION FairSpec
CONSTANTS
  s1 = s1
  s2 = s2
  q1 = q1
  p1 = p1
  p2 = p2
  Launcher = Launcher
  Setters <- MCOneSetter
  Quitters <- MCOneQuitter
  Ports <- MCPorts
  Generations <- MCTwoGenerations
PROPERTIES DrainsOnce DeadLeavesSlot CallsReturn
CHECK_DEADLOCK FALSE

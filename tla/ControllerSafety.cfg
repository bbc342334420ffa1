SPECIFICATION Spec
CONSTANTS
  s1 = s1
  s2 = s2
  q1 = q1
  p1 = p1
  p2 = p2
  Launcher = Launcher
  Setters <- MCTwoSetters
  Quitters <- MCOneQuitter
  Ports <- MCPorts
  Generations <- MCThreeGenerations
SYMMETRY SafetySymmetry
INVARIANTS NoOrphan RunningIsReal EndIsShown
CHECK_DEADLOCK FALSE

SPECIFICATION MCSpec
CONSTANTS
  m1 = m1
  u1 = u1
  Entry = {"claude"}
  Family = {}
  Models = {m1}
  Callers = {u1}
  Bundled = {m1}
  MaxRuns = 2
  MaxRestarts = 1
INVARIANTS ScheduledOnce
PROPERTIES NewCandidateIsBound OnlyDiscoveryUnbinds RunIsAnswered
CHECK_DEADLOCK FALSE

SPECIFICATION FairSpec
CONSTANTS
  r1 = r1
  r2 = r2
  Requests = {r1, r2}
  Capacities = {1, 2}
  MaxChanges = 2
INVARIANTS PermitsReturn RefusalIsNotTheAnswer
 
CHECK_DEADLOCK FALSE

SPECIFICATION FairSpec
CONSTANTS
  t1 = t1
  t2 = t2
  t3 = t3
  Tasks <- MCTasks
  Tracked <- MCTracked
  Reaper = Reaper
  Owner = Owner
  MaxRecorded = 1
 
PROPERTIES DrainsOnce DrainEnds FinishedReaped
CHECK_DEADLOCK FALSE

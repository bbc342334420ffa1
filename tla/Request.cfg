\* One request, one channel to try three times, a failure for each thing
\* FailoverState remembers (a reply, the gateway's own, a reset that is not
\* recorded, a timeout, nothing), and a crash.
SPECIFICATION FairSpec
CONSTANTS
  r1 = r1
  c1 = c1
  NoChannel = NoChannel
  Requests <- MCOne
  Channels <- MCOnly
  Capacity = 1
  Modes = {"plain", "stream", "compaction"}
  Happening = {"unsendable", "silent", "refused", "inBand", "malformed"}
  MaxFailover = 3
  MaxCrashes = 1
INVARIANTS LogTellsTheAnswer AttemptsFitTrail 
PROPERTIES PendingResolved
CHECK_DEADLOCK FALSE

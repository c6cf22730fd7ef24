SPECIFICATION FairSpec
CONSTANTS
  p1 = p1  p2 = p2
  Procs <- MCProcs
  Does <- MCDoes
  MaxJobs = 3
  MaxTime = 2
  Pause = 2
  Mid = 99
INVARIANTS LogFollows HundredSent PbackupApart CancelLeavesNone
PROPERTIES CancelEnds
CHECK_DEADLOCK FALSE

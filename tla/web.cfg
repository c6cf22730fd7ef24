SPECIFICATION FairSpec
CONSTANTS
  Named = 4
  MAXFILES = 3
  maxnconn = 2
  Chunks = 2
INVARIANTS CountersTrue Watched ExitReadAll NeverFetchedUnconnected
PROPERTIES Terminates
CHECK_DEADLOCK FALSE

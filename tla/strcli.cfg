SPECIFICATION FairSpec
CONSTANTS
  MAXLINE = 3
  NBytes = 5
  SndCap = 1
  RcvCap = 2
  OutCap = 1
INVARIANTS TypeOK InOrder ShortInputRead ReturnComplete
PROPERTIES Terminates
CHECK_DEADLOCK FALSE

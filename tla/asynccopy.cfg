SPECIFICATION FairSpec
CONSTANTS
  Input <- MCInput
  Size = 7
  BSZ = 2
  NBUF = 2
INVARIANTS NumopTrue OneBufferEach
PROPERTIES Copies
CHECK_DEADLOCK FALSE

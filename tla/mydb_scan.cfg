SPECIFICATION FairSpec
CONSTANTS
  p1 = p1  p2 = p2  NoProc = NoProc
  a = a  b = b  c = c  long = long  x = x  y = y  big = big
  SPACE = SPACE
  Procs = {p1, p2}
  Keys = {a, b}
  Vals = {x, y}
  NHASH = 1
  Hash <- MCHash
  KeyLen <- MCKeyLen
  DatLen <- MCDatLen
  DATLEN_MAX = 3
  KEYLEN_MAX = 3
  PTR_MAX = 99
  MaxRecs = 2
  MaxDats = 3
  MaxTorn = 1
  DiskFull = TRUE
  Requests <- MCScan
PROPERTIES Linearizable CallReturns

SPECIFICATION SpecCrash
CONSTANTS
  p1 = p1  p2 = p2  NoProc = NoProc
  a = a  b = b  c = c  long = long  x = x  y = y  big = big
  SPACE = SPACE
  Procs = {p1, p2}
  Keys = {a, b, c, long}
  Vals = {x, big}
  NHASH = 2
  Hash <- MCHash
  KeyLen <- MCKeyLen
  DatLen <- MCDatLen
  DATLEN_MAX = 3
  KEYLEN_MAX = 3
  PTR_MAX = 5
  MaxRecs = 3
  MaxDats = 3
  MaxTorn = 1
  DiskFull = FALSE
  Requests <- MCChange
INVARIANTS ChainsSound DataPrivate PtrFits
SYMMETRY Symmetry

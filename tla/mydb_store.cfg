SPECIFICATION Spec
CONSTANTS
  p1 = p1  p2 = p2  NoProc = NoProc
  a = a  b = b  c = c  long = long  x = x  y = y  big = big
  SPACE = SPACE
  Procs = {p1, p2}
  Keys = {a, b, c}
  Vals = {x, y}
  NHASH = 2
  Hash <- MCHash
  KeyLen <- MCKeyLen2
  DatLen <- MCDatLen
  DATLEN_MAX = 3
  KEYLEN_MAX = 3
  PTR_MAX = 99
  MaxRecs = 3
  MaxDats = 3
  MaxTorn = 1
  DiskFull = FALSE
  Requests <- MCUpdates
INVARIANTS TypeOK ChainsSound FreeSound UniqueKey ReadsGood
PROPERTIES Linearizable ShapeStable
SYMMETRY Symmetry

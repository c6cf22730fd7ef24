SPECIFICATION Spec
CONSTANTS
  p1 = p1  p2 = p2  p3 = p3  r1 = r1  r2 = r2
  Procs = {p1, p2, p3}
  NoProc = NoProc
  Recs = {r1, r2}
  NoRec = NoRec
  Modes <- AllModes
INVARIANTS StoredLinked CreatorFindsHeads
SYMMETRY Symmetry

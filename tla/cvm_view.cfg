SPECIFICATION Spec
CONSTANTS
  p1 = p1  p2 = p2
  Ids = {1, 2}
  Cvms = {p1, p2}
  Jobs <- ViewJobs
  MaxLaunches = 1
INVARIANTS ViewSettled
SYMMETRY Symmetry

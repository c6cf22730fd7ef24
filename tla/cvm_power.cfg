SPECIFICATION Spec
CONSTANTS
  p1 = p1  p2 = p2
  Ids = {1}
  Cvms = {p1, p2}
  Jobs <- PowerJobs
  MaxLaunches = 2
INVARIANTS AnswersTrue ActsOffline
SYMMETRY Symmetry

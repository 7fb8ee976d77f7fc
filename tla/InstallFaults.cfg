SPECIFICATION Spec
CONSTANTS
  Runs = {r1, r2}
  Versions = {1, 2}
  Edited = Edited
  Corrupt = Corrupt
  NoFile = NoFile
  NoState = NoState
  Jobs <- FaultJobs
  Faults = {"io", "signal", "kill"}
  MaxFailures = 2
  Sequential = FALSE
CHECK_DEADLOCK FALSE
SYMMETRY RunSymmetry
INVARIANTS
  OnlyVerified
  NoLitter

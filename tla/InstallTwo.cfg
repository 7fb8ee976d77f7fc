SPECIFICATION Spec
CONSTANTS
  Runs = {r1, r2}
  Versions = {1, 2, 3}
  Edited = Edited
  Corrupt = Corrupt
  NoFile = NoFile
  NoState = NoState
  Jobs <- PlainJobs
  Faults = {}
  MaxFailures = 0
  Sequential = FALSE
CHECK_DEADLOCK FALSE
PROPERTIES
  NoDowngrade

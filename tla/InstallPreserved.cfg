SPECIFICATION Spec
CONSTANTS
  Runs = {r1}
  Versions = {1, 2}
  Edited = Edited
  Corrupt = Corrupt
  NoFile = NoFile
  NoState = NoState
  Jobs <- AllJobs
  Faults = {"io"}
  MaxFailures = 2
  Sequential = TRUE
CHECK_DEADLOCK FALSE
PROPERTIES
  PreservedIsTrue

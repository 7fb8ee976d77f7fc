SPECIFICATION Spec
CONSTANTS
  Runs = {r1, r2}
  Versions = {1, 2}
  Edited = Edited
  Corrupt = Corrupt
  NoFile = NoFile
  NoState = NoState
  Jobs <- PairJobs
  Faults = {"io", "kill"}
  MaxFailures = 2
  Sequential = TRUE
CHECK_DEADLOCK FALSE
SYMMETRY RunSymmetry
INVARIANTS
  TypeOK
  NeverMissing
PROPERTIES
  AllOrNothing
  PathFollowsState
  UnmanagedRefused
  EditedKept
  KeepsInstallation

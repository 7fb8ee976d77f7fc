SPECIFICATION Spec
CONSTANTS
  Versions = {1, 2}
  Edited = Edited
  Corrupt = Corrupt
  NoFile = NoFile
  NoState = NoState
  Jobs <- AllJobs
  Faults = {"io", "stop", "kill"}
  MaxRuns = 2
  MaxFailures = 2
  MaxEdits = 1
CHECK_DEADLOCK FALSE
INVARIANTS
  TypeOK
  OutcomeIsTrue
  PathFollowsState
  NeverMissing
  UnmanagedRefused
PROPERTIES
  OthersKept
  KeepsInstallation

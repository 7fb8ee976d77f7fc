SPECIFICATION Spec
CONSTANTS
  Senders = {"s1", "s2", "s3"}
  NoOne = NoOne
  Paths <- MCPaths
  PortablePaths <- MCPortable
  Names <- MCNames
  Candidate <- MCCandidate
  Ancestors <- MCAncestors
  VERSION = 2
  MaxSize = 2
  MaxTotal = 3
  MaxActive = 2
  MaxIncoming = 2
  MaxEntries = 2
  Configs <- SafetyConfigs
INVARIANTS
  TypeOK
  DoneMeansSaved
  RejectedMeansMissing
  DestinationOwned
  OneNamePerEntry
  NoPartialLeft
  OnePrompt
  OnlyApproved
  PermitsAccounted
PROPERTIES
  NeverClobber
  KeepsPromise

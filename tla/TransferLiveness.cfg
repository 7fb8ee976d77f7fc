SPECIFICATION FairSpec
CONSTANTS
  Senders = {"s1", "s2"}
  NoOne = NoOne
  Paths <- MCPaths
  PortablePaths <- MCPortable
  Names <- MCNames
  Candidate <- MCCandidate
  Ancestors <- MCAncestors
  VERSION = 2
  MaxSize = 2
  MaxTotal = 3
  MaxActive = 2
  MaxIncoming = 1
  MaxEntries = 2
  Configs <- LivenessConfigs
PROPERTIES
  SessionsEnd
  SendersFinish
  InterruptStops
  OnceExits

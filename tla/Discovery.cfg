SPECIFICATION FairSpec
CONSTANTS
    desk = desk
    desk2 = desk2
    here = here
    byName = byName
    byId = byId
    None = None
    NoSelector = NoSelector
    Receivers <- MCReceivers
    Name <- MCName
    Sockets <- MCSockets
    Loopback <- MCLoopback
    Machine <- MCMachine
    Here = 2
    Version <- MCVersion
    VERSION = 2
    Selectors <- MCSelectors
    Matches <- MCMatches
    Timeout = 2
INVARIANTS
    TypeOK
    RightReceiver
    NoGuess
    AdvertisedIsServed
PROPERTY ScanEnds

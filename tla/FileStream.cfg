SPECIFICATION FairSpec
CONSTANTS
    b0 = b0
    b1 = b1
    Byte = {b0, b1}
    MaxLength = 3
    MaxEdits = 1
    CHUNK_SIZE = 2
    DIGEST_LENGTH = 2
    PREFIX_LENGTH = 2
    HeaderLength = 2
    MAX_MESSAGE_LENGTH = 3
    Window = 3
INVARIANTS
    TypeOK
    VerifiedIsWhole
PROPERTIES
    StreamEnds
    KeepsPromise

CONSTANTS
    CAPACITY = 14
    MAX_HEADER = 11
    MAX_CHUNK_LINE = 2
    MAX_TRAILER_LINE = 3
    Streams <- SmallStreams
    Datagrams <- SmallDatagrams
    Foreign <- MatchingForeign
    Pool <- SmallPool
    MaxListed = 3
    Links <- SmallLinks
    OurIndex = 1
    DUMP_DEADLINE = 4
    MaxMoves = 1
    EntryCells <- SmallEntries
    MaxEntries = 3
    Allowed <- SmallAllowed
    ServiceLabels = {"_s", "_r"}
    MAX_NAME_LEN = 9
    STEPS_PER_BYTE = 4
SPECIFICATION Spec
INVARIANTS MessagesRelayed DatagramsArrive FilterAgrees ResolvedIsBest 
CHECK_DEADLOCK FALSE

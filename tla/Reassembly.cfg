\* Three units, the last one a single byte of two, are enough for a first, a middle and a last
\* fragment, an overlap, and an end inside a unit; three datagrams compete for two slots and two places in the discard list.
CONSTANTS
    Datagrams = {d1, d2, d3}
    SLOTS = 2
    DISCARDS = 2
    EXPIRY = 1
    FRAGMENT_UNIT = 2
    MAX_DATAGRAM_LEN = 5
SPECIFICATION Spec
SYMMETRY Symmetry
INVARIANT OwnBytes
PROPERTY Accounted

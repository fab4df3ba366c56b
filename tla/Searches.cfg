\* Two searchers and a cap of two sessions, on a link and towards an IPv6 peer.
SPECIFICATION Spec
CONSTANTS
    Protocol = "SSDP"
    Searchers = {s1, s2}
    Ports = {p1, p2}
    Deliveries = {{}, {"routable"}}
    MXs = {0, 9}
    MAX_SESSIONS = 2
    MaxSearches = 3
    MaxChanges = 1
INVARIANTS SessionsInStep RepliesComeBack
PROPERTY SessionsEnd
CHECK_DEADLOCK FALSE

\* Every call a callback can make, by three handlers over two fds that are reused.
SPECIFICATION Spec
CONSTANTS
    GenMod = 8
    NoValue = NoValue
    Fds = {3, 4}
    EventCapacity = 2
    MaxHandlers = 3
    MaxWatches = 4
    MaxCalls = 3
INVARIANTS
    WatchesConsistent
    DeliveredToWatcher
    HandlerComesBack
PROPERTIES
    OnlyOwnRegistrations

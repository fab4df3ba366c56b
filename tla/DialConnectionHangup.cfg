\* A hangup and a reading of the same wait.
SPECIFICATION Spec
CONSTANTS
    Units = 2
    MAX_RECV = 2
    MAX_SEND = 2
    Window = 1
    CONNECT_TIMEOUT = 1
    IDLE_TIMEOUT = 2
    MaxFaults = 0
PROPERTY DrainsAfterHangup
CHECK_DEADLOCK FALSE

\* Two bytes each way through a window of one, in reads of one and writes of two.
SPECIFICATION Spec
CONSTANTS
    Units = 2
    MAX_RECV = 1
    MAX_SEND = 2
    Window = 1
    CONNECT_TIMEOUT = 1
    IDLE_TIMEOUT = 1
    MaxFaults = 1
INVARIANTS NeverPanics SpliceIsFifo BacklogIsArmed WedgedAgesOut
PROPERTY HangupIsServed
CHECK_DEADLOCK FALSE

\* One interface with two captures, and what is held over it, on each platform.
SPECIFICATION Spec
CONSTANTS
    Platforms = {"linux", "freebsd", "macos"}
    Count = 1
    CapturesPer = 2
    Groups = {g1}
    Versions = 2
    HolderKinds = {"dial", "session_v6"}
    RECONCILE_TICK = 2
    MaxCreations = 2
    MaxChanges = 2
    MaxFaults = 1
INVARIANTS RepairedInTime AnnouncedIsPrompt NothingStale

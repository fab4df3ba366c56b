CONSTANTS
    EnvEntries <- SmallEnv
    FileEntries <- SmallFile
    Respelled = {"source_if", "mdns", "address_family", "colour"}
    UserSettings <- SmallUserSettings
    Accounts <- SmallAccounts
    GroupNames <- SmallGroupNames
    Processes <- SmallProcesses
    Hosts <- SmallHosts
    Packets <- SmallPackets
SPECIFICATION StartupSpec
INVARIANTS  FallbackFits AsSpelled RunsWhatItRequires 
CHECK_DEADLOCK FALSE

\* One device seen from two targets and one on this host, a cap of two proxies, six sockets in all.
SPECIFICATION RegistrySpec
CONSTANTS
    Source = "lan"
    Targets = {"iot", "guest"}
    Devices = {"tv", "self"}
    Host = {"self"}
    DEFAULT_DESC_GRACE = 1
    MAX_DESC_GRACE = 2
    MAX_DIAL_PROXIES = 2
    MAX_CONNECTIONS = 1
    Sockets = 6
    MaxMints = 3
    MaxClients = 2
    MaxFailures = 1
  
PROPERTY QueuesDrain
CHECK_DEADLOCK FALSE

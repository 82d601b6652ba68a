SPECIFICATION FairSpec
CONSTANTS
    Clients = {"daemonA", "daemonB"}
    Hosts = {"a", "b"}
    HostOf <- MCHostOf
    NameOf <- MCNameOf
    JoinKeys = {"k1", "k2"}
    MaxIds = 2
    MaxToken = 2
    MaxCommands = 6
PROPERTIES
    VacantIsAcquired
CHECK_DEADLOCK FALSE

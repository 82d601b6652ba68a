SPECIFICATION FairSpec
CONSTANTS
    Clients = {"daemonA", "daemonB"}
    Hosts = {"a", "b"}
    HostOf <- MCHostOf
    NameOf <- MCNameOf
    JoinKeys = {"k1", "k2"}
    MaxIds = 2
    MaxToken = 2
    MaxCommands = 6
INVARIANTS
    KeyAdmitsOneNode
    FencingOrdersHolders
PROPERTIES
    ActiveNodesAreKept
    FirstTickFills
CHECK_DEADLOCK FALSE

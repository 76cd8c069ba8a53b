SPECIFICATION FairSpec
CONSTANTS
    Master = "host1"
    Servers <- TheServers
    Clients <- TheClients
    MaxFaults = 2
INVARIANTS TypeOK
PROPERTIES WholeKept StartsReady GetsInstalled

SPECIFICATION FairSpec
CONSTANTS
    Hosts <- TheHosts
    Addresses = {a1, a2, a3}
    None = None
    MaxFaults = 1
INVARIANTS TypeOK DoneMeansUp
PROPERTIES ReachesOwn ComesDown ComesUp

SPECIFICATION FairSpec
CONSTANTS
    None = None
    Restarts <- TheServices
    Engine = "docker"
    MaxCAs = 3
    MaxFaults = 3
INVARIANTS TypeOK Sound StaleHasReason
PROPERTIES GetsDeployed Settles

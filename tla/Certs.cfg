SPECIFICATION Spec
CONSTANTS
    Client = {"docker", "k8s"}
    Plays <- AllPlays
    Checked = "k8s"
    None = None
    NewestLast = FALSE
    Deletions <- Directory
    MaxKeys = 4
    MaxCerts = 4
    MaxFaults = 2
    MaxDeletions = 1
    MaxExpiries = 1
INVARIANTS TypeOK RequestIsOfKey OneValid

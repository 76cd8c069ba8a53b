SPECIFICATION FairSpec
CONSTANTS
    Client = {"k8s"}
    Plays <- OnePlay
    Checked = "k8s"
    None = None
    NewestLast = TRUE
    Deletions <- Directory
    MaxKeys = 4
    MaxCerts = 12
    MaxFaults = 5
    MaxDeletions = 1
    MaxExpiries = 0
PROPERTIES UsableKept Healed

SPECIFICATION Spec
CONSTANTS
    c1 = c1
    c2 = c2
    v1 = v1
    v2 = v2
    None = None
    Client = {c1, c2}
    Task <- FlagTasks
    ListAttr = {"user", "ca"}
    ScalarAttr = {}
    Value = {v1}
    ScalarValue = {"x"}
    BaseKeys <- CaaclBaseKeys
    ItemSteps <- CaaclItems
    Default <- NoDefaults
    Modifiable = {}
    Enablable = TRUE
    FlagDefault = None
    MaxRuns = 1
    MaxFaults = 1
INVARIANTS TypeOK DoneMeansDesired SecondRunIsQuiet PresentInv PresentSticks
PROPERTIES OnlyAskedChanges
SYMMETRY ClientSymmetry
CHECK_DEADLOCK FALSE

SPECIFICATION FairSpec
CONSTANTS
    c1 = c1
    c2 = c2
    v1 = v1
    v2 = v2
    None = None
    Client = {c1}
    Task <- PlainTasks
    ListAttr = {"member_user"}
    ScalarAttr = {"description"}
    Value = {v1, v2}
    ScalarValue = {"x", "y"}
    BaseKeys <- GroupBaseKeys
    ItemSteps <- GroupItems
    Default <- NoDefaults
    Modifiable = {"description"}
    Enablable = FALSE
    FlagDefault = None
    MaxRuns = 2
    MaxFaults = 2
INVARIANTS SecondRunIsQuiet CheckModePredicts
PROPERTIES StaysConverged EventuallyConverged
CHECK_DEADLOCK FALSE

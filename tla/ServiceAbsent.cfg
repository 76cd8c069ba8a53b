SPECIFICATION Spec
CONSTANTS
    c1 = c1
    c2 = c2
    v1 = v1
    v2 = v2
    None = None
    Client = {c1}
    Task <- RealTasks
    ListAttr = {"managedby_host"}
    ScalarAttr = {"ipakrbokasdelegate"}
    Value = {v1}
    ScalarValue = {"TRUE", "FALSE"}
    BaseKeys <- ServiceBaseKeys
    ItemSteps <- ServiceItems
    Default <- ServiceDefault
    Modifiable = {"ipakrbokasdelegate"}
    Enablable = FALSE
    FlagDefault = None
    MaxRuns = 1
    MaxFaults = 1
INVARIANTS AbsentRemovesService
CHECK_DEADLOCK FALSE

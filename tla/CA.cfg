SPECIFICATION Spec
CONSTANTS
    c1 = c1
    c2 = c2
    v1 = v1
    v2 = v2
    None = None
    Client = {c1, c2}
    Task <- PlainTasks
    ListAttr = {}
    ScalarAttr = {"ipacasubjectdn", "description"}
    Value = {v1}
    ScalarValue = {"x"}
    BaseKeys <- DNSBaseKeys
    ItemSteps <- NoItems
    Default <- NoDefaults
    Modifiable <- CAModifiable
    Enablable = FALSE
    FlagDefault = None
    MaxRuns = 1
    MaxFaults = 1
PROPERTIES FrozenScalars
SYMMETRY ClientSymmetry
CHECK_DEADLOCK FALSE

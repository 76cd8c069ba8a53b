SPECIFICATION FairSpec
CONSTANTS
    None = None
    MaxPart = 3
    End = 3
    Flag = {"boot"}
    Swap = 1
    Data = 2
    Layouts <- Sizes
    Calls <- ByHandCalls
    MaxFaults = 3
    MaxCalls = 2
INVARIANTS TypeOK NumbersMatch
PROPERTIES DataKept QuietWhenSetUp GetsSetUp

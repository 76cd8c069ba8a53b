SPECIFICATION Spec
CONSTANTS
    c1 = c1
    c2 = c2
    None = None
    Container = {c1, c2}
    Option <- MCOption
    Value = {"bridge", "calico"}
    Default <- MCDefault
    Unmatched = {"aux"}
    Jobs <- MCJobs
    MaxMoves = 2
    MaxCrashes = 1
INVARIANTS OneIsKept

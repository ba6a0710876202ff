SPECIFICATION Spec
CONSTANTS
    Listings = {l1, l2}
    Reporters = {u1, u2, u3}
    Threshold = 2
    MaxReports = 4
    MaxChanges = 2
    None = None
SYMMETRY Symmetry
INVARIANTS
    CountsReporters
    HiddenLeavesCache
CHECK_DEADLOCK FALSE

SPECIFICATION PagingSpec
CONSTANTS
    Listings = {1, 2, 3, 4}
    CreatedAt <- TiedCreation
    Limit = 1
    Requests = {r1, r2}
    MaxChanges = 2
    None = None
INVARIANTS
    NoRepeat
    NoSkip
CHECK_DEADLOCK FALSE
SYMMETRY Symmetry

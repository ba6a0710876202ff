INIT Init
NEXT Next
CONSTANTS
    Images = {i1, i2}
    BadImages = {i2}
    MaxImages = 1
    MaxAttempts = 2
    MaxStalls = 0
    MinAge = 2
    AttachWithin = 0
    CleanupWithin = 1
    None = None
INVARIANTS
    ListingWellFormed
    AssetsBehindImages
    AttachedStays
    DoneMeansShown
CHECK_DEADLOCK FALSE

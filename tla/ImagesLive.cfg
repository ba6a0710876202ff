SPECIFICATION Spec
CONSTANTS
    Images = {i1}
    BadImages = {}
    MaxImages = 1
    MaxAttempts = 3
    MaxStalls = 1
    MinAge = 3
    AttachWithin = 1
    CleanupWithin = 1
    None = None
PROPERTIES
    JobsEnd
    OrphansCollected
CHECK_DEADLOCK FALSE

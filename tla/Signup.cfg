SPECIFICATION Spec
CONSTANTS
    Signups = {s1, s2, s3}
    Verifies = {v1, v2, v3, v4}
    MaxAttempts = 3
    None = None
INVARIANTS
    VerifiedAccountKept
    LockoutEarned
    GuessesBounded
    CodeMatchesPassword
CHECK_DEADLOCK FALSE
SYMMETRY Symmetry

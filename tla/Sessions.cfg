SPECIFICATION WSpec
CONSTANTS
    Requests = {r1, r2, r3}
    MaxTokens = 3
    Tabs = {t1, t2}
    NoTab = NoTab
    MaxLogins = 2
    MaxFaults = 1
INVARIANTS
    WTypeOK
    OneLivePerFamily
    NoSelfReuse
    SignedInCanRefresh
PROPERTIES
    ImplementsSession
    LogoutEnds
CHECK_DEADLOCK FALSE
SYMMETRY Symmetry

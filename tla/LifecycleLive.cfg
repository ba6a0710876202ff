\* One request at a time against the sweeper, with its fairness.
CONSTANTS
    s = s
    b1 = b1
    b2 = b2
    r1 = r1
    r2 = r2
    l1 = l1
    l2 = l2
    Users = {s, b1}
    Listings = {l1, l2}
    Requests = {r1}
    Seller <- MCSeller
    TTL = 1
    MaxTime = 2
    NoOne = NoOne
    NoTime = NoTime
SPECIFICATION FairSpec
PROPERTY LapsedHoldEnds

\* One listing, two requests in flight, the clock running past one deadline.
CONSTANTS
    s = s
    b1 = b1
    b2 = b2
    r1 = r1
    r2 = r2
    l1 = l1
    l2 = l2
    Users = {s, b1, b2}
    Listings = {l1}
    Requests = {r1, r2}
    Seller <- MCSeller
    TTL = 1
    MaxTime = 3
    NoOne = NoOne
    NoTime = NoTime
SPECIFICATION Spec
SYMMETRY Symmetry
INVARIANTS
    TypeOK
    StatusAgrees
    TransitionsAnnounced
PROPERTIES
    SaleIsFinal
    HoldStands
    ImplementsContract

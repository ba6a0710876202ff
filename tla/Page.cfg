\* Two pages, of whoever is signed in; a hold of 1 lapses at time 2.
CONSTANTS
    s = s
    b1 = b1
    b2 = b2
    Users = {s, b1, b2}
    Listings = {l1}
    TheListing = l1
    Requests = {p1, p2}
    Seller <- MCSeller
    MaxOthers = 1
    TTL = 1
    MaxTime = 2
    NoOne = NoOne
    NoTime = NoTime
SPECIFICATION Spec
SYMMETRY Symmetry
ACTION_CONSTRAINT AskTogether
INVARIANTS
    ActionShown
    SoldAsNamed
    OneConversation

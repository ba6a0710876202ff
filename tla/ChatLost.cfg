\* Two messages of the seller, stored out of order around a drop.
CONSTANTS
    buyer = buyer
    seller = seller
    m1 = m1
    m2 = m2
    m3 = m3
    BuyerTries = 1
    Participants = {buyer, seller}
    Readers = {buyer}
    Messages = {m2, m3}
    Author <- MCAuthor
    MaxTries <- MCTries
    Viewers = {buyer}
    SyncPageCap = 2
    HistoryLimit = 2
    NoPage = NoPage
    FaultKinds = {"drop"}
    MaxFaults = 1
SPECIFICATION DSpec
CHECK_DEADLOCK FALSE
INVARIANT NothingLost

\* The buyer's panel; a message of the buyer, sent up to twice, and one of the
\* seller; the buyer's read pointer; one fault.
CONSTANTS
    buyer = buyer
    seller = seller
    m1 = m1
    m2 = m2
    m3 = m3
    BuyerTries = 2
    Participants = {buyer, seller}
    Readers = {buyer}
    Messages = {m1, m2}
    Author <- MCAuthor
    MaxTries <- MCTries
    Viewers = {buyer}
    SyncPageCap = 1
    HistoryLimit = 1
    NoPage = NoPage
    FaultKinds = {"drop", "crash", "failure"}
    MaxFaults = 1
SPECIFICATION DSpec
CHECK_DEADLOCK FALSE
INVARIANTS
    DTypeOK
    SeqsDistinct
    RepliesFollow
    CountsEveryUnread
    NoGapWhileConnected
    ViewAgrees
    TriesConverge

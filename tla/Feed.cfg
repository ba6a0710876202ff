\* Two readers and a writer, with three pages of one listing.
CONSTANTS
    Readers = {a, b}
    Writers = {w}
    N = 3
    PageSize = 1
    MaxWrites = 1
    NoPage = NoPage
SPECIFICATION FairSpec
INVARIANTS
    TypeOK
    PageOneOnceTrue
PROPERTY EventuallyFresh

------------------------------ MODULE FeedPages ------------------------------
(***************************************************************************)
(* Paging through the browse feed: the cursors of GET /listings            *)
(* (apps/api/src/routes/listings.ts, lib/cursor.ts), the infinite query of *)
(* apps/web/src/pages/FeedPage.tsx and the two cached pages between them,  *)
(* while listings enter and leave the feed: ListingLifecycle and Reports   *)
(* say when.                                                               *)
(*                                                                         *)
(* The cache is that of FeedCache, seen at three points of a request: it   *)
(* looks, it queries, it stores.  What is cached goes when its time is up  *)
(* or a bump makes it unreachable, which is the same to a reader.  A       *)
(* cursor is the listing whose createdAt and _id it holds.  Filters and    *)
(* search, which start a query of their own, are left out.  The model does *)
(* not follow the page any further once a cached page 2 has answered       *)
(* another cursor, because it may then show the same pages for ever.       *)
(***************************************************************************)
EXTENDS Naturals, Sequences, FiniteSets

CONSTANTS
    Listings,      \* the _ids of the listings
    CreatedAt,     \* [Listings -> createdAt]
    Limit,         \* FEED_PAGE_SIZE
    Requests,      \* GET requests that can be under way
    MaxChanges,    \* bound on changes of what is in the feed
    None           \* no cursor, no page, no request

ASSUME FeedPagesAssumption ==
    /\ Listings \subseteq Nat /\ IsFiniteSet(Listings)
    /\ None \notin Listings /\ None \notin Requests
    /\ CreatedAt \in [Listings -> Nat]
    /\ Limit \in Nat \ {0}
    /\ MaxChanges \in Nat

VARIABLES
    inFeed,        \* listings that match the query
    changes,       \* changes of inFeed so far
    p1, p2,        \* what is cached under the present version
    request,       \* [Requests -> its step, cursor and page]
    pages,         \* the infinite query's data: a sequence of pages
    fetch,         \* the infinite query's fetch, if one is under way
    mine,          \* the request the page awaits, or None
    steady,        \* history: listings that were in the feed all the time
    mixed          \* history: a cached page 2 answered another cursor

feedVars   == <<inFeed, changes, steady>>
cacheVars  == <<p1, p2>>
clientVars == <<pages, fetch, mine>>
pagingVars == <<feedVars, cacheVars, request, clientVars, mixed>>

\* sort({ createdAt: -1, _id: -1 })
Precedes(k, l) == CreatedAt[k] > CreatedAt[l] \/ (CreatedAt[k] = CreatedAt[l] /\ k > l)

\* Mutant: the cursor compares createdAt alone.
AfterTime(cursor, S) == {l \in S : cursor = None \/ CreatedAt[cursor] > CreatedAt[l]}

\* Mutant: $lte.
AfterOrAt(cursor, S) == {l \in S : cursor = None \/ l = cursor \/ Precedes(cursor, l)}

\* The filter a cursor adds.
After(cursor, S) == {l \in S : cursor = None \/ Precedes(cursor, l)}

\* limit(FEED_PAGE_SIZE + 1), the last of which only tells that there is more.
PageFrom(cursor, S) ==
    LET rest == After(cursor, S)
        page == {l \in rest : Cardinality({k \in rest : Precedes(k, l)}) < Limit}
    IN  [from |-> cursor, items |-> page,
         next |-> IF rest = page THEN None
                  ELSE CHOOSE l \in page : \A k \in page \ {l} : Precedes(k, l)]

Cursors == Listings \cup {None}
Page    == [from : Cursors, items : SUBSET Listings, next : Cursors]

Asleep    == [step |-> "idle", cursor |-> None, page |-> None]
NoFetch   == [kind |-> "none", got |-> <<>>]

PagingTypeOK ==
    /\ inFeed \in SUBSET Listings
    /\ changes \in 0 .. MaxChanges
    /\ p1 \in Page \cup {None} /\ p2 \in Page \cup {None}
    /\ request \in [Requests -> [step : {"idle", "query", "store", "done"},
                                 cursor : Cursors, page : Page \cup {None}]]
    /\ \A r \in Requests : request[r].step \in {"store", "done"} => request[r].page \in Page
    /\ pages \in Seq(Page)
    /\ fetch \in [kind : {"none", "next", "again"}, got : Seq(Page)]
    /\ Len(fetch.got) <= Len(pages)
    /\ mine \in Requests \cup {None}
    /\ steady \in SUBSET inFeed
    /\ mixed \in BOOLEAN

PagingInit ==
    /\ inFeed \in SUBSET Listings
    /\ changes = 0
    /\ p1 = None
    /\ p2 = None
    /\ request = [r \in Requests |-> Asleep]
    /\ pages = <<>>
    /\ fetch = NoFetch
    /\ mine = None
    /\ steady = inFeed
    /\ mixed = FALSE

\* A listing leaves the feed or, a draft of any age, enters it.
Change(l) ==
    /\ changes < MaxChanges
    /\ changes' = changes + 1
    /\ inFeed' = IF l \in inFeed THEN inFeed \ {l} ELSE inFeed \cup {l}
    /\ steady' = steady \ {l}
    /\ UNCHANGED <<cacheVars, request, clientVars, mixed>>

-----------------------------------------------------------------------------
(* GET /listings.                                                          *)

\* What getCachedFeedPage returns.  Page 2 is looked at only for the cursor
\* that the cached page 1 ends with.
Follows(cursor) == cursor # None /\ p1 # None /\ p1.next = cursor
Entry(cursor)   == IF cursor = None THEN p1 ELSE IF Follows(cursor) THEN p2 ELSE None
Mixes(cursor)   == Entry(cursor) # None /\ Entry(cursor).from # cursor

\* A request arrives and looks into the cache.
Ask(r, cursor) ==
    /\ request' = [request EXCEPT ![r] =
          IF Entry(cursor) = None THEN [Asleep EXCEPT !.step = "query", !.cursor = cursor]
          ELSE [Asleep EXCEPT !.step = "done", !.page = Entry(cursor)]]
    /\ mixed' = (mixed \/ Mixes(cursor))

\* Somebody else's request, which matters for what it leaves in the cache.
AskOther(r) ==
    /\ request[r] = Asleep
    /\ \E cursor \in {None} \cup (IF p1 = None THEN {} ELSE {p1.next}) :
        Entry(cursor) = None /\ Ask(r, cursor)
    /\ UNCHANGED <<feedVars, cacheVars, clientVars>>

\* Listing.find
Query(r) ==
    /\ request[r].step = "query"
    /\ request' = [request EXCEPT ![r].step = "store",
                                  ![r].page = PageFrom(request[r].cursor, inFeed)]
    /\ UNCHANGED <<feedVars, cacheVars, clientVars, mixed>>

\* setCachedFeedPage, then the answer, which perhaps nobody awaits.
Store(r) ==
    LET page == request[r].page
    IN  /\ request[r].step = "store"
        /\ p1' = IF request[r].cursor = None THEN page ELSE p1
        /\ p2' = IF Follows(request[r].cursor) THEN page ELSE p2
        /\ request' = [request EXCEPT ![r] =
              IF mine = r THEN [Asleep EXCEPT !.step = "done", !.page = page] ELSE Asleep]
        /\ UNCHANGED <<feedVars, clientVars, mixed>>

\* Time to live.
Evict ==
    /\ \/ p1 # None /\ p1' = None /\ UNCHANGED p2
       \/ p2 # None /\ p2' = None /\ UNCHANGED p1
    /\ UNCHANGED <<feedVars, request, clientVars, mixed>>

-----------------------------------------------------------------------------
(* The infinite query of FeedPage.                                         *)

LastOf(seq) == seq[Len(seq)]
HasNext     == pages # <<>> /\ LastOf(pages).next # None

\* fetchNextPage, when the end of the list comes into view, or the first
\* page.  A refetch under way is abandoned, its request goes on.
FetchNext(r) ==
    /\ ~mixed
    /\ fetch.kind # "next"
    /\ pages = <<>> \/ HasNext
    /\ request[r] = Asleep
    /\ mine # None => request[mine].step # "done"
    /\ Ask(r, IF pages = <<>> THEN None ELSE LastOf(pages).next)
    /\ fetch' = [kind |-> "next", got |-> pages]
    /\ mine' = r
    /\ UNCHANGED <<feedVars, cacheVars, pages>>

\* The data is stale and the window is focused: page after page again.
Refetch(r) ==
    /\ ~mixed
    /\ fetch.kind = "none"
    /\ pages # <<>>
    /\ request[r] = Asleep
    /\ Ask(r, None)
    /\ fetch' = [kind |-> "again", got |-> <<>>]
    /\ mine' = r
    /\ UNCHANGED <<feedVars, cacheVars, pages>>

\* The refetch goes on: it has fewer pages than there were, and there are more.
GoesOn(got) == fetch.kind = "again" /\ Len(got) < Len(pages) /\ LastOf(got).next # None

\* A page arrives.  A fetch that does not go on takes its place.
Receive(r) ==
    LET got == Append(fetch.got, request[r].page)
    IN  /\ mine = r
        /\ request[r].step = "done"
        /\ IF GoesOn(got)
           THEN /\ Ask(r, LastOf(got).next)
                /\ fetch' = [fetch EXCEPT !.got = got]
                /\ UNCHANGED <<pages, mine>>
           ELSE /\ pages' = got
                /\ fetch' = NoFetch
                /\ mine' = None
                /\ request' = [request EXCEPT ![r] = Asleep]
                /\ UNCHANGED mixed
        /\ UNCHANGED <<feedVars, cacheVars>>

\* The request fails, twice: the data stays as it was.
FetchFails ==
    /\ mine # None
    /\ request[mine].step # "done"
    /\ fetch' = NoFetch
    /\ mine' = None
    /\ UNCHANGED <<feedVars, cacheVars, request, pages, mixed>>

-----------------------------------------------------------------------------
PagingNext ==
    \/ \E l \in Listings : Change(l)
    \/ Evict \/ FetchFails
    \/ \E r \in Requests :
        AskOther(r) \/ Query(r) \/ Store(r) \/ FetchNext(r) \/ Refetch(r) \/ Receive(r)

PagingSpec == PagingInit /\ [][PagingNext]_pagingVars

-----------------------------------------------------------------------------
(* Properties.                                                             *)

\* The pages shown are in the order of the feed and no listing is on two of
\* them, however old the cached pages among them and whatever entered or left
\* the feed meanwhile, unless a cached page 2 answered another cursor
\* (listings.ts:226-251, FeedPage.tsx:152-166).
NoRepeat ==
    ~mixed => \A j, k \in DOMAIN pages : j < k =>
        \A a \in pages[j].items, b \in pages[k].items : Precedes(a, b)

\* Whoever has reached "That's everything." has been shown each listing that
\* was in the feed all the time (FeedPage.tsx:301-305).
NoSkip ==
    ~mixed /\ pages # <<>> /\ ~HasNext =>
        steady \subseteq UNION {pages[k].items : k \in DOMAIN pages}

-----------------------------------------------------------------------------
(* What NoRepeat and NoSkip rest on.                                       *)

\* Listing l is not after the one that a page or a list of pages ends with.
UpTo(l, end) == end = None \/ l = end \/ Precedes(l, end)

\* A page holds listings after its cursor, ends with the one it names, and has
\* in between whatever was in the feed all the time.
PageFits(p) ==
    /\ \A l \in p.items : p.from = None \/ Precedes(p.from, l)
    /\ p.next # None => p.next \in p.items
    /\ \A l \in p.items : UpTo(l, p.next)
    /\ \A l \in steady : (p.from = None \/ Precedes(p.from, l)) /\ UpTo(l, p.next)
          => l \in p.items

\* So does every page that is cached, read or about to arrive.
PagesFit ==
    /\ p1 # None => PageFits(p1)
    /\ p2 # None => PageFits(p2)
    /\ \A r \in Requests :
          /\ request[r].step \in {"store", "done"} => PageFits(request[r].page)
          /\ request[r].step = "store" => request[r].page.from = request[r].cursor

\* Pages that follow each other, up to the end of the last.
InLine(seq) ==
    /\ \A j, k \in DOMAIN seq : j < k =>
          \A a \in seq[j].items, b \in seq[k].items : Precedes(a, b)
    /\ seq # <<>> => \A k \in DOMAIN seq : \A a \in seq[k].items : UpTo(a, LastOf(seq).next)
    /\ seq # <<>> => \A l \in steady : UpTo(l, LastOf(seq).next) =>
          \E k \in DOMAIN seq : l \in seq[k].items

\* The cursor with which the pages of seq go on.
NextCursor(seq) == IF seq = <<>> THEN None ELSE LastOf(seq).next

\* The page the client awaits is the one after those it has got.
AwaitsNext ==
    mine # None =>
        /\ fetch.got # <<>> => LastOf(fetch.got).next # None
        /\ request[mine].step \in {"query", "store", "done"}
        /\ request[mine].step \in {"query", "store"} =>
              request[mine].cursor = NextCursor(fetch.got)
        /\ request[mine].step = "done" => request[mine].page.from = NextCursor(fetch.got)

PagingInv ==
    /\ PagingTypeOK
    /\ PagesFit
    /\ ~mixed => InLine(pages) /\ InLine(fetch.got) /\ AwaitsNext
=============================================================================

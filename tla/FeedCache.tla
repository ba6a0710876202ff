------------------------------ MODULE FeedCache ------------------------------
(***************************************************************************)
(* The cache of the first two browse-feed pages (lib/feedCache.ts) under   *)
(* GET /listings of routes/listings.ts, for one combination of filters.    *)
(* Every Redis command and the Mongo query is a step of its own.           *)
(*                                                                         *)
(* Listings are numbered newest first, so a cursor is the number of the    *)
(* last listing of a page and the page after it holds larger numbers.      *)
(* The writers are the status transitions of ListingLifecycle seen from    *)
(* the feed: a write that changes which listings match, then a bump of the *)
(* version, which may be lost.                                             *)
(***************************************************************************)
EXTENDS Naturals, FiniteSets

CONSTANTS
    Readers,     \* slots for GET /listings in flight
    Writers,     \* slots for status transitions in flight
    N,           \* listings 1 .. N may match the filters
    PageSize,    \* FEED_PAGE_SIZE
    MaxWrites,   \* bound on changes of what matches
    NoPage       \* a cache miss

ASSUME FeedAssumption ==
    /\ N \in Nat
    /\ PageSize \in Nat \ {0}
    /\ MaxWrites \in Nat

VARIABLES
    shown,       \* listings that match the feed query now
    writes,      \* changes of shown so far
    past,        \* every value shown has had
    version,     \* feed:version
    cache,       \* [versions -> [slot -> page or NoPage]]
    writer,      \* [Writers -> "idle" or "bump"]
    reader,      \* [Readers -> request in flight]
    issued,      \* cursors handed out to clients
    redisUp      \* Redis answers commands

dbVars == <<shown, writes, past, writer>>
vars   == <<dbVars, version, cache, reader, issued, redisUp>>

-----------------------------------------------------------------------------
Numbers  == 1 .. N
Versions == 0 .. MaxWrites
Slots    == {"p1", "p2"}

\* The absent cursor, and the nextCursor of a last page.
NoCursor == 0

\* A response body; the listings of a page are ordered by their numbers.
Pages == [items : SUBSET Numbers, next : 0 .. N]

\* The n smallest of a set of numbers.
Smallest(S, n) == {i \in S : Cardinality({j \in S : j < i}) < n}

\* The page that follows a cursor when S matches: find().sort().limit().
PageAfter(cursor, S) ==
    LET rest == {i \in S : i > cursor}
        page == Smallest(rest, PageSize)
    IN  [items |-> page,
         next  |-> IF rest = page THEN NoCursor
                   ELSE CHOOSE i \in page : \A j \in page : j <= i]

Steps == {"p1", "p2", "db", "version", "check", "store", "done"}
Outcomes == {"none", "hit", "miss", "error"}

Resting == [at |-> "idle", cursor |-> 0, v |-> 0, page |-> NoPage, outcome |-> "none"]
Reading == [at : Steps, cursor : 0 .. N, v : Versions, page : Pages \cup {NoPage},
            outcome : Outcomes]

Init ==
    /\ shown = Numbers
    /\ writes = 0
    /\ past = {Numbers}
    /\ version = 0
    /\ cache = [v \in Versions |-> [s \in Slots |-> NoPage]]
    /\ writer = [w \in Writers |-> "idle"]
    /\ reader = [r \in Readers |-> Resting]
    /\ issued = {}
    /\ redisUp = TRUE

-----------------------------------------------------------------------------
(* The writers.                                                            *)

\* A listing enters or leaves what matches.
Toggle ==
    /\ writes < MaxWrites
    /\ writes' = writes + 1
    /\ \E l \in Numbers : shown' = IF l \in shown THEN shown \ {l} ELSE shown \cup {l}
    /\ past' = past \cup {shown'}

\* A transition's write has been committed; its bump is still to come.
Transition(w) ==
    /\ writer[w] = "idle"
    /\ Toggle
    /\ writer' = [writer EXCEPT ![w] = "bump"]
    /\ UNCHANGED <<version, cache, reader, issued, redisUp>>

\* Mutant: the bump is sent again after it has been answered.
BumpFeedVersionAgain(w) ==
    /\ writer[w] = "bump"
    /\ redisUp
    /\ version' = version + 1
    /\ UNCHANGED <<shown, writes, past, cache, writer, reader, issued, redisUp>>

\* bumpFeedVersion()
BumpFeedVersion(w) ==
    /\ writer[w] = "bump"
    /\ redisUp
    /\ version' = version + 1
    /\ writer' = [writer EXCEPT ![w] = "idle"]
    /\ UNCHANGED <<shown, writes, past, cache, reader, issued, redisUp>>

\* The bump fails or its process dies first.
LoseBump(w) ==
    /\ writer[w] = "bump"
    /\ writer' = [writer EXCEPT ![w] = "idle"]
    /\ UNCHANGED <<shown, writes, past, version, cache, reader, issued, redisUp>>

\* PATCH moves a listing across the filters and does not bump.
PatchListing ==
    /\ Toggle
    /\ UNCHANGED <<version, cache, writer, reader, issued, redisUp>>

-----------------------------------------------------------------------------
(* GET /listings in browse mode.                                           *)

Move(r, next) == reader' = [reader EXCEPT ![r] = next]

\* The handler answers; the client now holds the page's cursor.
Answer(r, page, outcome) ==
    /\ Move(r, [reader[r] EXCEPT !.at = "done", !.page = page, !.outcome = outcome])
    /\ issued' = issued \cup ({page.next} \ {NoCursor})

\* A request without a cursor, or with one handed out before, arrives; the
\* handler reads feed:version.
GetVersion(r) ==
    /\ reader[r].at = "idle"
    /\ redisUp
    /\ \E cursor \in {NoCursor} \cup issued :
          Move(r, [Resting EXCEPT !.at = "p1", !.cursor = cursor, !.v = version])
    /\ UNCHANGED <<dbVars, version, cache, issued, redisUp>>

\* Only a request whose cursor the cached page 1 produced may look at page 2.
LeadsToPageTwo(page1, cursor) == page1 # NoPage /\ page1.next = cursor

GetPageOne(r) ==
    /\ reader[r].at = "p1"
    /\ redisUp
    /\ LET q == reader[r]
           page1 == cache[q.v]["p1"]
       IN  IF q.cursor = NoCursor /\ page1 # NoPage
           THEN Answer(r, page1, "hit")
           ELSE /\ Move(r, [q EXCEPT !.at = IF q.cursor # NoCursor /\ LeadsToPageTwo(page1, q.cursor)
                                            THEN "p2" ELSE "db"])
                /\ UNCHANGED issued
    /\ UNCHANGED <<dbVars, version, cache, redisUp>>

GetPageTwo(r) ==
    /\ reader[r].at = "p2"
    /\ redisUp
    /\ LET page2 == cache[reader[r].v]["p2"]
       IN  IF page2 # NoPage
           THEN Answer(r, page2, "hit")
           ELSE Move(r, [reader[r] EXCEPT !.at = "db"]) /\ UNCHANGED issued
    /\ UNCHANGED <<dbVars, version, cache, redisUp>>

\* Listing.find(...)
QueryMongo(r) ==
    /\ reader[r].at = "db"
    /\ Move(r, [reader[r] EXCEPT !.at = "version", !.page = PageAfter(reader[r].cursor, shown)])
    /\ UNCHANGED <<dbVars, version, cache, issued, redisUp>>

\* setCachedFeedPage reads feed:version again.
GetVersionAgain(r) ==
    /\ reader[r].at = "version"
    /\ redisUp
    /\ Move(r, [reader[r] EXCEPT !.v = version,
                                 !.at = IF reader[r].cursor = NoCursor THEN "store" ELSE "check"])
    /\ UNCHANGED <<dbVars, version, cache, issued, redisUp>>

\* A page after a cursor is kept only if it is still the cached page 1's.
CheckPageOne(r) ==
    /\ reader[r].at = "check"
    /\ redisUp
    /\ LET q == reader[r]
       IN  IF LeadsToPageTwo(cache[q.v]["p1"], q.cursor)
           THEN Move(r, [q EXCEPT !.at = "store"]) /\ UNCHANGED issued
           ELSE Answer(r, q.page, "miss")
    /\ UNCHANGED <<dbVars, version, cache, redisUp>>

\* Mutant: every page is stored as page 1.
SlotForAny(cursor) == "p1"

SlotFor(cursor) == IF cursor = NoCursor THEN "p1" ELSE "p2"

StorePage(r) ==
    /\ reader[r].at = "store"
    /\ redisUp
    /\ LET q == reader[r]
       IN  /\ cache' = [cache EXCEPT ![q.v][SlotFor(q.cursor)] = q.page]
           /\ Answer(r, q.page, "miss")
    /\ UNCHANGED <<dbVars, version, redisUp>>

\* A Redis command of the handler rejects, the first one of a request that has
\* just arrived included, and the request ends in a 500.
RedisRejects(r) ==
    /\ reader[r].at \in {"idle", "p1", "p2", "version", "check", "store"}
    /\ ~redisUp
    /\ Move(r, [reader[r] EXCEPT !.at = "done", !.page = NoPage, !.outcome = "error"])
    /\ UNCHANGED <<dbVars, version, cache, issued, redisUp>>

Finish(r) ==
    /\ reader[r].at = "done"
    /\ Move(r, Resting)
    /\ UNCHANGED <<dbVars, version, cache, issued, redisUp>>

-----------------------------------------------------------------------------
(* Redis.                                                                  *)

\* Mutant: pages are stored without EX and only those of old versions removed.
ExpireOldVersions(v, s) ==
    /\ v < version
    /\ cache[v][s] # NoPage
    /\ cache' = [cache EXCEPT ![v][s] = NoPage]
    /\ UNCHANGED <<dbVars, version, reader, issued, redisUp>>

\* FEED_CACHE_TTL_SECONDS after a page was stored, it is gone.
Expire(v, s) ==
    /\ cache[v][s] # NoPage
    /\ cache' = [cache EXCEPT ![v][s] = NoPage]
    /\ UNCHANGED <<dbVars, version, reader, issued, redisUp>>

RedisFails ==
    /\ redisUp
    /\ redisUp' = FALSE
    /\ UNCHANGED <<dbVars, version, cache, reader, issued>>

RedisRecovers ==
    /\ ~redisUp
    /\ redisUp' = TRUE
    /\ UNCHANGED <<dbVars, version, cache, reader, issued>>

Fill(r) == QueryMongo(r) \/ GetVersionAgain(r) \/ CheckPageOne(r) \/ StorePage(r)

Next ==
    \/ \E w \in Writers : Transition(w) \/ BumpFeedVersion(w) \/ LoseBump(w)
    \/ PatchListing
    \/ \E r \in Readers : \/ GetVersion(r) \/ GetPageOne(r) \/ GetPageTwo(r) \/ Fill(r)
                          \/ RedisRejects(r) \/ Finish(r)
    \/ \E v \in Versions, s \in Slots : Expire(v, s)
    \/ RedisFails \/ RedisRecovers

Spec == Init /\ [][Next]_vars

\* A request that has arrived makes progress, answered with a 500 if Redis is
\* down; what is cached expires.
Progress(r) ==
    \/ GetPageOne(r) \/ GetPageTwo(r) \/ Fill(r)
    \/ reader[r].at # "idle" /\ RedisRejects(r)

FairSpec ==
    /\ Spec
    /\ \A r \in Readers : WF_vars(Progress(r))
    /\ \A v \in Versions, s \in Slots : WF_vars(Expire(v, s))

-----------------------------------------------------------------------------
(* Properties.                                                             *)

TypeOK ==
    /\ shown \in SUBSET Numbers
    /\ writes \in 0 .. MaxWrites
    /\ past \in SUBSET SUBSET Numbers
    /\ version \in Versions
    /\ cache \in [Versions -> [Slots -> Pages \cup {NoPage}]]
    /\ writer \in [Writers -> {"idle", "bump"}]
    /\ reader \in [Readers -> Reading \cup {Resting}]
    /\ issued \in SUBSET Numbers
    /\ redisUp \in BOOLEAN

\* What a client without a cursor is served is the first page of the feed as it
\* was at one instant: pages of two instants, or of two slots, never mix.
PageOneOnceTrue ==
    \A r \in Readers :
        LET q == reader[r]
        IN  q.outcome \in {"hit", "miss"} /\ q.cursor = NoCursor =>
                \E S \in past : q.page = PageAfter(NoCursor, S)

\* The cache agrees with the database.
Fresh ==
    LET page1 == cache[version]["p1"]
        page2 == cache[version]["p2"]
    IN  page1 # NoPage =>
            /\ page1 = PageAfter(NoCursor, shown)
            /\ page2 # NoPage /\ page1.next # NoCursor => page2 = PageAfter(page1.next, shown)

\* Whatever bumps were lost, fills were late, listings were patched or pages
\* confused: once listings stop changing, the time to live makes the cache agree
\* with the database for good.
EventuallyFresh == <>[]Fresh

-----------------------------------------------------------------------------
(* What the properties rest on.                                            *)

\* Every bump, made or still to come, is of a change of its own.
Bumping == {w \in Writers : writer[w] = "bump"}

BumpsCounted == IsFiniteSet(Bumping) /\ version + Cardinality(Bumping) <= writes

\* The first page of the feed as it was at one instant.
OnceTrue(page) == \E S \in past : page = PageAfter(NoCursor, S)

CacheOnceTrue ==
    /\ shown \in past
    /\ \A v \in Versions : cache[v]["p1"] # NoPage => OnceTrue(cache[v]["p1"])

\* A request that looks for page 2 has a cursor.  One that has queried MongoDB
\* holds a page, without a cursor one that was once the first, and so does one
\* that was answered; no other has an outcome.
ReadersHold ==
    \A r \in Readers :
        LET q == reader[r]
        IN  /\ q.at = "p2" => q.cursor # NoCursor
            /\ q.at \in {"version", "check", "store"} =>
                q.page \in Pages /\ (q.cursor = NoCursor => OnceTrue(q.page))
            /\ q.outcome \in {"hit", "miss"} =>
                q.at = "done" /\ (q.cursor = NoCursor => OnceTrue(q.page))

IInv == TypeOK /\ BumpsCounted /\ CacheOnceTrue /\ ReadersHold
=============================================================================

------------------------------ MODULE FeedProofs ------------------------------
(***************************************************************************)
(* Theorems about FeedCache, then about FeedPages, for every set of        *)
(* readers and writers, listings and requests and every page size.         *)
(***************************************************************************)
EXTENDS FeedCache, FeedPages, SequenceTheorems, FiniteSetTheorems,
        WellFoundedInduction, TLAPS

-----------------------------------------------------------------------------
(* Numbers.                                                                *)

LEMMA LeastNumber ==
    ASSUME NEW T, T \subseteq Nat, T # {}
    PROVE  \E x \in T : \A y \in T : x <= y
<1> DEFINE less == OpToRel(<, Nat)
<1>1. IsWellFoundedOn(less, Nat)
  BY NatLessThanWellFounded, Zenon
<1>2. \A x, y \in Nat : y < x => <<y, x>> \in less
  BY Zenon DEF OpToRel
<1> HIDE DEF less
<1>3. PICK x \in T : \A y \in T : ~(<<y, x>> \in less)
  BY <1>1, WFMin
<1>4. \A y \in T : x \in Nat /\ y \in Nat /\ ~(y < x)
  BY <1>2, <1>3
<1>5. QED
  BY <1>4

\* The greatest is the least upper bound.
LEMMA GreatestNumber ==
    ASSUME NEW n \in Nat, NEW T \in SUBSET (1 .. n), T # {}
    PROVE  \E x \in T : \A y \in T : y <= x
<1> DEFINE U == {k \in Nat : \A y \in T : y <= k}
<1>1. n \in U
  OBVIOUS
<1>2. PICK u \in U : \A k \in U : u <= k
  BY <1>1, LeastNumber
<1>3. u \in T
  <2> SUFFICES ASSUME u \notin T
               PROVE  FALSE
    OBVIOUS
  <2>1. PICK y \in T : TRUE
    OBVIOUS
  <2>2. \A z \in T : z \in Nat /\ z >= 1 /\ z <= u /\ z # u
    BY <1>2
  <2>3. u \in Nat /\ u >= 1
    BY <2>1, <2>2
  <2>4. u - 1 \in U
    BY <2>2, <2>3
  <2>5. QED
    BY <1>2, <2>3, <2>4
<1>4. QED
  BY <1>2, <1>3

-----------------------------------------------------------------------------
(* Pages.                                                                  *)

\* Every page there is has a next cursor: a page that leaves something for
\* later is not empty.
LEMMA PageAfterTyped ==
    ASSUME NEW cursor \in 0 .. N, NEW S \in SUBSET Numbers
    PROVE  PageAfter(cursor, S) \in Pages
<1> DEFINE rest == {i \in S : i > cursor}
           page == Smallest(rest, PageSize)
           last == CHOOSE i \in page : \A j \in page : j <= i
<1>1. N \in Nat /\ PageSize \in Nat /\ PageSize > 0
  BY FeedAssumption DEF FeedAssumption
<1>2. rest \subseteq 1 .. N /\ page \subseteq rest
  BY DEF Numbers, Smallest
<1>3. ASSUME rest # page
      PROVE  last \in 1 .. N
  <2>1. rest # {} /\ rest \subseteq Nat
    BY <1>1, <1>2, <1>3
  <2>2. PICK m \in rest : \A j \in rest : m <= j
    BY <2>1, LeastNumber
  <2>3. {j \in rest : j < m} = {}
    BY <2>1, <2>2
  <2>4. Cardinality({j \in rest : j < m}) < PageSize
    BY <1>1, <2>3, FS_EmptySet
  <2>5. m \in page
    BY <2>4 DEF Smallest
  <2>6. \E i \in page : \A j \in page : j <= i
    BY <1>1, <1>2, <2>5, GreatestNumber
  <2>7. QED
    BY <1>2, <2>6
<1>4. PageAfter(cursor, S) = [items |-> page, next |-> IF rest = page THEN NoCursor ELSE last]
  BY DEF PageAfter
<1> HIDE DEF rest, page, last
<1>5. page \in SUBSET Numbers
  BY <1>2 DEF Numbers
<1>6. (IF rest = page THEN NoCursor ELSE last) \in 0 .. N
  BY <1>1, <1>3 DEF NoCursor
<1>7. QED
  BY <1>4, <1>5, <1>6 DEF Pages

-----------------------------------------------------------------------------
(* The writers.                                                            *)

LEMMA WriterMoves ==
    ASSUME TypeOK, BumpsCounted, NEW w \in Writers
    PROVE  /\ writer[w] = "idle" /\ writer' = [writer EXCEPT ![w] = "bump"] =>
                /\ IsFiniteSet(Bumping') /\ Cardinality(Bumping') = Cardinality(Bumping) + 1
                /\ writer' \in [Writers -> {"idle", "bump"}]
           /\ writer[w] = "bump" /\ writer' = [writer EXCEPT ![w] = "idle"] =>
                /\ IsFiniteSet(Bumping') /\ Cardinality(Bumping') = Cardinality(Bumping) - 1
                /\ Cardinality(Bumping) >= 1
                /\ writer' \in [Writers -> {"idle", "bump"}]
<1>1. IsFiniteSet(Bumping) /\ Cardinality(Bumping) \in Nat
  BY FS_CardinalityType DEF BumpsCounted
<1>2. ASSUME writer[w] = "idle", writer' = [writer EXCEPT ![w] = "bump"]
      PROVE  /\ IsFiniteSet(Bumping') /\ Cardinality(Bumping') = Cardinality(Bumping) + 1
             /\ writer' \in [Writers -> {"idle", "bump"}]
  <2>1. Bumping' = Bumping \cup {w} /\ w \notin Bumping /\ writer' \in [Writers -> {"idle", "bump"}]
    BY <1>2 DEF Bumping, TypeOK
  <2>2. QED
    BY <1>1, <2>1, FS_AddElement
<1>3. ASSUME writer[w] = "bump", writer' = [writer EXCEPT ![w] = "idle"]
      PROVE  /\ IsFiniteSet(Bumping') /\ Cardinality(Bumping') = Cardinality(Bumping) - 1
             /\ Cardinality(Bumping) >= 1
             /\ writer' \in [Writers -> {"idle", "bump"}]
  <2>1. Bumping' = Bumping \ {w} /\ w \in Bumping /\ writer' \in [Writers -> {"idle", "bump"}]
    BY <1>3 DEF Bumping, TypeOK
  <2>2. Cardinality(Bumping) # 0
    BY <1>1, <2>1, FS_EmptySet
  <2>3. QED
    BY <1>1, <2>1, <2>2, FS_RemoveElement
<1>4. QED
  BY <1>2, <1>3

\* What matches changes, and past remembers it.
LEMMA ToggleChanges ==
    ASSUME TypeOK, Toggle
    PROVE  /\ writes \in Nat /\ writes' = writes + 1 /\ writes' \in 0 .. MaxWrites
           /\ shown' \in SUBSET Numbers /\ past' \in SUBSET SUBSET Numbers
           /\ past \subseteq past' /\ shown' \in past'
<1>1. writes \in 0 .. MaxWrites /\ MaxWrites \in Nat /\ writes < MaxWrites /\ writes' = writes + 1
  BY FeedAssumption DEF Toggle, TypeOK, FeedAssumption
<1>2. shown' \in SUBSET Numbers /\ past' = past \cup {shown'}
  BY DEF Toggle, TypeOK
<1>3. QED
  BY <1>1, <1>2 DEF TypeOK

-----------------------------------------------------------------------------
(* The readers.                                                            *)

Reader == Reading \cup {Resting}

\* ReadersHold, of one request and the values P that shown has had.
HoldsPage(q, P) ==
    /\ q.at = "p2" => q.cursor # NoCursor
    /\ q.at \in {"version", "check", "store"} =>
        q.page \in Pages /\ (q.cursor = NoCursor => \E S \in P : q.page = PageAfter(NoCursor, S))
    /\ q.outcome \in {"hit", "miss"} =>
        q.at = "done" /\ (q.cursor = NoCursor => \E S \in P : q.page = PageAfter(NoCursor, S))

LEMMA ReadersHoldPages == ReadersHold <=> \A r \in Readers : HoldsPage(reader[r], past)
BY DEF ReadersHold, HoldsPage, OnceTrue

\* What a request may have found: it goes on as next, which is in order, and
\* what is stored and handed out is.
ReaderOk(r, next) ==
    /\ next \in Reader /\ HoldsPage(next, past)
    /\ reader' = [reader EXCEPT ![r] = next]
    /\ UNCHANGED <<shown, writes, past, writer, version, redisUp>>
    /\ issued' \in SUBSET Numbers
    /\ cache' \in [Versions -> [Slots -> Pages \cup {NoPage}]]
    /\ \A v \in Versions :
        cache'[v]["p1"] # NoPage => \E S \in past : cache'[v]["p1"] = PageAfter(NoCursor, S)

LEMMA ReaderFields ==
    ASSUME IInv, NEW r \in Readers
    PROVE  /\ reader[r].at # "idle" => reader[r] \in Reading
           /\ reader[r] \in Reader /\ HoldsPage(reader[r], past)
           /\ reader[r].cursor \in 0 .. N /\ reader[r].v \in Versions
           /\ reader[r].outcome \in Outcomes
           /\ 0 \in Versions /\ 0 \in 0 .. N /\ version \in Versions
           /\ issued \in SUBSET Numbers /\ N \in Nat
           /\ cache \in [Versions -> [Slots -> Pages \cup {NoPage}]]
           /\ \A v \in Versions :
                cache[v]["p1"] # NoPage => \E S \in past : cache[v]["p1"] = PageAfter(NoCursor, S)
<1>1. reader[r] \in Reading \cup {Resting} /\ Resting.at = "idle"
  BY DEF IInv, TypeOK, Resting
<1>2. /\ 0 \in Versions /\ 0 \in 0 .. N /\ version \in Versions /\ issued \in SUBSET Numbers /\ N \in Nat
      /\ cache \in [Versions -> [Slots -> Pages \cup {NoPage}]]
  BY FeedAssumption DEF IInv, TypeOK, Versions, FeedAssumption
<1>3. /\ Resting.cursor \in 0 .. N /\ Resting.v \in Versions /\ Resting.outcome \in Outcomes
  BY <1>2 DEF Resting, Outcomes
<1>4. \A q \in Reading : q.cursor \in 0 .. N /\ q.v \in Versions /\ q.outcome \in Outcomes
  BY DEF Reading
<1>5. reader[r].cursor \in 0 .. N /\ reader[r].v \in Versions /\ reader[r].outcome \in Outcomes
  BY <1>1, <1>3, <1>4
<1>6. HoldsPage(reader[r], past)
  BY ReadersHoldPages DEF IInv
<1>7. \A v \in Versions :
        cache[v]["p1"] # NoPage => \E S \in past : cache[v]["p1"] = PageAfter(NoCursor, S)
  BY DEF IInv, CacheOnceTrue, OnceTrue
<1>8. QED
  BY <1>1, <1>2, <1>5, <1>6, <1>7 DEF Reader

\* An answer is in order if the page is one.
LEMMA AnswerOk ==
    ASSUME IInv, NEW r \in Readers, NEW page \in Pages, NEW outcome \in {"hit", "miss"},
           reader[r] \in Reading,
           reader[r].cursor = NoCursor => \E S \in past : page = PageAfter(NoCursor, S),
           Answer(r, page, outcome), UNCHANGED <<shown, writes, past, writer, version, redisUp>>,
           cache' \in [Versions -> [Slots -> Pages \cup {NoPage}]],
           \A v \in Versions :
                cache'[v]["p1"] # NoPage => \E S \in past : cache'[v]["p1"] = PageAfter(NoCursor, S)
    PROVE  \E next : ReaderOk(r, next)
<1> DEFINE next == [reader[r] EXCEPT !.at = "done", !.page = page, !.outcome = outcome]
<1>1. next \in Reading /\ next.at = "done" /\ next.cursor = reader[r].cursor /\ next.page = page
  BY DEF Reading, Steps, Outcomes
<1>2. HoldsPage(next, past)
  BY <1>1 DEF HoldsPage
<1>3. reader' = [reader EXCEPT ![r] = next] /\ issued' = issued \cup ({page.next} \ {NoCursor})
  BY DEF Answer, Move
<1>4. issued' \in SUBSET Numbers
  BY <1>3, ReaderFields DEF Pages, NoCursor, Numbers
<1> HIDE DEF next
<1>5. ReaderOk(r, next)
  BY <1>1, <1>2, <1>3, <1>4 DEF ReaderOk, Reader
<1>6. QED
  BY <1>5

LEMMA ReaderSteps ==
    ASSUME IInv, NEW r \in Readers,
           \/ GetVersion(r) \/ GetPageOne(r) \/ GetPageTwo(r) \/ Fill(r)
           \/ RedisRejects(r) \/ Finish(r)
    PROVE  \E next : ReaderOk(r, next)
<1> DEFINE q == reader[r]
           Goal == \E next : ReaderOk(r, next)
<1>1. /\ q.at # "idle" => q \in Reading
      /\ q \in Reader /\ HoldsPage(q, past)
      /\ q.cursor \in 0 .. N /\ q.v \in Versions /\ q.outcome \in Outcomes
      /\ 0 \in Versions /\ 0 \in 0 .. N /\ version \in Versions
      /\ issued \in SUBSET Numbers /\ N \in Nat
      /\ cache \in [Versions -> [Slots -> Pages \cup {NoPage}]]
      /\ \A v \in Versions :
            cache[v]["p1"] # NoPage => \E S \in past : cache[v]["p1"] = PageAfter(NoCursor, S)
  BY ReaderFields
<1>2. ASSUME NEW next \in Reader, Move(r, next), HoldsPage(next, past),
             UNCHANGED <<dbVars, version, cache, issued, redisUp>>
      PROVE  Goal
  <2>1. ReaderOk(r, next)
    BY <1>1, <1>2 DEF ReaderOk, Move, dbVars
  <2>2. QED
    BY <2>1
<1>3. CASE GetVersion(r)
  <2>1. PICK cursor \in {NoCursor} \cup issued :
            Move(r, [Resting EXCEPT !.at = "p1", !.cursor = cursor, !.v = version])
    BY <1>3 DEF GetVersion
  <2> DEFINE next == [Resting EXCEPT !.at = "p1", !.cursor = cursor, !.v = version]
  <2>2. cursor \in 0 .. N
    <3>1. issued \subseteq 1 .. N /\ NoCursor = 0
      BY <1>1 DEF NoCursor, Numbers
    <3>2. N \in Nat
      BY <1>1
    <3>3. \A c \in 1 .. N : c \in 0 .. N
      BY <3>2
    <3>4. 0 \in 0 .. N
      BY <3>2
    <3>5. QED
      BY <3>1, <3>3, <3>4
  <2>3. next \in Reading /\ next.at = "p1" /\ next.outcome = "none"
    BY <1>1, <2>2 DEF Resting, Reading, Steps, Outcomes
  <2>4. HoldsPage(next, past)
    BY <2>3 DEF HoldsPage
  <2>5. UNCHANGED <<dbVars, version, cache, issued, redisUp>>
    BY <1>3 DEF GetVersion
  <2> HIDE DEF next
  <2>6. QED
    BY <1>2, <2>1, <2>3, <2>4, <2>5 DEF next, Reader
<1>4. CASE GetPageOne(r)
  <2> DEFINE page1 == cache[q.v]["p1"]
  <2>1. q \in Reading /\ q.at = "p1" /\ UNCHANGED <<dbVars, version, cache, redisUp>>
    BY <1>1, <1>4 DEF GetPageOne
  <2>2. page1 \in Pages \cup {NoPage} /\ (page1 # NoPage => \E S \in past : page1 = PageAfter(NoCursor, S))
    BY <1>1 DEF Slots
  <2>3. CASE q.cursor = NoCursor /\ page1 # NoPage
    <3>1. Answer(r, page1, "hit")
      BY <1>4, <2>3 DEF GetPageOne
    <3>2. QED
      BY <1>1, <2>1, <2>2, <2>3, <3>1, AnswerOk DEF dbVars
  <2>4. CASE ~(q.cursor = NoCursor /\ page1 # NoPage)
    <3> DEFINE at == IF q.cursor # NoCursor /\ LeadsToPageTwo(page1, q.cursor) THEN "p2" ELSE "db"
               next == [q EXCEPT !.at = at]
    <3>1. Move(r, next) /\ UNCHANGED issued
      BY <1>4, <2>4 DEF GetPageOne
    <3>2. at \in {"p2", "db"} /\ (at = "p2" => q.cursor # NoCursor)
      OBVIOUS
    <3> HIDE DEF at
    <3>3. /\ next \in Reading /\ next.at = at /\ next.outcome = q.outcome /\ next.cursor = q.cursor
      BY <2>1, <3>2 DEF Reading, Steps
    <3>4. q.outcome \notin {"hit", "miss"}
      BY <1>1, <2>1 DEF HoldsPage
    <3>5. HoldsPage(next, past)
      BY <3>2, <3>3, <3>4 DEF HoldsPage
    <3> HIDE DEF next
    <3>6. QED
      BY <1>2, <2>1, <3>1, <3>3, <3>5 DEF Reader
  <2>5. QED
    BY <2>3, <2>4
<1>5. CASE GetPageTwo(r)
  <2> DEFINE page2 == cache[q.v]["p2"]
  <2>1. q \in Reading /\ q.at = "p2" /\ UNCHANGED <<dbVars, version, cache, redisUp>>
    BY <1>1, <1>5 DEF GetPageTwo
  <2>2. q.cursor # NoCursor /\ q.outcome \notin {"hit", "miss"} /\ page2 \in Pages \cup {NoPage}
    BY <1>1, <2>1 DEF HoldsPage, Slots
  <2>3. CASE page2 # NoPage
    <3>1. Answer(r, page2, "hit")
      BY <1>5, <2>3 DEF GetPageTwo
    <3>2. QED
      BY <1>1, <2>1, <2>2, <2>3, <3>1, AnswerOk DEF dbVars
  <2>4. CASE page2 = NoPage
    <3> DEFINE next == [q EXCEPT !.at = "db"]
    <3>1. Move(r, next) /\ UNCHANGED issued
      BY <1>5, <2>4 DEF GetPageTwo
    <3>2. next \in Reading /\ next.at = "db" /\ next.outcome = q.outcome
      BY <2>1 DEF Reading, Steps
    <3>3. HoldsPage(next, past)
      BY <2>2, <3>2 DEF HoldsPage
    <3> HIDE DEF next
    <3>4. QED
      BY <1>2, <2>1, <3>1, <3>2, <3>3 DEF Reader
  <2>5. QED
    BY <2>3, <2>4
<1>6. CASE QueryMongo(r)
  <2> DEFINE page == PageAfter(q.cursor, shown)
             next == [q EXCEPT !.at = "version", !.page = page]
  <2>1. q \in Reading /\ q.at = "db" /\ Move(r, next) /\ UNCHANGED <<dbVars, version, cache, issued, redisUp>>
    BY <1>1, <1>6 DEF QueryMongo
  <2>2. shown \in SUBSET Numbers /\ shown \in past
    BY DEF IInv, TypeOK, CacheOnceTrue
  <2>3. page \in Pages /\ (q.cursor = NoCursor => \E S \in past : page = PageAfter(NoCursor, S))
    BY <1>1, <2>2, PageAfterTyped
  <2> HIDE DEF page
  <2>4. next \in Reading /\ next.outcome = q.outcome /\ next.cursor = q.cursor /\ next.page = page /\ next.at = "version"
    BY <2>1, <2>3 DEF Reading, Steps
  <2>5. q.outcome \notin {"hit", "miss"}
    BY <1>1, <2>1 DEF HoldsPage
  <2>6. HoldsPage(next, past)
    BY <2>3, <2>4, <2>5 DEF HoldsPage
  <2> HIDE DEF next
  <2>7. QED
    BY <1>2, <2>1, <2>4, <2>6 DEF Reader
<1>7. CASE GetVersionAgain(r)
  <2> DEFINE at == IF q.cursor = NoCursor THEN "store" ELSE "check"
             next == [q EXCEPT !.v = version, !.at = at]
  <2>1. /\ q \in Reading /\ q.at = "version" /\ Move(r, next)
        /\ UNCHANGED <<dbVars, version, cache, issued, redisUp>>
    BY <1>1, <1>7 DEF GetVersionAgain
  <2>2. at \in {"store", "check"}
    OBVIOUS
  <2> HIDE DEF at
  <2>3. /\ next \in Reading /\ next.outcome = q.outcome /\ next.cursor = q.cursor /\ next.page = q.page
        /\ next.at = at
    BY <1>1, <2>1, <2>2 DEF Reading, Steps
  <2>4. HoldsPage(next, past)
    BY <1>1, <2>1, <2>2, <2>3 DEF HoldsPage
  <2> HIDE DEF next
  <2>5. QED
    BY <1>2, <2>1, <2>3, <2>4 DEF Reader
<1>8. CASE CheckPageOne(r)
  <2>1. /\ q \in Reading /\ q.at = "check" /\ UNCHANGED <<dbVars, version, cache, redisUp>>
    BY <1>1, <1>8 DEF CheckPageOne
  <2>2. CASE LeadsToPageTwo(cache[q.v]["p1"], q.cursor)
    <3> DEFINE next == [q EXCEPT !.at = "store"]
    <3>1. Move(r, next) /\ UNCHANGED issued
      BY <1>8, <2>2 DEF CheckPageOne
    <3>2. /\ next \in Reading /\ next.outcome = q.outcome /\ next.cursor = q.cursor /\ next.page = q.page
          /\ next.at = "store"
      BY <2>1 DEF Reading, Steps
    <3>3. HoldsPage(next, past)
      BY <1>1, <2>1, <3>2 DEF HoldsPage
    <3> HIDE DEF next
    <3>4. QED
      BY <1>2, <2>1, <3>1, <3>2, <3>3 DEF Reader
  <2>3. CASE ~LeadsToPageTwo(cache[q.v]["p1"], q.cursor)
    <3>1. Answer(r, q.page, "miss")
      BY <1>8, <2>3 DEF CheckPageOne
    <3>2. q.page \in Pages /\ (q.cursor = NoCursor => \E S \in past : q.page = PageAfter(NoCursor, S))
      BY <1>1, <2>1 DEF HoldsPage
    <3>3. QED
      BY <1>1, <2>1, <3>1, <3>2, AnswerOk DEF dbVars
  <2>4. QED
    BY <2>2, <2>3
<1>9. CASE StorePage(r)
  <2>1. /\ q \in Reading /\ q.at = "store" /\ UNCHANGED <<dbVars, version, redisUp>>
        /\ cache' = [cache EXCEPT ![q.v][SlotFor(q.cursor)] = q.page]
        /\ Answer(r, q.page, "miss")
    BY <1>1, <1>9 DEF StorePage
  <2>2. q.page \in Pages /\ (q.cursor = NoCursor => \E S \in past : q.page = PageAfter(NoCursor, S))
    BY <1>1, <2>1 DEF HoldsPage
  <2>3. SlotFor(q.cursor) \in Slots /\ (SlotFor(q.cursor) = "p1" => q.cursor = NoCursor)
    BY DEF SlotFor, Slots
  <2>4. /\ cache' \in [Versions -> [Slots -> Pages \cup {NoPage}]]
        /\ \A v \in Versions : cache'[v]["p1"] = cache[v]["p1"]
                               \/ (q.cursor = NoCursor /\ cache'[v]["p1"] = q.page)
    BY <1>1, <2>1, <2>2, <2>3 DEF Slots
  <2>5. \A v \in Versions :
            cache'[v]["p1"] # NoPage => \E S \in past : cache'[v]["p1"] = PageAfter(NoCursor, S)
    BY <1>1, <2>2, <2>4
  <2>6. QED
    BY <1>1, <2>1, <2>2, <2>4, <2>5, AnswerOk DEF dbVars
<1>10. CASE RedisRejects(r)
  <2> DEFINE next == [q EXCEPT !.at = "done", !.page = NoPage, !.outcome = "error"]
  <2>1. Move(r, next) /\ UNCHANGED <<dbVars, version, cache, issued, redisUp>>
    BY <1>10 DEF RedisRejects
  <2>2. next \in Reading /\ next.at = "done" /\ next.outcome = "error"
    <3>1. CASE q \in Reading
      BY <3>1 DEF Reading, Steps, Outcomes
    <3>2. CASE q = Resting
      BY <1>1, <3>2 DEF Resting, Reading, Steps, Outcomes
    <3>3. QED
      BY <1>1, <3>1, <3>2 DEF Reader
  <2>3. HoldsPage(next, past)
    BY <2>2 DEF HoldsPage
  <2> HIDE DEF next
  <2>4. QED
    BY <1>2, <2>1, <2>2, <2>3 DEF Reader
<1>11. CASE Finish(r)
  <2>1. Move(r, Resting) /\ UNCHANGED <<dbVars, version, cache, issued, redisUp>>
    BY <1>11 DEF Finish
  <2>2. HoldsPage(Resting, past)
    BY DEF Resting, HoldsPage
  <2>3. QED
    BY <1>2, <2>1, <2>2 DEF Reader
<1> HIDE DEF Goal, q
<1>12. QED
  BY <1>3, <1>4, <1>5, <1>6, <1>7, <1>8, <1>9, <1>10, <1>11 DEF Goal, q, Fill

-----------------------------------------------------------------------------
(* The invariant.                                                          *)

LEMMA InitHolds == Init => IInv
<1> SUFFICES ASSUME Init
             PROVE  IInv
  OBVIOUS
<1>1. 0 \in 0 .. MaxWrites /\ 0 \in Versions
  BY FeedAssumption DEF FeedAssumption, Versions
<1>2. TypeOK
  BY <1>1 DEF Init, TypeOK
<1>3. BumpsCounted
  <2>1. Bumping = {}
    BY DEF Init, Bumping
  <2>2. QED
    BY <2>1, FS_EmptySet DEF Init, BumpsCounted
<1>4. CacheOnceTrue
  BY DEF Init, CacheOnceTrue, Slots
<1>5. ReadersHold
  BY DEF Init, Resting, ReadersHold
<1>6. QED
  BY <1>2, <1>3, <1>4, <1>5 DEF IInv

\* shown may change: what was once true remains so.
LEMMA PastKept ==
    ASSUME CacheOnceTrue, ReadersHold, past \subseteq past', shown' \in past', UNCHANGED <<cache, reader>>
    PROVE  CacheOnceTrue' /\ ReadersHold'
<1>1. \A v \in Versions : cache'[v]["p1"] # NoPage => \E S \in past' : cache'[v]["p1"] = PageAfter(NoCursor, S)
  BY DEF CacheOnceTrue, OnceTrue
<1>2. CacheOnceTrue'
  BY <1>1 DEF CacheOnceTrue, OnceTrue
<1>3. \A r \in Readers : HoldsPage(reader'[r], past')
  BY ReadersHoldPages DEF HoldsPage
<1>4. ReadersHold'
  BY <1>3 DEF HoldsPage, ReadersHold, OnceTrue
<1>5. QED
  BY <1>2, <1>4

\* Once a bump is made, there is a change for every version.
LEMMA VersionBounded ==
    ASSUME version' \in Nat, writes' \in 0 .. MaxWrites, BumpsCounted'
    PROVE  version' \in Versions
<1>1. Cardinality(Bumping') \in Nat
  BY FS_CardinalityType DEF BumpsCounted
<1>2. version' + Cardinality(Bumping') <= writes' /\ MaxWrites \in Nat
  BY FeedAssumption DEF BumpsCounted, FeedAssumption
<1>3. QED
  BY <1>1, <1>2 DEF Versions

LEMMA NextHolds == IInv /\ [Next]_vars => IInv'
<1> SUFFICES ASSUME IInv, [Next]_vars
             PROVE  IInv'
  OBVIOUS
<1>1. /\ TypeOK /\ BumpsCounted /\ CacheOnceTrue /\ ReadersHold
      /\ IsFiniteSet(Bumping) /\ version + Cardinality(Bumping) <= writes
  BY DEF IInv, BumpsCounted
<1>2. /\ MaxWrites \in Nat /\ Cardinality(Bumping) \in Nat /\ version \in Nat
      /\ writes \in Nat /\ writes \in 0 .. MaxWrites
  BY <1>1, FeedAssumption, FS_CardinalityType DEF FeedAssumption, TypeOK, Versions
<1>3. ASSUME NEW w \in Writers, Transition(w)
      PROVE  IInv'
  <2>1. /\ Toggle /\ writer[w] = "idle" /\ writer' = [writer EXCEPT ![w] = "bump"]
        /\ UNCHANGED <<version, cache, reader, issued, redisUp>>
    BY <1>3 DEF Transition
  <2>2. /\ writes' = writes + 1 /\ writes' \in 0 .. MaxWrites
        /\ shown' \in SUBSET Numbers /\ past' \in SUBSET SUBSET Numbers
        /\ past \subseteq past' /\ shown' \in past'
    BY <1>1, <2>1, ToggleChanges
  <2>3. /\ IsFiniteSet(Bumping') /\ Cardinality(Bumping') = Cardinality(Bumping) + 1
        /\ writer' \in [Writers -> {"idle", "bump"}]
    BY <1>1, <2>1, WriterMoves
  <2>4. BumpsCounted'
    BY <1>1, <1>2, <2>1, <2>2, <2>3 DEF BumpsCounted
  <2>5. TypeOK'
    BY <1>1, <2>1, <2>2, <2>3 DEF TypeOK
  <2>6. QED
    BY <1>1, <2>1, <2>2, <2>4, <2>5, PastKept DEF IInv
<1>4. ASSUME NEW w \in Writers, BumpFeedVersion(w) \/ LoseBump(w)
      PROVE  IInv'
  <2>1. /\ writer[w] = "bump" /\ writer' = [writer EXCEPT ![w] = "idle"]
        /\ UNCHANGED <<shown, writes, past, cache, reader, issued, redisUp>>
        /\ version' \in {version, version + 1}
    BY <1>4 DEF BumpFeedVersion, LoseBump
  <2>2. /\ IsFiniteSet(Bumping') /\ Cardinality(Bumping') = Cardinality(Bumping) - 1
        /\ Cardinality(Bumping) >= 1
        /\ writer' \in [Writers -> {"idle", "bump"}]
    BY <1>1, <2>1, WriterMoves
  <2>3. BumpsCounted'
    BY <1>1, <1>2, <2>1, <2>2 DEF BumpsCounted
  <2>4. version' \in Versions
    BY <1>2, <2>1, <2>3, VersionBounded
  <2>5. TypeOK'
    BY <1>1, <2>1, <2>2, <2>4 DEF TypeOK
  <2>6. CacheOnceTrue' /\ ReadersHold'
    BY <1>1, <2>1, PastKept DEF CacheOnceTrue
  <2>7. QED
    BY <2>3, <2>5, <2>6 DEF IInv
<1>5. CASE PatchListing
  <2>1. Toggle /\ UNCHANGED <<version, cache, writer, reader, issued, redisUp>>
    BY <1>5 DEF PatchListing
  <2>2. /\ writes' = writes + 1 /\ writes' \in 0 .. MaxWrites
        /\ shown' \in SUBSET Numbers /\ past' \in SUBSET SUBSET Numbers
        /\ past \subseteq past' /\ shown' \in past'
    BY <1>1, <2>1, ToggleChanges
  <2>3. Bumping' = Bumping
    BY <2>1 DEF Bumping
  <2>4. BumpsCounted'
    BY <1>1, <1>2, <2>1, <2>2, <2>3 DEF BumpsCounted
  <2>5. TypeOK'
    BY <1>1, <2>1, <2>2 DEF TypeOK
  <2>6. QED
    BY <1>1, <2>1, <2>2, <2>4, <2>5, PastKept DEF IInv
<1>6. ASSUME NEW r \in Readers, NEW next, ReaderOk(r, next)
      PROVE  IInv'
  <2>1. /\ next \in Reader /\ HoldsPage(next, past)
        /\ reader' = [reader EXCEPT ![r] = next]
        /\ UNCHANGED <<shown, writes, past, writer, version, redisUp>>
        /\ issued' \in SUBSET Numbers
        /\ cache' \in [Versions -> [Slots -> Pages \cup {NoPage}]]
        /\ \A v \in Versions :
            cache'[v]["p1"] # NoPage => \E S \in past : cache'[v]["p1"] = PageAfter(NoCursor, S)
    BY <1>6 DEF ReaderOk
  <2>2. reader' \in [Readers -> Reader] /\ reader \in [Readers -> Reader]
    BY <1>1, <2>1 DEF TypeOK, Reader
  <2>3. TypeOK'
    BY <1>1, <2>1, <2>2 DEF TypeOK, Reader
  <2>4. BumpsCounted'
    BY <1>1, <2>1 DEF BumpsCounted, Bumping
  <2>5. CacheOnceTrue'
    BY <1>1, <2>1 DEF CacheOnceTrue, OnceTrue
  <2>6. \A s \in Readers : HoldsPage(reader'[s], past')
    <3>1. \A s \in Readers : HoldsPage(reader[s], past)
      BY <1>1, ReadersHoldPages
    <3>2. \A s \in Readers : reader'[s] = IF s = r THEN next ELSE reader[s]
      BY <2>1, <2>2
    <3>3. past' = past
      BY <2>1
    <3>4. QED
      BY <2>1, <3>1, <3>2, <3>3
  <2>7. ReadersHold'
    BY <2>6 DEF HoldsPage, ReadersHold, OnceTrue
  <2>8. QED
    BY <2>3, <2>4, <2>5, <2>7 DEF IInv
<1>7. ASSUME NEW v \in Versions, NEW s \in Slots, Expire(v, s)
      PROVE  IInv'
  <2>1. /\ cache' = [cache EXCEPT ![v][s] = NoPage]
        /\ UNCHANGED <<shown, writes, past, writer, version, reader, issued, redisUp>>
    BY <1>7 DEF Expire, dbVars
  <2>2. /\ cache' \in [Versions -> [Slots -> Pages \cup {NoPage}]]
        /\ \A u \in Versions : cache'[u]["p1"] \in {cache[u]["p1"], NoPage}
    BY <1>1, <2>1 DEF TypeOK, Slots
  <2>3. TypeOK'
    BY <1>1, <2>1, <2>2 DEF TypeOK
  <2>4. BumpsCounted'
    BY <1>1, <2>1 DEF BumpsCounted, Bumping
  <2>5. \A u \in Versions :
            cache'[u]["p1"] # NoPage => \E S \in past : cache'[u]["p1"] = PageAfter(NoCursor, S)
    BY <1>1, <2>2 DEF CacheOnceTrue, OnceTrue
  <2>6. CacheOnceTrue'
    BY <1>1, <2>1, <2>5 DEF CacheOnceTrue, OnceTrue
  <2>7. ReadersHold'
    BY <1>1, <2>1 DEF ReadersHold, OnceTrue
  <2>8. QED
    BY <2>3, <2>4, <2>6, <2>7 DEF IInv
<1>8. CASE RedisFails \/ RedisRecovers \/ UNCHANGED vars
  <2>1. /\ UNCHANGED <<shown, writes, past, writer, version, cache, reader, issued>>
        /\ redisUp' \in BOOLEAN
    BY <1>1, <1>8 DEF RedisFails, RedisRecovers, vars, dbVars, TypeOK
  <2>2. TypeOK'
    BY <1>1, <2>1 DEF TypeOK
  <2>3. BumpsCounted'
    BY <1>1, <2>1 DEF BumpsCounted, Bumping
  <2>4. CacheOnceTrue' /\ ReadersHold'
    BY <1>1, <2>1, PastKept DEF CacheOnceTrue
  <2>5. QED
    BY <2>2, <2>3, <2>4 DEF IInv
<1>9. ASSUME NEW r \in Readers,
             \/ GetVersion(r) \/ GetPageOne(r) \/ GetPageTwo(r) \/ Fill(r)
             \/ RedisRejects(r) \/ Finish(r)
      PROVE  IInv'
  <2>1. PICK next : ReaderOk(r, next)
    BY <1>9, ReaderSteps
  <2>2. QED
    BY <1>6, <2>1
<1>10. QED
  BY <1>3, <1>4, <1>5, <1>7, <1>8, <1>9 DEF Next

LEMMA Holds == Spec => []IInv
BY InitHolds, NextHolds, PTL DEF Spec

-----------------------------------------------------------------------------
(* The theorems.                                                           *)

\* Every page that is stored or served is one, every cursor handed out is a
\* listing's, and there are never more versions than changes, so that a bump
\* is never counted twice (feedCache.ts:48-50, 126-157).
THEOREM FeedTyped == Spec => []TypeOK
<1>1. IInv => TypeOK
  BY DEF IInv
<1>2. QED
  BY <1>1, Holds, PTL

\* A client without a cursor is served the first page as it was at one
\* instant, whatever versions, slots, late fills and outages do
\* (feedCache.ts:77-109, 126-157, listings.ts:220-259).
THEOREM PageOneIsOnceTrue == Spec => []PageOneOnceTrue
<1>1. IInv => PageOneOnceTrue
  BY DEF IInv, ReadersHold, PageOneOnceTrue, OnceTrue
<1>2. QED
  BY <1>1, Holds, PTL

-----------------------------------------------------------------------------
(* FeedPages: the order of the feed.                                       *)

LEMMA OrderIsStrict ==
    /\ \A l \in Listings : ~Precedes(l, l)
    /\ \A k, l \in Listings : k = l \/ Precedes(k, l) \/ Precedes(l, k)
    /\ \A k, l, m \in Listings : Precedes(k, l) /\ Precedes(l, m) => Precedes(k, m)
<1>1. \A l \in Listings : l \in Nat /\ CreatedAt[l] \in Nat
  BY FeedPagesAssumption DEF FeedPagesAssumption
<1>2. \A l \in Listings : ~Precedes(l, l)
  BY <1>1 DEF Precedes
<1>3. \A k, l \in Listings : k = l \/ Precedes(k, l) \/ Precedes(l, k)
  BY <1>1 DEF Precedes
<1>4. \A k, l, m \in Listings : Precedes(k, l) /\ Precedes(l, m) => Precedes(k, m)
  BY <1>1 DEF Precedes
<1>5. QED
  BY <1>2, <1>3, <1>4

\* A set of listings that is not empty has a last one.
LEMMA LastListing ==
    ASSUME NEW T \in SUBSET Listings, T # {}
    PROVE  \E l \in T : \A k \in T \ {l} : Precedes(k, l)
<1>1. \A l \in Listings : l \in Nat /\ CreatedAt[l] \in Nat
  BY FeedPagesAssumption DEF FeedPagesAssumption
<1>2. PICK c \in {CreatedAt[l] : l \in T} : \A d \in {CreatedAt[l] : l \in T} : c <= d
  <2>1. {CreatedAt[l] : l \in T} \subseteq Nat /\ {CreatedAt[l] : l \in T} # {}
    BY <1>1
  <2>2. QED
    BY <2>1, LeastNumber
<1> DEFINE oldest == {l \in T : CreatedAt[l] = c}
<1>3. PICK l \in oldest : \A k \in oldest : l <= k
  <2>1. oldest \subseteq Nat /\ oldest # {}
    BY <1>1, <1>2
  <2>2. QED
    BY <2>1, LeastNumber
<1>4. ASSUME NEW k \in T \ {l}
      PROVE  Precedes(k, l)
  <2>1. k \in Nat /\ l \in Nat /\ CreatedAt[k] \in Nat /\ CreatedAt[l] \in Nat
    BY <1>1, <1>3
  <2>2. CreatedAt[l] <= CreatedAt[k] /\ (CreatedAt[k] = CreatedAt[l] => l <= k) /\ k # l
    BY <1>2, <1>3
  <2>3. QED
    BY <2>1, <2>2 DEF Precedes
<1>5. QED
  BY <1>3, <1>4

\* How many listings of T precede one of them.
Before(T, l) == {k \in T : Precedes(k, l)}

LEMMA BeforeCounts ==
    ASSUME NEW T \in SUBSET Listings, NEW l
    PROVE  IsFiniteSet(Before(T, l)) /\ Cardinality(Before(T, l)) \in Nat
<1>1. IsFiniteSet(Listings) /\ Before(T, l) \in SUBSET Listings
  BY FeedPagesAssumption DEF FeedPagesAssumption, Before
<1>2. IsFiniteSet(Before(T, l))
  BY <1>1, FS_Subset
<1>3. QED
  BY <1>2, FS_CardinalityType

\* An earlier listing has fewer before it.
LEMMA BeforeGrows ==
    ASSUME NEW T \in SUBSET Listings, NEW k \in T, NEW l \in T, Precedes(k, l)
    PROVE  Cardinality(Before(T, k)) < Cardinality(Before(T, l))
<1>1. Before(T, k) \in SUBSET Before(T, l)
  BY OrderIsStrict DEF Before
<1>2. Before(T, k) # Before(T, l)
  BY OrderIsStrict DEF Before
<1>3. /\ IsFiniteSet(Before(T, l))
      /\ Cardinality(Before(T, k)) \in Nat /\ Cardinality(Before(T, l)) \in Nat
  BY BeforeCounts
<1>4. /\ Cardinality(Before(T, k)) <= Cardinality(Before(T, l))
      /\ Cardinality(Before(T, k)) = Cardinality(Before(T, l)) => Before(T, k) = Before(T, l)
  BY <1>1, <1>3, FS_Subset
<1>5. QED
  BY <1>2, <1>3, <1>4

\* A set of listings that is not empty has one that nothing precedes.
LEMMA FirstListing ==
    ASSUME NEW T \in SUBSET Listings, T # {}
    PROVE  \E l \in T : Before(T, l) = {}
<1> DEFINE counts == {Cardinality(Before(T, l)) : l \in T}
<1>1. counts \subseteq Nat /\ counts # {}
  BY BeforeCounts
<1>2. PICK n \in counts : \A m \in counts : n <= m
  BY <1>1, LeastNumber
<1>3. PICK l \in T : n = Cardinality(Before(T, l))
  BY <1>2
<1>4. ASSUME NEW k \in Before(T, l)
      PROVE  FALSE
  <2>1. k \in T /\ Precedes(k, l)
    BY <1>4 DEF Before
  <2>2. Cardinality(Before(T, k)) < Cardinality(Before(T, l))
    BY <2>1, BeforeGrows
  <2>3. Cardinality(Before(T, k)) \in Nat /\ Cardinality(Before(T, l)) \in Nat
    BY BeforeCounts
  <2>4. Cardinality(Before(T, l)) <= Cardinality(Before(T, k))
    BY <1>2, <1>3, <2>1
  <2>5. QED
    BY <2>2, <2>3, <2>4
<1>5. QED
  BY <1>4

\* The operators of the invariant, for a given set of steady listings.
Fits(p, st) ==
    /\ \A l \in p.items : p.from = None \/ Precedes(p.from, l)
    /\ p.next # None => p.next \in p.items
    /\ \A l \in p.items : UpTo(l, p.next)
    /\ \A l \in st : (p.from = None \/ Precedes(p.from, l)) /\ UpTo(l, p.next) => l \in p.items
Lined(seq, st) ==
    /\ \A j, k \in DOMAIN seq : j < k =>
          \A a \in seq[j].items, b \in seq[k].items : Precedes(a, b)
    /\ seq # <<>> => \A k \in DOMAIN seq : \A a \in seq[k].items : UpTo(a, LastOf(seq).next)
    /\ seq # <<>> => \A l \in st : UpTo(l, LastOf(seq).next) =>
          \E k \in DOMAIN seq : l \in seq[k].items

LEMMA FitsMeans ==
    /\ \A p : PageFits(p) <=> Fits(p, steady)
    /\ \A seq : InLine(seq) <=> Lined(seq, steady)
    /\ InLine(pages)' <=> Lined(pages', steady')
    /\ InLine(fetch.got)' <=> Lined(fetch'.got, steady')
    /\ PagesFit' <=> /\ p1' # None => Fits(p1', steady')
                     /\ p2' # None => Fits(p2', steady')
                     /\ \A r \in Requests :
                           /\ request'[r].step \in {"store", "done"} =>
                                 Fits(request'[r].page, steady')
                           /\ request'[r].step = "store" =>
                                 request'[r].page.from = request'[r].cursor
<1>1. \A p : PageFits(p) <=> Fits(p, steady)
  BY DEF PageFits, Fits
<1>2. \A seq : InLine(seq) <=> Lined(seq, steady)
  BY DEF InLine, Lined
<1>3. InLine(pages)' <=> Lined(pages', steady')
  BY DEF InLine, Lined
<1>4. InLine(fetch.got)' <=> Lined(fetch'.got, steady')
  BY DEF InLine, Lined
<1>5. PagesFit' <=> /\ p1' # None => Fits(p1', steady')
                    /\ p2' # None => Fits(p2', steady')
                    /\ \A r \in Requests :
                          /\ request'[r].step \in {"store", "done"} =>
                                Fits(request'[r].page, steady')
                          /\ request'[r].step = "store" =>
                                request'[r].page.from = request'[r].cursor
  BY DEF PagesFit, PageFits, Fits
<1>6. QED
  BY <1>1, <1>2, <1>3, <1>4, <1>5

\* What a query returns for a cursor: a page that fits whatever was in the
\* feed all the time.
LEMMA PageFromFits ==
    ASSUME NEW cursor \in Cursors, NEW S \in SUBSET Listings, NEW st \in SUBSET S
    PROVE  /\ PageFrom(cursor, S) \in Page
           /\ PageFrom(cursor, S).from = cursor
           /\ Fits(PageFrom(cursor, S), st)
<1> DEFINE rest == After(cursor, S)
           page == {l \in rest : Cardinality(Before(rest, l)) < Limit}
           last == CHOOSE l \in page : \A k \in page \ {l} : Precedes(k, l)
           p    == PageFrom(cursor, S)
<1>1. /\ rest \in SUBSET Listings /\ page \in SUBSET rest
      /\ Limit \in Nat /\ Limit > 0 /\ None \notin Listings
  <2>1. Limit \in Nat /\ Limit > 0 /\ None \notin Listings
    BY FeedPagesAssumption DEF FeedPagesAssumption
  <2>2. rest \in SUBSET Listings
    BY DEF After
  <2>3. QED
    BY <2>1, <2>2
<1>2. p = [from |-> cursor, items |-> page, next |-> IF rest = page THEN None ELSE last]
  BY DEF PageFrom, Before
<1>3. rest # page => last \in page /\ \A k \in page \ {last} : Precedes(k, last)
  <2> SUFFICES ASSUME rest # page
               PROVE  last \in page /\ \A k \in page \ {last} : Precedes(k, last)
    OBVIOUS
  <2>1. rest # {}
    BY <1>1
  <2>2. PICK f \in rest : Before(rest, f) = {}
    BY <1>1, <2>1, FirstListing
  <2>3. f \in page
    BY <1>1, <2>2, FS_EmptySet
  <2>4. page # {} /\ page \in SUBSET Listings
    BY <1>1, <2>3
  <2>5. \E l \in page : \A k \in page \ {l} : Precedes(k, l)
    BY <2>4, LastListing
  <2>6. QED
    BY <2>5
<1>4. ASSUME rest # page, NEW l \in rest, l = last \/ Precedes(l, last)
      PROVE  l \in page
  <2>1. last \in page /\ last \in rest
    BY <1>1, <1>3, <1>4
  <2>2. CASE Precedes(l, last)
    <3>1. Cardinality(Before(rest, l)) < Cardinality(Before(rest, last))
      BY <1>1, <2>1, <2>2, BeforeGrows
    <3>2. /\ Cardinality(Before(rest, l)) \in Nat
          /\ Cardinality(Before(rest, last)) \in Nat
      BY <1>1, BeforeCounts
    <3>3. Cardinality(Before(rest, last)) < Limit
      BY <2>1
    <3>4. QED
      BY <1>1, <3>1, <3>2, <3>3
  <2>3. QED
    BY <1>4, <2>1, <2>2
<1> HIDE DEF last, page
<1>5. p \in Page
  BY <1>1, <1>2, <1>3 DEF Page, Cursors
<1>6. p.from = cursor /\ p.items = page /\ p.next = IF rest = page THEN None ELSE last
  BY <1>2
<1>7. \A l \in S : l \in rest <=> cursor = None \/ Precedes(cursor, l)
  BY DEF After
<1> HIDE DEF p, rest
<1>8. Fits(p, st)
  <2>1. \A l \in page : cursor = None \/ Precedes(cursor, l)
    BY <1>1 DEF rest, After
  <2>2. p.next # None => p.next \in page
    BY <1>3, <1>6
  <2>3. \A l \in page : UpTo(l, p.next)
    BY <1>3, <1>6 DEF UpTo
  <2>4. ASSUME NEW l \in st, cursor = None \/ Precedes(cursor, l), UpTo(l, p.next)
        PROVE  l \in page
    <3>1. l \in rest
      BY <1>7, <2>4
    <3>2. CASE rest = page
      BY <3>1, <3>2
    <3>3. CASE rest # page
      <4>1. last \in Listings
        BY <1>1, <1>3, <3>3
      <4>2. p.next = last /\ last # None
        BY <1>1, <1>6, <3>3, <4>1
      <4>3. QED
        BY <1>4, <2>4, <3>1, <3>3, <4>2 DEF UpTo
    <3>4. QED
      BY <3>2, <3>3
  <2>5. QED
    BY <1>6, <2>1, <2>2, <2>3, <2>4 DEF Fits
<1>9. QED
  BY <1>5, <1>6, <1>8 DEF p

-----------------------------------------------------------------------------
(* FeedPages: pages in line.                                               *)

LEMMA EmptyInLine == \A st : Lined(<<>>, st)
BY DEF Lined

\* Steadiness can only be lost.
LEMMA SteadyShrinks ==
    ASSUME NEW s, NEW t \in SUBSET s
    PROVE  /\ \A p : Fits(p, s) => Fits(p, t)
           /\ \A seq : Lined(seq, s) => Lined(seq, t)
BY DEF Fits, Lined

\* The page that goes on where the others ended takes its place after them.
LEMMA LineGoesOn ==
    ASSUME NEW st \in SUBSET Listings, NEW seq \in Seq(Page), NEW p \in Page,
           Lined(seq, st), Fits(p, st), p.from = NextCursor(seq),
           seq # <<>> => LastOf(seq).next # None
    PROVE  Lined(Append(seq, p), st)
<1> DEFINE all == Append(seq, p)
           n   == Len(seq)
           end == LastOf(seq).next
<1>1. /\ n \in Nat /\ Len(all) = n + 1 /\ all[n + 1] = p /\ all # <<>>
      /\ DOMAIN all = 1 .. n + 1 /\ DOMAIN seq = 1 .. n
      /\ \A k \in 1 .. n : all[k] = seq[k] /\ seq[k] \in Page
  OBVIOUS
<1>2. LastOf(all) = p
  BY <1>1 DEF LastOf
<1>3. p.items \in SUBSET Listings /\ p.next \in Cursors
      /\ \A k \in 1 .. n : seq[k].items \in SUBSET Listings
  BY <1>1 DEF Page
<1>4. seq # <<>> => n \in 1 .. n /\ LastOf(seq) \in Page /\ end \in Cursors
  BY <1>1 DEF LastOf, Page
<1>5. seq # <<>> => end \in Listings /\ end = p.from /\ p.from # None
  BY <1>4 DEF NextCursor, Cursors
<1>6. seq = <<>> => n = 0 /\ p.from = None
  BY DEF NextCursor
<1>7. n >= 1 => seq # <<>>
  BY <1>6
<1> HIDE DEF all, n, end
<1>8. \A l \in p.items : seq # <<>> => Precedes(end, l)
  BY <1>5 DEF Fits
<1>9. \A k \in 1 .. n : \A a \in seq[k].items : UpTo(a, end)
  BY <1>1, <1>7 DEF Lined, end
<1>10. \A k \in 1 .. n : \A a \in seq[k].items, b \in p.items : Precedes(a, b)
  <2> SUFFICES ASSUME NEW k \in 1 .. n, NEW a \in seq[k].items, NEW b \in p.items
               PROVE  Precedes(a, b)
    OBVIOUS
  <2>1. seq # <<>> /\ end \in Listings /\ end # None
    BY <1>1, <1>5, <1>7
  <2>2. a \in Listings /\ b \in Listings /\ Precedes(end, b)
    BY <1>3, <1>8, <2>1
  <2>3. a = end \/ Precedes(a, end)
    BY <1>9, <2>1 DEF UpTo
  <2>4. QED
    BY <2>1, <2>2, <2>3, OrderIsStrict
<1>11. \A j, k \in DOMAIN all : j < k =>
          \A a \in all[j].items, b \in all[k].items : Precedes(a, b)
  <2> SUFFICES ASSUME NEW j \in DOMAIN all, NEW k \in DOMAIN all, j < k
               PROVE  \A a \in all[j].items, b \in all[k].items : Precedes(a, b)
    OBVIOUS
  <2>1. j \in 1 .. n /\ (k \in 1 .. n \/ k = n + 1)
    BY <1>1
  <2>2. CASE k = n + 1
    BY <1>1, <1>10, <2>1, <2>2
  <2>3. CASE k \in 1 .. n
    BY <1>1, <2>1, <2>3 DEF Lined
  <2>4. QED
    BY <2>1, <2>2, <2>3
<1>12. \A k \in DOMAIN all : \A a \in all[k].items : UpTo(a, p.next)
  <2> SUFFICES ASSUME NEW k \in DOMAIN all, NEW a \in all[k].items
               PROVE  UpTo(a, p.next)
    OBVIOUS
  <2>1. CASE k = n + 1
    BY <1>1, <2>1 DEF Fits
  <2>2. CASE k \in 1 .. n
    BY <1>1, <1>10, <2>2 DEF Fits, UpTo
  <2>3. QED
    BY <1>1, <2>1, <2>2
<1>13. \A l \in st : UpTo(l, p.next) => \E k \in DOMAIN all : l \in all[k].items
  <2> SUFFICES ASSUME NEW l \in st, UpTo(l, p.next)
               PROVE  \E k \in DOMAIN all : l \in all[k].items
    OBVIOUS
  <2>1. CASE l \in p.items
    BY <1>1, <2>1
  <2>2. CASE l \notin p.items
    <3>1. p.from # None /\ ~Precedes(p.from, l)
      BY <2>2 DEF Fits
    <3>2. seq # <<>> /\ end = p.from /\ end \in Listings /\ l \in Listings
      BY <1>5, <1>6, <3>1
    <3>3. l = end \/ Precedes(l, end)
      BY <3>1, <3>2, OrderIsStrict
    <3>4. UpTo(l, end)
      BY <3>3 DEF UpTo
    <3>5. PICK k \in DOMAIN seq : l \in seq[k].items
      BY <3>2, <3>4 DEF Lined, end
    <3>6. QED
      BY <1>1, <3>5
  <2>3. QED
    BY <2>1, <2>2
<1>14. QED
  BY <1>2, <1>11, <1>12, <1>13 DEF Lined, all

-----------------------------------------------------------------------------
(* FeedPages: the steps.                                                   *)

PageRequest == [step : {"idle", "query", "store", "done"}, cursor : Cursors, page : Page \cup {None}]

\* What holds of a request that carries a page.
Carried(q) ==
    /\ q.step \in {"store", "done"} => q.page \in Page /\ Fits(q.page, steady)
    /\ q.step = "store" => q.page.from = q.cursor

\* PagingInv, clause by clause.
Paged == PagingTypeOK /\ PagesFit
InOrder == InLine(pages) /\ InLine(fetch.got) /\ AwaitsNext

LEMMA PagedFields ==
    ASSUME Paged
    PROVE  /\ request \in [Requests -> PageRequest]
           /\ \A r \in Requests : Carried(request[r])
           /\ p1 # None => p1 \in Page /\ Fits(p1, steady)
           /\ p2 # None => p2 \in Page /\ Fits(p2, steady)
           /\ Asleep \in PageRequest /\ Carried(Asleep)
           /\ steady \in SUBSET inFeed /\ inFeed \in SUBSET Listings
<1>1. request \in [Requests -> PageRequest]
  BY DEF Paged, PagingTypeOK, PageRequest
<1>2. \A r \in Requests : Carried(request[r])
  BY FitsMeans DEF Paged, PagingTypeOK, PagesFit, Carried
<1>3. /\ p1 # None => p1 \in Page /\ Fits(p1, steady)
      /\ p2 # None => p2 \in Page /\ Fits(p2, steady)
  BY FitsMeans DEF Paged, PagingTypeOK, PagesFit
<1>4. Asleep \in PageRequest /\ Carried(Asleep)
  BY DEF Asleep, PageRequest, Carried, Cursors
<1>5. steady \in SUBSET inFeed /\ inFeed \in SUBSET Listings
  BY DEF Paged, PagingTypeOK
<1>6. QED
  BY <1>1, <1>2, <1>3, <1>4, <1>5

\* One request moves, and what is cached is what was, or nothing, or fits.
LEMMA PagedKept ==
    ASSUME Paged, NEW r \in Requests, NEW q \in PageRequest,
           request' = request \/ request' = [request EXCEPT ![r] = q], Carried(q),
           p1' = p1 \/ p1' = None \/ (p1' \in Page /\ Fits(p1', steady)),
           p2' = p2 \/ p2' = None \/ (p2' \in Page /\ Fits(p2', steady)),
           steady' \in SUBSET steady
    PROVE  /\ PagesFit'
           /\ request' \in [Requests -> PageRequest]
           /\ \A x \in Requests : request'[x].step \in {"store", "done"} => request'[x].page \in Page
           /\ p1' \in Page \cup {None} /\ p2' \in Page \cup {None}
<1>1. request' \in [Requests -> PageRequest] /\ \A x \in Requests : Carried(request'[x])
  BY PagedFields
<1>2. \A p : Fits(p, steady) => Fits(p, steady')
  BY SteadyShrinks
<1>3. \A x \in Requests :
         /\ request'[x].step \in {"store", "done"} =>
               request'[x].page \in Page /\ Fits(request'[x].page, steady')
         /\ request'[x].step = "store" => request'[x].page.from = request'[x].cursor
  BY <1>1, <1>2 DEF Carried
<1>4. /\ p1' # None => p1' \in Page /\ Fits(p1', steady')
      /\ p2' # None => p2' \in Page /\ Fits(p2', steady')
  BY <1>2, PagedFields
<1>5. QED
  BY <1>1, <1>3, <1>4, FitsMeans

\* A request that arrives queries, or has its answer from the cache.
LEMMA AskAnswers ==
    ASSUME Paged, NEW r \in Requests, NEW cursor \in Cursors, Ask(r, cursor)
    PROVE  /\ \E q \in PageRequest :
                 /\ request' = [request EXCEPT ![r] = q] /\ Carried(q)
                 /\ q.step \in {"query", "done"}
                 /\ q.step = "query" => q.cursor = cursor
                 /\ q.step = "done" /\ ~mixed' => q.page.from = cursor
           /\ mixed' \in BOOLEAN /\ (mixed => mixed')
<1> DEFINE entry == Entry(cursor)
           asked == [Asleep EXCEPT !.step = "query", !.cursor = cursor]
           found == [Asleep EXCEPT !.step = "done", !.page = entry]
           q == IF entry = None THEN asked ELSE found
<1>1. entry # None => entry \in Page /\ Fits(entry, steady)
  BY PagedFields DEF Entry
<1>2. request' = [request EXCEPT ![r] = q]
  BY DEF Ask
<1>3. mixed' = (mixed \/ (entry # None /\ entry.from # cursor)) /\ mixed \in BOOLEAN
  BY DEF Ask, Mixes, Paged, PagingTypeOK
<1> HIDE DEF entry
<1>4. /\ asked \in PageRequest /\ asked.step = "query" /\ asked.cursor = cursor
      /\ entry # None => found \in PageRequest /\ found.step = "done" /\ found.page = entry
  BY <1>1 DEF PageRequest, Cursors, Asleep
<1> HIDE DEF asked, found
<1>5. q \in PageRequest /\ Carried(q)
  BY <1>1, <1>4 DEF Carried
<1>6. /\ q.step \in {"query", "done"}
      /\ q.step = "query" => q.cursor = cursor
      /\ q.step = "done" /\ ~mixed' => q.page.from = cursor
  BY <1>3, <1>4
<1>7. mixed' \in BOOLEAN /\ (mixed => mixed')
  BY <1>3
<1> HIDE DEF q
<1>8. QED
  BY <1>2, <1>5, <1>6, <1>7

\* The next cursor of the pages one has is one.
LEMMA NextCursorTyped ==
    ASSUME NEW seq \in Seq(Page)
    PROVE  /\ NextCursor(seq) \in Cursors
           /\ seq # <<>> => LastOf(seq) \in Page /\ LastOf(seq).next \in Cursors
<1>1. seq # <<>> => LastOf(seq) \in Page
  BY DEF LastOf
<1>2. QED
  BY <1>1 DEF NextCursor, Cursors, Page

LEMMA InOrderMeans ==
    /\ InOrder <=> /\ Lined(pages, steady) /\ Lined(fetch.got, steady)
                   /\ AwaitsNext
    /\ InOrder' <=> /\ Lined(pages', steady') /\ Lined(fetch'.got, steady')
                    /\ AwaitsNext'
BY FitsMeans DEF InOrder

\* The feed changes, or what is cached goes, or the client gives up.
LEMMA ChangeInv ==
    ASSUME PagingInv, (\E l \in Listings : Change(l)) \/ Evict \/ FetchFails
    PROVE  PagingInv'
<1>1. Paged /\ (~mixed => InOrder)
  BY DEF PagingInv, Paged, InOrder
<1>2. steady' \in SUBSET steady /\ request' = request /\ mixed' = mixed /\ pages' = pages
  BY DEF Change, Evict, FetchFails, feedVars, clientVars, PagingTypeOK, PagingInv
<1>3. (p1' = p1 \/ p1' = None) /\ (p2' = p2 \/ p2' = None)
  BY DEF Change, Evict, FetchFails, cacheVars
<1>4. /\ PagesFit'
      /\ \A x \in Requests : request'[x].step \in {"store", "done"} => request'[x].page \in Page
      /\ p1' \in Page \cup {None} /\ p2' \in Page \cup {None}
  BY <1>2, <1>3 DEF PagingInv, PagingTypeOK, PagesFit, PageFits
<1>5. UNCHANGED <<fetch, mine>> \/ (fetch' = NoFetch /\ mine' = None)
  BY DEF Change, Evict, FetchFails, clientVars
<1>6. PagingTypeOK'
  <2>1. inFeed' \in SUBSET Listings /\ changes' \in 0 .. MaxChanges /\ steady' \in SUBSET inFeed'
    <3>1. CASE UNCHANGED feedVars
      BY <3>1 DEF feedVars, PagingInv, PagingTypeOK
    <3>2. ASSUME NEW l \in Listings, Change(l)
          PROVE  inFeed' \in SUBSET Listings /\ changes' \in 0 .. MaxChanges
                 /\ steady' \in SUBSET inFeed'
      BY <3>2, FeedPagesAssumption DEF Change, FeedPagesAssumption, PagingInv, PagingTypeOK
    <3>3. QED
      BY <3>1, <3>2 DEF Evict, FetchFails
  <2>2. /\ fetch' \in [kind : {"none", "next", "again"}, got : Seq(Page)]
        /\ Len(fetch'.got) <= Len(pages')
        /\ mine' \in Requests \cup {None}
    <3>1. /\ NoFetch \in [kind : {"none", "next", "again"}, got : Seq(Page)]
          /\ Len(NoFetch.got) <= Len(pages)
      BY DEF NoFetch, PagingInv, PagingTypeOK
    <3>2. QED
      BY <1>2, <1>5, <3>1 DEF PagingInv, PagingTypeOK
  <2>3. QED
    BY <1>2, <1>4, <2>1, <2>2 DEF PagingInv, PagingTypeOK
<1>7. ASSUME ~mixed'
      PROVE  InOrder'
  <2>1. InOrder
    BY <1>1, <1>2, <1>7
  <2>2. Lined(pages', steady') /\ Lined(fetch'.got, steady')
    <3>1. Lined(pages, steady') /\ Lined(fetch.got, steady')
      BY <1>2, <2>1, InOrderMeans, SteadyShrinks
    <3>2. fetch'.got = fetch.got \/ fetch'.got = <<>>
      BY <1>5 DEF NoFetch
    <3>3. QED
      BY <1>2, <3>1, <3>2, EmptyInLine
  <2>3. AwaitsNext'
    BY <1>2, <1>5, <2>1 DEF InOrder, AwaitsNext, NextCursor, LastOf
  <2>4. QED
    BY <2>2, <2>3, InOrderMeans
<1>8. QED
  BY <1>4, <1>6, <1>7 DEF PagingInv, InOrder

\* A request of whoever it is moves on, which the client's pages do not notice;
\* what the client awaits stays what it awaits.
LEMMA RequestInv ==
    ASSUME PagingInv, NEW r \in Requests, NEW q \in PageRequest,
           request' = [request EXCEPT ![r] = q], Carried(q),
           p1' = p1 \/ (p1' \in Page /\ Fits(p1', steady)),
           p2' = p2 \/ (p2' \in Page /\ Fits(p2', steady)),
           UNCHANGED feedVars, UNCHANGED clientVars, mixed' \in BOOLEAN, mixed => mixed',
           ~mixed' /\ mine = r /\ AwaitsNext =>
              /\ q.step \in {"query", "store", "done"}
              /\ q.step \in {"query", "store"} => q.cursor = request[r].cursor
                                                  /\ request[r].step \in {"query", "store"}
              /\ q.step = "done" => q.page.from = NextCursor(fetch.got)
    PROVE  PagingInv'
<1>1. Paged /\ (~mixed => InOrder)
  BY DEF PagingInv, Paged, InOrder
<1>2. inFeed' = inFeed /\ changes' = changes /\ steady' = steady
      /\ pages' = pages /\ fetch' = fetch /\ mine' = mine
  BY DEF feedVars, clientVars
<1>3. /\ PagesFit'
      /\ request' \in [Requests -> PageRequest]
      /\ \A x \in Requests : request'[x].step \in {"store", "done"} => request'[x].page \in Page
      /\ p1' \in Page \cup {None} /\ p2' \in Page \cup {None}
  BY <1>1, <1>2, PagedKept
<1>4. PagingTypeOK'
  BY <1>2, <1>3 DEF PagingInv, PagingTypeOK, PageRequest
<1>5. ASSUME ~mixed'
      PROVE  InOrder'
  <2>1. InOrder
    BY <1>1, <1>5
  <2>2. AwaitsNext'
    <3>1. CASE mine = r
      <4>1. request'[r] = q
        BY <1>1, PagedFields
      <4>2. QED
        BY <1>2, <1>5, <2>1, <3>1, <4>1 DEF InOrder, AwaitsNext, NextCursor, LastOf
    <3>2. CASE mine # r /\ mine # None
      <4>1. mine \in Requests /\ request'[mine] = request[mine]
        BY <1>1, <3>2, PagedFields DEF PagingInv, PagingTypeOK
      <4>2. QED
        BY <1>2, <2>1, <4>1 DEF InOrder, AwaitsNext, NextCursor, LastOf
    <3>3. CASE mine = None
      BY <1>2, <3>3 DEF AwaitsNext
    <3>4. QED
      BY <3>1, <3>2, <3>3
  <2>3. QED
    BY <1>2, <2>1, <2>2, InOrderMeans
<1>6. QED
  BY <1>3, <1>4, <1>5 DEF PagingInv, InOrder

LEMMA AskOtherInv ==
    ASSUME PagingInv, NEW r \in Requests, AskOther(r)
    PROVE  PagingInv'
<1>1. Paged
  BY DEF PagingInv, Paged
<1>2. PICK cursor \in {None} \cup (IF p1 = None THEN {} ELSE {p1.next}) : Ask(r, cursor)
  BY DEF AskOther
<1>3. cursor \in Cursors
  BY <1>1, PagedFields DEF Cursors, Page
<1>4. PICK q \in PageRequest : request' = [request EXCEPT ![r] = q] /\ Carried(q)
  BY <1>1, <1>2, <1>3, AskAnswers
<1>5. mixed' \in BOOLEAN /\ (mixed => mixed')
  BY <1>1, <1>2, <1>3, AskAnswers
<1>6. AwaitsNext /\ mine = r => FALSE
  BY FeedPagesAssumption DEF FeedPagesAssumption, AskOther, AwaitsNext, Asleep
<1>7. p1' = p1 /\ p2' = p2 /\ UNCHANGED feedVars /\ UNCHANGED clientVars
  BY DEF AskOther, cacheVars
<1>8. QED
  BY <1>4, <1>5, <1>6, <1>7, RequestInv

LEMMA QueryInv ==
    ASSUME PagingInv, NEW r \in Requests, Query(r)
    PROVE  PagingInv'
<1>1. Paged
  BY DEF PagingInv, Paged
<1> DEFINE page == PageFrom(request[r].cursor, inFeed)
           q == [request[r] EXCEPT !.step = "store", !.page = page]
<1>2. request[r] \in PageRequest /\ request[r].cursor \in Cursors
  BY <1>1, PagedFields DEF PageRequest
<1>3. page \in Page /\ page.from = request[r].cursor /\ Fits(page, steady)
  BY <1>1, <1>2, PagedFields, PageFromFits
<1>4. request' = [request EXCEPT ![r] = q]
  BY <1>1, PagedFields DEF Query
<1> HIDE DEF page
<1>5. q \in PageRequest /\ q.step = "store" /\ q.page = page /\ q.cursor = request[r].cursor
  BY <1>2, <1>3 DEF PageRequest
<1> HIDE DEF q
<1>6. Carried(q)
  BY <1>3, <1>5 DEF Carried
<1>7. /\ request[r].step = "query" /\ mixed' = mixed /\ p1' = p1 /\ p2' = p2
      /\ UNCHANGED feedVars /\ UNCHANGED clientVars
  BY DEF Query, cacheVars
<1>8. mixed' \in BOOLEAN
  BY <1>7 DEF PagingInv, PagingTypeOK
<1>9. QED
  BY <1>4, <1>5, <1>6, <1>7, <1>8, RequestInv

LEMMA StoreInv ==
    ASSUME PagingInv, NEW r \in Requests, Store(r)
    PROVE  PagingInv'
<1>1. Paged
  BY DEF PagingInv, Paged
<1> DEFINE page == request[r].page
           done == [Asleep EXCEPT !.step = "done", !.page = page]
           q    == IF mine = r THEN done ELSE Asleep
<1>2. request[r].step = "store" /\ mixed' = mixed /\ mixed' \in BOOLEAN
      /\ UNCHANGED feedVars /\ UNCHANGED clientVars
  BY DEF Store, PagingInv, PagingTypeOK
<1>3. page \in Page /\ Fits(page, steady) /\ page.from = request[r].cursor
  BY <1>1, <1>2, PagedFields DEF Carried
<1>4. request' = [request EXCEPT ![r] = q] /\ p1' \in {p1, page} /\ p2' \in {p2, page}
  BY DEF Store
<1> HIDE DEF page
<1>5. done \in PageRequest /\ done.step = "done" /\ done.page = page
  BY <1>3 DEF PageRequest, Asleep, Cursors
<1> HIDE DEF done
<1>6. q \in PageRequest /\ Carried(q) /\ (mine = r => q.step = "done" /\ q.page = page)
  BY <1>1, <1>3, <1>5, PagedFields DEF Carried
<1> HIDE DEF q
<1>7. mine = r /\ AwaitsNext => page.from = NextCursor(fetch.got)
  BY <1>2, <1>3, FeedPagesAssumption DEF AwaitsNext, FeedPagesAssumption
<1>8. p1' = p1 \/ (p1' \in Page /\ Fits(p1', steady))
  BY <1>3, <1>4
<1>9. p2' = p2 \/ (p2' \in Page /\ Fits(p2', steady))
  BY <1>3, <1>4
<1>10. QED
  BY <1>2, <1>4, <1>6, <1>7, <1>8, <1>9, RequestInv

\* The client asks for a page: the one after those of got.
LEMMA AskInv ==
    ASSUME PagingInv, NEW r \in Requests, NEW got \in Seq(Page), NEW kind \in {"next", "again"},
           Ask(r, NextCursor(got)), Len(got) <= Len(pages),
           fetch' = [kind |-> kind, got |-> got], mine' = r,
           UNCHANGED <<feedVars, cacheVars, pages>>,
           ~mixed => Lined(got, steady), got # <<>> => LastOf(got).next # None
    PROVE  PagingInv'
<1>1. Paged /\ (~mixed => InOrder)
  BY DEF PagingInv, Paged, InOrder
<1>2. NextCursor(got) \in Cursors
  BY NextCursorTyped
<1>3. PICK q \in PageRequest :
          /\ request' = [request EXCEPT ![r] = q] /\ Carried(q)
          /\ q.step \in {"query", "done"}
          /\ q.step = "query" => q.cursor = NextCursor(got)
          /\ q.step = "done" /\ ~mixed' => q.page.from = NextCursor(got)
  BY <1>1, <1>2, AskAnswers
<1>4. mixed' \in BOOLEAN /\ (mixed => mixed')
  BY <1>1, <1>2, AskAnswers
<1>5. inFeed' = inFeed /\ changes' = changes /\ steady' = steady
      /\ p1' = p1 /\ p2' = p2 /\ pages' = pages
  BY DEF feedVars, cacheVars
<1>6. /\ PagesFit'
      /\ request' \in [Requests -> PageRequest]
      /\ \A x \in Requests : request'[x].step \in {"store", "done"} => request'[x].page \in Page
  BY <1>1, <1>3, <1>5, PagedKept
<1>7. PagingTypeOK'
  <2>1. /\ fetch' \in [kind : {"none", "next", "again"}, got : Seq(Page)]
        /\ Len(fetch'.got) <= Len(pages')
    BY <1>5
  <2>2. QED
    BY <1>4, <1>5, <1>6, <2>1 DEF PagingInv, PagingTypeOK, PageRequest
<1>8. ASSUME ~mixed'
      PROVE  InOrder'
  <2>1. InOrder /\ fetch'.got = got
    BY <1>1, <1>4, <1>8
  <2>2. Lined(pages', steady') /\ Lined(fetch'.got, steady')
    BY <1>4, <1>5, <1>8, <2>1, InOrderMeans
  <2>3. request'[r] = q
    BY <1>1, <1>3, PagedFields
  <2>4. AwaitsNext'
    BY <1>3, <1>8, <2>1, <2>3 DEF AwaitsNext, NextCursor, LastOf
  <2>5. QED
    BY <2>2, <2>4, InOrderMeans
<1>9. QED
  BY <1>6, <1>7, <1>8 DEF PagingInv, InOrder

LEMMA FetchInv ==
    ASSUME PagingInv, NEW r \in Requests, FetchNext(r) \/ Refetch(r)
    PROVE  PagingInv'
<1>1. pages \in Seq(Page) /\ Len(pages) <= Len(pages) /\ Len(<<>>) <= Len(pages)
  BY DEF PagingInv, PagingTypeOK
<1>2. ~mixed /\ Lined(pages, steady)
  BY FitsMeans DEF PagingInv, FetchNext, Refetch
<1>3. CASE FetchNext(r)
  <2>1. Ask(r, NextCursor(pages))
    BY <1>3 DEF FetchNext, NextCursor
  <2>2. pages # <<>> => LastOf(pages).next # None
    BY <1>3 DEF FetchNext, HasNext
  <2>3. fetch' = [kind |-> "next", got |-> pages] /\ mine' = r
        /\ UNCHANGED <<feedVars, cacheVars, pages>>
    BY <1>3 DEF FetchNext
  <2>4. QED
    BY <1>1, <1>2, <2>1, <2>2, <2>3, AskInv
<1>4. CASE Refetch(r)
  <2>1. Ask(r, NextCursor(<<>>)) /\ <<>> \in Seq(Page)
    BY <1>4 DEF Refetch, NextCursor
  <2>2. fetch' = [kind |-> "again", got |-> <<>>] /\ mine' = r
        /\ UNCHANGED <<feedVars, cacheVars, pages>>
    BY <1>4 DEF Refetch
  <2>3. Lined(<<>>, steady)
    BY EmptyInLine
  <2>4. QED
    BY <1>1, <2>1, <2>2, <2>3, AskInv
<1>5. QED
  BY <1>3, <1>4

LEMMA ReceiveInv ==
    ASSUME PagingInv, NEW r \in Requests, Receive(r)
    PROVE  PagingInv'
<1> DEFINE p   == request[r].page
           got == Append(fetch.got, p)
<1>1. Paged /\ (~mixed => InOrder)
  BY DEF PagingInv, Paged, InOrder
<1>2. mine = r /\ mine # None /\ request[r].step = "done"
  BY FeedPagesAssumption DEF Receive, FeedPagesAssumption
<1>3. p \in Page /\ Fits(p, steady)
  BY <1>1, <1>2, PagedFields DEF Carried
<1>4. fetch.got \in Seq(Page) /\ steady \in SUBSET Listings /\ fetch.kind \in {"none", "next", "again"}
  BY <1>1, PagedFields DEF PagingInv, PagingTypeOK
<1>5. got \in Seq(Page) /\ got # <<>>
  BY <1>3, <1>4
<1>6. ~mixed => Lined(got, steady)
  <2>1. ASSUME ~mixed
        PROVE  /\ Lined(fetch.got, steady)
               /\ p.from = NextCursor(fetch.got)
               /\ fetch.got # <<>> => LastOf(fetch.got).next # None
    BY <1>1, <1>2, <2>1, InOrderMeans DEF AwaitsNext
  <2>2. QED
    BY <1>3, <1>4, <2>1, LineGoesOn
<1> HIDE DEF p
<1>7. CASE GoesOn(got)
  <2>1. /\ fetch.kind = "again" /\ Len(got) <= Len(pages) /\ LastOf(got).next # None
        /\ Ask(r, LastOf(got).next)
        /\ UNCHANGED <<feedVars, cacheVars, pages, mine>>
    <3>1. Len(got) \in Nat /\ Len(pages) \in Nat
      BY <1>5 DEF PagingInv, PagingTypeOK
    <3>2. QED
      BY <1>7, <3>1 DEF Receive, GoesOn, p
  <2>2. fetch' = [kind |-> "again", got |-> got]
    <3>1. fetch' = [fetch EXCEPT !.got = got]
      BY <1>7 DEF Receive, p
    <3>2. fetch \in [kind : {"none", "next", "again"}, got : Seq(Page)]
      BY DEF PagingInv, PagingTypeOK
    <3> HIDE DEF got
    <3>3. QED
      BY <2>1, <3>1, <3>2
  <2>3. Ask(r, NextCursor(got))
    BY <1>5, <2>1 DEF NextCursor
  <2>4. mine' = r
    BY <1>2, <2>1
  <2> HIDE DEF got
  <2>5. QED
    BY <1>5, <1>6, <2>1, <2>2, <2>3, <2>4, AskInv
<1>8. CASE ~GoesOn(got)
  <2>1. /\ pages' = got /\ fetch' = NoFetch /\ mine' = None /\ mixed' = mixed
        /\ request' = [request EXCEPT ![r] = Asleep]
        /\ UNCHANGED <<feedVars, cacheVars>>
    BY <1>8 DEF Receive, p
  <2> HIDE DEF got
  <2>2. inFeed' = inFeed /\ changes' = changes /\ steady' = steady /\ p1' = p1 /\ p2' = p2
    BY <2>1 DEF feedVars, cacheVars
  <2>3. /\ PagesFit'
        /\ request' \in [Requests -> PageRequest]
        /\ \A x \in Requests : request'[x].step \in {"store", "done"} => request'[x].page \in Page
    BY <1>1, <2>1, <2>2, PagedFields, PagedKept
  <2>4. /\ NoFetch \in [kind : {"none", "next", "again"}, got : Seq(Page)]
        /\ Len(NoFetch.got) <= Len(got)
    BY <1>5 DEF NoFetch
  <2>5. PagingTypeOK'
    BY <1>5, <2>1, <2>2, <2>3, <2>4 DEF PagingInv, PagingTypeOK, PageRequest
  <2>6. ASSUME ~mixed'
        PROVE  InOrder'
    <3>1. Lined(pages', steady') /\ Lined(fetch'.got, steady')
      BY <1>6, <2>1, <2>2, <2>6, EmptyInLine DEF NoFetch
    <3>2. AwaitsNext'
      BY <2>1 DEF AwaitsNext
    <3>3. QED
      BY <3>1, <3>2, InOrderMeans
  <2>7. QED
    BY <2>3, <2>5, <2>6 DEF PagingInv, InOrder
<1>9. QED
  BY <1>7, <1>8

-----------------------------------------------------------------------------
(* FeedPages: the theorems.                                                *)

LEMMA PagingInitInv == PagingInit => PagingInv
<1> SUFFICES ASSUME PagingInit
             PROVE  PagingInv
  OBVIOUS
<1>1. /\ Asleep \in [step : {"idle", "query", "store", "done"}, cursor : Cursors,
                     page : Page \cup {None}]
      /\ Asleep.step = "idle"
  BY DEF Asleep, Cursors
<1>2. NoFetch \in [kind : {"none", "next", "again"}, got : Seq(Page)] /\ NoFetch.got = <<>>
  BY DEF NoFetch
<1>3. PagingTypeOK
  <2>1. inFeed \in SUBSET Listings /\ changes \in 0 .. MaxChanges
    BY FeedPagesAssumption DEF PagingInit, FeedPagesAssumption
  <2>2. p1 \in Page \cup {None} /\ p2 \in Page \cup {None}
    BY DEF PagingInit
  <2>3. /\ request \in [Requests -> [step : {"idle", "query", "store", "done"},
                                    cursor : Cursors, page : Page \cup {None}]]
        /\ \A r \in Requests : request[r].step = "idle"
    BY <1>1 DEF PagingInit
  <2>4. pages \in Seq(Page) /\ Len(fetch.got) <= Len(pages)
    BY <1>2 DEF PagingInit
  <2>5. fetch \in [kind : {"none", "next", "again"}, got : Seq(Page)]
    BY <1>2 DEF PagingInit
  <2>6. /\ mine \in Requests \cup {None}
        /\ steady \in SUBSET inFeed
        /\ mixed \in BOOLEAN
    BY DEF PagingInit
  <2>7. QED
    BY <2>1, <2>2, <2>3, <2>4, <2>5, <2>6 DEF PagingTypeOK
<1>4. PagesFit
  BY <1>1 DEF PagingInit, PagesFit
<1>5. InLine(pages) /\ InLine(fetch.got) /\ AwaitsNext
  BY <1>2 DEF PagingInit, InLine, AwaitsNext
<1>6. QED
  BY <1>3, <1>4, <1>5 DEF PagingInv

LEMMA PagingNextInv == PagingInv /\ [PagingNext]_pagingVars => PagingInv'
<1> SUFFICES ASSUME PagingInv, [PagingNext]_pagingVars
             PROVE  PagingInv'
  OBVIOUS
<1>1. CASE (\E l \in Listings : Change(l)) \/ Evict \/ FetchFails
  BY <1>1, ChangeInv
<1>2. ASSUME NEW r \in Requests,
             AskOther(r) \/ Query(r) \/ Store(r) \/ FetchNext(r) \/ Refetch(r) \/ Receive(r)
      PROVE  PagingInv'
  BY <1>2, AskOtherInv, QueryInv, StoreInv, FetchInv, ReceiveInv
<1>3. CASE UNCHANGED pagingVars
  <2>1. UNCHANGED <<inFeed, changes, steady, p1, p2, request, pages, fetch, mine, mixed>>
    BY <1>3 DEF pagingVars, feedVars, cacheVars, clientVars
  <2>2. PagingTypeOK'
    BY <2>1 DEF PagingInv, PagingTypeOK
  <2>3. PagesFit'
    BY <2>1 DEF PagingInv, PagesFit, PageFits
  <2>4. ~mixed' => InLine(pages)' /\ InLine(fetch.got)' /\ AwaitsNext'
    BY <2>1 DEF PagingInv, InLine, LastOf, AwaitsNext, NextCursor
  <2>5. QED
    BY <2>2, <2>3, <2>4 DEF PagingInv
<1>4. QED
  BY <1>1, <1>2, <1>3 DEF PagingNext

LEMMA PagingHolds == PagingSpec => []PagingInv
BY PagingInitInv, PagingNextInv, PTL DEF PagingSpec

\* Every page and request of the paging model keeps its type.
THEOREM PagingTyped == PagingSpec => []PagingTypeOK
<1>1. PagingInv => PagingTypeOK
  BY DEF PagingInv
<1>2. QED
  BY <1>1, PagingHolds, PTL

\* The pages a client has collected are in the order of the feed and no
\* listing is on two of them (listings.ts:226-251, FeedPage.tsx:152-166).
THEOREM PagesDoNotRepeat == PagingSpec => []NoRepeat
<1>1. PagingInv => NoRepeat
  BY DEF PagingInv, NoRepeat, InLine
<1>2. QED
  BY <1>1, PagingHolds, PTL

\* Whoever has reached the end has been shown each listing that was in the
\* feed all the time (FeedPage.tsx:301-305).
THEOREM PagesDoNotSkip == PagingSpec => []NoSkip
<1>1. PagingInv => NoSkip
  <2> SUFFICES ASSUME PagingInv, ~mixed, pages # <<>>, ~HasNext, NEW l \in steady
               PROVE  l \in UNION {pages[k].items : k \in DOMAIN pages}
    BY DEF NoSkip
  <2>1. UpTo(l, LastOf(pages).next)
    BY DEF HasNext, UpTo
  <2>2. PICK k \in DOMAIN pages : l \in pages[k].items
    BY <2>1 DEF PagingInv, InLine
  <2>3. QED
    BY <2>2
<1>2. QED
  BY <1>1, PagingHolds, PTL
=============================================================================

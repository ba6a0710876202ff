---------------------------- MODULE ReportsProofs ----------------------------
(***************************************************************************)
(* Theorems about Reports, for every set of listings and reporters, every  *)
(* threshold and every bound.                                              *)
(***************************************************************************)
EXTENDS Reports, FiniteSetTheorems, TLAPS

-----------------------------------------------------------------------------
(* Counting reporters.                                                     *)

\* A pair more is a reporter more, of its listing alone.
LEMMA ReporterAdded ==
    ASSUME NEW pairs, NEW l \in Listings, NEW u \in Reporters, <<l, u>> \notin pairs,
           NEW k \in Listings, IsFiniteSet(ReportersOf(k, pairs))
    PROVE  /\ IsFiniteSet(ReportersOf(k, pairs \cup {<<l, u>>}))
           /\ Cardinality(ReportersOf(k, pairs \cup {<<l, u>>})) =
                IF k = l THEN Cardinality(ReportersOf(k, pairs)) + 1
                         ELSE Cardinality(ReportersOf(k, pairs))
<1>1. CASE k = l
  <2>1. /\ ReportersOf(k, pairs \cup {<<l, u>>}) = ReportersOf(k, pairs) \cup {u}
        /\ u \notin ReportersOf(k, pairs)
    BY <1>1 DEF ReportersOf
  <2>2. /\ IsFiniteSet(ReportersOf(k, pairs) \cup {u})
        /\ Cardinality(ReportersOf(k, pairs) \cup {u}) = Cardinality(ReportersOf(k, pairs)) + 1
    BY <2>1, FS_AddElement
  <2>3. QED
    BY <1>1, <2>1, <2>2
<1>2. CASE k # l
  BY <1>2 DEF ReportersOf
<1>3. QED
  BY <1>1, <1>2

\* What is counted are reports.
LEMMA CountedFinite ==
    ASSUME IInv, NEW l \in Listings
    PROVE  /\ IsFiniteSet(ReportersOf(l, reports \ (counting \cup lost)))
           /\ Cardinality(ReportersOf(l, reports \ (counting \cup lost))) <= MaxReports
<1>1. /\ IsFiniteSet(ReportersOf(l, reports))
      /\ Cardinality(ReportersOf(l, reports)) <= Cardinality(reports)
      /\ IsFiniteSet(reports) /\ Cardinality(reports) <= MaxReports
  BY DEF IInv, ReportsBounded
<1>2. ReportersOf(l, reports \ (counting \cup lost)) \in SUBSET ReportersOf(l, reports)
  BY DEF ReportersOf
<1>3. /\ IsFiniteSet(ReportersOf(l, reports \ (counting \cup lost)))
      /\ Cardinality(ReportersOf(l, reports \ (counting \cup lost))) <= Cardinality(ReportersOf(l, reports))
  BY <1>1, <1>2, FS_Subset
<1>4. /\ Cardinality(ReportersOf(l, reports \ (counting \cup lost))) \in Nat
      /\ Cardinality(ReportersOf(l, reports)) \in Nat
      /\ Cardinality(reports) \in Nat /\ MaxReports \in Nat
  BY <1>1, <1>3, FS_CardinalityType, ReportsAssumption DEF ReportsAssumption
<1>5. QED
  BY <1>1, <1>3, <1>4

LEMMA InitHolds == Init => IInv
<1> SUFFICES ASSUME Init
             PROVE  IInv
  OBVIOUS
<1>1. \A l \in Listings : ReportersOf(l, {}) = {}
  BY DEF ReportersOf
<1>2. ReportsBounded
  BY <1>1, FS_EmptySet, ReportsAssumption DEF Init, ReportsBounded, ReportsAssumption
<1>3. CountsReporters
  BY <1>1, FS_EmptySet DEF Init, CountsReporters
<1>4. TypeOK
  BY ReportsAssumption DEF Init, TypeOK, Status, ReportsAssumption
<1>5. QED
  BY <1>2, <1>3, <1>4 DEF Init, IInv, PageTrue

-----------------------------------------------------------------------------
(* The reports.                                                            *)

\* The $inc counts the report it was made for, and only once: the report is
\* neither counted before nor given up.
LEMMA IncrementCounts ==
    ASSUME IInv, NEW l \in Listings, NEW u \in Reporters, Increment(l, u)
    PROVE  ReportsBounded' /\ CountsReporters'
<1>1. /\ <<l, u>> \in counting /\ counting' = counting \ {<<l, u>>}
      /\ count' = [count EXCEPT ![l] = @ + 1]
      /\ UNCHANGED <<reports, lost>>
  BY DEF Increment
<1>2. ReportsBounded'
  BY <1>1 DEF IInv, ReportsBounded
<1> DEFINE counted == reports \ (counting \cup lost)
<1>3. /\ reports' \ (counting' \cup lost') = counted \cup {<<l, u>>}
      /\ <<l, u>> \notin counted
  BY <1>1 DEF IInv, TypeOK, ReportsBounded
<1>4. ASSUME NEW k \in Listings
      PROVE  count'[k] = Cardinality(ReportersOf(k, counted \cup {<<l, u>>}))
  <2>1. count[k] = Cardinality(ReportersOf(k, counted)) /\ IsFiniteSet(ReportersOf(k, counted))
    BY CountedFinite DEF IInv, CountsReporters
  <2>2. count'[k] = IF k = l THEN count[k] + 1 ELSE count[k]
    BY <1>1 DEF IInv, TypeOK
  <2>3. QED
    BY <1>3, <2>1, <2>2, ReporterAdded
<1>5. CountsReporters'
  BY <1>3, <1>4 DEF CountsReporters
<1>6. QED
  BY <1>2, <1>5

\* A new report is to be counted before it counts.
LEMMA CreateCounts ==
    ASSUME IInv, NEW l \in Listings, NEW u \in Reporters, CreateReport(l, u)
    PROVE  ReportsBounded' /\ CountsReporters'
<1>1. /\ <<l, u>> \notin reports /\ Cardinality(reports) < MaxReports
      /\ reports' = reports \cup {<<l, u>>} /\ counting' = counting \cup {<<l, u>>}
      /\ UNCHANGED <<count, lost>>
  BY DEF CreateReport
<1>2. /\ IsFiniteSet(reports')
      /\ Cardinality(reports') = Cardinality(reports) + 1
      /\ Cardinality(reports) \in Nat /\ MaxReports \in Nat
  BY <1>1, FS_AddElement, FS_CardinalityType, ReportsAssumption
     DEF IInv, ReportsBounded, ReportsAssumption
<1>3. ASSUME NEW k \in Listings
      PROVE  /\ IsFiniteSet(ReportersOf(k, reports'))
             /\ Cardinality(ReportersOf(k, reports')) <= Cardinality(reports')
  <2>1. /\ IsFiniteSet(ReportersOf(k, reports))
        /\ Cardinality(ReportersOf(k, reports)) <= Cardinality(reports)
        /\ Cardinality(ReportersOf(k, reports)) \in Nat
    BY FS_CardinalityType DEF IInv, ReportsBounded
  <2>2. /\ IsFiniteSet(ReportersOf(k, reports'))
        /\ Cardinality(ReportersOf(k, reports')) =
              IF k = l THEN Cardinality(ReportersOf(k, reports)) + 1
                       ELSE Cardinality(ReportersOf(k, reports))
    BY <1>1, <2>1, ReporterAdded
  <2>3. QED
    BY <1>2, <2>1, <2>2
<1>4. counting' \cap lost' = {}
  BY <1>1 DEF IInv, TypeOK, ReportsBounded
<1>5. reports' \ (counting' \cup lost') = reports \ (counting \cup lost)
  BY <1>1 DEF IInv, TypeOK
<1>6. Cardinality(reports') <= MaxReports
  BY <1>1, <1>2
<1>7. ReportsBounded'
  BY <1>2, <1>3, <1>4, <1>6 DEF ReportsBounded, ReportersOf
<1>8. CountsReporters'
  BY <1>1, <1>5 DEF IInv, CountsReporters, ReportersOf
<1>9. QED
  BY <1>7, <1>8

\* A handler that is cut short gives its report up.
LEMMA FailureCounts ==
    ASSUME IInv, UNCHANGED <<reports, count>>, counting' \cap lost' = {},
           counting' \cup lost' = counting \cup lost
    PROVE  ReportsBounded' /\ CountsReporters'
BY DEF IInv, ReportsBounded, CountsReporters, ReportersOf

LEMMA ReportsCounted == IInv /\ [Next]_vars => ReportsBounded' /\ CountsReporters'
<1> SUFFICES ASSUME IInv, [Next]_vars
             PROVE  ReportsBounded' /\ CountsReporters'
  OBVIOUS
<1>1. ASSUME NEW l \in Listings, NEW u \in Reporters, Announce(l, u) \/ ReportFails(l, u)
      PROVE  ReportsBounded' /\ CountsReporters'
  <2>1. UNCHANGED <<reports, count>>
    BY <1>1 DEF Announce, ReportFails
  <2>2. counting' \cap lost' = {} /\ counting' \cup lost' = counting \cup lost
    BY <1>1 DEF Announce, ReportFails, IInv, ReportsBounded
  <2>3. QED
    BY <2>1, <2>2, FailureCounts
<1>2. CASE \/ \E l \in Listings : Transition(l) \/ ReadToRemove(l)
           \/ \E l \in Listings, n \in 1..MaxChanges : BumpTransition(l, n) \/ TransitionFails(l, n)
           \/ \E l \in Listings, read \in {"ACTIVE", "OUT"} : Remove(l, read)
           \/ Query \/ Store \/ Expire \/ UNCHANGED vars
  <2>1. UNCHANGED <<reports, count, counting, lost>>
    BY <1>2 DEF Transition, ReadToRemove, BumpTransition, TransitionFails, Remove, Query, Store,
                Expire, vars, reportVars
  <2>2. QED
    BY <2>1, FailureCounts DEF IInv, ReportsBounded
<1>3. QED
  BY <1>1, <1>2, CreateCounts, IncrementCounts DEF Next

-----------------------------------------------------------------------------
(* Types.                                                                  *)

\* The count has its type because it is one of reporters.
LEMMA NextTyped == IInv /\ [Next]_vars => TypeOK'
<1> SUFFICES ASSUME IInv, [Next]_vars
             PROVE  TypeOK'
  OBVIOUS
<1>1. /\ reports' \subseteq Listings \X Reporters
      /\ counting' \subseteq reports' /\ announcing' \subseteq reports' /\ lost' \subseteq reports'
      /\ unannounced' \subseteq Listings /\ status' \in [Listings -> Status]
      /\ DOMAIN count' = Listings /\ count' = [l \in Listings |-> count'[l]]
  <2>1. ASSUME NEW l \in Listings, NEW u \in Reporters, CreateReport(l, u)
        PROVE  <1>1!:
    BY <2>1 DEF CreateReport, IInv, TypeOK
  <2>2. ASSUME NEW l \in Listings, NEW u \in Reporters, Increment(l, u)
        PROVE  <1>1!:
    BY <2>2 DEF Increment, IInv, TypeOK
  <2>3. ASSUME NEW l \in Listings, NEW u \in Reporters, Announce(l, u) \/ ReportFails(l, u)
        PROVE  <1>1!:
    BY <2>3 DEF Announce, ReportFails, BumpFeedVersion, IInv, TypeOK
  <2>4. CASE \E l \in Listings : Transition(l) \/ ReadToRemove(l)
    BY <2>4 DEF Transition, ReadToRemove, reportVars, Status, IInv, TypeOK
  <2>5. CASE \E l \in Listings, n \in 1..MaxChanges : BumpTransition(l, n) \/ TransitionFails(l, n)
    BY <2>5 DEF BumpTransition, TransitionFails, BumpFeedVersion, IInv, TypeOK
  <2>6. CASE \E l \in Listings, read \in {"ACTIVE", "OUT"} : Remove(l, read)
    BY <2>6 DEF Remove, Status, IInv, TypeOK
  <2>7. CASE Query \/ Store \/ Expire \/ UNCHANGED vars
    BY <2>7 DEF Query, Store, Expire, vars, reportVars, IInv, TypeOK
  <2>8. QED
    BY <2>1, <2>2, <2>3, <2>4, <2>5, <2>6, <2>7 DEF Next
<1>2. count' \in [Listings -> 0..MaxReports]
  <2>1. ASSUME NEW l \in Listings
        PROVE  count'[l] \in 0..MaxReports
    <3>1. count'[l] = Cardinality(ReportersOf(l, reports' \ (counting' \cup lost')))
      BY ReportsCounted DEF CountsReporters, ReportersOf
    <3>2. /\ IsFiniteSet(ReportersOf(l, reports')) /\ IsFiniteSet(reports')
          /\ Cardinality(ReportersOf(l, reports')) <= Cardinality(reports')
          /\ Cardinality(reports') <= MaxReports
      BY ReportsCounted DEF ReportsBounded, ReportersOf
    <3>3. ReportersOf(l, reports' \ (counting' \cup lost')) \in SUBSET ReportersOf(l, reports')
      BY DEF ReportersOf
    <3>4. /\ Cardinality(ReportersOf(l, reports' \ (counting' \cup lost'))) \in Nat
          /\ Cardinality(ReportersOf(l, reports' \ (counting' \cup lost')))
               <= Cardinality(ReportersOf(l, reports'))
          /\ Cardinality(ReportersOf(l, reports')) \in Nat
          /\ Cardinality(reports') \in Nat /\ MaxReports \in Nat
      BY <3>2, <3>3, FS_Subset, FS_CardinalityType, ReportsAssumption DEF ReportsAssumption
    <3>5. QED
      BY <3>1, <3>2, <3>4
  <2>2. QED
    BY <1>1, <2>1
<1>3. ASSUME BumpFeedVersion
      PROVE  (cached' # None => cached' \in Page) /\ (found' # None => found' \in Page)
  BY <1>3 DEF BumpFeedVersion, Page, IInv, TypeOK
<1>4. /\ cached' # None => cached' \in Page
      /\ found' # None => found' \in Page
  <2>1. ASSUME NEW l \in Listings, NEW u \in Reporters,
               CreateReport(l, u) \/ Increment(l, u) \/ Announce(l, u) \/ ReportFails(l, u)
        PROVE  BumpFeedVersion \/ UNCHANGED <<cached, found>>
    BY <2>1 DEF CreateReport, Increment, Announce, ReportFails, feedVars
  <2>2. InFeed \in SUBSET Listings
    BY DEF InFeed, IInv, TypeOK
  <2>3. CASE Query
    <3>1. found' = [items |-> InFeed, late |-> FALSE] /\ cached' = cached
      BY <2>3 DEF Query
    <3>2. found' \in Page
      BY <2>2, <3>1 DEF Page
    <3>3. QED
      BY <3>1, <3>2 DEF IInv, TypeOK
  <2>4. CASE \E l \in Listings, n \in 1..MaxChanges : BumpTransition(l, n) \/ TransitionFails(l, n)
    BY <1>3, <2>4 DEF BumpTransition, TransitionFails, IInv, TypeOK
  <2>5. CASE \/ \E l \in Listings : Transition(l) \/ ReadToRemove(l)
             \/ \E l \in Listings, read \in {"ACTIVE", "OUT"} : Remove(l, read)
             \/ Store \/ Expire \/ UNCHANGED vars
    BY <2>5 DEF Transition, ReadToRemove, Remove, Store, Expire, vars, feedVars, IInv, TypeOK
  <2>6. QED
    BY <1>3, <2>1, <2>3, <2>4, <2>5 DEF Next, IInv, TypeOK
<1>5. /\ changes' \in 0..MaxChanges
      /\ bumping' \subseteq Listings \X (1..changes')
      /\ removing' \subseteq Listings \X {"ACTIVE", "OUT"}
  <2>1. /\ changes \in 0..MaxChanges /\ MaxChanges \in Nat
        /\ bumping \subseteq Listings \X (1..changes)
        /\ removing \subseteq Listings \X {"ACTIVE", "OUT"}
    BY ReportsAssumption DEF ReportsAssumption, IInv, TypeOK
  <2>2. CASE \/ \E l \in Listings, u \in Reporters :
                   CreateReport(l, u) \/ Increment(l, u) \/ Announce(l, u) \/ ReportFails(l, u)
             \/ Query \/ Store \/ Expire \/ UNCHANGED vars
    <3>1. UNCHANGED <<changes, bumping, removing>>
      BY <2>2
         DEF CreateReport, Increment, Announce, ReportFails, Query, Store, Expire, vars, feedVars
    <3>2. QED
      BY <2>1, <3>1
  <2>3. CASE \E l \in Listings, n \in 1..MaxChanges : BumpTransition(l, n) \/ TransitionFails(l, n)
    BY <2>1, <2>3 DEF BumpTransition, TransitionFails
  <2>4. ASSUME NEW l \in Listings, changes < MaxChanges, changes' = changes + 1,
               bumping' \in {bumping, bumping \cup {<<l, changes'>>}}
        PROVE  changes' \in 0..MaxChanges /\ bumping' \subseteq Listings \X (1..changes')
    BY <2>1, <2>4
  <2>5. ASSUME NEW l \in Listings, Transition(l)
        PROVE  <1>5!:
    BY <2>1, <2>4, <2>5 DEF Transition
  <2>6. ASSUME NEW l \in Listings, NEW read \in {"ACTIVE", "OUT"}, Remove(l, read)
        PROVE  <1>5!:
    BY <2>1, <2>4, <2>6 DEF Remove
  <2>7. ASSUME NEW l \in Listings, ReadToRemove(l)
        PROVE  <1>5!:
    <3>1. status[l] \in {"ACTIVE", "OUT"}
      BY <2>7 DEF ReadToRemove, IInv, TypeOK, Status
    <3>2. QED
      BY <2>1, <2>7, <3>1 DEF ReadToRemove
  <2>8. QED
    BY <2>2, <2>3, <2>5, <2>6, <2>7 DEF Next
<1>6. QED
  BY <1>1, <1>2, <1>4, <1>5 DEF TypeOK

-----------------------------------------------------------------------------
(* Pages.                                                                  *)

\* A step in which some handler bumps.
Bumped ==
    \/ \E l \in Listings, u \in Reporters : Announce(l, u)
    \/ \E l \in Listings, n \in 1..MaxChanges : BumpTransition(l, n)

\* What is owed a bump stays owed one until somebody bumps: whoever fails to
\* leaves the listing unannounced.
LEMMA OwedUntilBump ==
    ASSUME IInv, [Next]_vars, ~Bumped, NEW k \in Listings, Owed(k)
    PROVE  Owed(k)'
<1>1. ASSUME NEW l \in Listings, NEW u \in Reporters,
             CreateReport(l, u) \/ Increment(l, u) \/ ReportFails(l, u)
      PROVE  Owed(k)'
  BY <1>1 DEF CreateReport, Increment, ReportFails, feedVars, Owed
<1>2. ASSUME NEW l \in Listings, Transition(l) \/ ReadToRemove(l)
      PROVE  Owed(k)'
  BY <1>2 DEF Transition, ReadToRemove, reportVars, Owed
<1>3. ASSUME NEW l \in Listings, NEW n \in 1..MaxChanges, TransitionFails(l, n)
      PROVE  Owed(k)'
  BY <1>3 DEF TransitionFails, Owed
<1>4. ASSUME NEW l \in Listings, NEW read \in {"ACTIVE", "OUT"}, Remove(l, read)
      PROVE  Owed(k)'
  BY <1>4 DEF Remove, Owed
<1>5. CASE Query \/ Store \/ Expire \/ UNCHANGED vars
  BY <1>5 DEF Query, Store, Expire, vars, reportVars, feedVars, Owed
<1>6. QED
  BY <1>1, <1>2, <1>3, <1>4, <1>5 DEF Next, Bumped

\* A listing on offer that goes is owed a bump from then on: one that a
\* report hides, that changes its status, or that is removed.
LEMMA GoneIsOwed ==
    ASSUME IInv, [Next]_vars, ~Bumped, NEW k \in InFeed, k \notin InFeed'
    PROVE  Owed(k)'
<1> USE DEF InFeed
<1>1. ASSUME NEW l \in Listings, NEW u \in Reporters, Increment(l, u)
      PROVE  Owed(k)'
  <2>1. k = l
    BY <1>1 DEF Increment, Reported, IInv, TypeOK
  <2>2. <<k, u>> \in announcing'
    BY <1>1, <2>1 DEF Increment
  <2>3. QED
    BY <2>2 DEF Owed
<1>2. ASSUME NEW l \in Listings, changes' = changes + 1, changes < MaxChanges,
             <<l, changes'>> \in bumping'
      PROVE  Owed(l)'
  BY <1>2, ReportsAssumption DEF ReportsAssumption, Owed, IInv, TypeOK
<1>3. ASSUME NEW l \in Listings, Transition(l)
      PROVE  Owed(k)'
  <2>1. k = l
    BY <1>3 DEF Transition, reportVars, Reported, IInv, TypeOK
  <2>2. QED
    BY <1>2, <1>3, <2>1 DEF Transition
<1>4. ASSUME NEW l \in Listings, NEW read \in {"ACTIVE", "OUT"}, Remove(l, read)
      PROVE  Owed(k)'
  <2>1. k = l
    BY <1>4 DEF Remove, Reported, IInv, TypeOK
  <2>2. CASE read = "ACTIVE"
    BY <1>2, <1>4, <2>1, <2>2 DEF Remove
  <2>3. CASE read = "OUT"
    BY <1>4, <2>1, <2>3 DEF Remove, Owed
  <2>4. QED
    BY <2>2, <2>3
<1>5. CASE \/ \E l \in Listings, u \in Reporters : CreateReport(l, u) \/ ReportFails(l, u)
           \/ \E l \in Listings : ReadToRemove(l)
           \/ \E l \in Listings, n \in 1..MaxChanges : TransitionFails(l, n)
           \/ Query \/ Store \/ Expire \/ UNCHANGED vars
  <2>1. UNCHANGED <<status, count>>
    BY <1>5 DEF CreateReport, ReportFails, ReadToRemove, TransitionFails, Query, Store, Expire,
                vars, reportVars
  <2>2. QED
    BY <2>1 DEF Reported
<1>6. QED
  BY <1>1, <1>3, <1>4, <1>5 DEF Next, Bumped

\* So a page stays true as long as it is not overtaken.
LEMMA PageStaysTrue ==
    ASSUME IInv, [Next]_vars, ~Bumped, NEW p, PageTrue(p)
    PROVE  PageTrue(p)'
<1> SUFFICES ASSUME p # None, ~p.late, NEW k \in Listings, k \in p.items, ~Owed(k)'
             PROVE  k \in InFeed'
  BY DEF PageTrue
<1>1. ~Owed(k)
  BY OwedUntilBump
<1>2. k \in InFeed
  BY <1>1 DEF PageTrue
<1>3. QED
  BY <1>2, GoneIsOwed

\* A bump overtakes every page there is.
LEMMA BumpOvertakes ==
    ASSUME IInv, BumpFeedVersion
    PROVE  PageTrue(cached)' /\ PageTrue(found)'
<1>1. cached' = None /\ (found' # None => found'.late)
  BY DEF BumpFeedVersion, IInv, TypeOK, Page
<1>2. QED
  BY <1>1 DEF PageTrue

LEMMA PagesTrue == IInv /\ [Next]_vars => PageTrue(cached)' /\ PageTrue(found)'
<1> SUFFICES ASSUME IInv, [Next]_vars
             PROVE  PageTrue(cached)' /\ PageTrue(found)'
  OBVIOUS
<1>1. CASE Bumped
  BY <1>1, BumpOvertakes DEF Bumped, BumpTransition, Announce
<1>2. CASE ~Bumped
  <2>1. PICK c : c = cached
    OBVIOUS
  <2>2. PICK f : f = found
    OBVIOUS
  <2>3. PageTrue(c)' /\ PageTrue(f)' /\ PageTrue(None)'
    <3>1. PageTrue(c) /\ PageTrue(f) /\ PageTrue(None)
      BY <2>1, <2>2 DEF IInv, PageTrue
    <3>2. QED
      BY <1>2, <3>1, PageStaysTrue
  <2>4. CASE ~Query
    <3>1. cached' \in {c, f, None} /\ found' \in {f, None}
      BY <1>2, <2>1, <2>2, <2>4
         DEF Next, Bumped, CreateReport, Increment, ReportFails, Transition, ReadToRemove,
             TransitionFails, Remove, Store, Expire, vars, feedVars
    <3>2. QED
      BY <2>3, <3>1 DEF PageTrue
  <2>5. CASE Query
    <3>1. /\ cached' = c /\ found' = [items |-> InFeed, late |-> FALSE]
          /\ UNCHANGED <<status, count>>
      BY <2>1, <2>5 DEF Query, reportVars
    <3>2. found'.items = InFeed /\ InFeed = InFeed'
      BY <3>1 DEF InFeed, Reported
    <3>3. PageTrue(found)'
      BY <3>2 DEF PageTrue
    <3>4. QED
      BY <2>3, <3>1, <3>3 DEF PageTrue
  <2>6. QED
    BY <2>4, <2>5
<1>3. QED
  BY <1>1, <1>2

-----------------------------------------------------------------------------
(* The theorems.                                                           *)

LEMMA InvariantHolds == Spec => []IInv
<1>1. IInv /\ [Next]_vars => IInv'
  BY NextTyped, ReportsCounted, PagesTrue DEF IInv
<1>2. QED
  BY <1>1, InitHolds, PTL DEF Spec

\* reportCount stays a number of reports, and what is counting, announcing or
\* lost is one of them.
THEOREM ReportsTyped == Spec => []TypeOK
<1>1. IInv => TypeOK
  BY DEF IInv
<1>2. QED
  BY <1>1, InvariantHolds, PTL

\* However the handlers interleave and fail, a listing's reportCount is the
\* number of different users whose report was counted (listings.ts:645-676).
THEOREM CountIsReporters == Spec => []CountsReporters
<1>1. IInv => CountsReporters
  BY DEF IInv
<1>2. QED
  BY <1>1, InvariantHolds, PTL

\* What reports have hidden is on no cached page that is not late, unless a
\* bump is owed to it: a report that found the listing ACTIVE owes one, and
\* for any other the change of status that took it off the feed owes one or
\* has paid it (listings.ts:303-334, 455-476, 673-685).
THEOREM HiddenIsHidden == Spec => []HiddenLeavesCache
<1>1. IInv => HiddenLeavesCache
  BY DEF IInv, PageTrue, InFeed, HiddenLeavesCache
<1>2. QED
  BY <1>1, InvariantHolds, PTL
=============================================================================

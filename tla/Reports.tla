------------------------------- MODULE Reports -------------------------------
(***************************************************************************)
(* Reports and auto-hiding: POST /:id/report of                            *)
(* apps/api/src/routes/listings.ts on the collection of                    *)
(* apps/api/src/models/Report.ts.                                          *)
(*                                                                         *)
(* A handler inserts the report, increments the listing's reportCount and, *)
(* if that hides a listing on offer, bumps the version of the feed.  Other *)
(* requests come in between, and each step may fail or be the last before  *)
(* a crash.  A report that the unique index turns down (409) or the rate   *)
(* limiter refuses (429) changes nothing.  The listing always exists.      *)
(*                                                                         *)
(* Beside it run the status transitions of ListingLifecycle, whose bump is *)
(* a later step that may fail, the removal, which bumps by the status it   *)
(* read before, and the cache of FeedCache, of which only the listings it  *)
(* shows and the order of query, bump and store matter here.               *)
(***************************************************************************)
EXTENDS Naturals, FiniteSets

CONSTANTS
    Listings,
    Reporters,
    Threshold,     \* REPORT_HIDE_THRESHOLD
    MaxReports,    \* bound on the reports filed
    MaxChanges,    \* bound on changes of status
    None           \* nothing cached, nothing found

ASSUME ReportsAssumption ==
    /\ Threshold \in Nat \ {0}
    /\ MaxReports \in Nat
    /\ MaxChanges \in Nat

VARIABLES
    status,        \* [Listings -> status]
    reports,       \* the collection: pairs of listing and reporter
    count,         \* [Listings -> reportCount]
    counting,      \* reports inserted, whose $inc is still to come
    announcing,    \* reports that hid their listing, whose bump is to come
    lost,          \* history: reports whose handler ended before the $inc
    unannounced,   \* history: listings changed without a bump, and none came since
    changes,       \* changes of status so far
    bumping,       \* listings with the change of status whose bump is to come
    removing,      \* removals under way: listing and the status they read
    cached,        \* listings of the cached page, or None
    found          \* what a GET has queried and not stored yet, or None

reportVars == <<reports, count, counting, announcing, lost, unannounced>>
feedVars   == <<changes, bumping, removing, cached, found>>
vars       == <<status, reportVars, feedVars>>

\* OUT stands for DRAFT, RESERVED and SOLD.
Status == {"ACTIVE", "OUT", "REMOVED"}

\* A page, and whether a bump came between its query and its store.
Page == [items : SUBSET Listings, late : BOOLEAN]

TypeOK ==
    /\ status \in [Listings -> Status]
    /\ reports \subseteq Listings \X Reporters
    /\ count \in [Listings -> 0..MaxReports]
    /\ counting \subseteq reports
    /\ announcing \subseteq reports
    /\ lost \subseteq reports
    /\ unannounced \subseteq Listings
    /\ changes \in 0..MaxChanges
    /\ bumping \subseteq Listings \X (1..changes)
    /\ removing \subseteq Listings \X {"ACTIVE", "OUT"}
    /\ cached # None => cached \in Page
    /\ found # None => found \in Page

Init ==
    /\ status \in [Listings -> {"ACTIVE", "OUT"}]
    /\ reports = {}
    /\ count = [l \in Listings |-> 0]
    /\ counting = {}
    /\ announcing = {}
    /\ lost = {}
    /\ unannounced = {}
    /\ changes = 0
    /\ bumping = {}
    /\ removing = {}
    /\ cached = None
    /\ found = None

Reported(l) == count[l] >= Threshold

\* GET /listings: a reported listing is still ACTIVE, and not shown.
InFeed == {l \in Listings : status[l] = "ACTIVE" /\ ~Reported(l)}

-----------------------------------------------------------------------------
(* POST /:id/report.                                                       *)

\* Mutant: there is no unique index.
CreateReportAgain(l, u) ==
    /\ Cardinality(reports) < MaxReports
    /\ <<l, u>> \notin counting
    /\ reports' = reports \cup {<<l, u>>}
    /\ counting' = counting \cup {<<l, u>>}
    /\ UNCHANGED <<status, count, announcing, lost, unannounced, feedVars>>

\* Report.create: one report per listing and reporter.
CreateReport(l, u) ==
    /\ Cardinality(reports) < MaxReports
    /\ <<l, u>> \notin reports
    /\ reports' = reports \cup {<<l, u>>}
    /\ counting' = counting \cup {<<l, u>>}
    /\ UNCHANGED <<status, count, announcing, lost, unannounced, feedVars>>

\* Mutant: new: false, the listing as it was before the $inc.
IncrementOld(l, u) ==
    /\ <<l, u>> \in counting
    /\ counting' = counting \ {<<l, u>>}
    /\ count' = [count EXCEPT ![l] = @ + 1]
    /\ announcing' = announcing \cup IF status[l] = "ACTIVE" /\ Reported(l) THEN {<<l, u>>} ELSE {}
    /\ UNCHANGED <<status, reports, lost, unannounced, feedVars>>

\* findByIdAndUpdate returns the listing as it is after the $inc.
Increment(l, u) ==
    /\ <<l, u>> \in counting
    /\ counting' = counting \ {<<l, u>>}
    /\ count' = [count EXCEPT ![l] = @ + 1]
    /\ announcing' = announcing \cup IF status[l] = "ACTIVE" /\ Reported(l)' THEN {<<l, u>>} ELSE {}
    /\ UNCHANGED <<status, reports, lost, unannounced, feedVars>>

\* What is cached is out of reach, whichever change the bump is for; a page
\* that was queried before will be stored under the new version.
BumpFeedVersion ==
    /\ unannounced' = {}
    /\ cached' = None
    /\ found' = IF found = None THEN None ELSE [found EXCEPT !.late = TRUE]

Announce(l, u) ==
    /\ <<l, u>> \in announcing
    /\ announcing' = announcing \ {<<l, u>>}
    /\ BumpFeedVersion
    /\ UNCHANGED <<status, reports, count, counting, lost, changes, bumping, removing>>

\* The handler is cut short before the $inc or the bump.
ReportFails(l, u) ==
    /\ \/ /\ <<l, u>> \in counting
          /\ counting' = counting \ {<<l, u>>}
          /\ lost' = lost \cup {<<l, u>>}
          /\ UNCHANGED <<announcing, unannounced>>
       \/ /\ <<l, u>> \in announcing
          /\ announcing' = announcing \ {<<l, u>>}
          /\ unannounced' = unannounced \cup {l}
          /\ UNCHANGED <<counting, lost>>
    /\ UNCHANGED <<status, reports, count, feedVars>>

-----------------------------------------------------------------------------
(* What goes on beside it.                                                 *)

\* A status transition, then its bump.
Transition(l) ==
    /\ changes < MaxChanges
    /\ status[l] # "REMOVED"
    /\ changes' = changes + 1
    /\ bumping' = bumping \cup {<<l, changes'>>}
    /\ status' = [status EXCEPT ![l] = IF @ = "ACTIVE" THEN "OUT" ELSE "ACTIVE"]
    /\ UNCHANGED <<reportVars, removing, cached, found>>

BumpTransition(l, n) ==
    /\ <<l, n>> \in bumping
    /\ bumping' = bumping \ {<<l, n>>}
    /\ BumpFeedVersion
    /\ UNCHANGED <<status, reports, count, counting, announcing, lost, changes, removing>>

\* The change is saved; its bump is rejected, or the process ends before.
TransitionFails(l, n) ==
    /\ <<l, n>> \in bumping
    /\ bumping' = bumping \ {<<l, n>>}
    /\ unannounced' = unannounced \cup {l}
    /\ UNCHANGED <<status, reports, count, counting, announcing, lost, changes, removing,
                   cached, found>>

\* DELETE /:id reads the listing ...
ReadToRemove(l) ==
    /\ changes < MaxChanges
    /\ status[l] # "REMOVED"
    /\ removing' = removing \cup {<<l, status[l]>>}
    /\ UNCHANGED <<status, reportVars, changes, bumping, cached, found>>

\* ... removes it whatever its status is by then, and will bump if it was
\* ACTIVE when read.
Remove(l, read) ==
    /\ changes < MaxChanges
    /\ <<l, read>> \in removing
    /\ status[l] # "REMOVED"
    /\ removing' = removing \ {<<l, read>>}
    /\ changes' = changes + 1
    /\ status' = [status EXCEPT ![l] = "REMOVED"]
    /\ \/ /\ read = "ACTIVE"
          /\ bumping' = bumping \cup {<<l, changes'>>}
          /\ UNCHANGED unannounced
       \/ /\ read = "OUT"
          /\ unannounced' = unannounced \cup IF status[l] = "ACTIVE" THEN {l} ELSE {}
          /\ UNCHANGED bumping
    /\ UNCHANGED <<reports, count, counting, announcing, lost, cached, found>>

\* A GET that finds nothing cached queries ...
Query ==
    /\ cached = None
    /\ found = None
    /\ found' = [items |-> InFeed, late |-> FALSE]
    /\ UNCHANGED <<status, reportVars, changes, bumping, removing, cached>>

\* ... and stores.
Store ==
    /\ found # None
    /\ cached' = found
    /\ found' = None
    /\ UNCHANGED <<status, reportVars, changes, bumping, removing>>

Expire ==
    /\ cached # None
    /\ cached' = None
    /\ UNCHANGED <<status, reportVars, changes, bumping, removing, found>>

Next ==
    \/ \E l \in Listings, u \in Reporters :
        CreateReport(l, u) \/ Increment(l, u) \/ Announce(l, u) \/ ReportFails(l, u)
    \/ \E l \in Listings : Transition(l) \/ ReadToRemove(l)
    \/ \E l \in Listings, n \in 1..MaxChanges : BumpTransition(l, n) \/ TransitionFails(l, n)
    \/ \E l \in Listings, read \in {"ACTIVE", "OUT"} : Remove(l, read)
    \/ Query \/ Store \/ Expire

Spec == Init /\ [][Next]_vars

-----------------------------------------------------------------------------
(* Properties.                                                             *)

ReportersOf(l, pairs) == {u \in Reporters : <<l, u>> \in pairs}

\* The count that hides a listing is one of different reporters: it is that
\* of the reports, but for those that are still to be counted and those
\* whose handler was cut short before, which it never makes good
\* (listings.ts:645-676).
CountsReporters ==
    \A l \in Listings :
        count[l] = Cardinality(ReportersOf(l, reports \ (counting \cup lost)))

\* The bump of a report that hid the listing, or of a change of its status,
\* is still to come; or one failed, or a removal by a stale status made none,
\* and nobody has bumped since.
Owed(l) ==
    \/ \E u \in Reporters : <<l, u>> \in announcing
    \/ \E n \in 1..MaxChanges : <<l, n>> \in bumping
    \/ l \in unannounced

\* A listing that reports have hidden is on no cached page, whatever its
\* status was when the reports came in (a report of a listing that is not
\* ACTIVE bumps nothing), unless a bump for this listing is owed or the page
\* was queried before and stored after a bump (listings.ts:673-685).
HiddenLeavesCache ==
    \A l \in Listings :
        Reported(l) /\ ~Owed(l) /\ cached # None /\ ~cached.late => l \notin cached.items

-----------------------------------------------------------------------------
(* What the properties rest on.                                            *)

\* No listing has more reporters than there are reports, and a report whose
\* handler has ended is not counted later.
ReportsBounded ==
    /\ IsFiniteSet(reports) /\ Cardinality(reports) <= MaxReports
    /\ \A l \in Listings :
        /\ IsFiniteSet(ReportersOf(l, reports))
        /\ Cardinality(ReportersOf(l, reports)) <= Cardinality(reports)
    /\ counting \cap lost = {}

\* A page that no bump has overtaken shows what is on offer and not hidden,
\* but for the listings that are owed a bump.
PageTrue(page) ==
    page # None /\ ~page.late =>
        \A l \in Listings : l \in page.items /\ ~Owed(l) => l \in InFeed

\* Hiding needs the page in the cache and the page about to be stored there,
\* and that both show what is on offer: a listing that is not is reported in
\* silence.
IInv ==
    /\ TypeOK /\ ReportsBounded /\ CountsReporters
    /\ PageTrue(cached) /\ PageTrue(found)
=============================================================================

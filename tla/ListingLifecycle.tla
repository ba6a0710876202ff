-------------------------- MODULE ListingLifecycle --------------------------
(***************************************************************************)
(* The reservation state machine of a listing: the publish, reserve,       *)
(* cancel, confirm-sale and remove handlers of routes/listings.ts with     *)
(* lib/reservationService.ts, the sweeper of lib/reservationSweep.ts, and  *)
(* the feed-version bump each of them owes to Redis after its write.       *)
(*                                                                         *)
(* A handler runs in up to four steps, and handlers interleave at each     *)
(* await: it reads the listing (Receive), issues one findOneAndUpdate      *)
(* (Publish, ...), bumps the feed version (Bump), and answers (Reply).     *)
(* MongoDB makes one findOneAndUpdate, and one document's part of an       *)
(* updateMany, atomic; nothing else is.                                    *)
(***************************************************************************)
EXTENDS Naturals, FiniteSets

CONSTANTS
    Users,       \* sellers and buyers
    Listings,    \* ids of Listing documents
    Requests,    \* slots for requests in flight in the API process
    Seller,      \* Listing.sellerId
    TTL,         \* RESERVATION_TTL_MS, in ticks
    MaxTime,     \* bound on the clock
    NoOne,       \* null in reservedBy and soldTo
    NoTime       \* null in reservationExpiresAt

ASSUME LifecycleAssumption ==
    /\ Seller \in [Listings -> Users]
    /\ TTL \in Nat \ {0}
    /\ MaxTime \in Nat
    /\ NoOne \notin Users
    /\ NoTime \notin Nat

VARIABLES
    now,         \* wall clock, read by both processes
    doc,         \* [Listings -> listing document]
    req,         \* [Requests -> request in flight]
    sweep,       \* the sweeper's current run
    redisUp,     \* Redis answers commands
    unannounced, \* listings whose presence in the feed changed since the last bump
    bumpLost     \* since the last bump, one failed or died with its process

vars == <<now, doc, req, sweep, redisUp, unannounced, bumpLost>>

-----------------------------------------------------------------------------
Statuses == {"NONE", "DRAFT", "ACTIVE", "RESERVED", "SOLD", "REMOVED"}
Ops      == {"publish", "reserve", "cancel", "confirm", "remove"}

ListingDoc ==
    [status : Statuses, reservedBy : Users \cup {NoOne},
     expiresAt : Nat \cup {NoTime}, soldTo : Users \cup {NoOne}]

\* A request between its steps.  After the write the handler needs none of its
\* arguments any more.
Idle      == [pc |-> "idle"]
Pending   == [pc : {"write"}, op : Ops, actor : Users, lst : Listings,
              buyer : Users \cup {NoOne}, at : Nat, bumps : BOOLEAN]
Bumping   == [pc |-> "bump"]
Done(res) == [pc |-> "done", res |-> res]
Replies   == {"ok", "notFound", "forbidden", "conflict", "error"}
Request   == Pending \cup {Idle, Bumping} \cup {Done(res) : res \in Replies}

SweepRun == [running : BOOLEAN, at : Nat, todo : SUBSET Listings, modified : BOOLEAN]

Absent   == [status |-> "NONE", reservedBy |-> NoOne, expiresAt |-> NoTime, soldTo |-> NoOne]
NotSwept == [running |-> FALSE, at |-> 0, todo |-> {}, modified |-> FALSE]

Init ==
    /\ now = 0
    /\ doc = [l \in Listings |-> Absent]
    /\ req = [r \in Requests |-> Idle]
    /\ sweep = NotSwept
    /\ redisUp = TRUE
    /\ unannounced = {}
    /\ bumpLost = FALSE

-----------------------------------------------------------------------------
(* The document: guards and updates of the conditional writes.             *)

\* The feed query's status filter.
InFeed(d) == d.status = "ACTIVE"

\* reservationExpiresAt: { $lt: t }; null matches no date comparison.
Lapsed(d, t) == d.expiresAt # NoTime /\ d.expiresAt < t
\* reservationExpiresAt: { $gt: t }
Unexpired(d, t) == d.expiresAt # NoTime /\ t < d.expiresAt

CanPublish(d, q) == d.status = "DRAFT" /\ q.actor = Seller[q.lst]

\* Mutant: a reservation is claimable before it has lapsed.
CanReserveEarly(d, q) == q.actor # Seller[q.lst] /\ d.status \in {"ACTIVE", "RESERVED"}

CanReserve(d, q) ==
    /\ q.actor # Seller[q.lst]
    /\ d.status = "ACTIVE" \/ (d.status = "RESERVED" /\ Lapsed(d, q.at))

\* Mutants: the filter forgets the status, or leaves the party to the fast path.
CanCancelAnyStatus(d, q) == q.actor \in {d.reservedBy, Seller[q.lst]}
CanCancelAnyParty(d, q)  == d.status = "RESERVED"

CanCancel(d, q) == d.status = "RESERVED" /\ q.actor \in {d.reservedBy, Seller[q.lst]}

CanConfirm(d, q) ==
    /\ d.status = "RESERVED"
    /\ q.actor = Seller[q.lst]
    /\ q.buyer = d.reservedBy
    /\ Unexpired(d, q.at)

CanRemove(d, q) == d.status \notin {"NONE", "REMOVED"} /\ q.actor = Seller[q.lst]

Reserved(d, q) ==
    [d EXCEPT !.status = "RESERVED", !.reservedBy = q.actor, !.expiresAt = q.at + TTL]

\* Mutant: the release keeps the buyer.
ReleasedKeepingBuyer(d) == [d EXCEPT !.status = "ACTIVE", !.expiresAt = NoTime]

\* Back to ACTIVE with the reservation block cleared: by cancel and by the sweeper.
Released(d) ==
    [d EXCEPT !.status = "ACTIVE", !.reservedBy = NoOne, !.expiresAt = NoTime]

Sold(d, q) ==
    [d EXCEPT !.status = "SOLD", !.soldTo = q.buyer, !.reservedBy = NoOne, !.expiresAt = NoTime]

\* Mutant: a status the schema does not have; an update is not validated.
RemovedOutsideEnum(d) == [d EXCEPT !.status = "DELETED"]

\* Removal sets the status alone and leaves a reservation block behind.
Removed(d) == [d EXCEPT !.status = "REMOVED"]

-----------------------------------------------------------------------------
(* The handlers.                                                           *)

\* POST /listings: the document appears as a DRAFT; nothing is announced.
Create(l) ==
    /\ doc[l].status = "NONE"
    /\ doc' = [doc EXCEPT ![l].status = "DRAFT"]
    /\ UNCHANGED <<now, req, sweep, redisUp, unannounced, bumpLost>>

\* The answer a handler gives straight from its first read, or "none".
FastPath(d, op, actor, l) ==
    IF d.status = "NONE" THEN "notFound"
    ELSE IF \/ op \in {"publish", "confirm", "remove"} /\ actor # Seller[l]
            \/ op = "cancel" /\ actor \notin {Seller[l], d.reservedBy}
         THEN "forbidden"
         ELSE "none"

\* Mutant: a cancelled reservation does not bump.
BumpsWithoutCancel(op, d) == op \in {"publish", "reserve"} \/ (op = "remove" /\ InFeed(d))

\* Whether the handler will bump after its write.  confirm-sale does not:
\* neither RESERVED nor SOLD is in the feed.  A removal does if the status it
\* read first was ACTIVE.
Bumps(op, d) == op \in {"publish", "reserve", "cancel"} \/ (op = "remove" /\ InFeed(d))

\* The handlers that compare the deadline with new Date().
Timed == {"reserve", "confirm"}

\* What becomes of a request that has read the document and, in the same turn
\* of the event loop, the clock: an answer, or the arguments of its write.
AfterRead(op, actor, l, buyer) ==
    LET res == FastPath(doc[l], op, actor, l)
    IN  IF res # "none" THEN Done(res)
        ELSE [pc |-> "write", op |-> op, actor |-> actor, lst |-> l, buyer |-> buyer,
              at |-> IF op \in Timed THEN now ELSE 0, bumps |-> Bumps(op, doc[l])]

\* A request arrives and the handler makes its first read.
Receive(r) ==
    /\ req[r] = Idle
    /\ \E op \in Ops, actor \in Users, l \in Listings, buyer \in Users \cup {NoOne} :
          /\ (op = "confirm") <=> (buyer # NoOne)
          /\ req' = [req EXCEPT ![r] = AfterRead(op, actor, l, buyer)]
    /\ UNCHANGED <<now, doc, sweep, redisUp, unannounced, bumpLost>>

\* One findOneAndUpdate for request r: the filter and the update are one
\* atomic step; a miss is a 409.
FindOneAndUpdate(r, matches, update) ==
    LET l == req[r].lst
    IN  /\ IF matches
           THEN /\ doc' = [doc EXCEPT ![l] = update]
                /\ req' = [req EXCEPT ![r] = IF req[r].bumps THEN Bumping ELSE Done("ok")]
                /\ unannounced' = IF InFeed(update) # InFeed(doc[l])
                                  THEN unannounced \cup {l} ELSE unannounced
           ELSE /\ req' = [req EXCEPT ![r] = Done("conflict")]
                /\ UNCHANGED <<doc, unannounced>>
        /\ UNCHANGED <<now, sweep, redisUp, bumpLost>>

Writing(r, op) == req[r].pc = "write" /\ req[r].op = op

Publish(r) ==
    /\ Writing(r, "publish")
    /\ LET q == req[r]  d == doc[q.lst]
       IN  FindOneAndUpdate(r, CanPublish(d, q), [d EXCEPT !.status = "ACTIVE"])

Reserve(r) ==
    /\ Writing(r, "reserve")
    /\ LET q == req[r]  d == doc[q.lst]
       IN  FindOneAndUpdate(r, CanReserve(d, q), Reserved(d, q))

Cancel(r) ==
    /\ Writing(r, "cancel")
    /\ LET q == req[r]  d == doc[q.lst]
       IN  FindOneAndUpdate(r, CanCancel(d, q), Released(d))

ConfirmSale(r) ==
    /\ Writing(r, "confirm")
    /\ LET q == req[r]  d == doc[q.lst]
       IN  FindOneAndUpdate(r, CanConfirm(d, q), Sold(d, q))

Remove(r) ==
    /\ Writing(r, "remove")
    /\ LET q == req[r]  d == doc[q.lst]
       IN  FindOneAndUpdate(r, CanRemove(d, q), Removed(d))

\* await bumpFeedVersion(): INCR feed:version.
Bump(r) ==
    /\ req[r] = Bumping
    /\ redisUp
    /\ req' = [req EXCEPT ![r] = Done("ok")]
    /\ unannounced' = {}
    /\ bumpLost' = FALSE
    /\ UNCHANGED <<now, doc, sweep, redisUp>>

\* The INCR rejects (maxRetriesPerRequest: 2) and the handler answers 500.
BumpFails(r) ==
    /\ req[r] = Bumping
    /\ ~redisUp
    /\ req' = [req EXCEPT ![r] = Done("error")]
    /\ bumpLost' = TRUE
    /\ UNCHANGED <<now, doc, sweep, redisUp, unannounced>>

Reply(r) ==
    /\ req[r].pc = "done"
    /\ req' = [req EXCEPT ![r] = Idle]
    /\ UNCHANGED <<now, doc, sweep, redisUp, unannounced, bumpLost>>

-----------------------------------------------------------------------------
(* The sweeper, a BullMQ job of the worker process.                        *)

\* Mutant: the cut-off is computed once, when the worker loads the module.
SweepStartFixedCutOff ==
    /\ ~sweep.running
    /\ redisUp
    /\ sweep' = [running |-> TRUE, at |-> 0, todo |-> Listings, modified |-> FALSE]
    /\ UNCHANGED <<now, doc, req, redisUp, unannounced, bumpLost>>

\* The scheduled job starts (BullMQ needs Redis) and fixes its cut-off time.
SweepStart ==
    /\ ~sweep.running
    /\ redisUp
    /\ sweep' = [running |-> TRUE, at |-> now, todo |-> Listings, modified |-> FALSE]
    /\ UNCHANGED <<now, doc, req, redisUp, unannounced, bumpLost>>

ExpiredAt(d, t) == d.status = "RESERVED" /\ Lapsed(d, t)

\* updateMany reaches one document: it re-tests the filter and releases it.
SweepOne(l) ==
    /\ sweep.running
    /\ l \in sweep.todo
    /\ IF ExpiredAt(doc[l], sweep.at)
       THEN /\ doc' = [doc EXCEPT ![l] = Released(doc[l])]
            /\ sweep' = [sweep EXCEPT !.todo = @ \ {l}, !.modified = TRUE]
            /\ unannounced' = unannounced \cup {l}
       ELSE /\ sweep' = [sweep EXCEPT !.todo = @ \ {l}]
            /\ UNCHANGED <<doc, unannounced>>
    /\ UNCHANGED <<now, req, redisUp, bumpLost>>

\* The job ends: it bumps the feed version only if it released something,
\* and fails if Redis is down.
SweepEnd ==
    /\ sweep.running
    /\ sweep.todo = {}
    /\ unannounced' = IF sweep.modified /\ redisUp THEN {} ELSE unannounced
    /\ bumpLost' = IF sweep.modified THEN ~redisUp ELSE bumpLost
    /\ sweep' = NotSwept
    /\ UNCHANGED <<now, doc, req, redisUp>>

-----------------------------------------------------------------------------
(* The environment.                                                        *)

\* The API process dies: requests in flight are gone, and so is any bump
\* they still owed.
ApiCrash ==
    /\ req' = [r \in Requests |-> Idle]
    /\ bumpLost' = (bumpLost \/ \E r \in Requests : req[r] = Bumping)
    /\ UNCHANGED <<now, doc, sweep, redisUp, unannounced>>

\* The worker process dies in the middle of a sweep.
WorkerCrash ==
    /\ sweep.running
    /\ sweep' = NotSwept
    /\ bumpLost' = (bumpLost \/ sweep.modified)
    /\ UNCHANGED <<now, doc, req, redisUp, unannounced>>

RedisFails ==
    /\ redisUp
    /\ redisUp' = FALSE
    /\ UNCHANGED <<now, doc, req, sweep, unannounced, bumpLost>>

RedisRecovers ==
    /\ ~redisUp
    /\ redisUp' = TRUE
    /\ UNCHANGED <<now, doc, req, sweep, unannounced, bumpLost>>

Tick ==
    /\ now < MaxTime
    /\ now' = now + 1
    /\ UNCHANGED <<doc, req, sweep, redisUp, unannounced, bumpLost>>

Write(r) == Publish(r) \/ Reserve(r) \/ Cancel(r) \/ ConfirmSale(r) \/ Remove(r)

Next ==
    \/ \E l \in Listings : Create(l) \/ SweepOne(l)
    \/ \E r \in Requests : Receive(r) \/ Write(r) \/ Bump(r) \/ BumpFails(r) \/ Reply(r)
    \/ SweepStart \/ SweepEnd
    \/ ApiCrash \/ WorkerCrash \/ RedisFails \/ RedisRecovers \/ Tick

Spec == Init /\ [][Next]_vars

\* The job scheduler keeps starting sweeps and a sweep is not interrupted
\* forever (BullMQ re-runs the schedule every RESERVATION_SWEEP_INTERVAL_MS,
\* also after a restart of the worker); Redis outages end.  Nothing is assumed
\* of any handler.
SweeperFairness ==
    /\ WF_vars(RedisRecovers)
    /\ SF_vars(SweepStart)
    /\ \A l \in Listings : SF_vars(SweepOne(l))
    /\ SF_vars(SweepEnd)

FairSpec == Spec /\ SweeperFairness

-----------------------------------------------------------------------------
(* Properties.                                                             *)

\* Every variable stays in its type: the document within the schema of
\* models/Listing.ts, which findOneAndUpdate does not validate by itself.
TypeOK ==
    /\ now \in Nat
    /\ doc \in [Listings -> ListingDoc]
    /\ req \in [Requests -> Request]
    /\ sweep \in SweepRun
    /\ redisUp \in BOOLEAN
    /\ unannounced \in SUBSET Listings
    /\ bumpLost \in BOOLEAN

\* The reservation block and the sale of a document agree with its status.
BlockAgrees(d, l) ==
    /\ d.status = "RESERVED" => d.reservedBy \in Users \ {Seller[l]} /\ d.expiresAt # NoTime
    /\ d.status \in {"NONE", "DRAFT", "ACTIVE", "SOLD"} =>
           d.reservedBy = NoOne /\ d.expiresAt = NoTime
    /\ d.status = "SOLD" => d.soldTo \in Users \ {Seller[l]}
    /\ d.soldTo # NoOne => d.status \in {"SOLD", "REMOVED"}

\* A RESERVED listing has a buyer, who is not its seller, and a deadline; one on
\* offer or sold has none of either; a buyer is recorded from the sale on and
\* not before, and is never the seller (models/Listing.ts:31 "only meaningful
\* when status === 'RESERVED'").  A removed listing may keep its block.
StatusAgrees == \A l \in Listings : BlockAgrees(doc[l], l)

\* One physical item is sold at most once: the recorded buyer never changes,
\* and a sold item never goes back on offer, whatever calls are still in
\* flight when the sale is confirmed.
SaleIsFinal ==
    [][\A l \in Listings :
          /\ doc[l].soldTo # NoOne => doc'[l].soldTo = doc[l].soldTo
          /\ doc[l].status = "REMOVED" => doc'[l].status = "REMOVED"]_vars

\* Request r is a write, by a party to the reservation on l, that ends it.
EndsHold(r, l) ==
    /\ req[r].pc = "write"
    /\ req[r].lst = l
    /\ \/ req[r].op = "cancel" /\ req[r].actor \in {doc[l].reservedBy, Seller[l]}
       \/ req[r].op = "confirm" /\ req[r].actor = Seller[l] /\ req[r].buyer = doc[l].reservedBy
       \/ req[r].op = "remove" /\ req[r].actor = Seller[l]

\* A reservation whose deadline has not passed stands: neither a competing
\* reserve, nor a sweep that started at any earlier time, nor a call by anybody
\* but its buyer and the seller ends, shortens or extends it.
HoldStands ==
    [][\A l \in Listings :
          (doc[l].status = "RESERVED" /\ ~ExpiredAt(doc[l], now) /\ doc'[l] # doc[l]) =>
              \E r \in Requests : EndsHold(r, l) /\ req'[r] # req[r]]_vars

\* Request r, or the sweep, still owes a bump.
BumpOwed ==
    \/ \E r \in Requests : req[r] = Bumping
    \/ sweep.running /\ sweep.modified

\* No transition is forgotten by the feed: a listing that entered the feed, or
\* left it other than by removal, is followed by a bump that is still to come,
\* unless a bump has failed or died with its process since.
TransitionsAnnounced ==
    \A l \in unannounced : BumpOwed \/ bumpLost \/ doc[l].status = "REMOVED"

\* A reservation that has run out is eventually released or replaced, with
\* the sweeper's fairness alone.
LapsedHoldEnds ==
    \A l \in Listings : ExpiredAt(doc[l], now) ~> ~ExpiredAt(doc[l], now)

-----------------------------------------------------------------------------
(* The handlers implement the contract of ListingContract.                 *)

PhaseOf(status) ==
    CASE status = "NONE"     -> "unlisted"
      [] status = "DRAFT"    -> "draft"
      [] status = "ACTIVE"   -> "open"
      [] status = "RESERVED" -> "held"
      [] status = "SOLD"     -> "sold"
      [] status = "REMOVED"  -> "removed"

\* The item behind a document; the block a removal leaves behind is ignored.
ItemOf(d) ==
    [phase  |-> PhaseOf(d.status),
     holder |-> IF d.status = "REMOVED" THEN NoOne ELSE d.reservedBy,
     until  |-> IF d.status = "REMOVED" THEN NoTime ELSE d.expiresAt,
     owner  |-> d.soldTo]

\* What has been decided of a request: a 500 after the write was honoured.
CallOf(q) ==
    CASE q.pc = "write" ->
            [outcome |-> "pending", op |-> q.op, actor |-> q.actor, lst |-> q.lst,
             buyer |-> q.buyer, at |-> q.at]
      [] q.pc = "idle" -> [outcome |-> "none"]
      [] q.pc = "bump" -> [outcome |-> "honoured"]
      [] q.pc = "done" -> [outcome |-> IF q.res \in {"ok", "error"} THEN "honoured" ELSE "refused"]

itemBar == [l \in Listings |-> ItemOf(doc[l])]
callBar == [r \in Requests |-> CallOf(req[r])]

Contract == INSTANCE ListingContract WITH item <- itemBar, call <- callBar

\* Every call takes effect at one instant, and its first read, the sweeper,
\* crashes and Redis outages are invisible in what it does to the item.
ImplementsContract == Contract!ContractSpec
=============================================================================

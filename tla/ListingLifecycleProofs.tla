----------------------- MODULE ListingLifecycleProofs -----------------------
(***************************************************************************)
(* Theorems about ListingLifecycle, for every set of users, listings and   *)
(* requests and every length of a reservation.                             *)
(***************************************************************************)
EXTENDS ListingLifecycle, TLAPS

\* What a request that is about to write carries.
LEMMA PendingFields ==
    ASSUME TypeOK, NEW r \in Requests, req[r].pc = "write"
    PROVE  /\ req[r] \in Pending
           /\ req[r].lst \in Listings
           /\ req[r].actor \in Users
           /\ req[r].buyer \in Users \cup {NoOne}
           /\ req[r].at \in Nat
           /\ doc[req[r].lst] \in ListingDoc
<1>1. req[r] \in Request
  BY DEF TypeOK
<1>2. req[r] \in Pending
  BY <1>1 DEF Request, Idle, Bumping, Done, Replies
<1>3. QED
  BY <1>2 DEF TypeOK, Pending

\* Each update of the handlers and the sweeper yields a listing document.
LEMMA UpdatesTyped ==
    ASSUME NEW d \in ListingDoc, NEW q \in Pending
    PROVE  /\ [d EXCEPT !.status = "ACTIVE"] \in ListingDoc
           /\ Reserved(d, q) \in ListingDoc
           /\ Released(d) \in ListingDoc
           /\ Sold(d, q) \in ListingDoc
           /\ Removed(d) \in ListingDoc
<1>1. q.at + TTL \in Nat
  BY LifecycleAssumption DEF Pending
<1>2. q.actor \in Users /\ q.buyer \in Users \cup {NoOne}
  BY DEF Pending
<1>3. QED
  BY <1>1, <1>2 DEF ListingDoc, Statuses, Reserved, Released, Sold, Removed

\* A findOneAndUpdate with a well-typed update keeps every variable typed.
LEMMA WriteTyped ==
    ASSUME TypeOK, NEW r \in Requests, req[r].pc = "write",
           NEW matches, NEW update \in ListingDoc,
           FindOneAndUpdate(r, matches, update)
    PROVE  TypeOK'
<1>1. req[r].lst \in Listings
  BY PendingFields
<1>2. Bumping \in Request /\ Done("ok") \in Request /\ Done("conflict") \in Request
  BY DEF Request, Replies
<1>3. CASE matches
  BY <1>1, <1>2, <1>3 DEF TypeOK, FindOneAndUpdate
<1>4. CASE ~matches
  BY <1>1, <1>2, <1>4 DEF TypeOK, FindOneAndUpdate
<1>5. QED
  BY <1>3, <1>4

LEMMA InitTyped == Init => TypeOK
<1>1. Absent \in ListingDoc
  BY DEF Absent, ListingDoc, Statuses
<1>2. NotSwept \in SweepRun
  BY DEF NotSwept, SweepRun
<1>3. Idle \in Request
  BY DEF Request
<1> SUFFICES ASSUME Init
             PROVE  TypeOK
  OBVIOUS
<1>4. doc \in [Listings -> ListingDoc] /\ req \in [Requests -> Request]
  BY <1>1, <1>3 DEF Init
<1>5. now \in Nat /\ redisUp \in BOOLEAN /\ bumpLost \in BOOLEAN /\ unannounced \in SUBSET Listings
  BY DEF Init
<1>6. QED
  BY <1>2, <1>4, <1>5 DEF Init, TypeOK

LEMMA NextTyped == TypeOK /\ [Next]_vars => TypeOK'
<1> SUFFICES ASSUME TypeOK, [Next]_vars
             PROVE  TypeOK'
  OBVIOUS
<1>1. ASSUME NEW l \in Listings, Create(l)
      PROVE  TypeOK'
  BY <1>1 DEF Create, TypeOK, ListingDoc, Statuses
<1>2. ASSUME NEW r \in Requests, Receive(r)
      PROVE  TypeOK'
  <2>1. ASSUME NEW op \in Ops, NEW actor \in Users, NEW l \in Listings,
               NEW buyer \in Users \cup {NoOne}
        PROVE  AfterRead(op, actor, l, buyer) \in Request
    <3>1. FastPath(doc[l], op, actor, l) \in {"none", "notFound", "forbidden"}
      BY DEF FastPath
    <3>2. CASE FastPath(doc[l], op, actor, l) # "none"
      BY <3>1, <3>2 DEF AfterRead, Request, Replies
    <3>3. CASE FastPath(doc[l], op, actor, l) = "none"
      <4>1. Bumps(op, doc[l]) \in BOOLEAN
        BY DEF Bumps
      <4>2. (IF op \in Timed THEN now ELSE 0) \in Nat
        BY DEF TypeOK
      <4>3. AfterRead(op, actor, l, buyer) \in Pending
        BY <3>3, <4>1, <4>2 DEF AfterRead, Pending
      <4>4. QED
        BY <4>3 DEF Request
    <3>4. QED
      BY <3>2, <3>3
  <2>2. QED
    BY <1>2, <2>1 DEF Receive, TypeOK
<1>3. ASSUME NEW r \in Requests, Write(r)
      PROVE  TypeOK'
  <2>1. req[r].pc = "write"
    BY <1>3 DEF Write, Publish, Reserve, Cancel, ConfirmSale, Remove, Writing
  <2>2. req[r] \in Pending /\ doc[req[r].lst] \in ListingDoc
    BY <2>1, PendingFields
  <2>3. \E matches \in BOOLEAN, update \in ListingDoc : FindOneAndUpdate(r, matches, update)
    <3>1. CASE Publish(r)
      BY <3>1, <2>2, UpdatesTyped DEF Publish, CanPublish
    <3>2. CASE Reserve(r)
      BY <3>2, <2>2, UpdatesTyped DEF Reserve, CanReserve
    <3>3. CASE Cancel(r)
      BY <3>3, <2>2, UpdatesTyped DEF Cancel, CanCancel
    <3>4. CASE ConfirmSale(r)
      BY <3>4, <2>2, UpdatesTyped DEF ConfirmSale, CanConfirm
    <3>5. CASE Remove(r)
      BY <3>5, <2>2, UpdatesTyped DEF Remove, CanRemove
    <3>6. QED
      BY <1>3, <3>1, <3>2, <3>3, <3>4, <3>5 DEF Write
  <2>4. QED
    BY <2>1, <2>3, WriteTyped
<1>4. ASSUME NEW r \in Requests, Bump(r) \/ BumpFails(r) \/ Reply(r)
      PROVE  TypeOK'
  <2>1. Done("ok") \in Request /\ Done("error") \in Request /\ Idle \in Request
    BY DEF Request, Replies
  <2>2. QED
    BY <1>4, <2>1 DEF Bump, BumpFails, Reply, TypeOK
<1>5. CASE SweepStart
  BY <1>5 DEF SweepStart, TypeOK, SweepRun
<1>6. ASSUME NEW l \in Listings, SweepOne(l)
      PROVE  TypeOK'
  <2>1. Released(doc[l]) \in ListingDoc
    BY DEF TypeOK, ListingDoc, Statuses, Released
  <2>2. QED
    BY <1>6, <2>1 DEF SweepOne, TypeOK, SweepRun
<1>7. CASE SweepEnd
  BY <1>7 DEF SweepEnd, TypeOK, SweepRun, NotSwept
<1>8. CASE ApiCrash
  <2>1. Idle \in Request
    BY DEF Request
  <2>2. QED
    BY <1>8, <2>1 DEF ApiCrash, TypeOK
<1>9. CASE WorkerCrash
  BY <1>9 DEF WorkerCrash, TypeOK, SweepRun, NotSwept
<1>10. CASE RedisFails \/ RedisRecovers
  BY <1>10, Zenon DEF RedisFails, RedisRecovers, TypeOK
<1>13. CASE Tick
  BY <1>13 DEF Tick, TypeOK
<1>11. CASE UNCHANGED vars
  BY <1>11 DEF vars, TypeOK
<1>12. QED
  BY <1>1, <1>2, <1>3, <1>4, <1>5, <1>6, <1>7, <1>8, <1>9, <1>10, <1>11, <1>13 DEF Next

\* Every variable keeps its type, in every instance of the system.
THEOREM TypeCorrect == Spec => []TypeOK
  BY InitTyped, NextTyped, PTL DEF Spec

-----------------------------------------------------------------------------
(* What a step can do to one document.                                     *)

\* Request r has written the document of l.
Wrote(r, l) ==
    /\ req[r].pc = "write"
    /\ req[r].lst = l
    /\ req'[r] # req[r]
    /\ LET q == req[r]  d == doc[l]
       IN  \/ /\ q.op = "publish" /\ CanPublish(d, q)
              /\ doc'[l] = [d EXCEPT !.status = "ACTIVE"]
           \/ q.op = "reserve" /\ CanReserve(d, q) /\ doc'[l] = Reserved(d, q)
           \/ q.op = "cancel" /\ CanCancel(d, q) /\ doc'[l] = Released(d)
           \/ q.op = "confirm" /\ CanConfirm(d, q) /\ doc'[l] = Sold(d, q)
           \/ q.op = "remove" /\ CanRemove(d, q) /\ doc'[l] = Removed(d)

\* A findOneAndUpdate that changes a document matched it, and moves its
\* request on.
LEMMA WriteChanges ==
    ASSUME TypeOK, NEW r \in Requests, req[r].pc = "write",
           NEW matches, NEW update,
           FindOneAndUpdate(r, matches, update),
           NEW l \in Listings, doc'[l] # doc[l]
    PROVE  matches /\ l = req[r].lst /\ doc'[l] = update /\ req'[r] # req[r]
<1>1. matches
  BY DEF FindOneAndUpdate
<1>2. l = req[r].lst /\ doc'[l] = update
  BY <1>1 DEF FindOneAndUpdate, TypeOK
<1>3. req'[r] # req[r]
  <2>1. req'[r] \in {Bumping, Done("ok")}
    BY <1>1 DEF FindOneAndUpdate, TypeOK
  <2>2. Bumping.pc = "bump" /\ Done("ok").pc = "done"
    BY DEF Bumping, Done
  <2>3. QED
    BY <2>1, <2>2
<1>4. QED
  BY <1>1, <1>2, <1>3

LEMMA DocumentChanges ==
    ASSUME TypeOK, [Next]_vars, NEW l \in Listings, doc'[l] # doc[l]
    PROVE  \/ doc[l].status = "NONE" /\ doc'[l] = [doc[l] EXCEPT !.status = "DRAFT"]
           \/ \E r \in Requests : Wrote(r, l)
           \/ ExpiredAt(doc[l], sweep.at) /\ doc'[l] = Released(doc[l])
<1>1. ASSUME NEW k \in Listings, Create(k)
      PROVE  doc[l].status = "NONE" /\ doc'[l] = [doc[l] EXCEPT !.status = "DRAFT"]
  BY <1>1 DEF Create, TypeOK
<1>2. ASSUME NEW k \in Listings, SweepOne(k)
      PROVE  ExpiredAt(doc[l], sweep.at) /\ doc'[l] = Released(doc[l])
  BY <1>2 DEF SweepOne, TypeOK
<1>3. ASSUME NEW r \in Requests, Write(r)
      PROVE  Wrote(r, l)
  <2>1. CASE Publish(r)
    BY <2>1, WriteChanges DEF Publish, Writing, Wrote
  <2>2. CASE Reserve(r)
    BY <2>2, WriteChanges DEF Reserve, Writing, Wrote
  <2>3. CASE Cancel(r)
    BY <2>3, WriteChanges DEF Cancel, Writing, Wrote
  <2>4. CASE ConfirmSale(r)
    BY <2>4, WriteChanges DEF ConfirmSale, Writing, Wrote
  <2>5. CASE Remove(r)
    BY <2>5, WriteChanges DEF Remove, Writing, Wrote
  <2>6. QED
    BY <1>3, <2>1, <2>2, <2>3, <2>4, <2>5 DEF Write
<1>4. \/ \E k \in Listings : Create(k) \/ SweepOne(k)
      \/ \E r \in Requests : Write(r)
  BY DEF Next, vars, Receive, Bump, BumpFails, Reply, SweepStart, SweepEnd, ApiCrash,
         WorkerCrash, RedisFails, RedisRecovers, Tick
<1>5. QED
  BY <1>1, <1>2, <1>3, <1>4

-----------------------------------------------------------------------------
(* The document agrees with its status, and a sale is final.               *)

LEMMA NextAgrees == TypeOK /\ StatusAgrees /\ [Next]_vars => StatusAgrees'
<1> SUFFICES ASSUME TypeOK, StatusAgrees, [Next]_vars, NEW l \in Listings
             PROVE  BlockAgrees(doc'[l], l)
  BY DEF StatusAgrees
<1> DEFINE d == doc[l]
<1>1. d \in ListingDoc /\ BlockAgrees(d, l)
  BY DEF TypeOK, StatusAgrees
<1>2. CASE doc'[l] = d
  BY <1>1, <1>2
<1>3. CASE d.status = "NONE" /\ doc'[l] = [d EXCEPT !.status = "DRAFT"]
  BY <1>1, <1>3 DEF BlockAgrees, ListingDoc
<1>4. ASSUME NEW r \in Requests, Wrote(r, l)
      PROVE  BlockAgrees(doc'[l], l)
  <2> DEFINE q == req[r]
  <2>1. q \in Pending /\ q.lst = l
    BY <1>4, PendingFields DEF Wrote
  <2>2. CASE q.op = "publish" /\ CanPublish(d, q) /\ doc'[l] = [d EXCEPT !.status = "ACTIVE"]
    BY <1>1, <2>2 DEF CanPublish, BlockAgrees, ListingDoc
  <2>3. CASE q.op = "reserve" /\ CanReserve(d, q) /\ doc'[l] = Reserved(d, q)
    <3>1. q.actor \in Users \ {Seller[l]} /\ q.at + TTL # NoTime
      BY <2>1, <2>3, LifecycleAssumption DEF CanReserve, Pending
    <3>2. d.soldTo = NoOne
      BY <1>1, <2>3 DEF CanReserve, BlockAgrees
    <3>3. QED
      BY <1>1, <2>3, <3>1, <3>2 DEF Reserved, BlockAgrees, ListingDoc
  <2>4. CASE q.op = "cancel" /\ CanCancel(d, q) /\ doc'[l] = Released(d)
    BY <1>1, <2>4 DEF CanCancel, Released, BlockAgrees, ListingDoc
  <2>5. CASE q.op = "confirm" /\ CanConfirm(d, q) /\ doc'[l] = Sold(d, q)
    BY <1>1, <2>5 DEF CanConfirm, Sold, BlockAgrees, ListingDoc
  <2>6. CASE q.op = "remove" /\ CanRemove(d, q) /\ doc'[l] = Removed(d)
    BY <1>1, <2>6 DEF CanRemove, Removed, BlockAgrees, ListingDoc
  <2>7. QED
    BY <1>4, <2>2, <2>3, <2>4, <2>5, <2>6 DEF Wrote
<1>5. CASE ExpiredAt(d, sweep.at) /\ doc'[l] = Released(d)
  BY <1>1, <1>5 DEF ExpiredAt, Released, BlockAgrees, ListingDoc
<1>6. QED
  BY <1>2, <1>3, <1>4, <1>5, DocumentChanges

\* The reservation block and the sale agree with the status of every listing.
THEOREM StatusCorrect == Spec => []StatusAgrees
<1>1. Init => StatusAgrees
  BY DEF Init, StatusAgrees, BlockAgrees, Absent
<1>2. QED
  BY <1>1, TypeCorrect, NextAgrees, PTL DEF Spec

\* A sold listing keeps its buyer and a removed one stays removed: one physical
\* item is sold at most once.
THEOREM SaleFinal == Spec => SaleIsFinal
<1> DEFINE Final(l) == /\ doc[l].soldTo # NoOne => doc'[l].soldTo = doc[l].soldTo
                       /\ doc[l].status = "REMOVED" => doc'[l].status = "REMOVED"
<1>1. ASSUME TypeOK, StatusAgrees, [Next]_vars, NEW l \in Listings
      PROVE  Final(l)
  <2> DEFINE d == doc[l]
  <2>1. d \in ListingDoc /\ BlockAgrees(d, l)
    BY <1>1 DEF TypeOK, StatusAgrees
  <2>2. CASE d.status = "NONE" /\ doc'[l] = [d EXCEPT !.status = "DRAFT"]
    BY <2>1, <2>2 DEF ListingDoc
  <2>3. ASSUME NEW r \in Requests, Wrote(r, l)
        PROVE  Final(l)
    BY <2>1, <2>3 DEF Wrote, CanPublish, CanReserve, CanCancel, CanConfirm, CanRemove,
                      Reserved, Released, Sold, Removed, BlockAgrees, ListingDoc
  <2>4. CASE ExpiredAt(d, sweep.at) /\ doc'[l] = Released(d)
    BY <2>1, <2>4 DEF ExpiredAt, Released, ListingDoc
  <2>5. CASE doc'[l] = d
    BY <2>5
  <2>6. QED
    BY <1>1, <2>2, <2>3, <2>4, <2>5, DocumentChanges
<1>2. TypeOK /\ StatusAgrees /\ [Next]_vars => [\A l \in Listings : Final(l)]_vars
  BY <1>1
<1>3. QED
  BY <1>2, TypeCorrect, StatusCorrect, PTL DEF Spec, SaleIsFinal

-----------------------------------------------------------------------------
(* A reservation stands until its deadline.                                *)

\* No handler and no sweep compares deadlines with a time that is yet to come.
TimesPast ==
    /\ \A r \in Requests : req[r].pc = "write" => req[r].at <= now
    /\ sweep.at <= now

\* A write is put in a slot only by the arrival of a request there.
LEMMA OnlyReceiveStartsAWrite ==
    ASSUME TypeOK, [Next]_vars, NEW r \in Requests, req'[r].pc = "write", req'[r] # req[r]
    PROVE  Receive(r)
<1>1. ASSUME NEW k \in Requests, Receive(k)
      PROVE  k = r
  BY <1>1 DEF Receive, TypeOK
<1>2. ASSUME NEW k \in Requests, NEW x, req' = [req EXCEPT ![k] = x], x.pc # "write"
      PROVE  FALSE
  BY <1>2 DEF TypeOK
<1>3. /\ Bumping.pc # "write" /\ Idle.pc # "write"
      /\ Done("ok").pc # "write" /\ Done("conflict").pc # "write" /\ Done("error").pc # "write"
  BY DEF Bumping, Idle, Done
<1>4. ASSUME NEW k \in Requests, Bump(k) \/ BumpFails(k) \/ Reply(k)
      PROVE  FALSE
  BY <1>2, <1>3, <1>4 DEF Bump, BumpFails, Reply
<1>5. ASSUME NEW k \in Requests, Write(k)
      PROVE  FALSE
  <2>1. PICK matches, update : FindOneAndUpdate(k, matches, update)
    BY <1>5, Zenon DEF Write, Publish, Reserve, Cancel, ConfirmSale, Remove
  <2>2. \E x \in {Bumping, Done("ok"), Done("conflict")} : req' = [req EXCEPT ![k] = x]
    BY <2>1 DEF FindOneAndUpdate
  <2>3. QED
    BY <1>2, <1>3, <2>2
<1>6. ~ApiCrash
  BY <1>3 DEF ApiCrash
<1>7. req' # req
  OBVIOUS
<1>8. QED
  BY <1>1, <1>4, <1>5, <1>6, <1>7 DEF Next, vars, Create, SweepStart, SweepOne, SweepEnd,
     WorkerCrash, RedisFails, RedisRecovers, Tick

LEMMA NextTimesPast == TypeOK /\ TimesPast /\ [Next]_vars => TimesPast'
<1> SUFFICES ASSUME TypeOK, TimesPast, [Next]_vars
             PROVE  TimesPast'
  OBVIOUS
<1>1. now \in Nat /\ now' \in Nat /\ now <= now'
  <2>1. now' = now \/ now' = now + 1
    BY DEF Next, vars, Create, Receive, Write, Publish, Reserve, Cancel, ConfirmSale, Remove,
           FindOneAndUpdate, Bump, BumpFails, Reply, SweepStart, SweepOne, SweepEnd, ApiCrash,
           WorkerCrash, RedisFails, RedisRecovers, Tick
  <2>2. QED
    BY <2>1 DEF TypeOK
<1>2. ASSUME NEW r \in Requests, req'[r].pc = "write"
      PROVE  req'[r].at <= now'
  <2>1. CASE req'[r] = req[r]
    <3>1. req[r].at \in Nat /\ req[r].at <= now
      BY <1>2, <2>1, PendingFields DEF TimesPast
    <3>2. QED
      BY <1>1, <2>1, <3>1
  <2>2. CASE req'[r] # req[r]
    <3>1. Receive(r)
      BY <1>2, <2>2, OnlyReceiveStartsAWrite
    <3>2. PICK op \in Ops, actor \in Users, l \in Listings, buyer \in Users \cup {NoOne} :
             req' = [req EXCEPT ![r] = AfterRead(op, actor, l, buyer)]
      BY <3>1 DEF Receive
    <3>3. req'[r] = AfterRead(op, actor, l, buyer)
      BY <3>2 DEF TypeOK
    <3>4. req'[r].at = now \/ req'[r].at = 0
      BY <1>2, <3>3 DEF AfterRead, Done
    <3>5. QED
      BY <1>1, <3>4
  <2>3. QED
    BY <2>1, <2>2
<1>3. sweep'.at <= now'
  <2>1. sweep.at \in Nat /\ sweep.at <= now
    BY DEF TypeOK, SweepRun, TimesPast
  <2>2. CASE SweepStart
    BY <1>1, <2>2 DEF SweepStart, TypeOK
  <2>3. CASE SweepEnd \/ WorkerCrash
    BY <1>1, <2>3 DEF SweepEnd, WorkerCrash, NotSwept
  <2>4. ASSUME NEW l \in Listings, SweepOne(l)
        PROVE  sweep'.at <= now'
    BY <1>1, <2>1, <2>4 DEF SweepOne, TypeOK, SweepRun
  <2>5. CASE UNCHANGED sweep
    BY <1>1, <2>1, <2>5
  <2>6. ASSUME NEW r \in Requests, Write(r)
        PROVE  UNCHANGED sweep
    BY <2>6 DEF Write, Publish, Reserve, Cancel, ConfirmSale, Remove, FindOneAndUpdate
  <2>7. QED
    BY <2>2, <2>3, <2>4, <2>5, <2>6 DEF Next, vars, Create, Receive, Bump, BumpFails, Reply,
       ApiCrash, RedisFails, RedisRecovers, Tick
<1>4. QED
  BY <1>2, <1>3 DEF TimesPast

LEMMA AlwaysTimesPast == Spec => []TimesPast
<1>1. Init => TimesPast
  BY DEF Init, TimesPast, Idle, NotSwept
<1>2. QED
  BY <1>1, TypeCorrect, NextTimesPast, PTL DEF Spec

\* An earlier clock reading finds no more reservations expired than a later one.
LEMMA ExpiryIsMonotone ==
    ASSUME NEW d \in ListingDoc, NEW t \in Nat, NEW u \in Nat, t <= u, ExpiredAt(d, t)
    PROVE  ExpiredAt(d, u)
  BY DEF ExpiredAt, Lapsed, ListingDoc

\* A reservation before its deadline is ended only by a call of its buyer or of
\* the seller.
THEOREM HoldsStand == Spec => HoldStands
<1> DEFINE Stands(l) ==
      (doc[l].status = "RESERVED" /\ ~ExpiredAt(doc[l], now) /\ doc'[l] # doc[l]) =>
          \E r \in Requests : EndsHold(r, l) /\ req'[r] # req[r]
<1>1. ASSUME TypeOK, TimesPast, [Next]_vars, NEW l \in Listings,
             doc[l].status = "RESERVED", ~ExpiredAt(doc[l], now), doc'[l] # doc[l]
      PROVE  \E r \in Requests : EndsHold(r, l) /\ req'[r] # req[r]
  <2>1. doc[l] \in ListingDoc /\ now \in Nat /\ sweep.at \in Nat /\ sweep.at <= now
    BY <1>1 DEF TypeOK, TimesPast, SweepRun
  <2>2. ~ExpiredAt(doc[l], sweep.at)
    BY <1>1, <2>1, ExpiryIsMonotone
  <2>3. PICK r \in Requests : Wrote(r, l)
    BY <1>1, <2>2, DocumentChanges
  <2>4. ~ExpiredAt(doc[l], req[r].at)
    <3>1. req[r].at \in Nat /\ req[r].at <= now
      BY <1>1, <2>3, PendingFields DEF Wrote, TimesPast
    <3>2. QED
      BY <1>1, <2>1, <3>1, ExpiryIsMonotone
  <2>5. ~CanPublish(doc[l], req[r]) /\ ~CanReserve(doc[l], req[r])
    BY <1>1, <2>4 DEF CanPublish, CanReserve, ExpiredAt
  <2>6. EndsHold(r, l) /\ req'[r] # req[r]
    BY <2>3, <2>5 DEF Wrote, EndsHold, CanCancel, CanConfirm, CanRemove
  <2>7. QED
    BY <2>6
<1>2. TypeOK /\ TimesPast /\ [Next]_vars => [\A l \in Listings : Stands(l)]_vars
  BY <1>1
<1>3. QED
  BY <1>2, TypeCorrect, AlwaysTimesPast, PTL DEF Spec, HoldStands

-----------------------------------------------------------------------------
(* Every transition but a removal is announced to the feed.                *)

\* The handlers whose transitions always concern the feed go on to bump.
BumpsKnown ==
    \A r \in Requests :
        req[r].pc = "write" /\ req[r].op \in {"publish", "reserve", "cancel"} => req[r].bumps

LEMMA NextBumpsKnown == TypeOK /\ BumpsKnown /\ [Next]_vars => BumpsKnown'
<1> SUFFICES ASSUME TypeOK, BumpsKnown, [Next]_vars, NEW r \in Requests,
                    req'[r].pc = "write", req'[r].op \in {"publish", "reserve", "cancel"}
             PROVE  req'[r].bumps
  BY DEF BumpsKnown
<1>1. CASE req'[r] = req[r]
  BY <1>1 DEF BumpsKnown
<1>2. CASE req'[r] # req[r]
  <2>1. Receive(r)
    BY <1>2, OnlyReceiveStartsAWrite
  <2>2. PICK op \in Ops, actor \in Users, l \in Listings, buyer \in Users \cup {NoOne} :
           req' = [req EXCEPT ![r] = AfterRead(op, actor, l, buyer)]
    BY <2>1 DEF Receive
  <2>3. req'[r] = AfterRead(op, actor, l, buyer)
    BY <2>2 DEF TypeOK
  <2>4. req'[r].op = op /\ req'[r].bumps = Bumps(op, doc[l])
    BY <2>3 DEF AfterRead, Done
  <2>5. QED
    BY <2>4 DEF Bumps
<1>3. QED
  BY <1>1, <1>2

\* A write that changes what the feed shows of l either goes on to bump or has
\* removed l.
LEMMA WriteAnnounces ==
    ASSUME TypeOK, BumpsKnown, TransitionsAnnounced, NEW r \in Requests, Write(r)
    PROVE  TransitionsAnnounced'
<1>1. req[r].pc = "write" /\ req[r] \in Pending /\ req[r].lst \in Listings
  BY PendingFields DEF Write, Publish, Reserve, Cancel, ConfirmSale, Remove, Writing
<1>2. PICK matches, update :
         /\ FindOneAndUpdate(r, matches, update)
         /\ matches => \/ req[r].op \in {"publish", "reserve", "cancel"}
                       \/ InFeed(update) = InFeed(doc[req[r].lst])
                       \/ update.status = "REMOVED"
         /\ matches => doc[req[r].lst].status # "REMOVED"
  <2> DEFINE q == req[r]
             d == doc[q.lst]
  <2>1. d \in ListingDoc
    BY <1>1 DEF TypeOK
  <2>2. CASE Publish(r)
    BY <2>2, Zenon DEF Publish, Writing, CanPublish
  <2>3. CASE Reserve(r)
    BY <2>3, Zenon DEF Reserve, Writing, CanReserve
  <2>4. CASE Cancel(r)
    BY <2>4, Zenon DEF Cancel, Writing, CanCancel
  <2>5. CASE ConfirmSale(r)
    <3>1. CanConfirm(d, q) => d.status = "RESERVED" /\ InFeed(Sold(d, q)) = InFeed(d)
      BY <2>1 DEF CanConfirm, Sold, InFeed, ListingDoc
    <3>2. FindOneAndUpdate(r, CanConfirm(d, q), Sold(d, q))
      BY <2>5 DEF ConfirmSale
    <3>3. QED
      BY <3>1, <3>2
  <2>6. CASE Remove(r)
    <3>1. CanRemove(d, q) => d.status # "REMOVED" /\ Removed(d).status = "REMOVED"
      BY <2>1 DEF CanRemove, Removed, ListingDoc
    <3>2. FindOneAndUpdate(r, CanRemove(d, q), Removed(d))
      BY <2>6 DEF Remove
    <3>3. QED
      BY <3>1, <3>2
  <2>7. QED
    BY <2>2, <2>3, <2>4, <2>5, <2>6 DEF Write
<1>3. \A k \in Requests : req[k] = Bumping => req'[k] = Bumping
  <2>1. req[r] # Bumping
    BY <1>1 DEF Bumping
  <2>2. QED
    BY <1>2, <2>1 DEF FindOneAndUpdate, TypeOK
<1>4. bumpLost' = bumpLost /\ sweep' = sweep
  BY <1>2 DEF FindOneAndUpdate
<1>5. BumpOwed \/ bumpLost => BumpOwed' \/ bumpLost'
  BY <1>3, <1>4 DEF BumpOwed
<1>6. CASE ~matches
  BY <1>2, <1>5, <1>6 DEF FindOneAndUpdate, TransitionsAnnounced
<1>7. CASE matches /\ req[r].bumps
  <2>1. req'[r] = Bumping
    BY <1>2, <1>7 DEF FindOneAndUpdate, TypeOK
  <2>2. QED
    BY <2>1 DEF TransitionsAnnounced, BumpOwed
<1>8. CASE matches /\ ~req[r].bumps
  <2>1. req[r].op \notin {"publish", "reserve", "cancel"}
    BY <1>1, <1>8 DEF BumpsKnown
  <2>2. doc' = [doc EXCEPT ![req[r].lst] = update]
    BY <1>2, <1>8 DEF FindOneAndUpdate
  <2>3. \/ unannounced' = unannounced
        \/ update.status = "REMOVED" /\ unannounced' = unannounced \cup {req[r].lst}
    BY <1>2, <1>8, <2>1 DEF FindOneAndUpdate
  <2>4. ASSUME NEW l \in unannounced', ~(BumpOwed' \/ bumpLost')
        PROVE  doc'[l].status = "REMOVED"
    <3>1. l \in Listings
      BY <1>1, <2>3 DEF TypeOK
    <3>2. CASE l = req[r].lst /\ update.status = "REMOVED"
      BY <1>1, <2>2, <3>2 DEF TypeOK
    <3>3. CASE l \in unannounced
      <4>1. doc[l].status = "REMOVED"
        BY <1>5, <2>4, <3>3 DEF TransitionsAnnounced
      <4>2. l # req[r].lst
        BY <1>2, <1>8, <4>1
      <4>3. QED
        BY <2>2, <3>1, <4>1, <4>2 DEF TypeOK
    <3>4. QED
      BY <2>3, <2>4, <3>2, <3>3
  <2>5. QED
    BY <2>4 DEF TransitionsAnnounced
<1>9. QED
  BY <1>6, <1>7, <1>8

LEMMA NextAnnounces ==
    TypeOK /\ BumpsKnown /\ TransitionsAnnounced /\ [Next]_vars => TransitionsAnnounced'
<1> SUFFICES ASSUME TypeOK, BumpsKnown, TransitionsAnnounced, [Next]_vars
             PROVE  TransitionsAnnounced'
  OBVIOUS
<1>1. ASSUME NEW l \in Listings, Create(l)
      PROVE  TransitionsAnnounced'
  <2>1. \A k \in Listings : doc[k].status = "REMOVED" => doc'[k] = doc[k]
    BY <1>1 DEF Create, TypeOK
  <2>2. QED
    BY <1>1, <2>1 DEF Create, TransitionsAnnounced, BumpOwed, TypeOK
<1>2. ASSUME NEW r \in Requests, Receive(r)
      PROVE  TransitionsAnnounced'
  <2>1. req[r] # Bumping
    BY <1>2 DEF Receive, Idle, Bumping
  <2>2. \A k \in Requests : req[k] = Bumping => req'[k] = Bumping
    BY <1>2, <2>1 DEF Receive, TypeOK
  <2>3. QED
    BY <1>2, <2>2 DEF Receive, TransitionsAnnounced, BumpOwed
<1>3. ASSUME NEW r \in Requests, Write(r)
      PROVE  TransitionsAnnounced'
  BY <1>3, WriteAnnounces
<1>4. ASSUME NEW r \in Requests, Bump(r)
      PROVE  TransitionsAnnounced'
  BY <1>4 DEF Bump, TransitionsAnnounced
<1>5. ASSUME NEW r \in Requests, BumpFails(r)
      PROVE  TransitionsAnnounced'
  BY <1>5 DEF BumpFails, TransitionsAnnounced
<1>6. ASSUME NEW r \in Requests, Reply(r)
      PROVE  TransitionsAnnounced'
  <2>1. req[r] # Bumping
    BY <1>6 DEF Reply, Bumping
  <2>2. \A k \in Requests : req[k] = Bumping => req'[k] = Bumping
    BY <1>6, <2>1 DEF Reply, TypeOK
  <2>3. QED
    BY <1>6, <2>2 DEF Reply, TransitionsAnnounced, BumpOwed
<1>7. CASE SweepStart
  BY <1>7 DEF SweepStart, TransitionsAnnounced, BumpOwed
<1>8. ASSUME NEW l \in Listings, SweepOne(l)
      PROVE  TransitionsAnnounced'
  <2>1. CASE ExpiredAt(doc[l], sweep.at)
    <3>1. sweep.running
      BY <1>8 DEF SweepOne
    <3>2. QED
      BY <1>8, <2>1, <3>1 DEF SweepOne, TransitionsAnnounced, BumpOwed, TypeOK, SweepRun
  <2>2. CASE ~ExpiredAt(doc[l], sweep.at)
    BY <1>8, <2>2 DEF SweepOne, TransitionsAnnounced, BumpOwed, TypeOK, SweepRun
  <2>3. QED
    BY <2>1, <2>2
<1>9. CASE SweepEnd
  BY <1>9 DEF SweepEnd, TransitionsAnnounced, BumpOwed
<1>10. CASE ApiCrash
  BY <1>10 DEF ApiCrash, TransitionsAnnounced, BumpOwed
<1>11. CASE WorkerCrash
  BY <1>11 DEF WorkerCrash, TransitionsAnnounced, BumpOwed
<1>12. CASE RedisFails \/ RedisRecovers \/ Tick \/ UNCHANGED vars
  BY <1>12 DEF RedisFails, RedisRecovers, Tick, vars, TransitionsAnnounced, BumpOwed
<1>13. QED
  BY <1>1, <1>2, <1>3, <1>4, <1>5, <1>6, <1>7, <1>8, <1>9, <1>10, <1>11, <1>12 DEF Next

\* Unless a bump fails or dies with its process, each transition that changes
\* what the feed shows, a removal excepted, is followed by a bump.
THEOREM AllAnnounced == Spec => []TransitionsAnnounced
<1>1. Init => BumpsKnown /\ TransitionsAnnounced
  BY DEF Init, BumpsKnown, Idle, TransitionsAnnounced
<1>2. QED
  BY <1>1, TypeCorrect, NextBumpsKnown, NextAnnounces, PTL DEF Spec

-----------------------------------------------------------------------------
(* The handlers implement ListingContract.                                 *)

\* A pending request as the contract sees it.
LEMMA PendingCall ==
    ASSUME TypeOK, NEW r \in Requests, req[r].pc = "write"
    PROVE  /\ CallOf(req[r]).outcome = "pending"
           /\ CallOf(req[r]).op = req[r].op
           /\ CallOf(req[r]).actor = req[r].actor
           /\ CallOf(req[r]).lst = req[r].lst
           /\ CallOf(req[r]).buyer = req[r].buyer
           /\ CallOf(req[r]).at = req[r].at
  BY DEF CallOf

\* The filter of each conditional write is what the contract asks for.
LEMMA FilterIsGuard ==
    ASSUME NEW l \in Listings, NEW d \in ListingDoc, BlockAgrees(d, l),
           NEW q \in Pending, NEW c, q.lst = l,
           c.op = q.op, c.actor = q.actor, c.lst = l, c.buyer = q.buyer, c.at = q.at
    PROVE  Contract!Honours(ItemOf(d), c) <=>
              \/ q.op = "publish" /\ CanPublish(d, q)
              \/ q.op = "reserve" /\ CanReserve(d, q)
              \/ q.op = "cancel" /\ CanCancel(d, q)
              \/ q.op = "confirm" /\ CanConfirm(d, q)
              \/ q.op = "remove" /\ CanRemove(d, q)
<1> DEFINE i == ItemOf(d)
<1>1. /\ d.status = "DRAFT" <=> i.phase = "draft"
      /\ d.status = "ACTIVE" <=> i.phase = "open"
      /\ d.status = "RESERVED" <=> i.phase = "held"
      /\ d.status \in {"NONE", "REMOVED"} <=> i.phase \in {"unlisted", "removed"}
  BY DEF ItemOf, PhaseOf, ListingDoc, Statuses
<1>2. i.phase = "held" => i.holder = d.reservedBy /\ i.until = d.expiresAt /\ d.expiresAt # NoTime
  BY <1>1 DEF ItemOf, BlockAgrees
<1>3. q.op \in Ops
  BY DEF Pending
<1>4. CASE q.op = "publish"
  BY <1>1, <1>4 DEF Contract!Honours, CanPublish
<1>5. CASE q.op = "reserve"
  BY <1>1, <1>2, <1>5 DEF Contract!Honours, Contract!FreeAt, CanReserve, Lapsed
<1>6. CASE q.op = "cancel"
  BY <1>1, <1>2, <1>6 DEF Contract!Honours, CanCancel
<1>7. CASE q.op = "confirm"
  BY <1>1, <1>2, <1>7 DEF Contract!Honours, CanConfirm, Unexpired
<1>8. CASE q.op = "remove"
  BY <1>1, <1>8 DEF Contract!Honours, CanRemove, ListingDoc, Statuses
<1>9. QED
  BY <1>3, <1>4, <1>5, <1>6, <1>7, <1>8 DEF Ops

\* Releasing a document, by cancel or by the sweeper, leaves nobody holding the item.
LEMMA ReleaseVacates ==
    ASSUME NEW d \in ListingDoc
    PROVE  ItemOf(Released(d)) = Contract!Vacated(ItemOf(d), "open")
<1> DEFINE freed == [phase |-> "open", holder |-> NoOne, until |-> NoTime, owner |-> d.soldTo]
<1>1. ItemOf(Released(d)) = freed
  <2>1. /\ Released(d).status = "ACTIVE" /\ Released(d).reservedBy = NoOne
        /\ Released(d).expiresAt = NoTime /\ Released(d).soldTo = d.soldTo
    BY DEF Released, ListingDoc
  <2>2. QED
    BY <2>1 DEF ItemOf, PhaseOf
<1>2. Contract!Vacated(ItemOf(d), "open") = freed
  BY DEF Contract!Vacated, ItemOf
<1>3. QED
  BY <1>1, <1>2

\* The update of each conditional write is what the contract makes of the item.
LEMMA UpdateIsEffect ==
    ASSUME NEW l \in Listings, NEW d \in ListingDoc, BlockAgrees(d, l),
           NEW q \in Pending, NEW c,
           c.op = q.op, c.actor = q.actor, c.buyer = q.buyer, c.at = q.at
    PROVE  /\ q.op = "publish" /\ CanPublish(d, q) =>
                 ItemOf([d EXCEPT !.status = "ACTIVE"]) = Contract!Honoured(ItemOf(d), c)
           /\ q.op = "reserve" => ItemOf(Reserved(d, q)) = Contract!Honoured(ItemOf(d), c)
           /\ q.op = "cancel" => ItemOf(Released(d)) = Contract!Honoured(ItemOf(d), c)
           /\ q.op = "confirm" => ItemOf(Sold(d, q)) = Contract!Honoured(ItemOf(d), c)
           /\ q.op = "remove" => ItemOf(Removed(d)) = Contract!Honoured(ItemOf(d), c)
<1>1. CASE q.op = "publish" /\ CanPublish(d, q)
  BY <1>1 DEF Contract!Honoured, Contract!Vacated, ItemOf, PhaseOf, CanPublish, BlockAgrees, ListingDoc
<1>2. CASE q.op = "reserve"
  BY <1>2 DEF Contract!Honoured, Contract!Vacated, ItemOf, PhaseOf, Reserved, ListingDoc
<1>3. CASE q.op = "cancel"
  BY <1>3, ReleaseVacates DEF Contract!Honoured
<1>4. CASE q.op = "confirm"
  BY <1>4 DEF Contract!Honoured, Contract!Vacated, ItemOf, PhaseOf, Sold, ListingDoc
<1>5. CASE q.op = "remove"
  BY <1>5 DEF Contract!Honoured, Contract!Vacated, ItemOf, PhaseOf, Removed, ListingDoc
<1>6. QED
  BY <1>1, <1>2, <1>3, <1>4, <1>5

\* A write is the instant at which the contract decides the call.
LEMMA WriteDecides ==
    ASSUME TypeOK, StatusAgrees, NEW r \in Requests, Write(r)
    PROVE  Contract!Decide(r)
<1> DEFINE q == req[r]
           l == q.lst
           d == doc[l]
           c == CallOf(q)
<1>1. q.pc = "write" /\ q \in Pending /\ l \in Listings
  BY PendingFields DEF Write, Publish, Reserve, Cancel, ConfirmSale, Remove, Writing
<1>2. d \in ListingDoc /\ BlockAgrees(d, l)
  BY <1>1 DEF TypeOK, StatusAgrees
<1>3. /\ c.outcome = "pending" /\ c.op = q.op /\ c.actor = q.actor
      /\ c.lst = l /\ c.buyer = q.buyer /\ c.at = q.at
  BY <1>1, PendingCall
<1>4. callBar[r] = c /\ itemBar[l] = ItemOf(d)
  BY <1>1 DEF callBar, itemBar
<1>5. PICK matches, update :
         /\ matches \in BOOLEAN
         /\ FindOneAndUpdate(r, matches, update)
         /\ matches <=> Contract!Honours(ItemOf(d), c)
         /\ matches => ItemOf(update) = Contract!Honoured(ItemOf(d), c)
  <2>1. Contract!Honours(ItemOf(d), c) <=>
              \/ q.op = "publish" /\ CanPublish(d, q)
              \/ q.op = "reserve" /\ CanReserve(d, q)
              \/ q.op = "cancel" /\ CanCancel(d, q)
              \/ q.op = "confirm" /\ CanConfirm(d, q)
              \/ q.op = "remove" /\ CanRemove(d, q)
    BY <1>1, <1>2, <1>3, FilterIsGuard
  <2>2. /\ q.op = "publish" /\ CanPublish(d, q) =>
                 ItemOf([d EXCEPT !.status = "ACTIVE"]) = Contract!Honoured(ItemOf(d), c)
        /\ q.op = "reserve" => ItemOf(Reserved(d, q)) = Contract!Honoured(ItemOf(d), c)
        /\ q.op = "cancel" => ItemOf(Released(d)) = Contract!Honoured(ItemOf(d), c)
        /\ q.op = "confirm" => ItemOf(Sold(d, q)) = Contract!Honoured(ItemOf(d), c)
        /\ q.op = "remove" => ItemOf(Removed(d)) = Contract!Honoured(ItemOf(d), c)
    BY <1>1, <1>2, <1>3, UpdateIsEffect
  <2>3. CASE Publish(r)
    <3>1. q.op = "publish" /\ FindOneAndUpdate(r, CanPublish(d, q), [d EXCEPT !.status = "ACTIVE"])
      BY <2>3 DEF Publish, Writing
    <3>2. CanPublish(d, q) \in BOOLEAN
      BY DEF CanPublish
    <3>3. QED
      BY <2>1, <2>2, <3>1, <3>2
  <2>4. CASE Reserve(r)
    <3>1. q.op = "reserve" /\ FindOneAndUpdate(r, CanReserve(d, q), Reserved(d, q))
      BY <2>4 DEF Reserve, Writing
    <3>2. CanReserve(d, q) \in BOOLEAN
      BY DEF CanReserve
    <3>3. QED
      BY <2>1, <2>2, <3>1, <3>2
  <2>5. CASE Cancel(r)
    <3>1. q.op = "cancel" /\ FindOneAndUpdate(r, CanCancel(d, q), Released(d))
      BY <2>5 DEF Cancel, Writing
    <3>2. CanCancel(d, q) \in BOOLEAN
      BY DEF CanCancel
    <3>3. QED
      BY <2>1, <2>2, <3>1, <3>2
  <2>6. CASE ConfirmSale(r)
    <3>1. q.op = "confirm" /\ FindOneAndUpdate(r, CanConfirm(d, q), Sold(d, q))
      BY <2>6 DEF ConfirmSale, Writing
    <3>2. CanConfirm(d, q) \in BOOLEAN
      BY DEF CanConfirm
    <3>3. QED
      BY <2>1, <2>2, <3>1, <3>2
  <2>7. CASE Remove(r)
    <3>1. q.op = "remove" /\ FindOneAndUpdate(r, CanRemove(d, q), Removed(d))
      BY <2>7 DEF Remove, Writing
    <3>2. CanRemove(d, q) \in BOOLEAN
      BY DEF CanRemove
    <3>3. QED
      BY <2>1, <2>2, <3>1, <3>2
  <2>8. QED
    BY <2>3, <2>4, <2>5, <2>6, <2>7 DEF Write
<1>6. now' = now
  BY <1>5 DEF FindOneAndUpdate
<1>7. CASE matches
  <2>1. doc' = [doc EXCEPT ![l] = update]
    BY <1>5, <1>7 DEF FindOneAndUpdate
  <2>2. itemBar' = [itemBar EXCEPT ![l] = ItemOf(update)]
    BY <1>1, <2>1 DEF itemBar, TypeOK
  <2>3. \E x \in {Bumping, Done("ok")} : req' = [req EXCEPT ![r] = x]
    BY <1>5, <1>7 DEF FindOneAndUpdate
  <2>4. CallOf(Bumping) = Contract!Decided("honoured") /\ CallOf(Done("ok")) = Contract!Decided("honoured")
    BY DEF CallOf, Bumping, Done, Contract!Decided
  <2>5. callBar' = [callBar EXCEPT ![r] = Contract!Decided("honoured")]
    BY <2>3, <2>4 DEF callBar, TypeOK
  <2>6. QED
    BY <1>3, <1>4, <1>5, <1>6, <1>7, <2>2, <2>5 DEF Contract!Decide
<1>8. CASE ~matches
  <2>1. doc' = doc /\ req' = [req EXCEPT ![r] = Done("conflict")]
    BY <1>5, <1>8 DEF FindOneAndUpdate
  <2>2. itemBar' = itemBar
    BY <2>1 DEF itemBar
  <2>3. CallOf(Done("conflict")) = Contract!Decided("refused")
    BY DEF CallOf, Done, Contract!Decided
  <2>4. callBar' = [callBar EXCEPT ![r] = Contract!Decided("refused")]
    BY <2>1, <2>3 DEF callBar, TypeOK
  <2>5. QED
    BY <1>3, <1>4, <1>5, <1>6, <1>8, <2>2, <2>4 DEF Contract!Decide
<1>9. QED
  BY <1>7, <1>8

\* What the first read refuses, the contract would refuse at that instant.
LEMMA ReadArrives ==
    ASSUME TypeOK, StatusAgrees, NEW r \in Requests, Receive(r)
    PROVE  Contract!Arrive(r)
<1>1. PICK op \in Ops, actor \in Users, l \in Listings, buyer \in Users \cup {NoOne} :
         req' = [req EXCEPT ![r] = AfterRead(op, actor, l, buyer)]
  BY DEF Receive
<1> DEFINE c == [outcome |-> "pending", op |-> op, actor |-> actor, lst |-> l, buyer |-> buyer,
                 at |-> IF op \in {"reserve", "confirm"} THEN now ELSE 0]
           res == FastPath(doc[l], op, actor, l)
<1>2. callBar[r] = Contract!NoCall
  BY DEF Receive, callBar, CallOf, Idle, Contract!NoCall
<1>3. callBar' = [callBar EXCEPT ![r] = CallOf(AfterRead(op, actor, l, buyer))]
  BY <1>1 DEF callBar, TypeOK
<1>4. now' = now /\ itemBar' = itemBar
  BY DEF Receive, itemBar
<1>5. CASE res = "none"
  <2>1. CallOf(AfterRead(op, actor, l, buyer)) = c
    BY <1>5 DEF AfterRead, CallOf, Timed
  <2>2. callBar' = [callBar EXCEPT ![r] = c]
    BY <1>3, <2>1
  <2>3. QED
    BY <1>2, <1>4, <2>2 DEF Contract!Arrive, Ops
<1>6. CASE res # "none"
  <2>1. res \in {"notFound", "forbidden"}
    BY <1>6 DEF FastPath
  <2>2. CallOf(AfterRead(op, actor, l, buyer)) = Contract!Decided("refused")
    BY <2>1 DEF AfterRead, CallOf, Done, Contract!Decided
  <2>3. ~Contract!Honours(itemBar[l], c)
    <3>1. itemBar[l] = ItemOf(doc[l]) /\ doc[l] \in ListingDoc /\ BlockAgrees(doc[l], l)
      BY DEF itemBar, TypeOK, StatusAgrees
    <3>2. CASE doc[l].status = "NONE"
      <4>1. ItemOf(doc[l]).phase = "unlisted"
        BY <3>2 DEF ItemOf, PhaseOf
      <4>2. QED
        BY <3>1, <4>1 DEF Contract!Honours, Contract!FreeAt
    <3>3. CASE op \in {"publish", "confirm", "remove"} /\ actor # Seller[l]
      BY <3>3 DEF Contract!Honours
    <3>4. CASE op = "cancel" /\ actor \notin {Seller[l], doc[l].reservedBy}
      <4>1. ItemOf(doc[l]).phase = "held" => ItemOf(doc[l]).holder = doc[l].reservedBy
        BY <3>1 DEF ItemOf, PhaseOf, ListingDoc, Statuses
      <4>2. QED
        BY <3>1, <3>4, <4>1 DEF Contract!Honours
    <3>5. QED
      BY <1>6, <3>2, <3>3, <3>4 DEF FastPath
  <2>4. callBar' = [callBar EXCEPT ![r] = Contract!Decided("refused")]
    BY <1>3, <2>2
  <2>5. QED
    BY <1>2, <1>4, <2>3, <2>4 DEF Contract!Arrive, Ops
<1>7. QED
  BY <1>5, <1>6

\* Every step of the handlers is a step of the contract or leaves it alone.
LEMMA StepImplements ==
    TypeOK /\ StatusAgrees /\ TimesPast /\ [Next]_vars
        => [Contract!ContractNext]_(Contract!contractVars)
<1> SUFFICES ASSUME TypeOK, StatusAgrees, TimesPast, [Next]_vars
             PROVE  Contract!ContractNext \/ UNCHANGED Contract!contractVars
  OBVIOUS
<1> USE DEF Contract!contractVars
<1>1. ASSUME NEW l \in Listings, Create(l)
      PROVE  Contract!Draft(l)
  <2> DEFINE d == [doc[l] EXCEPT !.status = "DRAFT"]
  <2>1. doc[l] \in ListingDoc /\ doc' = [doc EXCEPT ![l] = d] /\ doc[l].status = "NONE"
    BY <1>1 DEF Create, TypeOK
  <2>2. ItemOf(doc[l]).phase = "unlisted" /\ ItemOf(d) = [ItemOf(doc[l]) EXCEPT !.phase = "draft"]
    BY <2>1 DEF ItemOf, PhaseOf, ListingDoc
  <2>3. itemBar' = [itemBar EXCEPT ![l] = ItemOf(d)] /\ itemBar[l] = ItemOf(doc[l])
    BY <2>1 DEF itemBar, TypeOK
  <2>4. itemBar' = [itemBar EXCEPT ![l].phase = "draft"]
    BY <2>2, <2>3
  <2>5. QED
    BY <1>1, <2>2, <2>3, <2>4 DEF Contract!Draft, Create, callBar
<1>2. ASSUME NEW r \in Requests, Bump(r) \/ BumpFails(r)
      PROVE  UNCHANGED Contract!contractVars
  <2>1. \E x \in {Done("ok"), Done("error")} :
           req[r] = Bumping /\ req' = [req EXCEPT ![r] = x] /\ UNCHANGED <<now, doc>>
    BY <1>2 DEF Bump, BumpFails
  <2>2. /\ CallOf(Bumping) = Contract!Decided("honoured")
        /\ CallOf(Done("ok")) = Contract!Decided("honoured")
        /\ CallOf(Done("error")) = Contract!Decided("honoured")
    BY DEF CallOf, Bumping, Done, Contract!Decided
  <2>3. callBar' = callBar
    BY <2>1, <2>2 DEF callBar, TypeOK
  <2>4. QED
    BY <2>1, <2>3 DEF itemBar
<1>3. ASSUME NEW r \in Requests, Reply(r)
      PROVE  Contract!Return(r)
  <2>1. req[r] \in {Done(res) : res \in Replies} /\ req' = [req EXCEPT ![r] = Idle]
    BY <1>3 DEF Reply, TypeOK, Request, Pending, Idle, Bumping
  <2>2. CallOf(req[r]).outcome \in {"honoured", "refused"} /\ CallOf(Idle) = Contract!NoCall
    BY <2>1 DEF CallOf, Done, Idle, Contract!NoCall
  <2>3. callBar[r] = CallOf(req[r]) /\ callBar' = [callBar EXCEPT ![r] = CallOf(Idle)]
    BY <2>1 DEF callBar, TypeOK
  <2>4. QED
    BY <1>3, <2>2, <2>3 DEF Contract!Return, Reply, itemBar
<1>4. ASSUME NEW l \in Listings, SweepOne(l)
      PROVE  Contract!Release(l) \/ UNCHANGED Contract!contractVars
  <2>1. CASE ~ExpiredAt(doc[l], sweep.at)
    BY <1>4, <2>1 DEF SweepOne, itemBar, callBar
  <2>2. CASE ExpiredAt(doc[l], sweep.at)
    <3>1. doc[l] \in ListingDoc /\ sweep.at \in Nat /\ now \in Nat /\ sweep.at <= now
      BY DEF TypeOK, TimesPast, SweepRun
    <3>2. doc' = [doc EXCEPT ![l] = Released(doc[l])] /\ UNCHANGED <<now, req>>
      BY <1>4, <2>2 DEF SweepOne
    <3>3. /\ ItemOf(doc[l]).phase = "held"
          /\ ItemOf(doc[l]).until = doc[l].expiresAt
          /\ doc[l].expiresAt \in Nat /\ doc[l].expiresAt < sweep.at
      BY <2>2, <3>1 DEF ExpiredAt, Lapsed, ItemOf, PhaseOf, ListingDoc
    <3>4. ItemOf(Released(doc[l])) = Contract!Vacated(ItemOf(doc[l]), "open")
      BY <3>1, ReleaseVacates
    <3>5. itemBar[l] = ItemOf(doc[l]) /\ itemBar' = [itemBar EXCEPT ![l] = ItemOf(Released(doc[l]))]
      BY <3>2 DEF itemBar, TypeOK
    <3>6. itemBar' = [itemBar EXCEPT ![l] = Contract!Vacated(itemBar[l], "open")]
      BY <3>4, <3>5
    <3>7. itemBar[l].until < now
      BY <3>1, <3>3, <3>5
    <3>8. QED
      BY <3>2, <3>3, <3>5, <3>6, <3>7 DEF Contract!Release, callBar
  <2>3. QED
    BY <2>1, <2>2
<1>5. CASE ApiCrash
  <2>1. CallOf(Idle) = Contract!NoCall
    BY DEF CallOf, Idle, Contract!NoCall
  <2>2. callBar' = [r \in Requests |-> Contract!NoCall]
    BY <1>5, <2>1 DEF ApiCrash, callBar
  <2>3. Contract!HangUp
    BY <1>5, <2>2 DEF ApiCrash, Contract!HangUp, itemBar
  <2>4. QED
    BY <2>3 DEF Contract!ContractNext
<1>6. CASE Tick
  <2>1. Contract!Advance
    BY <1>6 DEF Tick, Contract!Advance, itemBar, callBar
  <2>2. QED
    BY <2>1 DEF Contract!ContractNext
<1>7. CASE SweepStart \/ SweepEnd \/ WorkerCrash \/ RedisFails \/ RedisRecovers \/ UNCHANGED vars
  BY <1>7 DEF SweepStart, SweepEnd, WorkerCrash, RedisFails, RedisRecovers, vars, itemBar, callBar
<1>8. QED
  BY <1>1, <1>2, <1>3, <1>4, <1>5, <1>6, <1>7, ReadArrives, WriteDecides
     DEF Next, Contract!ContractNext

\* The handlers, with their stale first reads, the sweeper, crashes and Redis
\* outages, implement the contract: each call takes effect at one instant.
THEOREM Implementation == Spec => ImplementsContract
<1>1. Init => Contract!ContractInit
  <2>1. ItemOf(Absent) = Contract!Unlisted
    BY DEF ItemOf, Absent, PhaseOf, Contract!Unlisted
  <2>2. CallOf(Idle) = Contract!NoCall
    BY DEF CallOf, Idle, Contract!NoCall
  <2>3. QED
    BY <2>1, <2>2 DEF Init, itemBar, callBar, Contract!ContractInit
<1>2. QED
  BY <1>1, StepImplements, TypeCorrect, StatusCorrect, AlwaysTimesPast, PTL
     DEF Spec, ImplementsContract, Contract!ContractSpec
=============================================================================

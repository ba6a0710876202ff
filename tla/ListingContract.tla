--------------------------- MODULE ListingContract ---------------------------
(***************************************************************************)
(* What the listing endpoints promise to their callers, whatever the       *)
(* handlers do inside: every call takes effect at one instant between its  *)
(* arrival and its return, on the one physical item the listing stands     *)
(* for, and it is judged by the time it arrived.  Handlers, fast-path      *)
(* reads, the feed cache, Redis and the sweeper's bookkeeping do not       *)
(* appear here; ListingLifecycle is shown to implement this module.        *)
(***************************************************************************)
EXTENDS Naturals

CONSTANTS
    Users,       \* sellers and buyers
    Listings,    \* listing ids
    Requests,    \* slots for calls in flight
    Seller,      \* the owner of each listing
    TTL,         \* length of a reservation, in ticks
    MaxTime,     \* bound on the clock
    NoOne,       \* "null" for a user
    NoTime       \* "null" for a date

VARIABLES
    now,         \* the clock
    item,        \* [Listings -> state of the physical item]
    call         \* [Requests -> the call in the slot]

\* A slot without a call, and with a call that is decided but not returned.
NoCall           == [outcome |-> "none"]
Decided(outcome) == [outcome |-> outcome]

contractVars == <<now, item, call>>

Unlisted == [phase |-> "unlisted", holder |-> NoOne, until |-> NoTime, owner |-> NoOne]

ContractInit ==
    /\ now = 0
    /\ item = [l \in Listings |-> Unlisted]
    /\ call = [r \in Requests |-> NoCall]

\* The item is free to be claimed at time t: on offer, or held past its time.
FreeAt(i, t) == i.phase = "open" \/ (i.phase = "held" /\ i.until < t)

\* The call c, timed at c.at, is one the item in state i can honour.
Honours(i, c) ==
    \/ c.op = "publish" /\ c.actor = Seller[c.lst] /\ i.phase = "draft"
    \/ c.op = "reserve" /\ c.actor # Seller[c.lst] /\ FreeAt(i, c.at)
    \/ c.op = "cancel"  /\ c.actor \in {Seller[c.lst], i.holder} /\ i.phase = "held"
    \/ /\ c.op = "confirm" /\ c.actor = Seller[c.lst]
       /\ i.phase = "held" /\ i.holder = c.buyer /\ c.at < i.until
    \/ c.op = "remove"  /\ c.actor = Seller[c.lst] /\ i.phase \notin {"unlisted", "removed"}

\* The item moves to another phase with nobody holding it.
Vacated(i, phase) ==
    [phase |-> phase, holder |-> NoOne, until |-> NoTime, owner |-> i.owner]

\* What honouring it makes of the item.
Honoured(i, c) ==
    CASE c.op \in {"publish", "cancel"} -> Vacated(i, "open")
      [] c.op = "reserve" -> [i EXCEPT !.phase = "held", !.holder = c.actor, !.until = c.at + TTL]
      [] c.op = "confirm" -> Vacated([i EXCEPT !.owner = c.buyer], "sold")
      [] c.op = "remove"  -> Vacated(i, "removed")

\* A seller drafts a listing.
Draft(l) ==
    /\ item[l].phase = "unlisted"
    /\ item' = [item EXCEPT ![l].phase = "draft"]
    /\ UNCHANGED <<now, call>>

\* A call arrives, and is timed if it is a claim or a sale; it may be turned
\* down on the spot, if the item cannot honour it.
Arrive(r) ==
    /\ call[r] = NoCall
    /\ \E op \in {"publish", "reserve", "cancel", "confirm", "remove"},
          actor \in Users, l \in Listings, buyer \in Users \cup {NoOne} :
          LET c == [outcome |-> "pending", op |-> op, actor |-> actor, lst |-> l, buyer |-> buyer,
                    at |-> IF op \in {"reserve", "confirm"} THEN now ELSE 0]
          IN  \/ call' = [call EXCEPT ![r] = c]
              \/ ~Honours(item[l], c) /\ call' = [call EXCEPT ![r] = Decided("refused")]
    /\ UNCHANGED <<now, item>>

\* The single instant at which a pending call is honoured or refused.
Decide(r) ==
    /\ call[r].outcome = "pending"
    /\ LET c == call[r]
       IN  IF Honours(item[c.lst], c)
           THEN /\ item' = [item EXCEPT ![c.lst] = Honoured(item[c.lst], c)]
                /\ call' = [call EXCEPT ![r] = Decided("honoured")]
           ELSE /\ call' = [call EXCEPT ![r] = Decided("refused")]
                /\ UNCHANGED item
    /\ UNCHANGED now

\* A decided call returns; or the server dies and every caller loses its answer.
Return(r) ==
    /\ call[r].outcome \in {"honoured", "refused"}
    /\ call' = [call EXCEPT ![r] = NoCall]
    /\ UNCHANGED <<now, item>>

HangUp ==
    /\ call' = [r \in Requests |-> NoCall]
    /\ UNCHANGED <<now, item>>

\* A hold that has run out may be released at any later moment.
Release(l) ==
    /\ item[l].phase = "held"
    /\ item[l].until < now
    /\ item' = [item EXCEPT ![l] = Vacated(item[l], "open")]
    /\ UNCHANGED <<now, call>>

Advance ==
    /\ now < MaxTime
    /\ now' = now + 1
    /\ UNCHANGED <<item, call>>

ContractNext ==
    \/ \E l \in Listings : Draft(l) \/ Release(l)
    \/ \E r \in Requests : Arrive(r) \/ Decide(r) \/ Return(r)
    \/ HangUp
    \/ Advance

ContractSpec == ContractInit /\ [][ContractNext]_contractVars
=============================================================================

-------------------------- MODULE ListingPageProofs --------------------------
(***************************************************************************)
(* Theorems about ListingPage, for every set of users and of pages, every  *)
(* length of a reservation and any number of actions on other pages.       *)
(***************************************************************************)
EXTENDS ListingPage, TLAPS

-----------------------------------------------------------------------------
(* Items.                                                                  *)

LEMMA VacatedItem ==
    ASSUME NEW i \in Item, NEW phase \in Phases
    PROVE  /\ Vacated(i, phase) \in Item
           /\ Vacated(i, phase).phase = phase /\ Vacated(i, phase).holder = NoOne
           /\ Vacated(i, phase).owner = i.owner
BY DEF Vacated, Item

\* A call that is honoured may hand the listing over, to its buyer if it is a
\* sale and to nobody otherwise.
LEMMA HonouredItem ==
    ASSUME NEW i \in Item, NEW c, c.op \in {"publish", "reserve", "cancel", "confirm", "remove"},
           c.op = "reserve" => c.actor \in Users /\ c.at \in Nat,
           c.op = "confirm" => c.buyer \in Users \cup {NoOne}
    PROVE  /\ Honoured(i, c) \in Item
           /\ Honoured(i, c).phase = "held" => Honoured(i, c).holder \in Users
           /\ Honoured(i, c).owner = IF c.op = "confirm" THEN c.buyer ELSE i.owner
<1>1. TTL \in Nat
  BY PageAssumption DEF PageAssumption
<1>2. CASE c.op \in {"publish", "cancel", "remove"}
  <2>1. \E phase \in {"open", "removed"} : Honoured(i, c) = Vacated(i, phase)
    BY <1>2 DEF Honoured
  <2>2. QED
    BY <1>2, <2>1, VacatedItem DEF Phases
<1>3. CASE c.op = "reserve"
  <2>1. Honoured(i, c) = [i EXCEPT !.phase = "held", !.holder = c.actor, !.until = c.at + TTL]
    BY <1>3 DEF Honoured
  <2>2. c.at + TTL \in Nat
    BY <1>1, <1>3
  <2>3. QED
    BY <1>3, <2>1, <2>2 DEF Item, Phases
<1>4. CASE c.op = "confirm"
  <2> DEFINE j == [i EXCEPT !.owner = c.buyer]
  <2>1. Honoured(i, c) = Vacated(j, "sold")
    BY <1>4 DEF Honoured
  <2>2. j \in Item /\ j.owner = c.buyer
    BY <1>4 DEF Item
  <2> HIDE DEF j
  <2>3. QED
    BY <1>4, <2>1, <2>2, VacatedItem DEF Phases
<1>5. QED
  BY <1>2, <1>3, <1>4

-----------------------------------------------------------------------------
(* What each step changes.                                                 *)

\* The types of what a page shows and fetches.
LEMMA ViewsTyped ==
    /\ Loading \in Views /\ [Loading EXCEPT !.state = "error"] \in Views
    /\ \A i \in Item : PublicListing(i) \in Views
    /\ \A d \in Views : Found(d) \in Fetches
    /\ NoFetch \in Fetches /\ Asked \in Fetches /\ Failed \in Fetches
    /\ NoCall \in Calls /\ Decided("honoured") \in Calls /\ Decided("refused") \in Calls
<1>1. Loading \in Views /\ [Loading EXCEPT !.state = "error"] \in Views
  BY DEF Loading, Views, Phases
<1>2. \A i \in Item : PublicListing(i) \in Views
  BY DEF PublicListing, Views, Item
<1>3. \A d \in Views : Found(d) \in Fetches
  BY DEF Found, Fetches
<1>4. QED
  BY <1>1, <1>2, <1>3 DEF Fetches, Calls

LEMMA FetchFields ==
    ASSUME NEW f \in Fetches
    PROVE  /\ f.step = "found" => f.data \in Views /\ f.old \in BOOLEAN
           /\ f.step \in {"none", "asked", "failed", "found"}
           /\ f.step = "none" <=> f = NoFetch
           /\ f.step = "asked" <=> f = Asked
<1>1. f \in {NoFetch, Asked, Failed} \/ f \in [step : {"found"}, data : Views, old : BOOLEAN]
  BY DEF Fetches
<1>2. NoFetch.step = "none" /\ Asked.step = "asked" /\ Failed.step = "failed"
  BY DEF NoFetch, Asked, Failed
<1>3. QED
  BY <1>1, <1>2

LEMMA CallFields ==
    ASSUME NEW c \in Calls
    PROVE  /\ c.outcome = "pending" =>
                /\ c.op \in {"publish", "reserve", "cancel", "confirm", "remove"}
                /\ c.actor \in Users /\ c.lst = TheListing /\ c.at \in Nat
                /\ c.buyer \in Users \cup {NoOne}
           /\ c.outcome \in {"none", "honoured", "refused", "pending"}
           /\ c.outcome = "none" <=> c = NoCall
<1> DEFINE Pending == [outcome : {"pending"}, op : {"publish", "reserve", "cancel", "confirm", "remove"},
                       actor : Users, lst : {TheListing}, buyer : Users \cup {NoOne}, at : Nat]
<1>1. c \in {NoCall, Decided("honoured"), Decided("refused")} \/ c \in Pending
  BY DEF Calls
<1>2. NoCall.outcome = "none" /\ Decided("honoured").outcome = "honoured" /\ Decided("refused").outcome = "refused"
  BY DEF NoCall, Decided
<1>3. QED
  BY <1>1, <1>2

\* Fetching.
LEMMA FetchChanges ==
    ASSUME TypeOK, NEW p \in Pages, StartFetch(p) \/ Serve(p)
    PROVE  \E f \in Fetches :
            /\ fetch' = [fetch EXCEPT ![p] = f]
            /\ f.step \in {"asked", "failed"} \/ f = Found(PublicListing(TheItem))
            /\ UNCHANGED <<contractVars, shown, pressed, behind, named, chatVars, viewer, others>>
<1>1. TheItem \in Item
  BY PageAssumption DEF TheItem, TypeOK, PageAssumption
<1>2. Asked.step = "asked" /\ Failed.step = "failed"
  BY DEF Asked, Failed
<1>3. CASE StartFetch(p)
  BY <1>2, <1>3, ViewsTyped DEF StartFetch
<1>4. CASE Serve(p)
  BY <1>1, <1>2, <1>4, ViewsTyped DEF Serve
<1>5. QED
  BY <1>3, <1>4

\* A page shows something else.
LEMMA ShowChanges ==
    ASSUME TypeOK, NEW p \in Pages, NEW d \in Views,
           d.state = "success" /\ d.phase = "held" => d.holder \in Users, Show(p, d)
    PROVE  /\ shown' \in [Pages -> Views] /\ shown'[p] = d
           /\ \A q \in Pages \ {p} : shown'[q] = shown[q]
           /\ named \subseteq named' /\ named' \subseteq Users
           /\ OwnsIt(p) /\ d.state = "success" /\ d.phase = "held" => d.holder \in named'
BY DEF Show, TypeOK

\* The answer to a GET arrives.
LEMMA LandChanges ==
    ASSUME TypeOK, HeldByUsers, NEW p \in Pages, Land(p)
    PROVE  /\ \E d \in Views :
                /\ Show(p, d)
                /\ d.state = "success" /\ d.phase = "held" => d.holder \in Users
                /\ \/ /\ fetch[p].step = "found" /\ d = fetch[p].data
                      /\ behind' = IF fetch[p].old THEN behind \cup {p} ELSE behind \ {p}
                   \/ fetch[p].step # "found" /\ d.state = "error" /\ UNCHANGED behind
           /\ fetch' = [fetch EXCEPT ![p] = NoFetch]
           /\ UNCHANGED <<contractVars, pressed, chatVars, viewer, others>>
<1>1. fetch[p] \in Fetches
  BY DEF TypeOK
<1>2. fetch' = [fetch EXCEPT ![p] = NoFetch] /\ UNCHANGED <<contractVars, pressed, chatVars, viewer, others>>
  BY DEF Land
<1>3. CASE /\ fetch[p].step = "found" /\ Show(p, fetch[p].data)
           /\ behind' = IF fetch[p].old THEN behind \cup {p} ELSE behind \ {p}
  BY <1>1, <1>2, <1>3, FetchFields DEF HeldByUsers
<1>4. CASE /\ fetch[p].step \in {"asked", "failed"}
           /\ Show(p, [Loading EXCEPT !.state = "error"]) /\ UNCHANGED behind
  <2>1. [Loading EXCEPT !.state = "error"].state = "error"
    BY DEF Loading
  <2>2. QED
    BY <1>2, <1>4, <2>1, ViewsTyped
<1>5. QED
  BY <1>3, <1>4 DEF Land

\* A button.
Presses(p) ==
    \/ HandleReserve(p) \/ HandleCancel(p) \/ HandleConfirmSale(p)
    \/ HandlePublish(p) \/ HandleDelete(p)

LEMMA PressChanges ==
    ASSUME TypeOK, NEW p \in Pages, Presses(p)
    PROVE  \E c \in Calls :
            /\ call' = [call EXCEPT ![p] = c] /\ call[p] = NoCall
            /\ c.outcome \in {"pending", "refused"}
            /\ c.outcome = "pending" /\ c.op = "confirm" =>
                Shows(p) /\ OwnsIt(p) /\ shown[p].phase = "held" /\ c.buyer = shown[p].holder
            /\ \E op \in {"publish", "reserve", "cancel", "confirm", "remove"} :
                pressed' = [pressed EXCEPT ![p] = op]
            /\ UNCHANGED <<now, item, shown, fetch, behind, named, chatVars, viewer, others>>
<1>1. PICK op \in {"publish", "reserve", "cancel", "confirm", "remove"}, buyer \in Users \cup {NoOne} :
        /\ Press(p, op, buyer)
        /\ op = "confirm" => OffersConfirm(p) /\ buyer = shown[p].holder
  <2>1. shown[p].holder \in Users \cup {NoOne}
    BY DEF TypeOK, Views
  <2>2. CASE HandleConfirmSale(p)
    BY <2>1, <2>2 DEF HandleConfirmSale
  <2>3. CASE HandleReserve(p)
    BY <2>3 DEF HandleReserve
  <2>4. CASE HandleCancel(p)
    BY <2>4 DEF HandleCancel
  <2>5. CASE HandlePublish(p)
    BY <2>5 DEF HandlePublish
  <2>6. CASE HandleDelete(p)
    BY <2>6 DEF HandleDelete
  <2>7. QED
    BY <2>2, <2>3, <2>4, <2>5, <2>6 DEF Presses
<1> DEFINE c == [outcome |-> "pending", op |-> op, actor |-> viewer[p], lst |-> TheListing,
                 buyer |-> buyer, at |-> IF op \in {"reserve", "confirm"} THEN now ELSE 0]
<1>2. (IF op \in {"reserve", "confirm"} THEN now ELSE 0) \in Nat /\ viewer[p] \in Users
  BY DEF TypeOK
<1>3. c \in Calls /\ c.outcome = "pending" /\ c.op = op /\ c.buyer = buyer
  BY <1>2 DEF Calls
<1>4. /\ call[p] = NoCall /\ Shows(p)
      /\ call' = [call EXCEPT ![p] = c] \/ call' = [call EXCEPT ![p] = Decided("refused")]
      /\ pressed' = [pressed EXCEPT ![p] = op]
      /\ UNCHANGED <<now, item, shown, fetch, behind, named, chatVars, viewer, others>>
  BY <1>1 DEF Press
<1> HIDE DEF c
<1>5. Decided("refused").outcome = "refused" /\ Decided("refused") \in Calls
  BY ViewsTyped DEF Decided
<1>6. CASE call' = [call EXCEPT ![p] = c]
  BY <1>1, <1>3, <1>4, <1>6 DEF OffersConfirm
<1>7. CASE call' = [call EXCEPT ![p] = Decided("refused")]
  BY <1>4, <1>5, <1>7
<1>8. QED
  BY <1>4, <1>6, <1>7

\* The instant of a call.
LEMMA ExecuteChanges ==
    ASSUME TypeOK, NEW p \in Pages, Execute(p)
    PROVE  /\ call[p].outcome = "pending" /\ UNCHANGED now
           /\ \E outcome \in {"honoured", "refused"} :
                /\ call' = [call EXCEPT ![p] = Decided(outcome)]
                /\ \/ outcome = "refused" /\ UNCHANGED item
                   \/ /\ outcome = "honoured"
                      /\ item' = [item EXCEPT ![TheListing] = Honoured(item[TheListing], call[p])]
                /\ \/ /\ OfPanel(p) /\ outcome = "honoured" /\ behind' = behind \cup {p}
                      /\ fetch' = IF fetch[p].step = "found"
                                  THEN [fetch EXCEPT ![p].old = TRUE] ELSE fetch
                   \/ ~(OfPanel(p) /\ outcome = "honoured") /\ UNCHANGED <<behind, fetch>>
           /\ UNCHANGED <<shown, pressed, named, chatVars, viewer, others>>
<1>1. call[p] \in Calls /\ call \in [Pages -> Calls] /\ call[p].outcome = "pending" /\ Pages = Requests
  BY DEF TypeOK, Execute, Decide, Pages
<1>2. call[p].lst = TheListing
  BY <1>1, CallFields
<1>3. PICK outcome \in {"honoured", "refused"} :
        /\ call' = [call EXCEPT ![p] = Decided(outcome)]
        /\ \/ outcome = "refused" /\ UNCHANGED item
           \/ /\ outcome = "honoured"
              /\ item' = [item EXCEPT ![TheListing] = Honoured(item[TheListing], call[p])]
  <2>1. CASE Honours(item[TheListing], call[p])
    BY <1>2, <2>1 DEF Execute, Decide
  <2>2. CASE ~Honours(item[TheListing], call[p])
    BY <1>2, <2>2 DEF Execute, Decide
  <2>3. QED
    BY <2>1, <2>2
<1>4. call'[p].outcome = outcome
  BY <1>1, <1>3 DEF Decided
<1>5. UNCHANGED now /\ UNCHANGED <<shown, pressed, named, chatVars, viewer, others>>
  BY DEF Execute, Decide
<1>6. \/ /\ OfPanel(p) /\ outcome = "honoured" /\ behind' = behind \cup {p}
         /\ fetch' = IF fetch[p].step = "found"
                     THEN [fetch EXCEPT ![p].old = TRUE] ELSE fetch
      \/ ~(OfPanel(p) /\ outcome = "honoured") /\ UNCHANGED <<behind, fetch>>
  BY <1>4 DEF Execute
<1>7. QED
  BY <1>1, <1>3, <1>5, <1>6

\* The answer of the panel's call.
LEMMA AnswerPanelChanges ==
    ASSUME NEW p \in Pages, AnswerPanel(p)
    PROVE  /\ OfPanel(p) /\ call[p].outcome \in {"honoured", "refused"}
           /\ call' = [call EXCEPT ![p] = NoCall]
           /\ pressed' = [pressed EXCEPT ![p] = "none"]
           /\ \/ fetch' = [fetch EXCEPT ![p] = Asked]
              \/ call[p].outcome = "refused" /\ UNCHANGED fetch
           /\ UNCHANGED <<now, item, shown, behind, named, chatVars, viewer, others>>
BY DEF AnswerPanel, Return, Refetch

\* The answer of publish or delete.
LEMMA AnswerDetailChanges ==
    ASSUME TypeOK, NEW p \in Pages, AnswerDetail(p)
    PROVE  /\ ~OfPanel(p) /\ call[p].outcome \in {"honoured", "refused"}
           /\ call' = [call EXCEPT ![p] = NoCall]
           /\ pressed' = [pressed EXCEPT ![p] = "none"]
           /\ \/ /\ \E d \in Views : d.phase # "held" /\ Show(p, d)
                 /\ behind' = behind \ {p}
              \/ UNCHANGED <<shown, named, behind>>
           /\ UNCHANGED <<now, item, fetch, chatVars, viewer, others>>
<1> DEFINE phase == IF pressed[p] = "publish" THEN "open" ELSE "removed"
           d == PublicListing(Vacated(TheItem, phase))
<1>1. TheItem \in Item
  BY PageAssumption DEF TheItem, TypeOK, PageAssumption
<1>2. phase \in Phases /\ phase # "held"
  BY DEF Phases
<1>3. \/ Show(p, d) /\ behind' = behind \ {p}
      \/ UNCHANGED <<shown, named, behind>>
  BY DEF AnswerDetail
<1>4. /\ ~OfPanel(p) /\ call[p].outcome \in {"honoured", "refused"}
      /\ call' = [call EXCEPT ![p] = NoCall]
      /\ pressed' = [pressed EXCEPT ![p] = "none"]
      /\ UNCHANGED <<now, item, fetch, chatVars, viewer, others>>
  BY DEF AnswerDetail, Return
<1> HIDE DEF phase
<1>5. Vacated(TheItem, phase) \in Item /\ Vacated(TheItem, phase).phase = phase
  BY <1>1, <1>2, VacatedItem
<1>6. d \in Views /\ d.phase # "held"
  BY <1>2, <1>5, ViewsTyped DEF PublicListing
<1> HIDE DEF d
<1>7. QED
  BY <1>3, <1>4, <1>6

LEMMA ApiDiesChanges ==
    ASSUME ApiDies
    PROVE  /\ call' = [p \in Pages |-> NoCall]
           /\ pressed' = [p \in Pages |-> "none"]
           /\ behind' = {p \in behind : fetch[p] # NoFetch}
           /\ fetch' = [p \in Pages |-> IF fetch[p] = NoFetch THEN NoFetch ELSE Failed]
           /\ UNCHANGED <<now, item, shown, named, chatVars, viewer, others>>
BY DEF ApiDies, HangUp, Pages

\* "Message seller".
LEMMA ChatChanges ==
    ASSUME TypeOK, NEW p \in Pages, FindConversation(p) \/ InsertConversation(p)
    PROVE  /\ chats' \in [Users -> 0..1]
           /\ \E a \in [step : {"none", "missed", "opened"}, chat : 0..1] :
                ask' = [ask EXCEPT ![p] = a] /\ (a.step = "opened" => a.chat = 1)
           /\ UNCHANGED <<contractVars, pageVars, viewer, others>>
<1>1. viewer[p] \in Users /\ chats \in [Users -> 0..1]
  BY DEF TypeOK
<1> DEFINE Missed == [step |-> "missed", chat |-> 0]
           Opened == [step |-> "opened", chat |-> 1]
<1>2. /\ Missed \in [step : {"none", "missed", "opened"}, chat : 0..1] /\ Missed.step = "missed"
      /\ Opened \in [step : {"none", "missed", "opened"}, chat : 0..1] /\ Opened.chat = 1
  OBVIOUS
<1>3. CASE FindConversation(p)
  <2>1. UNCHANGED <<contractVars, pageVars, chats, viewer, others>>
    BY <1>3 DEF FindConversation
  <2>2. CASE chats[viewer[p]] = 0
    <3>1. ask' = [ask EXCEPT ![p] = Missed]
      BY <1>3, <2>2 DEF FindConversation, Ask
    <3>2. QED
      BY <1>1, <1>2, <2>1, <3>1
  <2>3. CASE chats[viewer[p]] # 0
    <3>1. chats[viewer[p]] = 1
      BY <1>1, <2>3
    <3>2. ask' = [ask EXCEPT ![p] = Opened]
      BY <1>3, <2>3, <3>1 DEF FindConversation, Ask
    <3>3. QED
      BY <1>1, <1>2, <2>1, <3>2
  <2>4. QED
    BY <2>2, <2>3
<1>4. CASE InsertConversation(p)
  <2>1. /\ chats' = [chats EXCEPT ![viewer[p]] = 1] /\ ask' = [ask EXCEPT ![p] = Opened]
        /\ UNCHANGED <<contractVars, pageVars, viewer, others>>
    BY <1>4 DEF InsertConversation, Ask
  <2>2. QED
    BY <1>1, <1>2, <2>1
<1>5. QED
  BY <1>3, <1>4

\* What other pages and time do to the listing: nothing that sells it.
LEMMA OthersChange ==
    ASSUME TypeOK, HeldByUsers, (\E u \in Users : OnOtherPage(u)) \/ Elsewhere
    PROVE  /\ now' \in Nat /\ item' \in [Listings -> Item] /\ others' \in 0..MaxOthers
           /\ \A l \in Listings :
                /\ item'[l].phase = "held" => item'[l].holder \in Users
                /\ item'[l].owner = item[l].owner
           /\ UNCHANGED <<call, pageVars, chatVars, viewer>>
<1>1. /\ now \in Nat /\ item \in [Listings -> Item] /\ others \in 0..MaxOthers
      /\ \A l \in Listings : item[l].phase = "held" => item[l].holder \in Users
      /\ TheListing \in Listings /\ MaxOthers \in Nat
  BY PageAssumption DEF TypeOK, HeldByUsers, PageAssumption
<1>2. ASSUME NEW l \in Listings, NEW i \in Item, i.phase = "held" => i.holder \in Users,
             i.owner = item[l].owner, item' = [item EXCEPT ![l] = i],
             UNCHANGED now, others' \in 0..MaxOthers, UNCHANGED <<call, pageVars, chatVars, viewer>>
      PROVE  /\ now' \in Nat /\ item' \in [Listings -> Item] /\ others' \in 0..MaxOthers
             /\ \A m \in Listings :
                  /\ item'[m].phase = "held" => item'[m].holder \in Users
                  /\ item'[m].owner = item[m].owner
             /\ UNCHANGED <<call, pageVars, chatVars, viewer>>
  BY <1>1, <1>2
<1>3. ASSUME NEW u \in Users, OnOtherPage(u)
      PROVE  /\ now' \in Nat /\ item' \in [Listings -> Item] /\ others' \in 0..MaxOthers
             /\ \A m \in Listings :
                  /\ item'[m].phase = "held" => item'[m].holder \in Users
                  /\ item'[m].owner = item[m].owner
             /\ UNCHANGED <<call, pageVars, chatVars, viewer>>
  <2>1. PICK op \in {"publish", "reserve", "cancel"} :
            item' = [item EXCEPT ![TheListing] =
                Honoured(TheItem, [op |-> op, actor |-> u, lst |-> TheListing, at |-> now])]
    BY <1>3 DEF OnOtherPage
  <2> DEFINE c == [op |-> op, actor |-> u, lst |-> TheListing, at |-> now]
             i == Honoured(TheItem, c)
  <2>2. /\ c.op = op /\ c.actor \in Users /\ c.at \in Nat /\ c.op # "confirm"
        /\ c.op \in {"publish", "reserve", "cancel", "confirm", "remove"} /\ TheItem \in Item
    BY <1>1 DEF TheItem
  <2> HIDE DEF c
  <2>3. i \in Item /\ (i.phase = "held" => i.holder \in Users) /\ i.owner = item[TheListing].owner
    BY <2>2, HonouredItem DEF TheItem
  <2>4. others' \in 0..MaxOthers /\ UNCHANGED now /\ UNCHANGED <<call, pageVars, chatVars, viewer>>
    BY <1>1, <1>3 DEF OnOtherPage
  <2>5. item' = [item EXCEPT ![TheListing] = i]
    BY <2>1 DEF c
  <2> HIDE DEF i
  <2>6. QED
    BY <1>1, <1>2, <2>3, <2>4, <2>5
<1>4. CASE Elsewhere
  <2>1. UNCHANGED <<pageVars, chatVars, viewer, others>>
    BY <1>4 DEF Elsewhere
  <2>2. CASE Draft(TheListing)
    <3> DEFINE i == [item[TheListing] EXCEPT !.phase = "draft"]
    <3>1. i \in Item /\ i.phase = "draft" /\ i.owner = item[TheListing].owner
      BY <1>1 DEF Item, Phases
    <3>2. item' = [item EXCEPT ![TheListing] = i] /\ UNCHANGED <<now, call>>
      BY <1>1, <2>2 DEF Draft
    <3> HIDE DEF i
    <3>3. QED
      BY <1>1, <1>2, <2>1, <3>1, <3>2
  <2>3. CASE Release(TheListing)
    <3> DEFINE i == Vacated(item[TheListing], "open")
    <3>1. i \in Item /\ i.phase = "open" /\ i.owner = item[TheListing].owner
      BY <1>1, VacatedItem DEF Phases
    <3>2. item' = [item EXCEPT ![TheListing] = i] /\ UNCHANGED <<now, call>>
      BY <2>3 DEF Release
    <3> HIDE DEF i
    <3>3. QED
      BY <1>1, <1>2, <2>1, <3>1, <3>2
  <2>4. CASE Advance
    <3>1. now' = now + 1 /\ UNCHANGED <<item, call>>
      BY <2>4 DEF Advance
    <3>2. QED
      BY <1>1, <2>1, <3>1
  <2>5. QED
    BY <1>4, <2>2, <2>3, <2>4 DEF Elsewhere
<1>5. QED
  BY <1>3, <1>4

-----------------------------------------------------------------------------
(* Types.                                                                  *)

LEMMA TypedStays == TypeOK /\ HeldByUsers /\ [Next]_vars => TypeOK' /\ HeldByUsers'
<1> SUFFICES ASSUME TypeOK, HeldByUsers, [Next]_vars
             PROVE  TypeOK' /\ HeldByUsers'
  OBVIOUS
<1> DEFINE Ops == {"none", "publish", "reserve", "cancel", "confirm", "remove"}
           Asking == [step : {"none", "missed", "opened"}, chat : 0..1]
           Data(f) == f.step = "found" /\ f.data.phase = "held" => f.data.holder \in Users
           Contract == /\ now \in Nat /\ item \in [Listings -> Item] /\ call \in [Pages -> Calls]
                       /\ \A l \in Listings : item[l].phase = "held" => item[l].holder \in Users
           Fetched == fetch \in [Pages -> Fetches] /\ \A p \in Pages : Data(fetch[p])
           Paged == /\ shown \in [Pages -> Views] /\ pressed \in [Pages -> Ops]
                    /\ behind \subseteq Pages /\ named \subseteq Users
           Rest == /\ viewer \in [Pages -> Users] /\ others \in 0..MaxOthers
                   /\ chats \in [Users -> 0..1] /\ ask \in [Pages -> Asking]
<1>1. Contract /\ Fetched /\ Paged /\ Rest
  BY DEF TypeOK, HeldByUsers
<1>2. SUFFICES Contract' /\ Fetched' /\ Paged' /\ Rest'
  BY DEF TypeOK, HeldByUsers
<1>3. /\ UNCHANGED contractVars => Contract'
      /\ UNCHANGED fetch => Fetched'
      /\ UNCHANGED <<shown, pressed, behind, named>> => Paged'
      /\ UNCHANGED <<chatVars, viewer, others>> => Rest'
  BY <1>1 DEF contractVars, chatVars
<1>4. /\ \A f \in Fetches, p \in Pages :
            fetch' = [fetch EXCEPT ![p] = f] /\ Data(f) => Fetched'
      /\ Data(NoFetch) /\ Data(Asked) /\ Data(Failed)
      /\ NoFetch \in Fetches /\ Asked \in Fetches /\ Failed \in Fetches
  BY <1>1, ViewsTyped DEF NoFetch, Asked, Failed
<1>5. /\ NoCall \in Calls /\ Decided("honoured") \in Calls /\ Decided("refused") \in Calls
      /\ TheListing \in Listings
  BY ViewsTyped, PageAssumption DEF PageAssumption
<1>6. ASSUME NEW p \in Pages, StartFetch(p) \/ Serve(p)
      PROVE  Contract' /\ Fetched' /\ Paged' /\ Rest'
  <2>1. PICK f \in Fetches :
            /\ fetch' = [fetch EXCEPT ![p] = f]
            /\ f.step \in {"asked", "failed"} \/ f = Found(PublicListing(TheItem))
            /\ UNCHANGED <<contractVars, shown, pressed, behind, named, chatVars, viewer, others>>
    BY <1>6, FetchChanges
  <2>2. Data(f)
    <3>1. CASE f.step \in {"asked", "failed"}
      BY <3>1
    <3>2. CASE f = Found(PublicListing(TheItem))
      <4>1. f.data.phase = TheItem.phase /\ f.data.holder = TheItem.holder
        BY <3>2 DEF Found, PublicListing
      <4>2. QED
        BY <1>1, <1>5, <4>1 DEF TheItem
    <3>3. QED
      BY <2>1, <3>1, <3>2
  <2> HIDE DEF Data
  <2>3. QED
    BY <1>3, <1>4, <2>1, <2>2
<1>7. ASSUME NEW p \in Pages, Land(p)
      PROVE  Contract' /\ Fetched' /\ Paged' /\ Rest'
  <2>1. PICK d \in Views :
            /\ Show(p, d)
            /\ d.state = "success" /\ d.phase = "held" => d.holder \in Users
            /\ behind' \in {behind, behind \cup {p}, behind \ {p}}
    BY <1>7, LandChanges
  <2>2. /\ fetch' = [fetch EXCEPT ![p] = NoFetch]
        /\ UNCHANGED <<contractVars, pressed, chatVars, viewer, others>>
    BY <1>7, LandChanges
  <2>3. shown' \in [Pages -> Views] /\ named' \subseteq Users
    BY <2>1, ShowChanges
  <2>4. Paged'
    BY <1>1, <2>1, <2>2, <2>3
  <2> HIDE DEF Data
  <2>5. QED
    BY <1>3, <1>4, <2>2, <2>4
<1>8. ASSUME NEW p \in Pages, Presses(p)
      PROVE  Contract' /\ Fetched' /\ Paged' /\ Rest'
  <2>1. PICK c \in Calls, op \in Ops :
            /\ call' = [call EXCEPT ![p] = c] /\ pressed' = [pressed EXCEPT ![p] = op]
            /\ UNCHANGED <<now, item, shown, fetch, behind, named, chatVars, viewer, others>>
    BY <1>8, PressChanges
  <2>2. Contract' /\ Paged'
    BY <1>1, <2>1
  <2>3. QED
    BY <1>3, <2>1, <2>2
<1>9. ASSUME NEW p \in Pages, Execute(p)
      PROVE  Contract' /\ Fetched' /\ Paged' /\ Rest'
  <2>1. PICK outcome \in {"honoured", "refused"} :
            /\ call' = [call EXCEPT ![p] = Decided(outcome)]
            /\ \/ UNCHANGED item
               \/ item' = [item EXCEPT ![TheListing] = Honoured(item[TheListing], call[p])]
            /\ \/ /\ behind' = behind \cup {p}
                  /\ fetch' = IF fetch[p].step = "found"
                              THEN [fetch EXCEPT ![p].old = TRUE] ELSE fetch
               \/ UNCHANGED <<behind, fetch>>
    BY <1>9, ExecuteChanges
  <2>2. UNCHANGED <<shown, pressed, named, chatVars, viewer, others>> /\ UNCHANGED now
        /\ call[p].outcome = "pending" /\ call[p] \in Calls
    BY <1>1, <1>9, ExecuteChanges
  <2>3. /\ Honoured(item[TheListing], call[p]) \in Item
        /\ Honoured(item[TheListing], call[p]).phase = "held" =>
            Honoured(item[TheListing], call[p]).holder \in Users
    BY <1>1, <1>5, <2>2, CallFields, HonouredItem
  <2>4. Contract'
    BY <1>1, <1>5, <2>1, <2>2, <2>3
  <2>5. Fetched'
    <3>1. CASE UNCHANGED fetch
      BY <1>3, <3>1
    <3>2. CASE fetch[p].step = "found" /\ fetch' = [fetch EXCEPT ![p].old = TRUE]
      <4> DEFINE f == [fetch[p] EXCEPT !.old = TRUE]
      <4>1. fetch[p] \in [step : {"found"}, data : Views, old : BOOLEAN]
        BY <1>1, <3>2 DEF Fetches, NoFetch, Asked, Failed
      <4>2. f \in Fetches /\ f.data = fetch[p].data /\ f.step = "found"
        BY <4>1 DEF Fetches
      <4>3. fetch' = [fetch EXCEPT ![p] = f]
        BY <1>1, <3>2
      <4>4. Data(f)
        BY <1>1, <3>2, <4>2
      <4> HIDE DEF f, Data
      <4>5. QED
        BY <1>4, <4>2, <4>3, <4>4
    <3>3. QED
      BY <2>1, <3>1, <3>2
  <2>6. QED
    BY <1>1, <1>3, <2>1, <2>2, <2>4, <2>5
<1>10. ASSUME NEW p \in Pages, AnswerPanel(p)
       PROVE  Contract' /\ Fetched' /\ Paged' /\ Rest'
  <2>1. /\ call' = [call EXCEPT ![p] = NoCall] /\ pressed' = [pressed EXCEPT ![p] = "none"]
        /\ fetch' = [fetch EXCEPT ![p] = Asked] \/ UNCHANGED fetch
        /\ UNCHANGED <<now, item, shown, behind, named, chatVars, viewer, others>>
    BY <1>10, AnswerPanelChanges
  <2>2. Contract' /\ Paged'
    BY <1>1, <1>5, <2>1
  <2> HIDE DEF Data
  <2>3. QED
    BY <1>3, <1>4, <2>1, <2>2
<1>11. ASSUME NEW p \in Pages, AnswerDetail(p)
       PROVE  Contract' /\ Fetched' /\ Paged' /\ Rest'
  <2>1. /\ call' = [call EXCEPT ![p] = NoCall] /\ pressed' = [pressed EXCEPT ![p] = "none"]
        /\ \/ (\E d \in Views : d.phase # "held" /\ Show(p, d)) /\ behind' = behind \ {p}
           \/ UNCHANGED <<shown, named, behind>>
        /\ UNCHANGED <<now, item, fetch, chatVars, viewer, others>>
    BY <1>11, AnswerDetailChanges
  <2>2. shown' \in [Pages -> Views] /\ named' \subseteq Users /\ behind' \subseteq Pages
    BY <1>1, <2>1, ShowChanges
  <2>3. Contract' /\ Paged'
    BY <1>1, <1>5, <2>1, <2>2
  <2>4. QED
    BY <1>3, <2>1, <2>3
<1>12. CASE ApiDies
  <2>1. /\ call' = [p \in Pages |-> NoCall] /\ pressed' = [p \in Pages |-> "none"]
        /\ behind' \subseteq behind
        /\ fetch' = [p \in Pages |-> IF fetch[p] = NoFetch THEN NoFetch ELSE Failed]
        /\ UNCHANGED <<now, item, shown, named, chatVars, viewer, others>>
    BY <1>12, ApiDiesChanges
  <2>2. Fetched'
    BY <1>4, <2>1
  <2>3. Contract' /\ Paged'
    BY <1>1, <1>5, <2>1
  <2>4. QED
    BY <1>3, <2>1, <2>2, <2>3
<1>13. ASSUME NEW p \in Pages, FindConversation(p) \/ InsertConversation(p)
       PROVE  Contract' /\ Fetched' /\ Paged' /\ Rest'
  <2>1. PICK a \in Asking : ask' = [ask EXCEPT ![p] = a]
    BY <1>13, ChatChanges
  <2>2. chats' \in [Users -> 0..1] /\ UNCHANGED <<contractVars, pageVars, viewer, others>>
    BY <1>13, ChatChanges
  <2>3. Rest'
    BY <1>1, <2>1, <2>2
  <2>4. QED
    BY <1>3, <2>2, <2>3 DEF pageVars
<1>14. CASE (\E u \in Users : OnOtherPage(u)) \/ Elsewhere
  <2>1. /\ now' \in Nat /\ item' \in [Listings -> Item] /\ others' \in 0..MaxOthers
        /\ \A l \in Listings : item'[l].phase = "held" => item'[l].holder \in Users
        /\ UNCHANGED <<call, pageVars, chatVars, viewer>>
    BY <1>14, OthersChange
  <2>2. Contract' /\ Rest'
    BY <1>1, <2>1 DEF chatVars
  <2>3. QED
    BY <1>3, <2>1, <2>2 DEF pageVars
<1>15. CASE UNCHANGED vars
  BY <1>3, <1>15 DEF vars, pageVars
<1> HIDE DEF Contract, Fetched, Paged, Rest
<1>16. QED
  BY <1>6, <1>7, <1>8, <1>9, <1>10, <1>11, <1>12, <1>13, <1>14, <1>15 DEF Next, Presses

-----------------------------------------------------------------------------
(* Sales.                                                                  *)

\* The listing is handed over by a sale that is decided, and by nothing else.
LEMMA OwnerChanges ==
    ASSUME TypeOK, HeldByUsers, [Next]_vars
    PROVE  \/ TheItem'.owner = TheItem.owner
           \/ \E p \in Pages : /\ call[p].outcome = "pending" /\ call[p].op = "confirm"
                               /\ TheItem'.owner = call[p].buyer
<1>1. item \in [Listings -> Item] /\ TheListing \in Listings /\ call \in [Pages -> Calls]
  BY PageAssumption DEF TypeOK, PageAssumption
<1>2. ASSUME NEW p \in Pages, Execute(p)
      PROVE  \/ TheItem'.owner = TheItem.owner
             \/ /\ call[p].outcome = "pending" /\ call[p].op = "confirm"
                /\ TheItem'.owner = call[p].buyer
  <2>1. call[p].outcome = "pending" /\ call[p] \in Calls /\ item[TheListing] \in Item
    BY <1>1, <1>2, ExecuteChanges
  <2>2. \/ UNCHANGED item
        \/ item' = [item EXCEPT ![TheListing] = Honoured(item[TheListing], call[p])]
    BY <1>2, ExecuteChanges
  <2>3. Honoured(item[TheListing], call[p]).owner
            = IF call[p].op = "confirm" THEN call[p].buyer ELSE item[TheListing].owner
    BY <2>1, CallFields, HonouredItem
  <2>4. QED
    BY <1>1, <2>1, <2>2, <2>3 DEF TheItem
<1>3. ASSUME NEW p \in Pages,
             \/ StartFetch(p) \/ Serve(p) \/ Land(p) \/ Presses(p) \/ AnswerPanel(p)
             \/ AnswerDetail(p) \/ FindConversation(p) \/ InsertConversation(p)
      PROVE  UNCHANGED item
  BY <1>3, FetchChanges, LandChanges, PressChanges, AnswerPanelChanges, AnswerDetailChanges,
     ChatChanges DEF contractVars
<1>4. CASE ApiDies \/ UNCHANGED vars
  BY <1>4, ApiDiesChanges DEF vars, contractVars, TheItem
<1>5. CASE (\E u \in Users : OnOtherPage(u)) \/ Elsewhere
  BY <1>1, <1>5, OthersChange DEF TheItem
<1>6. UNCHANGED item => TheItem'.owner = TheItem.owner
  BY DEF TheItem
<1>7. QED
  BY <1>2, <1>3, <1>4, <1>5, <1>6 DEF Next, Presses

\* Nobody the seller's pages were told of is forgotten.
LEMMA NamedGrows ==
    ASSUME TypeOK, HeldByUsers, [Next]_vars
    PROVE  named \subseteq named'
<1>1. ASSUME NEW p \in Pages, Land(p)
      PROVE  named \subseteq named'
  BY <1>1, LandChanges DEF Show
<1>2. ASSUME NEW p \in Pages, AnswerDetail(p)
      PROVE  named \subseteq named'
  BY <1>2, AnswerDetailChanges DEF Show
<1>3. ASSUME NEW p \in Pages,
             \/ StartFetch(p) \/ Serve(p) \/ Presses(p) \/ Execute(p) \/ AnswerPanel(p)
             \/ FindConversation(p) \/ InsertConversation(p)
      PROVE  UNCHANGED named
  BY <1>3, FetchChanges, PressChanges, ExecuteChanges, AnswerPanelChanges,
     ChatChanges DEF pageVars
<1>4. CASE ApiDies \/ UNCHANGED vars
  BY <1>4, ApiDiesChanges DEF vars, pageVars
<1>5. CASE (\E u \in Users : OnOtherPage(u)) \/ Elsewhere
  BY <1>5, OthersChange DEF pageVars
<1>6. QED
  BY <1>1, <1>2, <1>3, <1>4, <1>5 DEF Next, Presses

LEMMA SalesStay == TypeOK /\ HeldByUsers /\ SalesNamed /\ [Next]_vars => SalesNamed'
<1> SUFFICES ASSUME TypeOK, HeldByUsers, SalesNamed, [Next]_vars
             PROVE  SalesNamed'
  OBVIOUS
<1> DEFINE Sale(c) == c.outcome = "pending" /\ c.op = "confirm"
           Told(d) == d.state = "success" /\ d.phase = "held"
<1>1. /\ TheItem.owner # NoOne => TheItem.owner \in named
      /\ \A p \in Pages : OwnsIt(p) /\ Told(shown[p]) => shown[p].holder \in named
      /\ \A p \in Pages : Sale(call[p]) => call[p].buyer \in named
  BY DEF SalesNamed, SoldAsNamed, Shows
<1>2. named \subseteq named' /\ UNCHANGED viewer
  <2>1. UNCHANGED viewer
    BY DEF Next, vars, StartFetch, Serve, Land, HandleReserve, HandleCancel, HandleConfirmSale,
           HandlePublish, HandleDelete, Press, Execute, AnswerPanel, AnswerDetail, ApiDies,
           FindConversation, InsertConversation, OnOtherPage, Elsewhere
  <2>2. QED
    BY <2>1, NamedGrows
<1>3. SoldAsNamed'
  BY <1>1, <1>2, OwnerChanges DEF SoldAsNamed
<1> DEFINE Shown == \A p \in Pages : OwnsIt(p)' /\ Told(shown'[p]) => shown'[p].holder \in named'
           Sales == \A p \in Pages : Sale(call'[p]) => call'[p].buyer \in named'
<1>4. SUFFICES Shown /\ Sales
  BY <1>3 DEF SalesNamed, Shows
<1>5. \A p \in Pages : OwnsIt(p)' <=> OwnsIt(p)
  BY <1>2 DEF OwnsIt
<1>6. /\ UNCHANGED shown => Shown
      /\ UNCHANGED call => Sales
  BY <1>1, <1>2, <1>5
<1>7. ASSUME NEW p \in Pages, NEW d \in Views, Show(p, d), Told(d) => d.holder \in Users
      PROVE  Shown
  BY <1>1, <1>2, <1>5, <1>7, ShowChanges
<1>8. ASSUME NEW p \in Pages, NEW c \in Calls, call' = [call EXCEPT ![p] = c], ~Sale(c)
      PROVE  Sales
  BY <1>1, <1>2, <1>8 DEF TypeOK
<1>9. ~Sale(NoCall) /\ ~Sale(Decided("honoured")) /\ ~Sale(Decided("refused"))
  BY DEF NoCall, Decided
<1>10. NoCall \in Calls /\ Decided("honoured") \in Calls /\ Decided("refused") \in Calls
  BY ViewsTyped
<1>11. ASSUME NEW p \in Pages,
              StartFetch(p) \/ Serve(p) \/ FindConversation(p) \/ InsertConversation(p)
       PROVE  Shown /\ Sales
  BY <1>6, <1>11, FetchChanges, ChatChanges DEF contractVars, pageVars
<1>12. ASSUME NEW p \in Pages, Land(p)
       PROVE  Shown /\ Sales
  <2>1. PICK d \in Views : Show(p, d) /\ (Told(d) => d.holder \in Users)
    BY <1>12, LandChanges
  <2>2. UNCHANGED call
    BY <1>12, LandChanges DEF contractVars
  <2> HIDE DEF Shown, Sales
  <2>3. QED
    BY <1>6, <1>7, <2>1, <2>2
<1>13. ASSUME NEW p \in Pages, Presses(p)
       PROVE  Shown /\ Sales
  <2>1. PICK c \in Calls :
            /\ call' = [call EXCEPT ![p] = c]
            /\ Sale(c) => Shows(p) /\ OwnsIt(p) /\ shown[p].phase = "held" /\ c.buyer = shown[p].holder
            /\ UNCHANGED <<shown, named>>
    BY <1>13, PressChanges
  <2>2. Sale(c) => c.buyer \in named
    BY <1>1, <2>1 DEF Shows
  <2>3. Sales
    BY <1>1, <2>1, <2>2 DEF TypeOK
  <2>4. QED
    BY <1>6, <2>1, <2>3
<1>14. ASSUME NEW p \in Pages, Execute(p) \/ AnswerPanel(p)
       PROVE  Shown /\ Sales
  <2>1. UNCHANGED shown
    BY <1>14, ExecuteChanges, AnswerPanelChanges
  <2>2. \E c \in {NoCall, Decided("honoured"), Decided("refused")} : call' = [call EXCEPT ![p] = c]
    BY <1>14, ExecuteChanges, AnswerPanelChanges
  <2> HIDE DEF Shown, Sales, Sale
  <2>3. QED
    BY <1>6, <1>8, <1>9, <1>10, <2>1, <2>2
<1>15. ASSUME NEW p \in Pages, AnswerDetail(p)
       PROVE  Shown /\ Sales
  <2>1. /\ call' = [call EXCEPT ![p] = NoCall]
        /\ (\E d \in Views : d.phase # "held" /\ Show(p, d)) \/ UNCHANGED shown
    BY <1>15, AnswerDetailChanges
  <2>2. Shown
    <3> HIDE DEF Shown
    <3>1. QED
      BY <1>6, <1>7, <2>1
  <2> HIDE DEF Shown, Sales, Sale
  <2>3. QED
    BY <1>8, <1>9, <1>10, <2>1, <2>2
<1>16. CASE ApiDies
  <2>1. call' = [p \in Pages |-> NoCall] /\ UNCHANGED shown
    BY <1>16, ApiDiesChanges
  <2>2. Sales
    BY <1>9, <2>1
  <2>3. QED
    BY <1>6, <2>1, <2>2
<1>17. CASE (\E u \in Users : OnOtherPage(u)) \/ Elsewhere
  BY <1>6, <1>17, OthersChange DEF pageVars
<1>18. CASE UNCHANGED vars
  BY <1>6, <1>18 DEF vars, contractVars, pageVars
<1> HIDE DEF Shown, Sales
<1>19. QED
  BY <1>11, <1>12, <1>13, <1>14, <1>15, <1>16, <1>17, <1>18 DEF Next, Presses

-----------------------------------------------------------------------------
(* A page's own action.                                                    *)

\* ActionAwaited, of a page with this fetch, whose action is done or not, that
\* shows less than it did or not, and shows the listing or not.
Awaited(f, done, late, shows) ==
    /\ f.step = "found" /\ f.old => done
    /\ late => \/ done
               \/ ~shows
               \/ f.step \in {"asked", "failed"}
               \/ f.step = "found" /\ ~f.old

\* Nothing of page q that matters here changes.
Same(q) ==
    /\ fetch'[q] = fetch[q] /\ pressed'[q] = pressed[q] /\ call'[q] = call[q]
    /\ shown'[q] = shown[q] /\ (q \in behind' <=> q \in behind)

LEMMA ActionStays == TypeOK /\ HeldByUsers /\ ActionAwaited /\ [Next]_vars => ActionAwaited'
<1> SUFFICES ASSUME TypeOK, HeldByUsers, ActionAwaited, [Next]_vars
             PROVE  ActionAwaited'
  OBVIOUS
<1> DEFINE Good(q)  == Awaited(fetch[q], ActionDone(q), q \in behind, Shows(q))
           Later(q) == Awaited(fetch'[q], ActionDone(q)', q \in behind', Shows(q)')
<1>1. \A q \in Pages : Good(q)
  BY DEF ActionAwaited, Awaited
<1>2. SUFFICES \A q \in Pages : Later(q)
  BY DEF ActionAwaited, Awaited
<1>3. \A q \in Pages : Same(q) => Later(q)
  BY <1>1 DEF Same, ActionDone, OfPanel, Shows
<1>4. /\ fetch \in [Pages -> Fetches] /\ call \in [Pages -> Calls] /\ DOMAIN pressed = Pages
      /\ shown \in [Pages -> Views] /\ Pages = Requests
  BY DEF TypeOK, Pages
<1>5. /\ NoFetch.step = "none" /\ Asked.step = "asked" /\ Failed.step = "failed"
      /\ NoCall.outcome = "none" /\ \A o : Decided(o).outcome = o
  BY DEF NoFetch, Asked, Failed, NoCall, Decided
<1>6. \A q \in Pages :
        /\ ActionDone(q) <=> OfPanel(q) /\ call[q].outcome = "honoured"
        /\ ActionDone(q)' <=> OfPanel(q)' /\ call'[q].outcome = "honoured"
        /\ UNCHANGED pressed => OfPanel(q)' = OfPanel(q)
        /\ Shows(q) <=> shown[q].state = "success"
        /\ Shows(q)' <=> shown'[q].state = "success"
  BY DEF ActionDone, OfPanel, Shows
<1>7. ASSUME NEW p \in Pages, StartFetch(p) \/ Serve(p)
      PROVE  \A q \in Pages : Later(q)
  <2>1. PICK f \in Fetches :
            /\ fetch' = [fetch EXCEPT ![p] = f]
            /\ f.step \in {"asked", "failed"} \/ f = Found(PublicListing(TheItem))
            /\ UNCHANGED <<contractVars, shown, pressed, behind, named, chatVars, viewer, others>>
    BY <1>7, FetchChanges
  <2>2. \A q \in Pages \ {p} : Same(q)
    BY <1>4, <2>1 DEF Same, contractVars
  <2>3. /\ fetch'[p] = f
        /\ \/ f.step \in {"asked", "failed"}
           \/ f.step = "found" /\ f.old = FALSE
    BY <1>4, <2>1 DEF Found
  <2>4. Later(p)
    BY <2>3 DEF Awaited
  <2> HIDE DEF Later
  <2>5. QED
    BY <1>3, <2>2, <2>4
<1>8. ASSUME NEW p \in Pages, Land(p)
      PROVE  \A q \in Pages : Later(q)
  <2>1. PICK d \in Views :
            /\ Show(p, d)
            /\ d.state = "success" /\ d.phase = "held" => d.holder \in Users
            /\ \/ /\ fetch[p].step = "found"
                  /\ behind' = IF fetch[p].old THEN behind \cup {p} ELSE behind \ {p}
               \/ fetch[p].step # "found" /\ d.state = "error" /\ UNCHANGED behind
    BY <1>8, LandChanges
  <2>2. fetch' = [fetch EXCEPT ![p] = NoFetch] /\ UNCHANGED <<call, pressed>>
    BY <1>8, LandChanges DEF contractVars
  <2>3. shown'[p] = d /\ \A q \in Pages \ {p} : shown'[q] = shown[q]
    BY <2>1, ShowChanges
  <2>4. \A q \in Pages \ {p} : Same(q)
    BY <1>4, <2>1, <2>2, <2>3 DEF Same
  <2>5. fetch'[p].step = "none" /\ (ActionDone(p)' <=> ActionDone(p))
    BY <1>4, <1>5, <1>6, <2>2
  <2>6. p \in behind' => ActionDone(p)' \/ ~Shows(p)'
    <3>1. CASE fetch[p].step = "found" /\ fetch[p].old
      BY <1>1, <2>5, <3>1 DEF Awaited
    <3>2. CASE fetch[p].step = "found" /\ ~fetch[p].old
      BY <2>1, <3>2
    <3>3. CASE fetch[p].step # "found"
      BY <1>6, <2>1, <2>3, <3>3
    <3>4. QED
      BY <3>1, <3>2, <3>3
  <2>7. Later(p)
    BY <2>5, <2>6 DEF Awaited
  <2> HIDE DEF Later
  <2>8. QED
    BY <1>3, <2>4, <2>7
<1>9. ASSUME NEW p \in Pages, Presses(p)
      PROVE  \A q \in Pages : Later(q)
  <2>1. PICK c \in Calls, op \in {"publish", "reserve", "cancel", "confirm", "remove"} :
            /\ call' = [call EXCEPT ![p] = c] /\ call[p] = NoCall
            /\ pressed' = [pressed EXCEPT ![p] = op]
            /\ UNCHANGED <<shown, fetch, behind>>
    BY <1>9, PressChanges
  <2>2. \A q \in Pages \ {p} : Same(q)
    BY <1>4, <2>1 DEF Same
  <2>3. ~ActionDone(p)
    BY <1>5, <1>6, <2>1
  <2>4. Later(p)
    BY <1>1, <1>6, <2>1, <2>3 DEF Awaited
  <2> HIDE DEF Later
  <2>5. QED
    BY <1>3, <2>2, <2>4
<1>10. ASSUME NEW p \in Pages, Execute(p)
       PROVE  \A q \in Pages : Later(q)
  <2>1. PICK outcome \in {"honoured", "refused"} :
            /\ call' = [call EXCEPT ![p] = Decided(outcome)]
            /\ \/ /\ OfPanel(p) /\ outcome = "honoured" /\ behind' = behind \cup {p}
                  /\ fetch' = IF fetch[p].step = "found"
                              THEN [fetch EXCEPT ![p].old = TRUE] ELSE fetch
               \/ ~(OfPanel(p) /\ outcome = "honoured") /\ UNCHANGED <<behind, fetch>>
    BY <1>10, ExecuteChanges
  <2>2. call[p].outcome = "pending" /\ UNCHANGED <<shown, pressed>>
    BY <1>10, ExecuteChanges
  <2>3. \A q \in Pages \ {p} : Same(q)
    BY <1>4, <2>1, <2>2 DEF Same
  <2>4. call'[p].outcome = outcome /\ ~ActionDone(p)
    BY <1>4, <1>5, <1>6, <2>1, <2>2
  <2>5. Later(p)
    <3>1. CASE OfPanel(p) /\ outcome = "honoured"
      <4>1. ActionDone(p)'
        BY <1>6, <2>2, <2>4, <3>1
      <4>2. QED
        BY <4>1 DEF Awaited
    <3>2. CASE ~(OfPanel(p) /\ outcome = "honoured")
      <4>1. UNCHANGED <<behind, fetch>> /\ (Shows(p)' <=> Shows(p))
        BY <1>6, <2>1, <2>2, <3>2
      <4>2. QED
        BY <1>1, <2>4, <4>1 DEF Awaited
    <3>3. QED
      BY <3>1, <3>2
  <2> HIDE DEF Later
  <2>6. QED
    BY <1>3, <2>3, <2>5
<1>11. ASSUME NEW p \in Pages, AnswerPanel(p)
       PROVE  \A q \in Pages : Later(q)
  <2>1. /\ OfPanel(p) /\ call[p].outcome \in {"honoured", "refused"}
        /\ call' = [call EXCEPT ![p] = NoCall]
        /\ pressed' = [pressed EXCEPT ![p] = "none"]
        /\ \/ fetch' = [fetch EXCEPT ![p] = Asked]
           \/ call[p].outcome = "refused" /\ UNCHANGED fetch
        /\ UNCHANGED <<shown, behind>>
    BY <1>11, AnswerPanelChanges
  <2>2. \A q \in Pages \ {p} : Same(q)
    BY <1>4, <2>1 DEF Same
  <2>3. Later(p)
    <3>1. CASE fetch' = [fetch EXCEPT ![p] = Asked]
      BY <1>4, <1>5, <3>1 DEF Awaited
    <3>2. CASE call[p].outcome = "refused" /\ UNCHANGED fetch
      <4>1. ~ActionDone(p) /\ (Shows(p)' <=> Shows(p))
        BY <1>6, <2>1, <3>2
      <4>2. QED
        BY <1>1, <2>1, <3>2, <4>1 DEF Awaited
    <3>3. QED
      BY <2>1, <3>1, <3>2
  <2> HIDE DEF Later
  <2>4. QED
    BY <1>3, <2>2, <2>3
<1>12. ASSUME NEW p \in Pages, AnswerDetail(p)
       PROVE  \A q \in Pages : Later(q)
  <2>1. /\ ~OfPanel(p)
        /\ call' = [call EXCEPT ![p] = NoCall]
        /\ pressed' = [pressed EXCEPT ![p] = "none"]
        /\ \/ (\E d \in Views : d.phase # "held" /\ Show(p, d)) /\ behind' = behind \ {p}
           \/ UNCHANGED <<shown, behind>>
        /\ UNCHANGED fetch
    BY <1>12, AnswerDetailChanges
  <2>2. \A q \in Pages \ {p} : shown'[q] = shown[q]
    BY <2>1, ShowChanges
  <2>3. \A q \in Pages \ {p} : Same(q)
    BY <1>4, <2>1, <2>2 DEF Same
  <2>4. ~ActionDone(p)
    BY <1>6, <2>1
  <2>5. p \in behind' => p \in behind /\ (Shows(p)' <=> Shows(p))
    BY <1>6, <2>1
  <2>6. Later(p)
    BY <1>1, <2>1, <2>4, <2>5 DEF Awaited
  <2> HIDE DEF Later
  <2>7. QED
    BY <1>3, <2>3, <2>6
<1>13. CASE ApiDies
  <2>1. /\ behind' = {p \in behind : fetch[p] # NoFetch}
        /\ fetch' = [p \in Pages |-> IF fetch[p] = NoFetch THEN NoFetch ELSE Failed]
    BY <1>13, ApiDiesChanges
  <2>2. QED
    BY <1>5, <2>1 DEF Awaited
<1>14. ASSUME UNCHANGED <<call, pageVars>>
       PROVE  \A q \in Pages : Later(q)
  BY <1>3, <1>14 DEF Same, pageVars
<1>15. ASSUME NEW p \in Pages, FindConversation(p) \/ InsertConversation(p)
       PROVE  \A q \in Pages : Later(q)
  <2>1. UNCHANGED <<call, pageVars>>
    BY <1>15, ChatChanges DEF contractVars
  <2>2. QED
    BY <1>14, <2>1
<1>16. CASE (\E u \in Users : OnOtherPage(u)) \/ Elsewhere
  BY <1>14, <1>16, OthersChange
<1>17. CASE UNCHANGED vars
  BY <1>14, <1>17 DEF vars, contractVars
<1> HIDE DEF Later
<1>18. QED
  BY <1>7, <1>8, <1>9, <1>10, <1>11, <1>12, <1>13, <1>15, <1>16, <1>17 DEF Next, Presses

-----------------------------------------------------------------------------
(* Conversations.                                                          *)

LEMMA ChatsStay == TypeOK /\ HeldByUsers /\ ChatsUnique /\ [Next]_vars => ChatsUnique'
<1> SUFFICES ASSUME TypeOK, HeldByUsers, ChatsUnique, [Next]_vars
             PROVE  ChatsUnique'
  OBVIOUS
<1>1. ASSUME NEW p \in Pages, FindConversation(p) \/ InsertConversation(p)
      PROVE  ChatsUnique'
  <2>1. PICK a \in [step : {"none", "missed", "opened"}, chat : 0..1] :
            ask' = [ask EXCEPT ![p] = a] /\ (a.step = "opened" => a.chat = 1)
    BY <1>1, ChatChanges
  <2>2. QED
    BY <2>1 DEF ChatsUnique, TypeOK
<1>2. ASSUME NEW p \in Pages,
             \/ StartFetch(p) \/ Serve(p) \/ Land(p) \/ Presses(p) \/ Execute(p)
             \/ AnswerPanel(p) \/ AnswerDetail(p)
      PROVE  UNCHANGED ask
  BY <1>2, FetchChanges, LandChanges, PressChanges, ExecuteChanges, AnswerPanelChanges,
     AnswerDetailChanges DEF chatVars
<1>3. CASE ApiDies \/ UNCHANGED vars
  BY <1>3, ApiDiesChanges DEF vars, chatVars, ChatsUnique
<1>4. CASE (\E u \in Users : OnOtherPage(u)) \/ Elsewhere
  BY <1>4, OthersChange DEF chatVars, ChatsUnique
<1>5. UNCHANGED ask => ChatsUnique'
  BY DEF ChatsUnique
<1>6. QED
  BY <1>1, <1>2, <1>3, <1>4, <1>5 DEF Next, Presses

-----------------------------------------------------------------------------
(* The theorems.                                                           *)

LEMMA InitHolds == Init => IInv
<1> SUFFICES ASSUME Init
             PROVE  IInv
  OBVIOUS
<1>1. /\ now = 0 /\ item = [l \in Listings |-> Unlisted] /\ call = [r \in Pages |-> NoCall]
      /\ TheListing \in Listings /\ MaxOthers \in Nat
  BY PageAssumption DEF Init, ContractInit, Pages, PageAssumption
<1>2. Unlisted \in Item /\ Unlisted.phase = "unlisted" /\ Unlisted.owner = NoOne
  BY DEF Unlisted, Item, Phases
<1>3. Loading.state = "pending" /\ NoFetch.step = "none" /\ NoCall.outcome = "none"
  BY DEF Loading, NoFetch, NoCall
<1>4. TypeOK
  BY <1>1, <1>2, ViewsTyped DEF Init, TypeOK
<1>5. HeldByUsers
  BY <1>1, <1>2, <1>3 DEF Init, HeldByUsers
<1>6. SalesNamed
  BY <1>1, <1>2, <1>3 DEF Init, SalesNamed, SoldAsNamed, TheItem, Shows
<1>7. ActionAwaited /\ ChatsUnique
  BY <1>3 DEF Init, ActionAwaited, ChatsUnique
<1>8. QED
  BY <1>4, <1>5, <1>6, <1>7 DEF IInv

LEMMA Holds == Spec => []IInv
<1>1. IInv /\ [Next]_vars => IInv'
  BY TypedStays, SalesStay, ActionStays, ChatsStay DEF IInv
<1>2. QED
  BY <1>1, InitHolds, PTL DEF Spec

\* Items, calls, pages, fetches and conversations keep their types: a call of
\* the panel is about this listing, and the seller's pages name only users.
THEOREM PageTyped == Spec => []TypeOK
<1>1. IInv => TypeOK
  BY DEF IInv
<1>2. QED
  BY <1>1, Holds, PTL

\* A listing is sold only to a buyer of whom a page of the seller's was told
\* that he holds it (ReservationPanel.tsx:84-88).
THEOREM SalesAreNamed == Spec => []SoldAsNamed
<1>1. IInv => SoldAsNamed
  BY DEF IInv, SalesNamed
<1>2. QED
  BY <1>1, Holds, PTL

\* A page does not show the listing as it was before its own action, once its
\* calls and fetches are back (ReservationPanel.tsx:16-18, 59-66).
THEOREM OwnActionShown == Spec => []ActionShown
<1>1. IInv => ActionShown
  <2> SUFFICES ASSUME IInv, NEW p \in behind
               PROVE  \/ ~Shows(p)
                      \/ call[p] # NoCall
                      \/ fetch[p].step \in {"asked", "failed"}
                      \/ fetch[p].step = "found" /\ ~fetch[p].old
    BY DEF ActionShown
  <2>1. p \in Pages /\ NoCall.outcome = "none"
    BY DEF IInv, TypeOK, NoCall
  <2>2. QED
    BY <2>1 DEF IInv, ActionAwaited, ActionDone
<1>2. QED
  BY <1>1, Holds, PTL

\* Two pages of a buyer open the same conversation (chatService.ts:103-106).
THEOREM ConversationsConverge == Spec => []OneConversation
<1>1. IInv => OneConversation
  BY DEF IInv, ChatsUnique, OneConversation
<1>2. QED
  BY <1>1, Holds, PTL
=============================================================================

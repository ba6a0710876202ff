----------------------------- MODULE ListingPage -----------------------------
(***************************************************************************)
(* The page of one listing, open in several browsers: ListingDetail.tsx    *)
(* and ReservationPanel.tsx of apps/web/src/components, GET /listings/:id  *)
(* of apps/api/src/routes/listings.ts, and the conversation a buyer opens  *)
(* from there (getOrCreateConversation of lib/chatService.ts).             *)
(*                                                                         *)
(* The endpoints behind the buttons are those of ListingContract, which    *)
(* ListingLifecycle implements.  A page is a slot of that module: it has   *)
(* at most one call in flight, of the reservation panel or of publish and  *)
(* delete.  The buttons go by what the page shows, which may be old.  A    *)
(* press and the arrival of its call are one step: in between, the buttons *)
(* are disabled, as if pressed later.  Editing changes no phase and is     *)
(* left out, and so is the phone number; images are in ListingImages.      *)
(***************************************************************************)
EXTENDS ListingContract, FiniteSets

CONSTANTS
    TheListing,
    MaxOthers      \* bound on what is done on other pages

Pages == Requests   \* the open pages of the listing

ASSUME PageAssumption ==
    /\ TheListing \in Listings
    /\ NoOne \notin Users
    /\ {TTL, MaxTime, MaxOthers} \subseteq Nat

VARIABLES
    viewer,        \* [Pages -> who is signed in]
    shown,         \* [Pages -> the listing as the page shows it]
    fetch,         \* [Pages -> the GET of the page: its step, and what it found]
    pressed,       \* [Pages -> the button whose call is in flight, or "none"]
    behind,        \* history: pages that show less than their own action made
    named,         \* history: buyers the seller's pages were told hold it
    others,        \* what has been done on other pages so far
    chats,         \* [Users -> Conversation documents about it]
    ask            \* [Pages -> "message seller": its step, the conversation]

pageVars == <<shown, fetch, pressed, behind, named>>
chatVars == <<chats, ask>>
vars     == <<contractVars, pageVars, chatVars, viewer, others>>

-----------------------------------------------------------------------------
Owner     == Seller[TheListing]
TheItem   == item[TheListing]
OwnsIt(p) == viewer[p] = Owner

\* What a page knows of the listing; state is that of its query.
Loading  == [state |-> "pending", phase |-> "unlisted", holder |-> NoOne]
Shows(p) == shown[p].state = "success"

\* A GET: not under way, asked for, answered with data, or with an error.
NoFetch    == [step |-> "none"]
Asked      == [step |-> "asked"]
Failed     == [step |-> "failed"]
Found(d)   == [step |-> "found", data |-> d, old |-> FALSE]

Phases  == {"unlisted", "draft", "open", "held", "sold", "removed"}
Item    == [phase : Phases, holder : Users \cup {NoOne}, until : Nat \cup {NoTime},
            owner : Users \cup {NoOne}]
Calls   == {NoCall, Decided("honoured"), Decided("refused")} \cup
           [outcome : {"pending"}, op : {"publish", "reserve", "cancel", "confirm", "remove"},
            actor : Users, lst : {TheListing}, buyer : Users \cup {NoOne}, at : Nat]
Views   == [state : {"pending", "success", "error"}, phase : Phases, holder : Users \cup {NoOne}]
Fetches == {NoFetch, Asked, Failed} \cup [step : {"found"}, data : Views, old : BOOLEAN]

TypeOK ==
    /\ now \in Nat
    /\ item \in [Listings -> Item]
    /\ call \in [Pages -> Calls]
    /\ viewer \in [Pages -> Users]
    /\ shown \in [Pages -> Views]
    /\ fetch \in [Pages -> Fetches]
    /\ pressed \in [Pages -> {"none", "publish", "reserve", "cancel", "confirm", "remove"}]
    /\ behind \subseteq Pages
    /\ named \subseteq Users
    /\ others \in 0..MaxOthers
    /\ chats \in [Users -> 0..1]
    /\ ask \in [Pages -> [step : {"none", "missed", "opened"}, chat : 0..1]]

Init ==
    /\ ContractInit
    /\ viewer \in [Pages -> Users]
    /\ shown = [p \in Pages |-> Loading]
    /\ fetch = [p \in Pages |-> NoFetch]
    /\ pressed = [p \in Pages |-> "none"]
    /\ behind = {}
    /\ named = {}
    /\ others = 0
    /\ chats = [u \in Users |-> 0]
    /\ ask = [p \in Pages |-> [step |-> "none", chat |-> 0]]

-----------------------------------------------------------------------------
(* GET /listings/:id.                                                      *)

\* Drafts and removed listings are for their owner; to others they are 404.
VisibleTo(u) ==
    /\ TheItem.phase # "unlisted"
    /\ TheItem.phase \in {"draft", "removed"} => u = Owner

PublicListing(i) == [state |-> "success", phase |-> i.phase, holder |-> i.holder]

Serve(p) ==
    /\ fetch[p] = Asked
    /\ fetch' = [fetch EXCEPT ![p] =
          IF VisibleTo(viewer[p])
          THEN Found(PublicListing(TheItem)) ELSE Failed]
    /\ UNCHANGED <<contractVars, shown, pressed, behind, named, chatVars, viewer, others>>

-----------------------------------------------------------------------------
(* The page's query.                                                       *)

\* The page is opened, polls for a thumbnail, or gets the focus: a fetch
\* starts unless one is under way.
StartFetch(p) ==
    /\ fetch[p] = NoFetch
    /\ fetch' = [fetch EXCEPT ![p] = Asked]
    /\ UNCHANGED <<contractVars, shown, pressed, behind, named, chatVars, viewer, others>>

\* Page p shows d; a page of the seller's is told who holds the listing.
Show(p, d) ==
    /\ shown' = [shown EXCEPT ![p] = d]
    /\ named' = IF OwnsIt(p) /\ d.state = "success" /\ d.phase = "held"
                THEN named \cup {d.holder} ELSE named

\* The answer arrives, or the request failed; retry: false.
Land(p) ==
    /\ \/ /\ fetch[p].step = "found"
          /\ Show(p, fetch[p].data)
          /\ behind' = IF fetch[p].old THEN behind \cup {p} ELSE behind \ {p}
       \/ /\ fetch[p].step \in {"asked", "failed"}
          /\ Show(p, [Loading EXCEPT !.state = "error"])
          /\ UNCHANGED behind
    /\ fetch' = [fetch EXCEPT ![p] = NoFetch]
    /\ UNCHANGED <<contractVars, pressed, chatVars, viewer, others>>

-----------------------------------------------------------------------------
(* The buttons.                                                            *)

\* The call of button op arrives at the server (Arrive of ListingContract).
Press(p, op, buyer) ==
    LET c == [outcome |-> "pending", op |-> op, actor |-> viewer[p], lst |-> TheListing,
              buyer |-> buyer, at |-> IF op \in {"reserve", "confirm"} THEN now ELSE 0]
    IN  /\ Shows(p)
        /\ call[p] = NoCall
        /\ \/ call' = [call EXCEPT ![p] = c]
           \/ ~Honours(TheItem, c) /\ call' = [call EXCEPT ![p] = Decided("refused")]
        /\ pressed' = [pressed EXCEPT ![p] = op]
        /\ UNCHANGED <<now, item, shown, fetch, behind, named, chatVars, viewer, others>>

\* The buttons the panel shows ...
OffersReserve(p) == shown[p].phase = "open" /\ ~OwnsIt(p)
OffersConfirm(p) == shown[p].phase = "held" /\ OwnsIt(p)
OffersCancel(p)  == shown[p].phase = "held" /\ (OwnsIt(p) \/ shown[p].holder = viewer[p])

\* ... and those below it.
OffersPublish(p) == shown[p].phase = "draft" /\ OwnsIt(p)
OffersDelete(p)  == shown[p].phase \in {"draft", "open"} /\ OwnsIt(p)
OffersMessage(p) == shown[p].phase \in {"open", "held", "sold"} /\ ~OwnsIt(p)

HandleReserve(p) == OffersReserve(p) /\ Press(p, "reserve", NoOne)
HandleCancel(p)  == OffersCancel(p) /\ Press(p, "cancel", NoOne)

\* Mutant: the sale goes to whoever holds the listing.
HandleConfirmSaleToHolder(p) == OffersConfirm(p) /\ Press(p, "confirm", TheItem.holder)

\* The sale is to the holder the page shows.
HandleConfirmSale(p) == OffersConfirm(p) /\ Press(p, "confirm", shown[p].holder)

HandlePublish(p) == OffersPublish(p) /\ Press(p, "publish", NoOne)
HandleDelete(p)  == OffersDelete(p) /\ Press(p, "remove", NoOne)

OfPanel(p) == pressed[p] \in {"reserve", "cancel", "confirm"}

\* The call takes effect or is refused, and its answer is on its way.  What
\* the page has fetched by then is older.
Execute(p) ==
    /\ Decide(p)
    /\ IF OfPanel(p) /\ call'[p].outcome = "honoured"
       THEN /\ behind' = behind \cup {p}
            /\ fetch' = IF fetch[p].step = "found"
                        THEN [fetch EXCEPT ![p].old = TRUE] ELSE fetch
       ELSE UNCHANGED <<behind, fetch>>
    /\ UNCHANGED <<shown, pressed, named, chatVars, viewer, others>>

\* Mutant: a fetch that is under way will do.
RefetchJoining(p) ==
    fetch' = IF fetch[p] = NoFetch THEN [fetch EXCEPT ![p] = Asked] ELSE fetch

\* onRefresh: a fetch under way is dropped and another started.
Refetch(p) == fetch' = [fetch EXCEPT ![p] = Asked]

\* LISTING_UNAVAILABLE: what reserve answers when it is refused.
Unavailable(p) == pressed[p] = "reserve" /\ call[p].outcome = "refused"

\* runAction of the panel goes on: it fetches the listing again if the call
\* was honoured or found it unavailable.
AnswerPanel(p) ==
    /\ OfPanel(p)
    /\ Return(p)
    /\ pressed' = [pressed EXCEPT ![p] = "none"]
    /\ IF call[p].outcome = "honoured" \/ Unavailable(p) THEN Refetch(p) ELSE UNCHANGED fetch
    /\ UNCHANGED <<shown, behind, named, chatVars, viewer, others>>

\* publish and delete put the listing they made into the page, whatever has
\* been fetched in the meantime.
AnswerDetail(p) ==
    /\ ~OfPanel(p)
    /\ Return(p)
    /\ pressed' = [pressed EXCEPT ![p] = "none"]
    /\ IF call[p].outcome = "honoured"
       THEN /\ Show(p, PublicListing(Vacated(TheItem, IF pressed[p] = "publish"
                                                      THEN "open" ELSE "removed")))
            /\ behind' = behind \ {p}
       ELSE UNCHANGED <<shown, named, behind>>
    /\ UNCHANGED <<fetch, chatVars, viewer, others>>

\* The API dies: no call and no fetch is answered, nor is one made again.
ApiDies ==
    /\ HangUp
    /\ pressed' = [p \in Pages |-> "none"]
    /\ behind' = {p \in behind : fetch[p] # NoFetch}
    /\ fetch' = [p \in Pages |-> IF fetch[p] = NoFetch THEN NoFetch ELSE Failed]
    /\ UNCHANGED <<shown, named, chatVars, viewer, others>>

-----------------------------------------------------------------------------
(* "Message seller".                                                       *)

Ask(p, step, chat) == ask' = [ask EXCEPT ![p] = [step |-> step, chat |-> chat]]

\* POST /conversations: the upsert finds the conversation, or none ...
FindConversation(p) ==
    /\ Shows(p) /\ OffersMessage(p)
    /\ ask[p].step = "none"
    /\ IF chats[viewer[p]] = 0 THEN Ask(p, "missed", 0)
       ELSE Ask(p, "opened", chats[viewer[p]])
    /\ UNCHANGED <<contractVars, pageVars, chats, viewer, others>>

\* Mutant: no unique index.
InsertConversationAgain(p) ==
    /\ ask[p].step = "missed"
    /\ chats' = [chats EXCEPT ![viewer[p]] = @ + 1]
    /\ Ask(p, "opened", chats'[viewer[p]])
    /\ UNCHANGED <<contractVars, pageVars, viewer, others>>

\* ... and then inserts one; if another request was first, the unique index
\* refuses it and the conversation is read again.
InsertConversation(p) ==
    /\ ask[p].step = "missed"
    /\ chats' = [chats EXCEPT ![viewer[p]] = 1]
    /\ Ask(p, "opened", 1)
    /\ UNCHANGED <<contractVars, pageVars, viewer, others>>

-----------------------------------------------------------------------------
(* What else happens to the listing.                                       *)

\* A user publishes, reserves or cancels on another page, in one step.
OnOtherPage(u) ==
    /\ others < MaxOthers
    /\ others' = others + 1
    /\ \E op \in {"publish", "reserve", "cancel"} :
          LET c == [op |-> op, actor |-> u, lst |-> TheListing, at |-> now]
          IN  /\ Honours(TheItem, c)
              /\ item' = [item EXCEPT ![TheListing] = Honoured(TheItem, c)]
    /\ UNCHANGED <<now, call, pageVars, chatVars, viewer>>

Elsewhere ==
    /\ Draft(TheListing) \/ Release(TheListing) \/ Advance
    /\ UNCHANGED <<pageVars, chatVars, viewer, others>>

Next ==
    \/ \E p \in Pages :
          \/ StartFetch(p) \/ Serve(p) \/ Land(p)
          \/ HandleReserve(p) \/ HandleCancel(p) \/ HandleConfirmSale(p)
          \/ HandlePublish(p) \/ HandleDelete(p)
          \/ Execute(p) \/ AnswerPanel(p) \/ AnswerDetail(p)
          \/ FindConversation(p) \/ InsertConversation(p)
    \/ \E u \in Users : OnOtherPage(u)
    \/ ApiDies
    \/ Elsewhere

Spec == Init /\ [][Next]_vars

-----------------------------------------------------------------------------
(* Properties.                                                             *)

\* Once the calls and fetches of a page have come back, it does not show the
\* listing as it was before the page's own reservation, cancellation or sale,
\* whatever fetch was under way when its button was pressed, unless the answer
\* was lost (ReservationPanel.tsx:16-18, 59-66).
ActionShown ==
    \A p \in behind :
        \/ ~Shows(p)
        \/ call[p] # NoCall
        \/ fetch[p].step \in {"asked", "failed"}
        \/ fetch[p].step = "found" /\ ~fetch[p].old

\* A listing is sold only to a buyer of whom a page of the seller's was told
\* that he holds it, however reservations come and go while the page shows an
\* old one (ReservationPanel.tsx:84-88).
SoldAsNamed == TheItem.owner # NoOne => TheItem.owner \in named

\* Two pages of a buyer open the same conversation, however their requests
\* cross (chatService.ts:103-106).
OneConversation ==
    \A p, q \in Pages :
        ask[p].step = "opened" /\ ask[q].step = "opened" /\ viewer[p] = viewer[q]
        => ask[p].chat = ask[q].chat

-----------------------------------------------------------------------------
(* What the properties rest on.                                            *)

\* What is held is held by a user, and so it was when it was fetched.
HeldByUsers ==
    /\ \A l \in Listings : item[l].phase = "held" => item[l].holder \in Users
    /\ \A p \in Pages : fetch[p].step = "found" /\ fetch[p].data.phase = "held"
                        => fetch[p].data.holder \in Users

\* A sale under way is to someone the seller's page was told of.
SalesNamed ==
    /\ SoldAsNamed
    /\ \A p \in Pages : Shows(p) /\ OwnsIt(p) /\ shown[p].phase = "held"
                        => shown[p].holder \in named
    /\ \A p \in Pages : call[p].outcome = "pending" /\ call[p].op = "confirm"
                        => call[p].buyer \in named

\* The page's reservation, cancellation or sale is done and its answer on the
\* way: the listing will be fetched again.
ActionDone(p) == OfPanel(p) /\ call[p].outcome = "honoured"

\* Until then the page may show less and old data may arrive, and only then.
ActionAwaited ==
    \A p \in Pages :
        /\ fetch[p].step = "found" /\ fetch[p].old => ActionDone(p)
        /\ p \in behind =>
            \/ ActionDone(p)
            \/ ~Shows(p)
            \/ fetch[p].step \in {"asked", "failed"}
            \/ fetch[p].step = "found" /\ ~fetch[p].old

ChatsUnique == \A p \in Pages : ask[p].step = "opened" => ask[p].chat = 1

IInv == TypeOK /\ HeldByUsers /\ SalesNamed /\ ActionAwaited /\ ChatsUnique
=============================================================================

# CampusKart: specifications, model checking and proofs

CampusKart is a marketplace for one campus: an Express and Socket.IO API and a
BullMQ worker over MongoDB and Redis (`src/apps/api`), a React client
(`src/apps/web`) and shared schemas (`src/packages/shared`). This directory
holds TLA+ models of the parts whose correctness depends on interleaving, on
failures or on time, TLC configurations that check them on small instances, and
TLAPS proofs for every value of the constants.

Contents: 1 inventory, 2 modules, 3 properties and runs, 4 fairness, 5 proofs,
6 what the models showed, 7 what is not modelled, 8 plan, 9 running it.

## 1. Inventory

| Component | State | Operations | Hard behaviour | What makes it correct |
|---|---|---|---|---|
| Listing lifecycle (`routes/listings.ts`, `lib/reservationService.ts`) | the `Listing` document | create, publish, reserve, cancel, confirm-sale, remove, patch | handlers read, then issue one conditional `findOneAndUpdate`, then bump; all interleave; the clock is read before the write is sent | one winner per reservation, a sale is final, a running hold stands, every call takes effect at one instant |
| Reservation sweeper (`lib/reservationSweep*.ts`) | the repeatable BullMQ job | `updateMany` of lapsed reservations, bump | runs in another process, dies, is re-run | a lapsed hold ends; a running one does not |
| Listing page (`components/ListingDetail.tsx`, `ReservationPanel.tsx`) | the data of its query, the call in flight | fetch, poll, the buttons, refetch, "message seller" | buttons go by an old listing; fetches and answers cross | a page shows its own action; a sale goes to whom the seller meant |
| Browse-feed cache (`lib/feedCache.ts`) | `feed:version`, two page slots per version and filters | get, set, bump, expiry | every Redis command is an await; a fill races a bump | a page served is the feed of one instant; stale pages go |
| Feed cursors and infinite scroll (`lib/cursor.ts`, `pages/FeedPage.tsx`) | the pages a client has collected | next page, refetch | listings come and go between pages; ties of `createdAt` | nothing repeated, nothing skipped |
| Reports (`routes/listings.ts`, `models/Report.ts`) | `Report` rows, `Listing.reportCount` | report, auto-hide | insert, increment and bump are three steps | one report per user; a hidden listing leaves the feed |
| Chat server (`lib/chatService.ts`, `lib/socketServer.ts`) | `Conversation.lastSeq` and `reads`, `Message` rows | message:send, conversation:read, unread count | number and insert are two operations; retries race; crash between them | distinct numbers, one row per message, no undercount |
| Chat delivery (`lib/socketServer.ts`, `hooks/useConversationChat.ts`) | rooms, sockets, the panel's rows, high-water mark | sync, history, live events, send, time-out, retry, reconnect | events of two processes cross each other; connections drop | the panel agrees with the database; nothing is lost |
| Sessions (`routes/auth.ts`, `models/RefreshToken.ts`) | families of refresh tokens | login, refresh, logout, expiry | one-shot rotation, reuse detection, crash in the middle | one usable token per family; an ended family stays ended |
| Web session (`web/src/lib/http.ts`, `singleFlight.ts`) | the cookie, tokens in memory, the refresh in flight | bootstrap, retry after 401, login, logout | several 401s at once; tabs share the cookie; answers get lost | one refresh at a time; cookie and memory agree; a logout stays |
| Signup and codes (`routes/auth.ts`, `lib/otp.ts`) | the user document, the code in Redis | signup, verify, expiry | read-modify-write of attempts and account | bounded guesses; who verified keeps the account |
| Images (`routes/listings.ts`, `lib/thumbnail*.ts`, `lib/orphanCleanup.ts`) | `Listing.images`, the queue, Cloudinary assets | upload, attach, remove, reorder, thumbnail job, clean-up | stale write-back, job retries, clean-up on an old snapshot | a bounded list; no asset in use is deleted; orphans go |
| Rate limits, search, typing, health, forms, schemas | | | | see section 7 |

How they interact. Every transition of a listing changes what the feed shows and
owes the cache a bump of `feed:version` (a call to Redis after the write to
MongoDB); the sweeper and a report that hides a listing owe the same. The page
of a listing calls the endpoints of the lifecycle and reads the result back with
`GET /listings/:id`, and opens the conversations the chat works on. The chat
hook talks to the server through one socket per client: `sync` joins the room
and reads, `message:new` is the room's broadcast, acknowledgements are
callbacks. Tabs of a browser share the refresh cookie and nothing else. The API
and the worker share only MongoDB and Redis.

## 2. Modules

| Module | Models | Uses |
|---|---|---|
| `ListingContract` | abstract: a call arrives, takes effect at one instant on the one item, and returns | |
| `ListingLifecycle` | the handlers, `reservationService` and the sweeper, each split at its awaits, with crashes and Redis outages | instantiates `ListingContract` |
| `ListingLifecycleProofs` | theorems | extends `ListingLifecycle` |
| `ListingPage` | pages of one listing in several browsers, and the conversations opened there | extends `ListingContract` |
| `ListingPageProofs` | theorems | extends `ListingPage` |
| `FeedCache` | `GET /listings` with the version and the two slots, every Redis command a step | |
| `FeedPages` | cursors, the cached pages and the pages of an infinite query | |
| `FeedProofs` | theorems | extends `FeedCache`, `FeedPages` |
| `Reports` | reports, the count and the bump, beside the feed | |
| `ReportsProofs` | theorems | extends `Reports` |
| `ChatServer` | one conversation on the server: tries of messages and read pointers | |
| `ChatDelivery` | rooms, sync, sockets and the chat panel | extends `ChatServer` |
| `ChatProofs` | theorems | extends `ChatDelivery` |
| `SessionContract` | abstract: a session begins, ends, and never comes back | |
| `RefreshTokens` | the token endpoints, each split at its operations of MongoDB | instantiates `SessionContract` |
| `WebSession` | tabs, cookie, single-flight refresh | extends `RefreshTokens` |
| `WebSessionProofs` | theorems | extends `WebSession` |
| `SignupOtp` | signup and verification of one address | |
| `SignupOtpProofs` | theorems | extends `SignupOtp` |
| `ListingImages` | images of one listing, thumbnail jobs, clean-up, Cloudinary | |
| `ListingImagesProofs` | theorems | extends `ListingImages` |
| `MC...` | instances for TLC | |

**ListingLifecycle.** `doc` is the document (`status`, the reservation block,
`soldTo`; a missing document has status `"NONE"`). `req` holds a slot per
request in flight: `Receive` is the first read with the fast-path answers
(404, 403) and, for reserve and confirm-sale, the reading of the clock; `Publish`,
`Reserve`, `Cancel`, `ConfirmSale` and `Remove` are the `findOneAndUpdate`, whose
filter is `CanPublish`, ... and whose update is `Reserved`, ...; `Bump` or
`BumpFails` is `bumpFeedVersion`; `Reply` frees the slot. `sweep` is the run of
the job: `SweepStart` fixes the cut-off, `SweepOne` is `updateMany` reaching one
document, `SweepEnd` bumps if something was released. `now` is the clock of both
processes. `unannounced` and `bumpLost` are history variables that say which
changes of the feed still want a bump. MongoDB makes one `findOneAndUpdate` and
one document's part of an `updateMany` atomic, and the model assumes no more.

**ListingPage** stands on the contract, which the lifecycle implements, and so
sees the endpoints as calls that take effect at one instant. A page has a query
(`shown` is its data, `fetch` the GET under way) and at most one call
(`pressed`). `Serve` is `GET /listings/:id`; `StartFetch` is a mount, a poll or a
focus; `Land` puts what was fetched, or the error, on the page. `HandleReserve`
to `HandleDelete` are the buttons, shown when `OffersReserve`, ... hold of what
the page *shows*. `AnswerPanel` is the end of `runAction`, with the refetch that
drops a fetch under way; `AnswerDetail` is `applyUpdate` of publish and delete.
A press and the arrival of its call are one step. `FindConversation` and
`InsertConversation` are the two halves of the upsert in
`getOrCreateConversation`. `OnOtherPage` is what users do elsewhere, in one step.

**FeedCache.** Listings are numbered newest first, so a number is a cursor. A
writer toggles whether a listing matches and then bumps, or loses its bump
(`LoseBump`); `PatchListing` moves a listing across the filters and does not
bump. A reader goes through `GetVersion`, `GetPageOne`, `GetPageTwo`,
`QueryMongo`, and the three commands of `setCachedFeedPage` (`GetVersionAgain`,
`CheckPageOne`, `StorePage`). `Expire` is the time to live.

**FeedPages** is the same endpoint seen from a client that pages: `After` is the
filter a cursor adds, with its tie-break, `FetchNext` and `Refetch` are the infinite
query (a refetch walks the pages again from the first), `Receive` takes a page,
other clients fill the cache (`AskOther`) and `Evict` is the time to live. Its
specification is `PagingSpec`, apart from the `Spec` of `FeedCache`, so that one
module can prove theorems about both. Once a cached page 2 has answered
another cursor (`mixed`, section 6) the model follows the client no further.

**Reports** splits `POST /:id/report` into `CreateReport` (the unique index),
`Increment` and `Announce`; `ReportFails` ends the handler between them. Beside it
run the changes of status of the lifecycle: `Transition`, whose bump is a later step
(`BumpTransition`) or never comes (`TransitionFails`), and the removal, which reads
the listing first (`ReadToRemove`) and bumps by what it read (`Remove`). `Owed` says
which listings want a bump; `unannounced` remembers those whose bump has failed, or
was not made, until somebody else bumps. `Query`, `Store` and `Expire` are the cache.

**ChatServer.** A message is its `clientMsgId`; each emission of `message:send`
is a try with a handler of its own. `AllocateSeq` is the `$inc`, `InsertMessage`
the insert under the unique index, `AnswerNew` and `AnswerDuplicate` the rest of
the handler, which runs in one turn of the event loop, `Refuse` every error
path. `marks` holds the updates of read pointers that nobody awaits; they are
applied in any order (`MarkRead`) or lost (`LoseMark`). An update is an atomic `$max`,
so one that can no longer raise its pointer is left out (`StartMark`). A rejected operation of
MongoDB is assumed not to have been applied.

**ChatDelivery** adds, for each viewer (a participant with the panel open), the
socket, its room, an inbox of events in the order the server emitted them, and
the state of `useConversationChat`: the rows (keyed by `clientMsgId`), the
high-water mark `lastSeqRef`, `oldestSeqRef`, the callbacks registered. `Join` and
`AnswerSync` are the two halves of the sync handler; `Open`, `ReadHistory`,
`LoadHistory` and `HistoryFails` the initial load; `Send`, `Retry`, `Timeout` and
`Deliver` the rest of the hook. `HangUp` is what socket.io does to a lost
connection. `skipped` records what the last sync left out. `Fault` counts lost
connections, crashes and rejected operations.

**RefreshTokens and WebSession.** A token is a number in the order of creation; a
family is named by its first. `Rotate` is the conditional update of
`POST /refresh`, `LookUp` and `Burn` the path of a token that was not usable,
`Replace` the replacement, `Expire` and `Sweep` time and the TTL index. Under
`SessionContract` a family is open as long as a token of it can be refreshed or
is being replaced. `WebSession` has the tabs (`page` is what `App` renders), the
cookie that goes out with a request when it leaves and is obeyed when the answer
arrives (`Obey`), and `AskToRefresh`, which every 401 shares. A request whose
page was closed, or whose answer got lost, goes on at the API.

**SignupOtp.** `SignUp` and `Save` are the read and the write of `POST /signup`,
`StoreOtp` the Redis key; `Submit` is the GET of `verifyOtp`, `CountWrong` and
`Consume` its write, `MarkVerified` the update of the user.

**ListingImages.** `task` is how far the owner's requests for an image have got,
`job` its thumbnail job, `original` the age of the asset at Cloudinary.
`ReadOrder` and `WriteOrder` are the halves of a reorder. An attempt of the job
fails (`AttemptFails`) or its worker dies (`Stall`, the stalled check of BullMQ, which
has a limit of its own); `File` is `handleFailedJob`, a later step that may not
succeed. The weekly clean-up reads the references (`StartCleanup`), then lists a page of
assets (`ListPage`) and destroys its orphans (`DestroyPage`) until none is left, or
breaks off (`CleanupFails`). `cleanup.left` has the assets that were not referenced
and are still to be listed; any of them may share a page.

A definition whose comment starts with "Mutant:" is the plausible mistake a
property is tested against; no specification uses it.

## 3. Properties and runs

| Run | Question | Instance |
|---|---|---|
| `lifecycle` | do the handlers keep a listing consistent and implement the contract? | one listing, a seller and two buyers, two requests in flight, clock 0..3 with a hold of 1 |
| `lifecycle_live` | does every lapsed hold end? | two listings, one request slot, clock 0..2 |
| `page` | does a page show its own action, is the sale to the right buyer, is there one conversation? | two pages of any of a seller and two buyers, one action elsewhere, clock 0..2 with a hold of 1 |
| `feed` | is what is served ever a mixture, and does the cache recover? | two readers, one writer, three listings of page size 1, one change |
| `browse` | does a client that pages see every listing once? | four listings, two created together, page size 1, two requests, two changes |
| `reports` | is the count that of the reporters, and does what it hides leave the cache? | two listings, three reporters, threshold 2, four reports, two changes of status or removals |
| `chat_delivery` | are numbers, retries, unread counts and the panel right? | the buyer's panel, a message of either party, the buyer's sent up to twice, history and sync of one message, the buyer's read pointer, one drop, crash or failure |
| `sessions` | does rotation keep one usable token, do sessions end and stay ended, do tabs refresh as they should? | two tabs, three requests, three tokens, two logins, one fault |
| `signup` | are guesses bounded and does who verified keep the account? | three signups, four verifications, three attempts |
| `images` | is what a listing shows there, once? | two images, one unreadable, one place, two attempts, no second run after a stall |
| `images_live` | do jobs end and orphans go? | one image, three attempts, one stall |
| `chat_lost` | a promise of `ARCHITECTURE.md` that the code does not keep | two messages of the seller, one drop |

What the properties say; each is stated in full above its definition.

- `StatusAgrees`, `SaleIsFinal`, `HoldStands`, `TransitionsAnnounced`: status,
  reservation block and sale agree; no step changes a recorded buyer or revives a
  removed listing; only its buyer or the seller ends a reservation that has not
  run out; a change of what the feed shows is followed by a bump, failures and
  removals apart. `ImplementsContract`: refinement of `ListingContract` with
  `item <- itemBar`, `call <- callBar`. `LapsedHoldEnds`: liveness of the sweeper.
- `ActionShown`: once its calls and fetches are back, a page does not show the
  listing as it was before its own reservation, cancellation or sale, unless the
  answer was lost. `SoldAsNamed`: a listing is sold only to a buyer of whom a page
  of the seller's was told. `OneConversation`: two pages open the same one.
- `PageOneOnceTrue`, `EventuallyFresh`: of the cache. `NoRepeat`, `NoSkip`: of paging.
- `CountsReporters`: a listing's count is that of its reporters, but for reports whose
  handler has not come to the increment or was cut short before it.
  `HiddenLeavesCache`: a listing that reports have hidden is on no cached page,
  unless a bump for it is owed (still to come, lost, or not made by a removal that
  read an old status) or the page was queried before a bump and stored after it.
- `SeqsDistinct`, `RepliesFollow`, `TriesConverge`, `CountsEveryUnread`: of the
  conversation. `ViewAgrees`, `NoGapWhileConnected`: of the panel.
- `OneLivePerFamily`: two usable tokens of one family never exist, nor one beside
  a rotation under way. `ImplementsSession`: refinement of `SessionContract`.
  `NoSelfReuse`, `SignedInCanRefresh`: a single tab never presents a token it has
  rotated itself, and can refresh while it shows the app. `LogoutEnds`: a logout
  ends the session no refresh of which is unanswered.
- `VerifiedAccountKept`: a verified account keeps the password of a signup begun
  before. `LockoutEarned`, `GuessesBounded`: no attempt is counted that was not
  made; verifications that do not overlap get `MaxAttempts` guesses of a code and
  no more. `CodeMatchesPassword`: code and password are of one signup.
- `ListingWellFormed`, `AssetsBehindImages`, `AttachedStays`, `DoneMeansShown`,
  and the liveness of `JobsEnd` and `OrphansCollected`: of images. `muddled` leaves
  out images that a reorder wrote back as they had been, which the code does.
  `JobsEnd` asks that a job is done or has failed for good, and not that a failed one
  is among the dead letters (section 6). `OrphansCollected`: an original no listing
  shows goes in the end, though any clean-up may break off.

`TypeOK` is checked in a run where a mutant of the code can break it; in
`FeedPages` (`PagingTypeOK`), `ListingImages`, `SignupOtp`, `Reports` and `ListingPage`
it is stated for the reader and is proved. The inductive invariants of section 5
hold on the same instances.

Bounds, and why they are enough.

- Lifecycle: the document is a single one and every conflict is between two
  writes, so two requests and the sweeper give every pair in every order; two
  buyers are needed for a hold to change hands; three ticks let a hold be made,
  run out and be replaced, and the replacement run out. The liveness run has two
  listings, so that a sweep has something else to walk over.
- Page: `MaxOthers` bounds what happens on other pages; one action elsewhere and
  the other page are enough for a hold to lapse and go to the other buyer under
  the seller's eyes. A hold of 1 made at time 0 lapses at 2 (`MaxTime`), since a
  deadline that is now has not passed. Fetches and polls are not bounded. `AskTogether`,
  an action constraint of the run, opens conversations only where both pages have one
  viewer: what a page shows and does otherwise does not depend on it.
- Feed and browse: page 2 needs a cursor, hence two listings, and a third makes
  the cursor of page 2 matter; the fourth lets two of the same `createdAt` stand on
  either side of a cursor. One change before, during or after a fill is what
  distinguishes stale from fresh; `MaxChanges` allows one listing to come and one to go.
- Reports: `MaxReports` lets both listings reach the threshold, in any order.
  `MaxChanges` is enough for a transition whose bump is lost before the reports come
  in, and a removal that read the status before it. DRAFT, RESERVED and SOLD are one
  status, `OUT`: what matters is whether the feed shows the listing.
- Chat: two tries are a retry, two messages an order; limits of one make paging
  happen with two messages. `FaultKinds` and `MaxFaults` choose the faults; two
  tries of *both* messages are covered by the proofs. `Readers` has the read pointer
  of one participant followed: no operation touches the pointers of both, and the
  proofs hold for any `Readers`.
- Sessions: `MaxTokens` lets a family rotate twice or two families meet, and
  `MaxLogins` lets a session be replaced by another. Tabs only send a request that
  creates a token if there is one left (`Room`), so that the bound never looks
  like a refusal of the API.
- Signup: four guesses against three attempts use up a code and try once more.
- Images: two images contend for one place (`MaxImages`); with one place a reorder
  permutes nothing, and what matters of it, that it writes back entries it read
  earlier, happens all the same. Two images in two places take too long to run every
  time. With one place the half of `ListingWellFormed` that no image is listed twice
  cannot fail in the run; it rests on the web client, which attaches each publicId once
  (the handler at `routes/listings.ts:490` does not check it), and the proof has it for any
  number of places. `MaxStalls` is 1 in `images_live`, as BullMQ has it, and 0 in
  `images`, where a second run comes from a failed attempt. There is one reorder and one
  clean-up at a time. Ages count up to `MinAge`; `AttachWithin` and `CleanupWithin` are
  how long an upload waits for its attach and a clean-up takes, which must leave the day
  `ORPHAN_MIN_AGE_MS` gives them.

Deadlock is checked where the system never stops (lifecycle, page, feed); the other
models end when their requests, messages or faults are used up, so there it is not.

## 4. Fairness

`SweeperFairness` assumes that Redis outages end, that the schedule keeps starting
sweeps (BullMQ re-runs `RESERVATION_SWEEP_INTERVAL_MS`, also after a restart of
the worker), and that a sweep is not interrupted forever: strong fairness of its
steps, because a crash disables them. Nothing is assumed of the request handlers.
`FairSpec` of `FeedCache` assumes that a request that has arrived makes progress,
with an error if Redis is down, and that what is cached expires, which Redis does
by itself (`EX`). `Fairness` of `ListingImages` assumes that a job in the queue is
run to a next step or a failed attempt, that an upload that has begun is attached or
given up, that a handler that has attached an image goes on or dies, that a reorder
is written, that `handleFailedJob` files the job or fails to, that the clean-up comes
round (`scheduleWeeklyCleanup`), and that time passes. Of the clean-up's own
steps it is strong fairness, as of the sweep's: any run may break off and is not
tried again before the next week, but not every run that has an image to list breaks
off before it gets there, nor every one that is to destroy it. No fairness is assumed of clients otherwise.

## 5. Proofs

TLC finds the properties to hold on one instance; the theorems say it for every
value of the constants, the bounds included: any number of users, listings,
requests, tabs, viewers, messages, tries, readers, images, any page size and any
limit. They assume of the constants what the module that declares them names
(`LifecycleAssumption`, `PageAssumption`, `FeedAssumption`, ...): types, that `None` is
not a value it could be taken for, positive limits. Two assumptions say more.
`ImagesAssumption` has `MinAge > AttachWithin + CleanupWithin`: the day
`ORPHAN_MIN_AGE_MS` gives is longer than an upload and a clean-up take together.
`FeedPagesAssumption` has finitely many listings, as a collection has.

Every invariant, every action property and both refinements the passing runs check
are proved. Few of them are inductive: they speak of what the database or a client
holds, and not of what handlers between two awaits, or events on their way, are
about to do to it. Each module therefore states what its properties rest on, next
to them, and the conjunction of it all is the inductive invariant of that module
(the two that the lifecycle needs are in its proof module). TLC has found each of
these conjunctions to hold on the instance of its run. A proof module has lemmas
about the operators first, then one lemma per action or group of actions, then the
theorems.

| Theorem | Property | Argument |
|---|---|---|
| `ListingLifecycleProofs` | | |
| `TypeCorrect` | `TypeOK` | inductive by itself; `UpdatesTyped`, `WriteTyped` |
| `StatusCorrect` | `StatusAgrees` | inductive with `TypeOK`: the filter of each write gives what its update needs |
| `SaleFinal` | `SaleIsFinal` | by `WriteChanges`, what a write can do to a document, and `StatusAgrees` |
| `HoldsStand` | `HoldStands` | needs `TimesPast`: the times handlers and sweeps carry are not in the future, so what had lapsed then has lapsed now (`ExpiryIsMonotone`) |
| `AllAnnounced` | `TransitionsAnnounced` | inductive with `BumpsKnown`: a pending request that is not a removal and changes the feed bumps |
| `Implementation` | `ImplementsContract` | `FilterIsGuard` and `UpdateIsEffect` say that filter and update of each handler are guard and effect of the contract under the mapping; every other step stutters, arrives or returns |
| `ListingPageProofs` | | from `IInv` |
| `SalesAreNamed` | `SoldAsNamed` | `SalesNamed`: whoever a seller's page shows as holder, and whoever a sale under way names, was told to a seller's page |
| `OwnActionShown` | `ActionShown` | `ActionAwaited`: old data can only be on its way while the answer of the action is to come, and the refetch that follows drops it |
| `ConversationsConverge` | `OneConversation` | `ChatsUnique`: the unique index lets one be inserted, and who finds one finds that |
| `FeedProofs` | | from `IInv`, and from `PagingInv` |
| `FeedTyped` | `TypeOK` | `BumpsCounted`: versions and bumps to come together are no more than changes |
| `PageOneIsOnceTrue` | `PageOneOnceTrue` | `CacheOnceTrue`, `ReadersHold`: what is in slot `p1` of any version, and what a request without a cursor carries, was page 1 of one instant |
| `PagesDoNotRepeat` | `NoRepeat` | `InLine`: the pages held, and those a refetch has collected so far, follow each other cursor by cursor; `AwaitsNext`: the request awaited asks for the page after them |
| `PagesDoNotSkip` | `NoSkip` | `PagesFit`: a page has every steady listing between its cursor and its end, and so have the pages in the cache and on their way |
| `ReportsProofs` | | from `IInv` |
| `CountIsReporters` | `CountsReporters` | `ReportsBounded`; the cardinality of the reporters of a listing grows by one with a pair that is new (`ReporterAdded`) |
| `HiddenIsHidden` | `HiddenLeavesCache` | `PageTrue`, of the cached page and of the one about to be stored: a listing on it that is no longer in the feed is owed a bump, since whatever takes it off the feed owes one (`GoneIsOwed`), and goes on being owed it until a bump reaches every page (`OwedUntilBump`) |
| `ChatProofs` | | from `IInv`, and from `DInv` |
| `SeqsAreDistinct`, `RepliesSortAfter`, `RetriesConverge` | `SeqsDistinct`, `RepliesFollow`, `TriesConverge` | `HandlersAgree`: a number held between `$inc` and insert is nobody else's and above all earlier messages; a handler that found a duplicate, or has inserted, knows the row. `StoredByTry`: a message is stored only after a try has arrived, so that `earlier` is fixed before |
| `NeverUndercounts` | `CountsEveryUnread` | `PointersKnown`; maps the unread rows injectively into the numbers above the pointer |
| `DeliveryTyped`, `PanelsAgree` | `DTypeOK`, `ViewAgrees` | `EventsAgree`, `PagesStored`: what is on its way names stored rows and their numbers |
| `NothingFallsBetween` | `NoGapWhileConnected` | `NoGapInRoom`, which does not wait for the history, and `RoomsAreLive` |
| `DeliveryRunsServer` | | each step of the composition is a step of `ChatServer` or leaves it alone, so the theorems about the server hold of the composition |
| `WebSessionProofs` | | from `IInv`, and from `WIInv` |
| `RefreshTokensSafe`, `WebOneLive` | `OneLivePerFamily` | `FamiliesNamed`: a family bears the number of its first token, so a login makes a new one; `RequestsKnown`: who goes on rotating has revoked the token it shows |
| `TokensImplement`, `WebImplements` | `ImplementsSession` | the mapping `SessionOf`; each step begins or ends one session, or leaves all as they are |
| `SingleFlightSafe`, `AppHasSession` | `NoSelfReuse`, `SignedInCanRefresh` | `SingleTab`: one refresh at a time, which shows the only token of its family that may live |
| `LogoutIsFinal` | `LogoutEnds` | `HandingHolds`, `CookieCurrent`: a live token of the cookie's family is the cookie or on its way to become it |
| `WebTyped` | `WTypeOK` | inductive with the rest |
| `SignupOtpProofs` | | from `IInv` |
| `VerifiedKeepsPassword` | `VerifiedAccountKept` | `AccountOwned`: who may still write a password into a verified account began before it was verified |
| `LockoutIsEarned` | `LockoutEarned` | `CodesFresh`, `CountsEarned`: nobody holds a count above the wrong guesses made |
| `GuessesAreBounded` | `GuessesBounded` | `NoneUncounted`: while requests do not overlap no count falls short of them |
| `CodeAndPasswordAgree` | `CodeMatchesPassword` | `WritesAgree`: only between the two writes of the one signup under way do they differ |
| `ListingImagesProofs` | | from `IInv` |
| `ListingKeepsForm` | `ListingWellFormed` | `ReorderSound`: a reorder writes a well-formed list of what it read; `$pull` keeps one (`WithoutLeaves`) |
| `ListedHasAssets` | `AssetsBehindImages` | `MissedAreYoung`: an image that the clean-up found unreferenced and that is listed now is too young for it; `DoomedAreOrphans`: so what it is about to destroy is not listed and can no longer be attached; `ListedIsAttached`, `ThumbedHasThumb` |
| `AttachedIsListed`, `DoneIsShown` | `AttachedStays`, `DoneMeansShown` | `UnlistedAtFirst`, `OnlyBadRejected` |

`PageTyped`, `PagingTyped`, `ReportsTyped`, `SignupTyped` and `ImagesTyped` prove the
types of the models whose run does not check them, and `AlwaysIInv` and `AlwaysDInv` the
invariants of the chat, which say more than the properties. `Implementation` is what
lets `ListingPage` stand on the contract instead of the handlers.

Only model-checked: liveness (`LapsedHoldEnds`, `EventuallyFresh`, `JobsEnd`,
`OrphansCollected`), which needs fairness and ENABLED and is out of the prover's reach,
and the counterexample to `NothingLost`.

## 6. What the models showed

`chat_lost` has a counterexample that is a behaviour of the code: a live message
raises the high-water mark over a number that is still missing; if the connection
then drops, the next sync starts above it (`hooks/useConversationChat.ts:165`,
against `ARCHITECTURE.md:298`).

Seen while modelling, without a run of its own; the models have the behaviour, and
the properties are stated so that they hold in spite of it:

- `DELETE` decides by the status it read first whether to bump
  (`routes/listings.ts:471`). A publish, cancel or sweep in between makes the
  listing visible, the removal takes it away, and nothing bumps.
- With Redis down the bump rejects after the write was committed, and the caller
  gets a 500 for what has happened (`routes/listings.ts:332`); `GET /listings`
  rejects too (`lib/feedCache.ts:86`). `ARCHITECTURE.md:403` says "Core reads/writes
  untouched".
- `PATCH` moves a listing across the filters without a bump (`routes/listings.ts:435`).
- `setCachedFeedPage` reads the version again after the query, so a page from before
  a transition is stored under the version after it (`lib/feedCache.ts:134`).
- Page 2 is cached without its cursor. When page 1 expires first and is filled again,
  the old page 2 answers another cursor (`lib/feedCache.ts:105`), and a client may be
  led round the same pages.
- Sending moves the sender's read pointer over messages of the other party that the
  sender has not received (`lib/chatService.ts:191`), although the comments at lines 37
  and 178 say that it is caught up.
- After a failed history request the panel joins no room, so it does not "receive
  live" (`hooks/useConversationChat.ts:132`); the `hasMore` of a sync is not looked at;
  two calls of `loadOlder` put the same rows in the panel twice (line 202).
- A refresh that has rotated its token creates the replacement even if the family was
  burnt in between (`routes/auth.ts:238`): the family goes on with one usable token,
  although reuse was detected (`ARCHITECTURE.md:378`). If it dies before, the session
  is over.
- A logout while a refresh of the same session is under way in another tab revokes only
  the token it presents; the replacement lives on (`routes/auth.ts:260`).
- A wrong guess that crosses the deletion of the key writes it back without a time to
  live (`lib/otp.ts:50`), over a newer code if there is one; guesses that overlap count
  as one.
- `lib/thumbnailQueue.ts:31` says "Jobs that exhausted all retries land here for manual
  inspection/alerting". The dead letter is added by an event handler that nobody awaits
  (`lib/thumbnailWorker.ts:54`): if Redis refuses it or the worker dies first, there is
  none; and a job that has stalled too often fails with attempts left, which
  `lib/thumbnailWorker.ts:30` passes over.
- The clean-up skips thumbnails on the ground that their original is looked at
  (`lib/orphanCleanup.ts:24`), but deletes only the original, so a thumbnail uploaded
  after its image was removed stays.
- A reorder that read the images before another change writes them all back
  (`routes/listings.ts:616`): a removed image returns without its asset, one attached
  meanwhile is lost, a thumbnail is forgotten.
- A report whose handler dies before the increment is never counted, and its author
  cannot report again (`routes/listings.ts:673`).
- A listing that is reserved, and whose bump is lost, stays on the cached page. If the
  report that hides it comes in then, it bumps nothing, because the listing is not
  ACTIVE (`routes/listings.ts:332`, `683`): the hidden listing is served until
  somebody bumps or the page expires. So is one removed by a stale status (`471`).
- `applyUpdate` after publish and delete does not cancel the poll under way, whose older
  answer then overwrites it (`components/ListingDetail.tsx:72`). The panel refetches
  after success and after `LISTING_UNAVAILABLE`; the comment at
  `components/ReservationPanel.tsx:16` says "success or 409", but the 409 of a cancel or a
  confirm-sale is `CONFLICT` and leaves the old listing on the page.

## 7. What is not modelled

Within the modelled parts: one combination of filters and no
`FEED_CACHE_DISABLED` in the feed; edits of a listing's text, which touch no state
the properties see; on the page, editing, the countdown and the phone number, and two
calls at a time; in the chat `loadOlder`, unmounting the panel and the authentication of
sockets, and participants without a panel send from outside, under no connection; of
tokens, `replacedBy`, `userAgent` and `ip`, which no code reads, and whether the account
is suspended, which is left open at each step; in signup, the checks of the input; of
images, ownership checks.

Components left out for good: search mode (one stateless query), typing
indicator (best effort, no promise), rate limiting (the counting is a
library's), request schemas, health checks, forms, seeds and load scripts.

## 8. Plan

What is left:

1. The actions the liveness properties rest on, as safety: that a sweep that ends has
   released what had lapsed when it began, and that a clean-up that ends without
   failing has judged every asset.
2. That `FeedPages` abstracts `FeedCache`: what is cached under the present version
   there is what it has in `p1` and `p2`, late stores included.
3. `loadOlder`, with the panel as a sequence of rows, and several pages of history.

Modules are written to be proved about: no RECURSIVE operator, assumptions on
the constants named, one action per operation.

## 9. Running it

`tlc -config Lifecycle.cfg MCListingLifecycle.tla` and so on; the pairs of module and
configuration are in `PROJECT.json`. `tlapm ListingLifecycleProofs.tla`, and the same for
`ListingPageProofs`, `FeedProofs`, `ReportsProofs`, `ChatProofs`, `WebSessionProofs`,
`SignupOtpProofs` and `ListingImagesProofs`, check the proofs. The longest run takes under
three minutes with two workers, the longest proof a few more.

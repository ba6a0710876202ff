---------------------------- MODULE ChatDelivery ----------------------------
(***************************************************************************)
(* The live side of a conversation: ChatServer composed with the rooms and *)
(* the sync handler of lib/socketServer.ts, the connection of each client, *)
(* and the web client's hooks/useConversationChat.ts.                      *)
(*                                                                         *)
(* A viewer is a participant with the chat panel open; the tries of other  *)
(* participants arrive from outside.  What the server emits to a viewer    *)
(* stays in order in its inbox and is lost when the connection drops.  The *)
(* rows of the panel are keyed by clientMsgId, as every handler of the     *)
(* hook but loadOlder keeps them; loadOlder is not modelled.               *)
(***************************************************************************)
EXTENDS ChatServer, Sequences

CONSTANTS
    Viewers,       \* participants whose client is modelled
    SyncPageCap,   \* SYNC_PAGE_CAP
    HistoryLimit,  \* HISTORY_DEFAULT_LIMIT
    FaultKinds,    \* what may go wrong
    MaxFaults,     \* bound on faults
    NoPage         \* no page of the history is on its way

ASSUME DeliveryAssumption ==
    /\ Viewers \subseteq Participants
    /\ SyncPageCap \in Nat \ {0}
    /\ HistoryLimit \in Nat \ {0}
    /\ FaultKinds \subseteq {"drop", "crash", "failure"}
    /\ MaxFaults \in Nat

VARIABLES
    up,            \* [Viewers -> the socket is connected]
    inRoom,        \* [Viewers -> the socket has joined the conversation's room]
    inbox,         \* [Viewers -> events on their way to the client]
    uplink,        \* tries emitted by viewers and not received yet
    syncs,         \* [Viewers -> sync requests the server has not answered]
    panel,         \* [Viewers -> "closed", "loading" or "open"]
    history,       \* [Viewers -> the page of GET .../messages on its way, or NoPage]
    view,          \* [Viewers -> rows of the panel: messages]
    highWater,     \* [Viewers -> lastSeqRef]
    oldest,        \* [Viewers -> oldestSeqRef, 0 for null]
    waiting,       \* [Viewers -> tries whose acknowledgement has a callback]
    skipped,       \* history: [Viewers -> messages the last sync left out]
    faults         \* faults so far

clientVars == <<panel, history, view, highWater, oldest, waiting>>
netVars    == <<up, inRoom, inbox, uplink, syncs, faults>>
vars       == <<serverVars, clientVars, netVars, skipped>>

-----------------------------------------------------------------------------
NoRow  == [status |-> "none", seq |-> NotStored]
Row(status, seq) == [status |-> status, seq |-> seq]
Rows   == [status : {"none", "pending", "failed", "sent"}, seq : Nat]

\* Events from the server; the hasMore of a sync answer is never looked at.
New(i)        == [type |-> "new", i |-> i]
Ack(i, k)     == [type |-> "ack", i |-> i, k |-> k, seq |-> try'[i][k].seq]
Error(i, k)   == [type |-> "error", i |-> i, k |-> k]
Sync(S)       == [type |-> "sync", page |-> S]

Highest(S) == IF S = {} THEN 0 ELSE CHOOSE n \in S : \A m \in S : m <= n
Lowest(S)  == IF S = {} THEN 0 ELSE CHOOSE n \in S : \A m \in S : n <= m
SeqsOf(S)  == {stored[i] : i \in S}
MaxOf(m, n) == IF m < n THEN n ELSE m

DInit ==
    /\ Init
    /\ up = [u \in Viewers |-> TRUE]
    /\ inRoom = [u \in Viewers |-> FALSE]
    /\ inbox = [u \in Viewers |-> <<>>]
    /\ uplink = {}
    /\ syncs = [u \in Viewers |-> {}]
    /\ panel = [u \in Viewers |-> "closed"]
    /\ history = [u \in Viewers |-> NoPage]
    /\ view = [u \in Viewers |-> [i \in Messages |-> NoRow]]
    /\ highWater = [u \in Viewers |-> 0]
    /\ oldest = [u \in Viewers |-> 0]
    /\ waiting = [u \in Viewers |-> {}]
    /\ skipped = [u \in Viewers |-> {}]
    /\ faults = 0

-----------------------------------------------------------------------------
(* The server's side.                                                      *)

\* One more fault: a connection lost, the API process dead, or a failure of
\* MongoDB, a refusal of the rate limiter, an update lost.
Fault(kind) ==
    /\ kind \in FaultKinds
    /\ faults < MaxFaults
    /\ faults' = faults + 1

\* A try of a viewer arrives over its connection.
DReceive(i, k) ==
    /\ Receive(i, k)
    /\ Author[i] \in Viewers => up[Author[i]] /\ <<i, k>> \in uplink
    /\ uplink' = uplink \ {<<i, k>>}
    /\ UNCHANGED <<clientVars, skipped, up, inRoom, inbox, syncs, faults>>

\* The acknowledgement reaches the client if the try's callback is still
\* registered, hence its connection the same.
Answering(i, k, u) == Author[i] = u /\ <<i, k>> \in waiting[u]

\* Mutant: socket.to(room), which leaves the sender out.
DAnswerNewToOthers(i, k) ==
    /\ AnswerNew(i, k)
    /\ inbox' = [u \in Viewers |->
          inbox[u] \o (IF inRoom[u] /\ u # Author[i] THEN <<New(i)>> ELSE <<>>)
                   \o (IF Answering(i, k, u) THEN <<Ack(i, k)>> ELSE <<>>)]
    /\ UNCHANGED <<clientVars, skipped, up, inRoom, uplink, syncs, faults>>

\* io.to(room).emit(message:new), then ack.
DAnswerNew(i, k) ==
    /\ AnswerNew(i, k)
    /\ inbox' = [u \in Viewers |->
          inbox[u] \o (IF inRoom[u] THEN <<New(i)>> ELSE <<>>)
                   \o (IF Answering(i, k, u) THEN <<Ack(i, k)>> ELSE <<>>)]
    /\ UNCHANGED <<clientVars, skipped, up, inRoom, uplink, syncs, faults>>

\* A duplicate is not broadcast again.
DAnswerDuplicate(i, k) ==
    /\ AnswerDuplicate(i, k)
    /\ inbox' = [u \in Viewers |->
          IF Answering(i, k, u) THEN Append(inbox[u], Ack(i, k)) ELSE inbox[u]]
    /\ UNCHANGED <<clientVars, skipped, up, inRoom, uplink, syncs, faults>>

DRefuse(i, k) ==
    /\ Fault("failure")
    /\ Refuse(i, k)
    /\ inbox' = [u \in Viewers |->
          IF Answering(i, k, u) THEN Append(inbox[u], Error(i, k)) ELSE inbox[u]]
    /\ UNCHANGED <<clientVars, skipped, up, inRoom, uplink, syncs>>

DStore(i, k) ==
    /\ AllocateSeq(i, k) \/ InsertMessage(i, k)
    /\ UNCHANGED <<clientVars, netVars, skipped>>

DMark(u, seq) ==
    /\ \/ MarkRead(u, seq) /\ UNCHANGED faults
       \/ LoseMark(u, seq) /\ Fault("failure")
    /\ UNCHANGED <<clientVars, skipped, up, inRoom, inbox, uplink, syncs>>

\* The sync handler joins the room ...
Join(u) ==
    \E r \in syncs[u] :
        /\ r.step = "asked"
        /\ syncs' = [syncs EXCEPT ![u] = (@ \ {r}) \cup {[r EXCEPT !.step = "joined"]}]
        /\ inRoom' = [inRoom EXCEPT ![u] = TRUE]
        /\ UNCHANGED <<serverVars, clientVars, skipped, up, inbox, uplink, faults>>

\* getMessagesSince: the first SYNC_PAGE_CAP messages above after.
Since(after) == {i \in Messages : stored[i] > after}
FirstOf(S)   == {i \in S : Cardinality({j \in S : stored[j] < stored[i]}) < SyncPageCap}

\* ... then reads what the client has not got, and answers.
AnswerSync(u) ==
    \E r \in syncs[u] :
        /\ r.step = "joined"
        /\ LET page == FirstOf(Since(r.after))
           IN  /\ inbox' = [inbox EXCEPT ![u] = Append(@, Sync(page))]
               /\ skipped' = [skipped EXCEPT ![u] = {i \in Messages : IsStored(i)} \ page]
        /\ syncs' = [syncs EXCEPT ![u] = @ \ {r}]
        /\ UNCHANGED <<serverVars, clientVars, up, inRoom, uplink, faults>>

\* The sync handler fails; the client ignores the error acknowledgement.
SyncFails(u) ==
    /\ Fault("failure")
    /\ \E r \in syncs[u] : syncs' = [syncs EXCEPT ![u] = @ \ {r}]
    /\ skipped' = [skipped EXCEPT ![u] = Messages]
    /\ UNCHANGED <<serverVars, clientVars, up, inRoom, inbox, uplink>>

-----------------------------------------------------------------------------
(* The client: opening the panel.                                          *)

\* emit(sync, { lastSeq: lastSeqRef.current })
Ask(u, after) == syncs' = [syncs EXCEPT ![u] = @ \cup {[step |-> "asked", after |-> after]}]

\* The panel is mounted and asks for the most recent page of the history.
Open(u) ==
    /\ panel[u] = "closed"
    /\ panel' = [panel EXCEPT ![u] = "loading"]
    /\ UNCHANGED <<serverVars, netVars, skipped, history, view, highWater, oldest, waiting>>

\* getMessagesBefore without beforeSeq.
ReadHistory(u) ==
    /\ panel[u] = "loading"
    /\ history[u] = NoPage
    /\ LET all == {i \in Messages : IsStored(i)}
       IN  history' = [history EXCEPT ![u] =
              {i \in all : Cardinality({j \in all : stored[j] > stored[i]}) < HistoryLimit}]
    /\ UNCHANGED <<serverVars, netVars, skipped, panel, view, highWater, oldest, waiting>>

\* The page replaces the rows and the high-water mark, whatever live events
\* have put there in the meantime, and sync closes the gap.
LoadHistory(u) ==
    /\ panel[u] = "loading"
    /\ history[u] # NoPage
    /\ LET page == history[u]
       IN  /\ view' = [view EXCEPT ![u] = [i \in Messages |->
                          IF i \in page THEN Row("sent", stored[i]) ELSE NoRow]]
           /\ highWater' = [highWater EXCEPT ![u] = Highest(SeqsOf(page))]
           /\ oldest' = [oldest EXCEPT ![u] = Lowest(SeqsOf(page))]
           /\ IF up[u] THEN Ask(u, Highest(SeqsOf(page))) ELSE UNCHANGED syncs
    /\ history' = [history EXCEPT ![u] = NoPage]
    /\ panel' = [panel EXCEPT ![u] = "open"]
    /\ UNCHANGED <<serverVars, skipped, waiting, up, inRoom, inbox, uplink, faults>>

\* The request fails, which is swallowed: no sync is asked for.
HistoryFails(u) ==
    /\ Fault("failure")
    /\ panel[u] = "loading"
    /\ history' = [history EXCEPT ![u] = NoPage]
    /\ panel' = [panel EXCEPT ![u] = "open"]
    /\ UNCHANGED <<serverVars, skipped, view, highWater, oldest, waiting,
                   up, inRoom, inbox, uplink, syncs>>

-----------------------------------------------------------------------------
(* The client: sending.                                                    *)

SetStatus(rows, i, status) ==
    IF rows[i] = NoRow THEN rows ELSE [rows EXCEPT ![i].status = status]

\* sendPayload: the row is pending and the try is emitted, into socket.io's
\* buffer while the connection is down.
SendPayload(u, i, k, rows) ==
    /\ view' = [view EXCEPT ![u] = rows]
    /\ uplink' = uplink \cup {<<i, k>>}
    /\ waiting' = [waiting EXCEPT ![u] = @ \cup {<<i, k>>}]
    /\ UNCHANGED <<serverVars, skipped, panel, history, highWater, oldest,
                   up, inRoom, inbox, syncs, faults>>

\* No try of i numbered k or above has been emitted.
Fresh(i, k) == \A n \in k .. MaxTries[i] : try[i][n] = Unsent /\ <<i, n>> \notin uplink

Send(u, i) ==
    /\ Author[i] = u
    /\ panel[u] # "closed"
    /\ Fresh(i, 1)
    /\ view[u][i] = NoRow
    /\ SendPayload(u, i, 1, [view[u] EXCEPT ![i] = Row("pending", NotStored)])

\* The user retries a message shown as failed.
Retry(u, i) ==
    /\ Author[i] = u
    /\ view[u][i].status = "failed"
    /\ \E k \in Tries(i) :
          /\ Fresh(i, k)
          /\ k > 1 => ~Fresh(i, k - 1)
          /\ SendPayload(u, i, k, SetStatus(view[u], i, "pending"))

\* .timeout(8_000): the callback gives up; a try still in the buffer is dropped.
Timeout(u, i, k) ==
    /\ <<i, k>> \in waiting[u]
    /\ waiting' = [waiting EXCEPT ![u] = @ \ {<<i, k>>}]
    /\ view' = [view EXCEPT ![u] = SetStatus(@, i, "failed")]
    /\ uplink' = IF up[u] THEN uplink ELSE uplink \ {<<i, k>>}
    /\ UNCHANGED <<serverVars, skipped, panel, history, highWater, oldest,
                   up, inRoom, inbox, syncs, faults>>

-----------------------------------------------------------------------------
(* The client: events.                                                     *)

\* The rows after events that carry the messages of S as stored.
Shown(rows, S) == [i \in Messages |-> IF i \in S THEN Row("sent", stored[i]) ELSE rows[i]]

\* Messages S arrive: they are shown, the high-water mark is raised to the
\* highest number and everything up to it is reported as read.
Arrive(u, S) ==
    LET top == MaxOf(highWater[u], Highest(SeqsOf(S)))
    IN  /\ view' = [view EXCEPT ![u] = Shown(@, S)]
        /\ highWater' = [highWater EXCEPT ![u] = top]
        /\ UNCHANGED waiting

\* handleMessageNew
HandleMessageNew(u, e) ==
    /\ e.type = "new"
    /\ Arrive(u, {e.i})
    /\ ReadUpTo(u, e.i)

\* The callback of runSync: hasMore is not looked at.
HandleSync(u, e) ==
    /\ e.type = "sync"
    /\ IF e.page = {}
       THEN UNCHANGED <<serverVars, view, highWater, waiting>>
       ELSE /\ Arrive(u, e.page)
            /\ \E i \in Messages : stored[i] = highWater'[u] /\ ReadUpTo(u, i)

\* The callback of a try, unless it has timed out.
HandleAck(u, e) ==
    /\ e.type \in {"ack", "error"}
    /\ waiting' = [waiting EXCEPT ![u] = @ \ {<<e.i, e.k>>}]
    /\ IF <<e.i, e.k>> \notin waiting[u]
       THEN UNCHANGED <<view, highWater>>
       ELSE IF e.type = "error"
       THEN view' = [view EXCEPT ![u] = SetStatus(@, e.i, "failed")] /\ UNCHANGED highWater
       ELSE /\ view' = [view EXCEPT ![u] =
                  IF @[e.i] = NoRow THEN @ ELSE [@ EXCEPT ![e.i] = Row("sent", e.seq)]]
            /\ highWater' = [highWater EXCEPT ![u] = MaxOf(@, e.seq)]
    /\ UNCHANGED serverVars

Deliver(u) ==
    /\ inbox[u] # <<>>
    /\ LET e == Head(inbox[u])
       IN  HandleMessageNew(u, e) \/ HandleSync(u, e) \/ HandleAck(u, e)
    /\ inbox' = [inbox EXCEPT ![u] = Tail(@)]
    /\ UNCHANGED <<skipped, panel, history, oldest, up, inRoom, uplink, syncs, faults>>

-----------------------------------------------------------------------------
(* Connections.                                                            *)

\* What is left of the connections of the viewers in Lost.  socket.io fails
\* the callbacks of what it had emitted.
HangUp(Lost) ==
    /\ up' = [u \in Viewers |-> up[u] /\ u \notin Lost]
    /\ inRoom' = [u \in Viewers |-> inRoom[u] /\ u \notin Lost]
    /\ inbox' = [u \in Viewers |-> IF u \in Lost THEN <<>> ELSE inbox[u]]
    /\ syncs' = [u \in Viewers |-> IF u \in Lost THEN {} ELSE syncs[u]]
    /\ uplink' = {t \in uplink : Author[t[1]] \notin Lost}
    /\ waiting' = [u \in Viewers |-> IF u \in Lost THEN {} ELSE waiting[u]]
    /\ view' = [u \in Viewers |-> [i \in Messages |->
                  IF u \in Lost /\ \E k \in Tries(i) : <<i, k>> \in waiting[u]
                  THEN SetStatus(view[u], i, "failed")[i] ELSE view[u][i]]]
    /\ skipped' = [u \in Viewers |-> IF u \in Lost THEN {} ELSE skipped[u]]
    /\ UNCHANGED <<panel, history, highWater, oldest>>

Disconnect(u) ==
    /\ up[u]
    /\ Fault("drop")
    /\ HangUp({u})
    /\ UNCHANGED serverVars

\* The API process dies, and with it every connection.
DCrash ==
    /\ Crash
    /\ Fault("crash")
    /\ HangUp({u \in Viewers : up[u]})

\* The socket connects: socket.io flushes its buffer, and a mounted panel syncs.
Connect(u) ==
    /\ ~up[u]
    /\ up' = [up EXCEPT ![u] = TRUE]
    /\ IF panel[u] = "closed" THEN UNCHANGED syncs ELSE Ask(u, highWater[u])
    /\ UNCHANGED <<serverVars, clientVars, skipped, inRoom, inbox, uplink, faults>>

DNext ==
    \/ \E i \in Messages : \E k \in Tries(i) :
          \/ DReceive(i, k) \/ DStore(i, k) \/ DRefuse(i, k)
          \/ DAnswerNew(i, k) \/ DAnswerDuplicate(i, k)
    \/ \E m \in marks : DMark(m[1], m[2])
    \/ \E u \in Viewers :
          \/ Join(u) \/ AnswerSync(u) \/ SyncFails(u)
          \/ Open(u) \/ ReadHistory(u) \/ LoadHistory(u) \/ HistoryFails(u)
          \/ Deliver(u) \/ Disconnect(u) \/ Connect(u)
          \/ \E i \in Messages : \/ Send(u, i) \/ Retry(u, i)
                                 \/ \E k \in Tries(i) : Timeout(u, i, k)
    \/ DCrash

DSpec == DInit /\ [][DNext]_vars

-----------------------------------------------------------------------------
(* Properties.                                                             *)

Events ==
    [type : {"new"}, i : Messages] \cup [type : {"error"}, i : Messages, k : Nat]
    \cup [type : {"ack"}, i : Messages, k : Nat, seq : Nat]
    \cup [type : {"sync"}, page : SUBSET Messages]

DTypeOK ==
    /\ TypeOK
    /\ up \in [Viewers -> BOOLEAN] /\ inRoom \in [Viewers -> BOOLEAN]
    /\ inbox \in [Viewers -> Seq(Events)]
    /\ uplink \in SUBSET (Messages \X Nat)
    /\ syncs \in [Viewers -> SUBSET [step : {"asked", "joined"}, after : Nat]]
    /\ panel \in [Viewers -> {"closed", "loading", "open"}]
    /\ history \in [Viewers -> (SUBSET Messages) \cup {NoPage}]
    /\ view \in [Viewers -> [Messages -> Rows]]
    /\ highWater \in [Viewers -> Nat] /\ oldest \in [Viewers -> Nat]
    /\ waiting \in [Viewers -> SUBSET (Messages \X Nat)]
    /\ skipped \in [Viewers -> SUBSET Messages]
    /\ faults \in 0 .. MaxFaults

InView(u, i)   == view[u][i] # NoRow
InInbox(u, i)  == \E n \in 1 .. Len(inbox[u]) :
                     LET e == inbox[u][n]
                     IN  IF e.type = "sync" THEN i \in e.page ELSE e.type = "new" /\ e.i = i
Subscribed(u)  == up[u] /\ inRoom[u] /\ panel[u] = "open" /\ syncs[u] = {}
Answered       == \A i \in Messages : \A k \in Tries(i) : try[i][k].pc \notin Running

\* The panel never shows a message as sent that is not stored, nor under a
\* number other than its row's, whatever tries, broadcasts, acknowledgements
\* and pages cross each other.
ViewAgrees ==
    \A u \in Viewers, i \in Messages :
        view[u][i].status = "sent" => IsStored(i) /\ view[u][i].seq = stored[i]

\* Between two faults nothing falls between sync and the live events: what is
\* stored is in the panel, on its way, about to be broadcast, or was stored and
\* left out when the last sync was answered.
Covered(u, i) ==
    \/ InView(u, i) \/ InInbox(u, i) \/ i \in skipped[u]
    \/ \E k \in Tries(i) : try[i][k].pc = "answer"
NoGapWhileConnected ==
    \A u \in Viewers : Subscribed(u) =>
        \A i \in Messages : IsStored(i) => Covered(u, i)

\* Nothing is under way that could still change what viewer u sees.
Settled(u) == Subscribed(u) /\ inbox[u] = <<>> /\ Answered

\* What a settled viewer should see: all from the oldest message loaded on.
SeesAll(u) == \A i \in Messages : IsStored(i) /\ stored[i] >= oldest[u] => InView(u, i)

\* Every message reaches every panel, dropped connections notwithstanding
\* (ARCHITECTURE.md:298 "messages are never "lost" when campus wifi drops").
NothingLost == \A u \in Viewers : Settled(u) => SeesAll(u)

-----------------------------------------------------------------------------
(* What ViewAgrees and NoGapWhileConnected rest on.                        *)

\* What is on its way to a client was stored when it was sent, under the
\* number that is sent.
EventAgrees(e) ==
    /\ e.type = "new" => IsStored(e.i)
    /\ e.type = "ack" => IsStored(e.i) /\ e.seq = stored[e.i]
    /\ e.type = "sync" => \A i \in e.page : IsStored(i)
EventsAgree == \A u \in Viewers : \A n \in 1 .. Len(inbox[u]) : EventAgrees(inbox[u][n])
PagesStored ==
    \A u \in Viewers : history[u] # NoPage => \A i \in history[u] : IsStored(i)

\* A dead connection is in no room and has no sync under way.
RoomsAreLive == \A u \in Viewers : inRoom[u] \/ syncs[u] # {} => up[u]

\* Between two faults there is no gap from the answer to a sync on, whether
\* the panel has its history yet or not.
NoGapInRoom ==
    \A u \in Viewers : inRoom[u] /\ syncs[u] = {} =>
        \A i \in Messages : IsStored(i) => Covered(u, i)

DInv ==
    DTypeOK /\ IInv /\ ViewAgrees /\ EventsAgree /\ PagesStored /\ RoomsAreLive /\ NoGapInRoom
=============================================================================

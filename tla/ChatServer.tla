----------------------------- MODULE ChatServer -----------------------------
(***************************************************************************)
(* One conversation on the server: the message:send and conversation:read  *)
(* handlers of lib/socketServer.ts with sendMessage and markRead of        *)
(* lib/chatService.ts.                                                     *)
(*                                                                         *)
(* A message is its clientMsgId, chosen by the web client and sent again   *)
(* on a retry; each emission of message:send is a try with a handler of    *)
(* its own.  A handler takes a sequence number from the conversation,      *)
(* inserts the message, and then, in one turn of the event loop, starts    *)
(* the update of the sender's read pointer, broadcasts and acknowledges;   *)
(* handlers interleave at each await.                                      *)
(***************************************************************************)
EXTENDS Naturals, FiniteSets

CONSTANTS
    Participants,  \* the buyer and the seller of the conversation
    Readers,       \* those whose read pointer is followed
    Messages,      \* clientMsgIds
    Author,        \* the sender of each message
    MaxTries       \* bound on the tries of each message

ASSUME ChatAssumption ==
    /\ Readers \subseteq Participants
    /\ Author \in [Messages -> Participants]
    /\ MaxTries \in [Messages -> Nat \ {0}]

VARIABLES
    lastSeq,       \* Conversation.lastSeq
    reads,         \* [Readers -> Conversation.reads]
    stored,        \* [Messages -> Message.seq, or NotStored]
    try,           \* [Messages -> [tries -> handler of message:send]]
    marks,         \* updates under way that may raise a read pointer
    earlier        \* history: what was stored when the message was first sent

serverVars == <<lastSeq, reads, stored, try, marks, earlier>>

-----------------------------------------------------------------------------
Tries(i)  == 1 .. MaxTries[i]
NotStored == 0

\* The steps of a handler: it holds its number from "insert" on.
Unsent         == [pc |-> "unsent", seq |-> NotStored]
Handling(s, n) == [pc |-> s, seq |-> n]
Running        == {"allocate", "insert", "find", "answer"}
Ended          == {"acked", "refused", "dead"}
Handler        == [pc : Running \cup Ended \cup {"unsent"}, seq : Nat]

IsStored(i) == stored[i] # NotStored

Init ==
    /\ lastSeq = 0
    /\ reads = [u \in Readers |-> 0]
    /\ stored = [i \in Messages |-> NotStored]
    /\ try = [i \in Messages |-> [k \in Tries(i) |-> Unsent]]
    /\ marks = {}
    /\ earlier = [i \in Messages |-> {}]

Step(i, k, next) == try' = [try EXCEPT ![i][k] = next]

-----------------------------------------------------------------------------
(* message:send                                                            *)

\* A try reaches the server.
Receive(i, k) ==
    /\ try[i][k] = Unsent
    /\ Step(i, k, Handling("allocate", NotStored))
    /\ earlier' = IF \A n \in Tries(i) : try[i][n] = Unsent
                  THEN [earlier EXCEPT ![i] = {j \in Messages : IsStored(j)}]
                  ELSE earlier
    /\ UNCHANGED <<lastSeq, reads, stored, marks>>

\* Mutant: the number is read and not taken.
AllocateSeqNoInc(i, k) ==
    /\ try[i][k].pc = "allocate"
    /\ Step(i, k, Handling("insert", lastSeq + 1))
    /\ UNCHANGED <<lastSeq, reads, stored, marks, earlier>>

\* $inc: { lastSeq: 1 }
AllocateSeq(i, k) ==
    /\ try[i][k].pc = "allocate"
    /\ lastSeq' = lastSeq + 1
    /\ Step(i, k, Handling("insert", lastSeq + 1))
    /\ UNCHANGED <<reads, stored, marks, earlier>>

\* Mutant: no unique index; the row of a message is replaced.
InsertReplacing(i, k) ==
    /\ try[i][k].pc = "insert"
    /\ stored' = [stored EXCEPT ![i] = try[i][k].seq]
    /\ Step(i, k, Handling("answer", try[i][k].seq))
    /\ UNCHANGED <<lastSeq, reads, marks, earlier>>

\* Message.create: the unique index on clientMsgId refuses a second row.
InsertMessage(i, k) ==
    /\ try[i][k].pc = "insert"
    /\ IF IsStored(i)
       THEN Step(i, k, Handling("find", NotStored)) /\ UNCHANGED stored
       ELSE /\ stored' = [stored EXCEPT ![i] = try[i][k].seq]
            /\ Step(i, k, Handling("answer", try[i][k].seq))
    /\ UNCHANGED <<lastSeq, reads, marks, earlier>>

\* An update of a read pointer starts.  It is an atomic $max: one that can no
\* longer raise the pointer is left out.
StartMark(u, seq) ==
    marks' = IF u \in Readers /\ reads[u] < seq THEN marks \cup {<<u, seq>>} ELSE marks

\* The handler starts the update of the sender's read pointer, which it does
\* not await, and acknowledges with seq.
Acknowledge(i, k, seq) ==
    /\ Step(i, k, Handling("acked", seq))
    /\ StartMark(Author[i], seq)
    /\ UNCHANGED <<lastSeq, reads, stored, earlier>>

\* The insert has resolved: broadcast and acknowledge.
AnswerNew(i, k) ==
    /\ try[i][k].pc = "answer"
    /\ Acknowledge(i, k, try[i][k].seq)

\* Mutant: a duplicate is acknowledged with the conversation's number.
AnswerDuplicateLastSeq(i, k) ==
    /\ try[i][k].pc = "find"
    /\ Acknowledge(i, k, lastSeq)

\* The insert was refused as a duplicate: the first row is acknowledged.
AnswerDuplicate(i, k) ==
    /\ try[i][k].pc = "find"
    /\ Acknowledge(i, k, stored[i])

\* Mutant: a refused try gives a number back.
RefuseGivingBack(i, k) ==
    /\ try[i][k].pc \in {"allocate", "insert", "find"}
    /\ lastSeq' = lastSeq - 1
    /\ Step(i, k, Handling("refused", NotStored))
    /\ UNCHANGED <<reads, stored, marks, earlier>>

\* Too many messages per minute, or an operation of MongoDB fails: an error
\* acknowledgement.  A number that was taken stays taken.
Refuse(i, k) ==
    /\ try[i][k].pc \in {"allocate", "insert", "find"}
    /\ Step(i, k, Handling("refused", NotStored))
    /\ UNCHANGED <<lastSeq, reads, stored, marks, earlier>>

-----------------------------------------------------------------------------
(* Read pointers.                                                          *)

\* conversation:read from a client that holds message i.
ReadUpTo(u, i) ==
    /\ IsStored(i)
    /\ StartMark(u, stored[i])
    /\ UNCHANGED <<lastSeq, reads, stored, try, earlier>>

\* $max: { reads.u: seq }
MarkRead(u, seq) ==
    /\ <<u, seq>> \in marks
    /\ marks' = {m \in marks : m[1] = u => seq < m[2]}
    /\ reads' = IF reads[u] < seq THEN [reads EXCEPT ![u] = seq] ELSE reads
    /\ UNCHANGED <<lastSeq, stored, try, earlier>>

\* An update of a read pointer fails, or its event is lost with its connection.
LoseMark(u, seq) ==
    /\ <<u, seq>> \in marks
    /\ marks' = marks \ {<<u, seq>>}
    /\ UNCHANGED <<lastSeq, reads, stored, try, earlier>>

\* The API process dies with every handler it runs.
Crash ==
    /\ try' = [i \in Messages |-> [k \in Tries(i) |->
                  IF try[i][k].pc \in Running THEN Handling("dead", NotStored) ELSE try[i][k]]]
    /\ marks' = {}
    /\ UNCHANGED <<lastSeq, reads, stored, earlier>>

Handle(i, k) ==
    \/ AllocateSeq(i, k) \/ InsertMessage(i, k)
    \/ AnswerNew(i, k) \/ AnswerDuplicate(i, k) \/ Refuse(i, k)

Next ==
    \/ \E i \in Messages : \E k \in Tries(i) : Receive(i, k) \/ Handle(i, k)
    \/ \E u \in Participants, i \in Messages : ReadUpTo(u, i)
    \/ \E m \in marks : MarkRead(m[1], m[2]) \/ LoseMark(m[1], m[2])
    \/ Crash

Spec == Init /\ [][Next]_serverVars

-----------------------------------------------------------------------------
(* Properties.                                                             *)

TypeOK ==
    /\ lastSeq \in Nat
    /\ reads \in [Readers -> Nat]
    /\ stored \in [Messages -> Nat]
    /\ DOMAIN try = Messages
    /\ \A i \in Messages : try[i] \in [Tries(i) -> Handler]
    /\ marks \in SUBSET (Readers \X Nat)
    /\ earlier \in [Messages -> SUBSET Messages]

\* No two messages have the same number, and no number is above the
\* conversation's, so that sync and scrollback miss nothing for lack of order
\* (models/Message.ts: "allocated atomically").
SeqsDistinct ==
    /\ \A i \in Messages : stored[i] <= lastSeq
    /\ \A i, j \in Messages : IsStored(i) /\ i # j => stored[i] # stored[j]

\* A message sent after another was stored gets the higher number, however many
\* tries either takes: a reply never sorts before what it replies to.
RepliesFollow ==
    \A i \in Messages : IsStored(i) =>
        \A j \in earlier[i] : stored[j] < stored[i]

\* Every acknowledgement of a message, of whichever try, names the number of its
\* one row (lib/chatService.ts: "every retry of the same clientMsgId converges
\* on one row").
TriesConverge ==
    \A i \in Messages : \A k \in Tries(i) :
        try[i][k].pc = "acked" => IsStored(i) /\ try[i][k].seq = stored[i]

\* The unread count of toConversationListItem.
UnreadCount(u) == IF reads[u] < lastSeq THEN lastSeq - reads[u] ELSE 0

\* The unread count is at least the number of messages above the read pointer,
\* numbers that were wasted notwithstanding, and the pointer is never ahead of
\* the conversation.
CountsEveryUnread ==
    \A u \in Readers :
        /\ reads[u] <= lastSeq
        /\ Cardinality({i \in Messages : stored[i] > reads[u]}) <= UnreadCount(u)

-----------------------------------------------------------------------------
(* What the properties rest on between the steps of the handlers.          *)

\* A number held for an insert is positive, at most the conversation's, that of
\* no row and no other handler, and above those of all earlier messages.
NumberHeld(i, k) ==
    LET n == try[i][k].seq
    IN  /\ n # NotStored /\ n <= lastSeq
        /\ \A j \in Messages : stored[j] # n
        /\ \A j \in earlier[i] : stored[j] < n
        /\ \A j \in Messages : \A m \in Tries(j) :
              try[j][m].pc = "insert" /\ try[j][m].seq = n => j = i /\ m = k

\* What a handler knows at each of its steps.
HandlersAgree ==
    \A i \in Messages : \A k \in Tries(i) :
        /\ try[i][k].pc = "insert" => NumberHeld(i, k)
        /\ try[i][k].pc = "find" => IsStored(i)
        /\ try[i][k].pc \in {"answer", "acked"} => IsStored(i) /\ try[i][k].seq = stored[i]

\* A message is stored by one of its tries; earlier messages were stored.
StoredByTry ==
    \A i \in Messages :
        /\ IsStored(i) => \E k \in Tries(i) : try[i][k] # Unsent
        /\ \A j \in earlier[i] : IsStored(j)

\* No read pointer, set or on its way, is ahead of the conversation.
PointersKnown ==
    /\ \A u \in Readers : reads[u] <= lastSeq
    /\ \A m \in marks : m[2] <= lastSeq

\* What holds between any two steps of any handlers: the properties with what
\* each handler of message:send relies on when it resumes after an await.
IInv == TypeOK /\ SeqsDistinct /\ RepliesFollow /\ HandlersAgree /\ StoredByTry /\ PointersKnown
=============================================================================

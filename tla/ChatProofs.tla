----------------------------- MODULE ChatProofs -----------------------------
(***************************************************************************)
(* Theorems about ChatServer, then about ChatDelivery, for every set of    *)
(* participants, viewers and messages, every number of tries and faults,   *)
(* and every length of the pages.                                          *)
(***************************************************************************)
EXTENDS ChatDelivery, SequenceTheorems, FiniteSetTheorems, WellFoundedInduction, TLAPS

\* The records of a handler at its steps.
LEMMA HandlersTyped ==
    /\ Unsent \in Handler
    /\ \A s \in Running \cup Ended, n \in Nat : Handling(s, n) \in Handler
    /\ \A s \in Running \cup Ended, n \in Nat : Handling(s, n) # Unsent
BY DEF Unsent, Handling, Handler, Running, Ended, NotStored

\* A step of one try leaves every other try alone.
LEMMA StepChanges ==
    ASSUME TypeOK, NEW i \in Messages, NEW k \in Tries(i), NEW next \in Handler,
           Step(i, k, next)
    PROVE  /\ try'[i][k] = next
           /\ \A j \in Messages : \A m \in Tries(j) :
                 j # i \/ m # k => try'[j][m] = try[j][m]
           /\ DOMAIN try' = Messages
           /\ \A j \in Messages : try'[j] \in [Tries(j) -> Handler]
<1>1. try[i] \in [Tries(i) -> Handler] /\ DOMAIN try = Messages
  BY DEF TypeOK
<1>2. try' = [j \in Messages |-> IF j = i THEN [try[i] EXCEPT ![k] = next] ELSE try[j]]
  BY <1>1 DEF Step
<1>3. [try[i] EXCEPT ![k] = next] \in [Tries(i) -> Handler]
  BY <1>1
<1>4. \A j \in Messages : try'[j] \in [Tries(j) -> Handler]
  BY <1>2, <1>3 DEF TypeOK
<1>5. QED
  BY <1>1, <1>2, <1>4

\* The step of the try that moves in each action of a handler.
LEMMA TypedTry ==
    ASSUME TypeOK, NEW i \in Messages, NEW k \in Tries(i)
    PROVE  /\ try[i][k] \in Handler
           /\ try[i][k].seq \in Nat
           /\ stored[i] \in Nat
           /\ lastSeq \in Nat
           /\ NotStored \in Nat
BY DEF TypeOK, Handler, NotStored

-----------------------------------------------------------------------------
(* Type correctness.                                                       *)

LEMMA InitTyped == Init => TypeOK
<1> SUFFICES ASSUME Init
             PROVE  TypeOK
  OBVIOUS
<1>1. DOMAIN try = Messages /\ \A i \in Messages : try[i] \in [Tries(i) -> Handler]
  BY HandlersTyped DEF Init
<1>2. QED
  BY <1>1 DEF Init, TypeOK, NotStored

LEMMA NextTyped == TypeOK /\ [Next]_serverVars => TypeOK'
<1> SUFFICES ASSUME TypeOK, [Next]_serverVars
             PROVE  TypeOK'
  OBVIOUS
<1>1. ASSUME NEW i \in Messages, NEW k \in Tries(i), Receive(i, k)
      PROVE  TypeOK'
  <2>1. Handling("allocate", NotStored) \in Handler
    BY HandlersTyped DEF Running, NotStored
  <2>2. DOMAIN try' = Messages /\ \A j \in Messages : try'[j] \in [Tries(j) -> Handler]
    BY <1>1, <2>1, StepChanges DEF Receive
  <2>3. earlier' \in [Messages -> SUBSET Messages]
    BY <1>1 DEF Receive, TypeOK
  <2>4. QED
    BY <1>1, <2>2, <2>3 DEF Receive, TypeOK
<1>2. ASSUME NEW i \in Messages, NEW k \in Tries(i), AllocateSeq(i, k)
      PROVE  TypeOK'
  <2>1. Handling("insert", lastSeq + 1) \in Handler
    BY HandlersTyped DEF Running, TypeOK
  <2>2. DOMAIN try' = Messages /\ \A j \in Messages : try'[j] \in [Tries(j) -> Handler]
    BY <1>2, <2>1, StepChanges DEF AllocateSeq
  <2>3. QED
    BY <1>2, <2>2 DEF AllocateSeq, TypeOK
<1>3. ASSUME NEW i \in Messages, NEW k \in Tries(i), InsertMessage(i, k)
      PROVE  TypeOK'
  <2>1. Handling("find", NotStored) \in Handler /\ Handling("answer", try[i][k].seq) \in Handler
    BY HandlersTyped, TypedTry DEF Running
  <2>2. DOMAIN try' = Messages /\ \A j \in Messages : try'[j] \in [Tries(j) -> Handler]
    BY <1>3, <2>1, StepChanges DEF InsertMessage
  <2>3. stored' \in [Messages -> Nat]
    BY <1>3, TypedTry DEF InsertMessage, TypeOK
  <2>4. QED
    BY <1>3, <2>2, <2>3 DEF InsertMessage, TypeOK
<1>4. ASSUME NEW i \in Messages, NEW k \in Tries(i), NEW seq \in Nat, Acknowledge(i, k, seq)
      PROVE  TypeOK'
  <2>1. Handling("acked", seq) \in Handler
    BY HandlersTyped DEF Ended
  <2>2. DOMAIN try' = Messages /\ \A j \in Messages : try'[j] \in [Tries(j) -> Handler]
    BY <1>4, <2>1, StepChanges DEF Acknowledge
  <2>3. marks' \in SUBSET (Readers \X Nat)
    BY <1>4, ChatAssumption DEF Acknowledge, StartMark, TypeOK
  <2>4. QED
    BY <1>4, <2>2, <2>3 DEF Acknowledge, TypeOK
<1>5. ASSUME NEW i \in Messages, NEW k \in Tries(i), Refuse(i, k)
      PROVE  TypeOK'
  <2>1. Handling("refused", NotStored) \in Handler
    BY HandlersTyped DEF Ended, NotStored
  <2>2. DOMAIN try' = Messages /\ \A j \in Messages : try'[j] \in [Tries(j) -> Handler]
    BY <1>5, <2>1, StepChanges DEF Refuse
  <2>3. QED
    BY <1>5, <2>2 DEF Refuse, TypeOK
<1>6. ASSUME NEW u \in Participants, NEW i \in Messages, ReadUpTo(u, i)
      PROVE  TypeOK'
  BY <1>6 DEF ReadUpTo, StartMark, TypeOK
<1>7. ASSUME NEW m \in marks, MarkRead(m[1], m[2]) \/ LoseMark(m[1], m[2])
      PROVE  TypeOK'
  <2>1. m[1] \in Readers /\ m[2] \in Nat
    BY DEF TypeOK
  <2>2. reads' \in [Readers -> Nat] /\ marks' \in SUBSET (Readers \X Nat)
    BY <1>7, <2>1 DEF MarkRead, LoseMark, TypeOK
  <2>3. QED
    BY <1>7, <2>2 DEF MarkRead, LoseMark, TypeOK
<1>8. CASE Crash
  <2>1. Handling("dead", NotStored) \in Handler
    BY HandlersTyped DEF Ended, NotStored
  <2>2. DOMAIN try' = Messages /\ \A j \in Messages : try'[j] \in [Tries(j) -> Handler]
    BY <1>8, <2>1 DEF Crash, TypeOK
  <2>3. QED
    BY <1>8, <2>2 DEF Crash, TypeOK
<1>9. CASE UNCHANGED serverVars
  BY <1>9 DEF serverVars, TypeOK
<1>10. QED
  BY <1>1, <1>2, <1>3, <1>4, <1>5, <1>6, <1>7, <1>8, <1>9, TypedTry
     DEF Next, Handle, AnswerNew, AnswerDuplicate

\* Every reachable state of a conversation is well typed, for any messages,
\* participants and numbers of tries (models/Conversation.ts, Message.ts).
THEOREM TypeCorrect == Spec => []TypeOK
BY InitTyped, NextTyped, PTL DEF Spec

-----------------------------------------------------------------------------
(* The inductive invariant, one lemma per action.                          *)

LEMMA InitIInv == Init => IInv
<1> SUFFICES ASSUME Init
             PROVE  IInv
  OBVIOUS
<1>1. TypeOK
  BY InitTyped
<1>2. \A i \in Messages : ~IsStored(i) /\ earlier[i] = {}
  BY DEF Init, IsStored
<1>3. \A i \in Messages : \A k \in Tries(i) : try[i][k].pc = "unsent"
  BY DEF Init, Unsent
<1>4. SeqsDistinct /\ RepliesFollow /\ StoredByTry
  BY <1>2 DEF Init, SeqsDistinct, RepliesFollow, StoredByTry, NotStored
<1>5. HandlersAgree
  BY <1>3 DEF HandlersAgree
<1>6. PointersKnown
  BY DEF Init, PointersKnown
<1>7. QED
  BY <1>1, <1>4, <1>5, <1>6 DEF IInv

LEMMA ReceiveIInv ==
    ASSUME IInv, NEW i \in Messages, NEW k \in Tries(i), Receive(i, k)
    PROVE  SeqsDistinct' /\ RepliesFollow' /\ HandlersAgree' /\ StoredByTry' /\ PointersKnown'
<1> USE DEF IInv
<1>1. try'[i][k] = Handling("allocate", NotStored)
      /\ \A j \in Messages : \A m \in Tries(j) : j # i \/ m # k => try'[j][m] = try[j][m]
  BY HandlersTyped, StepChanges DEF Receive, Running, NotStored
<1>2. try'[i][k].pc = "allocate" /\ try'[i][k] # Unsent
  BY <1>1 DEF Handling, Unsent
<1>3. SeqsDistinct' /\ PointersKnown'
  BY DEF Receive, SeqsDistinct, PointersKnown, IsStored
\* Only the first try of a message that is not stored sets what is earlier.
<1>4. ASSUME NEW j \in Messages, earlier'[j] # earlier[j]
      PROVE  /\ j = i /\ ~IsStored(i)
             /\ \A n \in Tries(i) : try[i][n] = Unsent
             /\ earlier'[i] = {x \in Messages : IsStored(x)}
  <2>1. \A n \in Tries(i) : try[i][n] = Unsent
    BY <1>4 DEF Receive, TypeOK
  <2>2. earlier' = [earlier EXCEPT ![i] = {x \in Messages : IsStored(x)}]
    BY <2>1 DEF Receive
  <2>3. j = i /\ earlier'[i] = {x \in Messages : IsStored(x)}
    BY <1>4, <2>2 DEF TypeOK
  <2>4. ~IsStored(i)
    BY <2>1 DEF StoredByTry
  <2>5. QED
    BY <2>1, <2>3, <2>4
<1>5. stored' = stored /\ lastSeq' = lastSeq
  BY DEF Receive
<1>6. RepliesFollow'
  BY <1>4, <1>5 DEF RepliesFollow, IsStored
<1>7. StoredByTry'
  <2>1. ASSUME NEW x \in Messages, IsStored(x)'
        PROVE  \E m \in Tries(x) : try'[x][m] # Unsent
    BY <1>1, <1>2, <1>5, <2>1 DEF StoredByTry, IsStored
  <2>2. ASSUME NEW x \in Messages, NEW j \in earlier'[x]
        PROVE  IsStored(j)'
    BY <1>4, <1>5, <2>2 DEF StoredByTry, IsStored
  <2>3. QED
    BY <2>1, <2>2 DEF StoredByTry
<1>8. HandlersAgree'
  <2> SUFFICES ASSUME NEW x \in Messages, NEW m \in Tries(x)
               PROVE  /\ try'[x][m].pc = "insert" => NumberHeld(x, m)'
                      /\ try'[x][m].pc = "find" => IsStored(x)'
                      /\ try'[x][m].pc \in {"answer", "acked"} =>
                             IsStored(x)' /\ try'[x][m].seq = stored'[x]
    BY DEF HandlersAgree
  <2>1. CASE x = i /\ m = k
    BY <1>2, <2>1
  <2>2. CASE x # i \/ m # k
    <3>1. try'[x][m] = try[x][m]
      BY <1>1, <2>2
    <3>2. ASSUME try[x][m].pc = "insert"
          PROVE  NumberHeld(x, m)'
      <4>1. earlier'[x] = earlier[x]
        BY <1>4, <3>2 DEF Unsent
      <4>2. NumberHeld(x, m)
        BY <3>2 DEF HandlersAgree
      <4>3. QED
        BY <1>1, <1>2, <1>5, <3>1, <4>1, <4>2 DEF NumberHeld
    <3>3. QED
      BY <1>5, <3>1, <3>2 DEF HandlersAgree, IsStored
  <2>3. QED
    BY <2>1, <2>2
<1>9. QED
  BY <1>3, <1>6, <1>7, <1>8

LEMMA AllocateIInv ==
    ASSUME IInv, NEW i \in Messages, NEW k \in Tries(i), AllocateSeq(i, k)
    PROVE  SeqsDistinct' /\ RepliesFollow' /\ HandlersAgree' /\ StoredByTry' /\ PointersKnown'
<1> USE DEF IInv
<1>1. try'[i][k] = Handling("insert", lastSeq + 1)
      /\ \A j \in Messages : \A m \in Tries(j) : j # i \/ m # k => try'[j][m] = try[j][m]
  BY HandlersTyped, StepChanges, TypedTry DEF AllocateSeq, Running
<1>2. try'[i][k].pc = "insert" /\ try'[i][k].seq = lastSeq + 1 /\ try'[i][k] # Unsent
  BY <1>1 DEF Handling, Unsent
<1>3. stored' = stored /\ lastSeq' = lastSeq + 1 /\ earlier' = earlier
  BY DEF AllocateSeq
<1>4. SeqsDistinct' /\ RepliesFollow'
  BY <1>3 DEF SeqsDistinct, RepliesFollow, IsStored, TypeOK
<1>5. PointersKnown'
  BY <1>3 DEF AllocateSeq, PointersKnown, TypeOK
<1>6. StoredByTry'
  BY <1>1, <1>2, <1>3 DEF StoredByTry, IsStored
\* The new number is above all that is stored or held.
<1>7. NumberHeld(i, k)'
  <2>1. \A j \in Messages : stored[j] < lastSeq + 1
    BY DEF SeqsDistinct, TypeOK
  <2>2. \A j \in Messages : \A m \in Tries(j) :
           (j # i \/ m # k) /\ try'[j][m].pc = "insert" => try'[j][m].seq < lastSeq + 1
    BY <1>1, TypedTry DEF HandlersAgree, NumberHeld
  <2>3. \A j \in earlier[i] : j \in Messages
    BY DEF TypeOK
  <2>4. lastSeq + 1 # NotStored /\ lastSeq + 1 <= lastSeq + 1
    BY DEF TypeOK, NotStored
  <2>5. \A j \in Messages : stored[j] # lastSeq + 1
    BY <2>1, TypedTry
  <2>6. ASSUME NEW j \in Messages, NEW m \in Tries(j),
               try'[j][m].pc = "insert", try'[j][m].seq = lastSeq + 1
        PROVE  j = i /\ m = k
    BY <2>2, <2>6 DEF TypeOK
  <2>7. QED
    BY <1>2, <1>3, <2>1, <2>3, <2>4, <2>5, <2>6 DEF NumberHeld
<1>8. HandlersAgree'
  <2> SUFFICES ASSUME NEW x \in Messages, NEW m \in Tries(x)
               PROVE  /\ try'[x][m].pc = "insert" => NumberHeld(x, m)'
                      /\ try'[x][m].pc = "find" => IsStored(x)'
                      /\ try'[x][m].pc \in {"answer", "acked"} =>
                             IsStored(x)' /\ try'[x][m].seq = stored'[x]
    BY DEF HandlersAgree
  <2>1. CASE x = i /\ m = k
    BY <1>2, <1>7, <2>1
  <2>2. CASE x # i \/ m # k
    <3>1. try'[x][m] = try[x][m]
      BY <1>1, <2>2
    <3>2. ASSUME try[x][m].pc = "insert"
          PROVE  NumberHeld(x, m)'
      <4>1. NumberHeld(x, m)
        BY <3>2 DEF HandlersAgree
      <4>2. try[x][m].seq <= lastSeq + 1 /\ try[x][m].seq # lastSeq + 1
        BY <4>1, TypedTry DEF NumberHeld
      <4>3. QED
        BY <1>1, <1>2, <1>3, <3>1, <4>1, <4>2 DEF NumberHeld
    <3>3. QED
      BY <1>3, <3>1, <3>2 DEF HandlersAgree, IsStored
  <2>3. QED
    BY <2>1, <2>2
<1>9. QED
  BY <1>4, <1>5, <1>6, <1>8

\* A try that leaves "insert", or never was there, disturbs no other.
LEMMA TryIInv ==
    ASSUME IInv, NEW i \in Messages, NEW k \in Tries(i), NEW next \in Handler,
           Step(i, k, next), next # Unsent, next.pc # "insert",
           next.pc = "find" => IsStored(i),
           next.pc \in {"answer", "acked"} => IsStored(i) /\ next.seq = stored[i],
           UNCHANGED <<lastSeq, stored, earlier>>
    PROVE  SeqsDistinct' /\ RepliesFollow' /\ HandlersAgree' /\ StoredByTry'
<1> USE DEF IInv
<1>1. try'[i][k] = next
      /\ \A j \in Messages : \A m \in Tries(j) : j # i \/ m # k => try'[j][m] = try[j][m]
  BY StepChanges
<1>2. SeqsDistinct' /\ RepliesFollow'
  BY DEF SeqsDistinct, RepliesFollow, IsStored
<1>3. StoredByTry'
  BY <1>1 DEF StoredByTry, IsStored
<1>4. HandlersAgree'
  <2> SUFFICES ASSUME NEW x \in Messages, NEW m \in Tries(x)
               PROVE  /\ try'[x][m].pc = "insert" => NumberHeld(x, m)'
                      /\ try'[x][m].pc = "find" => IsStored(x)'
                      /\ try'[x][m].pc \in {"answer", "acked"} =>
                             IsStored(x)' /\ try'[x][m].seq = stored'[x]
    BY DEF HandlersAgree
  <2>1. CASE x = i /\ m = k
    BY <1>1, <2>1 DEF IsStored
  <2>2. CASE x # i \/ m # k
    BY <1>1, <2>2 DEF HandlersAgree, NumberHeld, IsStored
  <2>3. QED
    BY <2>1, <2>2
<1>5. QED
  BY <1>2, <1>3, <1>4

LEMMA InsertIInv ==
    ASSUME IInv, NEW i \in Messages, NEW k \in Tries(i), InsertMessage(i, k)
    PROVE  SeqsDistinct' /\ RepliesFollow' /\ HandlersAgree' /\ StoredByTry' /\ PointersKnown'
<1> USE DEF IInv
<1>1. PointersKnown'
  BY DEF InsertMessage, PointersKnown
<1>2. CASE IsStored(i)
  <2>1. Step(i, k, Handling("find", NotStored)) /\ UNCHANGED <<lastSeq, stored, earlier>>
    BY <1>2 DEF InsertMessage
  <2>2. Handling("find", NotStored) \in Handler /\ Handling("find", NotStored) # Unsent
    BY HandlersTyped DEF Running, NotStored
  <2>3. Handling("find", NotStored).pc = "find"
    BY DEF Handling
  <2>4. QED
    BY <1>1, <1>2, <2>1, <2>2, <2>3, TryIInv
<1>3. CASE ~IsStored(i)
  <2> DEFINE n == try[i][k].seq
  <2>1. n \in Nat /\ NumberHeld(i, k)
    BY TypedTry DEF InsertMessage, HandlersAgree
  <2>2. /\ Step(i, k, Handling("answer", n))
        /\ stored' = [stored EXCEPT ![i] = n]
        /\ lastSeq' = lastSeq /\ earlier' = earlier
    BY <1>3 DEF InsertMessage
  <2>3. Handling("answer", n) \in Handler
    BY <2>1, HandlersTyped DEF Running
  <2>4. try'[i][k] = Handling("answer", n)
        /\ \A j \in Messages : \A m \in Tries(j) : j # i \/ m # k => try'[j][m] = try[j][m]
    BY <2>2, <2>3, StepChanges
  <2>5. try'[i][k].pc = "answer" /\ try'[i][k].seq = n /\ try'[i][k] # Unsent
    BY <2>4 DEF Handling, Unsent
  <2>6. stored'[i] = n /\ \A j \in Messages \ {i} : stored'[j] = stored[j]
    BY <2>2 DEF TypeOK
  <2>7. IsStored(i)' /\ \A j \in Messages : IsStored(j) => IsStored(j)' /\ j # i
    BY <1>3, <2>1, <2>6 DEF IsStored, NumberHeld
  <2>8. SeqsDistinct'
    BY <2>1, <2>2, <2>6 DEF SeqsDistinct, IsStored, NumberHeld
  <2>9. RepliesFollow'
    <3> SUFFICES ASSUME NEW x \in Messages, IsStored(x)', NEW j \in earlier[x]
                 PROVE  stored'[j] < stored'[x]
      BY <2>2 DEF RepliesFollow
    <3>1. j \in Messages /\ IsStored(j) /\ j # i /\ stored'[j] = stored[j]
      BY <1>3, <2>6 DEF StoredByTry, TypeOK
    <3>2. CASE x = i
      BY <2>1, <2>6, <3>1, <3>2 DEF NumberHeld
    <3>3. CASE x # i
      BY <2>6, <3>1, <3>3 DEF RepliesFollow, IsStored
    <3>4. QED
      BY <3>2, <3>3
  <2>10. StoredByTry'
    <3>1. ASSUME NEW x \in Messages, IsStored(x)'
          PROVE  \E m \in Tries(x) : try'[x][m] # Unsent
      BY <2>4, <2>5, <2>6, <3>1 DEF StoredByTry, IsStored
    <3>2. ASSUME NEW x \in Messages, NEW j \in earlier'[x]
          PROVE  IsStored(j)'
      BY <2>2, <2>7, <3>2 DEF StoredByTry, TypeOK
    <3>3. QED
      BY <3>1, <3>2 DEF StoredByTry
  <2>11. HandlersAgree'
    <3> SUFFICES ASSUME NEW x \in Messages, NEW m \in Tries(x)
                 PROVE  /\ try'[x][m].pc = "insert" => NumberHeld(x, m)'
                        /\ try'[x][m].pc = "find" => IsStored(x)'
                        /\ try'[x][m].pc \in {"answer", "acked"} =>
                               IsStored(x)' /\ try'[x][m].seq = stored'[x]
      BY DEF HandlersAgree
    <3>1. CASE x = i /\ m = k
      BY <2>5, <2>6, <2>7, <3>1
    <3>2. CASE x # i \/ m # k
      <4>1. try'[x][m] = try[x][m]
        BY <2>4, <3>2
      <4>2. ASSUME try[x][m].pc = "insert"
            PROVE  NumberHeld(x, m)'
        <5>1. NumberHeld(x, m) /\ try[x][m].seq # n
          BY <2>1, <3>2, <4>2 DEF HandlersAgree, NumberHeld, InsertMessage
        <5>2. \A j \in earlier[x] : j \in Messages /\ j # i
          BY <1>3 DEF StoredByTry, TypeOK
        <5>3. QED
          BY <2>2, <2>4, <2>5, <2>6, <4>1, <5>1, <5>2 DEF NumberHeld
      <4>3. try[x][m].pc \in {"find", "answer", "acked"} => IsStored(x) /\ x # i
        BY <1>3 DEF HandlersAgree
      <4>4. QED
        BY <2>6, <2>7, <4>1, <4>2, <4>3 DEF HandlersAgree
    <3>3. QED
      BY <3>1, <3>2
  <2>12. QED
    BY <1>1, <2>8, <2>9, <2>10, <2>11
<1>4. QED
  BY <1>2, <1>3

\* An acknowledgement with the number of the message's row.
LEMMA AcknowledgeIInv ==
    ASSUME IInv, NEW i \in Messages, NEW k \in Tries(i), IsStored(i),
           Acknowledge(i, k, stored[i])
    PROVE  SeqsDistinct' /\ RepliesFollow' /\ HandlersAgree' /\ StoredByTry' /\ PointersKnown'
<1> USE DEF IInv
<1>1. stored[i] \in Nat /\ stored[i] <= lastSeq
  BY DEF TypeOK, SeqsDistinct
<1>2. Handling("acked", stored[i]) \in Handler /\ Handling("acked", stored[i]) # Unsent
  BY <1>1, HandlersTyped DEF Ended
<1>3. Handling("acked", stored[i]).pc = "acked" /\ Handling("acked", stored[i]).seq = stored[i]
  BY DEF Handling
<1>4. SeqsDistinct' /\ RepliesFollow' /\ HandlersAgree' /\ StoredByTry'
  BY <1>2, <1>3, TryIInv DEF Acknowledge
<1>5. PointersKnown'
  BY <1>1 DEF Acknowledge, StartMark, PointersKnown
<1>6. QED
  BY <1>4, <1>5

LEMMA AnswerIInv ==
    ASSUME IInv, NEW i \in Messages, NEW k \in Tries(i),
           AnswerNew(i, k) \/ AnswerDuplicate(i, k)
    PROVE  SeqsDistinct' /\ RepliesFollow' /\ HandlersAgree' /\ StoredByTry' /\ PointersKnown'
<1>1. IsStored(i) /\ Acknowledge(i, k, stored[i])
  BY DEF IInv, AnswerNew, AnswerDuplicate, HandlersAgree
<1>2. QED
  BY <1>1, AcknowledgeIInv

LEMMA RefuseIInv ==
    ASSUME IInv, NEW i \in Messages, NEW k \in Tries(i), Refuse(i, k)
    PROVE  SeqsDistinct' /\ RepliesFollow' /\ HandlersAgree' /\ StoredByTry' /\ PointersKnown'
<1>1. Handling("refused", NotStored) \in Handler /\ Handling("refused", NotStored) # Unsent
  BY HandlersTyped DEF Ended, NotStored
<1>2. Handling("refused", NotStored).pc = "refused"
  BY DEF Handling
<1>3. SeqsDistinct' /\ RepliesFollow' /\ HandlersAgree' /\ StoredByTry'
  BY <1>1, <1>2, TryIInv DEF Refuse
<1>4. PointersKnown'
  BY DEF IInv, Refuse, PointersKnown
<1>5. QED
  BY <1>3, <1>4

\* The handlers and rows are unchanged: only read pointers move.
LEMMA PointerIInv ==
    ASSUME IInv,
           \/ \E u \in Participants, i \in Messages : ReadUpTo(u, i)
           \/ \E m \in marks : MarkRead(m[1], m[2]) \/ LoseMark(m[1], m[2])
    PROVE  SeqsDistinct' /\ RepliesFollow' /\ HandlersAgree' /\ StoredByTry' /\ PointersKnown'
<1> USE DEF IInv
<1>1. UNCHANGED <<lastSeq, stored, try, earlier>>
  BY DEF ReadUpTo, MarkRead, LoseMark
<1>2. SeqsDistinct' /\ RepliesFollow' /\ HandlersAgree' /\ StoredByTry'
  BY <1>1 DEF SeqsDistinct, RepliesFollow, HandlersAgree, NumberHeld, StoredByTry, IsStored
<1>3. ASSUME NEW u \in Participants, NEW i \in Messages, ReadUpTo(u, i)
      PROVE  PointersKnown'
  BY <1>3 DEF ReadUpTo, StartMark, PointersKnown, SeqsDistinct
<1>4. ASSUME NEW m \in marks, MarkRead(m[1], m[2]) \/ LoseMark(m[1], m[2])
      PROVE  PointersKnown'
  BY <1>4 DEF MarkRead, LoseMark, PointersKnown, TypeOK
<1>5. QED
  BY <1>2, <1>3, <1>4

LEMMA CrashIInv ==
    ASSUME IInv, Crash
    PROVE  SeqsDistinct' /\ RepliesFollow' /\ HandlersAgree' /\ StoredByTry' /\ PointersKnown'
<1> USE DEF IInv
<1>1. UNCHANGED <<lastSeq, reads, stored, earlier>> /\ marks' = {}
  BY DEF Crash
<1>2. SeqsDistinct' /\ RepliesFollow' /\ PointersKnown'
  BY <1>1 DEF SeqsDistinct, RepliesFollow, PointersKnown, IsStored
<1>3. \A i \in Messages : \A k \in Tries(i) :
         \/ try'[i][k] = try[i][k] /\ try[i][k].pc \notin Running
         \/ try'[i][k].pc = "dead"
  BY DEF Crash, Handling
<1>4. HandlersAgree'
  BY <1>1, <1>3 DEF HandlersAgree, Running, IsStored
<1>5. StoredByTry'
  BY <1>1, <1>3 DEF StoredByTry, IsStored, Unsent
<1>6. QED
  BY <1>2, <1>4, <1>5

LEMMA NextIInv == IInv /\ [Next]_serverVars => IInv'
<1> SUFFICES ASSUME IInv, [Next]_serverVars
             PROVE  IInv'
  OBVIOUS
<1>1. TypeOK'
  BY NextTyped DEF IInv
<1>2. SeqsDistinct' /\ RepliesFollow' /\ HandlersAgree' /\ StoredByTry' /\ PointersKnown'
  <2>1. ASSUME NEW i \in Messages, NEW k \in Tries(i), Receive(i, k) \/ Handle(i, k)
        PROVE  SeqsDistinct' /\ RepliesFollow' /\ HandlersAgree' /\ StoredByTry' /\ PointersKnown'
    BY <2>1, ReceiveIInv, AllocateIInv, InsertIInv, AnswerIInv, RefuseIInv DEF Handle
  <2>2. CASE UNCHANGED serverVars
    BY <2>2 DEF serverVars, IInv, SeqsDistinct, RepliesFollow, HandlersAgree, NumberHeld,
                StoredByTry, PointersKnown, IsStored
  <2>3. QED
    BY <2>1, <2>2, PointerIInv, CrashIInv DEF Next
<1>3. QED
  BY <1>1, <1>2 DEF IInv

\* The inductive invariant holds in every reachable state.
THEOREM AlwaysIInv == Spec => []IInv
BY InitIInv, NextIInv, PTL DEF Spec

\* No two rows of a conversation share a number, and none is above the
\* conversation's, whatever handlers interleave, fail or die.
THEOREM SeqsAreDistinct == Spec => []SeqsDistinct
BY AlwaysIInv, PTL DEF IInv

\* A message gets a higher number than everything stored when it was first sent.
THEOREM RepliesSortAfter == Spec => []RepliesFollow
BY AlwaysIInv, PTL DEF IInv

\* Every acknowledgement of a message, of whichever try, names its one row.
THEOREM RetriesConverge == Spec => []TriesConverge
<1>1. IInv => TriesConverge
  BY DEF IInv, HandlersAgree, TriesConverge
<1>2. QED
  BY <1>1, AlwaysIInv, PTL

-----------------------------------------------------------------------------
(* The unread count.                                                       *)

\* The rows above a read pointer are numbered apart, between the pointer and
\* the conversation's number: there are no more of them than the difference.
LEMMA CountedByDifference ==
    ASSUME IInv, NEW u \in Readers
    PROVE  Cardinality({i \in Messages : stored[i] > reads[u]}) <= UnreadCount(u)
<1> DEFINE unread == {i \in Messages : stored[i] > reads[u]}
           above  == reads[u] + 1 .. lastSeq
           number == [i \in unread |-> stored[i]]
<1>1. reads[u] \in Nat /\ lastSeq \in Nat /\ reads[u] <= lastSeq
  BY DEF IInv, TypeOK, PointersKnown
<1>2. \A i \in Messages : stored[i] \in Nat /\ stored[i] <= lastSeq
  BY DEF IInv, TypeOK, SeqsDistinct
<1>3. number \in [unread -> above]
  BY <1>1, <1>2
<1>4. \A i, j \in unread : number[i] = number[j] => i = j
  BY <1>1, <1>2 DEF IInv, SeqsDistinct, IsStored, NotStored
<1>5. number \in Injection(unread, above)
  BY <1>3, <1>4 DEF Injection, IsInjective
<1>6. IsFiniteSet(above) /\ Cardinality(above) = lastSeq - reads[u]
  <2>1. reads[u] + 1 \in Int /\ lastSeq \in Int
    BY <1>1
  <2>2. /\ IsFiniteSet(reads[u] + 1 .. lastSeq)
        /\ Cardinality(reads[u] + 1 .. lastSeq) =
              IF reads[u] + 1 > lastSeq THEN 0 ELSE lastSeq - (reads[u] + 1) + 1
    BY <2>1, FS_Interval
  <2>3. QED
    BY <1>1, <2>2
<1>7. Cardinality(unread) <= Cardinality(above)
  BY <1>5, <1>6, FS_Injection
<1>8. UnreadCount(u) = lastSeq - reads[u]
  BY <1>1 DEF UnreadCount
<1>9. QED
  BY <1>6, <1>7, <1>8

\* The unread badge never counts fewer messages than there are above the read
\* pointer, whatever numbers were wasted.
THEOREM NeverUndercounts == Spec => []CountsEveryUnread
<1>1. IInv => CountsEveryUnread
  BY CountedByDifference DEF IInv, PointersKnown, CountsEveryUnread
<1>2. QED
  BY <1>1, AlwaysIInv, PTL

-----------------------------------------------------------------------------
(* Delivery: the server within it.                                         *)

LEMMA LeastNumber ==
    ASSUME NEW T, T \subseteq Nat, T # {}
    PROVE  \E x \in T : \A y \in T : x <= y
<1> DEFINE less == OpToRel(<, Nat)
<1>1. IsWellFoundedOn(less, Nat)
  BY NatLessThanWellFounded, Zenon
<1>2. \A x, y \in Nat : y < x => <<y, x>> \in less
  BY Zenon DEF OpToRel
<1> HIDE DEF less
<1>3. PICK x \in T : \A y \in T : ~(<<y, x>> \in less)
  BY <1>1, WFMin
<1>4. \A y \in T : x \in Nat /\ y \in Nat /\ ~(y < x)
  BY <1>2, <1>3
<1>5. QED
  BY <1>4

\* The greatest is the least upper bound.
LEMMA GreatestNumber ==
    ASSUME NEW n \in Nat, NEW T \in SUBSET (0 .. n), T # {}
    PROVE  \E x \in T : \A y \in T : y <= x
<1> DEFINE U == {k \in Nat : \A y \in T : y <= k}
<1>1. n \in U
  OBVIOUS
<1>2. PICK u \in U : \A k \in U : u <= k
  BY <1>1, LeastNumber
<1>3. u \in T
  <2> SUFFICES ASSUME u \notin T
               PROVE  FALSE
    OBVIOUS
  <2>1. PICK y \in T : TRUE
    OBVIOUS
  <2>2. \A z \in T : z \in Nat /\ z <= u /\ z # u
    BY <1>2
  <2>3. u \in Nat /\ u >= 1
    BY <2>1, <2>2
  <2>4. u - 1 \in U
    BY <2>2, <2>3
  <2>5. QED
    BY <1>2, <2>3, <2>4
<1>4. QED
  BY <1>2, <1>3

\* The numbers of a page have a highest and a lowest.
LEMMA PageNumbers ==
    ASSUME TypeOK, SeqsDistinct, NEW S \in SUBSET Messages
    PROVE  Highest(SeqsOf(S)) \in Nat /\ Lowest(SeqsOf(S)) \in Nat
<1>1. SeqsOf(S) \in SUBSET (0 .. lastSeq) /\ lastSeq \in Nat
  BY DEF SeqsOf, TypeOK, SeqsDistinct
<1>2. CASE SeqsOf(S) = {}
  BY <1>2 DEF Highest, Lowest
<1>3. CASE SeqsOf(S) # {}
  <2>1. \E n \in SeqsOf(S) : \A m \in SeqsOf(S) : m <= n
    BY <1>1, <1>3, GreatestNumber
  <2>2. \E n \in SeqsOf(S) : \A m \in SeqsOf(S) : n <= m
    BY <1>1, <1>3, LeastNumber
  <2>3. Highest(SeqsOf(S)) \in SeqsOf(S) /\ Lowest(SeqsOf(S)) \in SeqsOf(S)
    BY <1>3, <2>1, <2>2 DEF Highest, Lowest
  <2>4. QED
    BY <1>1, <2>3
<1>4. QED
  BY <1>2, <1>3

LEMMA HeadIsEvent ==
    ASSUME DTypeOK, NEW u \in Viewers, inbox[u] # <<>>
    PROVE  Head(inbox[u]) \in Events /\ Tail(inbox[u]) \in Seq(Events)
BY DEF DTypeOK

\* What a client does changes nothing but, perhaps, a read pointer.
LEMMA DeliverOnServer ==
    ASSUME DTypeOK, NEW u \in Viewers, Deliver(u)
    PROVE  UNCHANGED serverVars \/ \E i \in Messages : ReadUpTo(u, i)
<1> DEFINE e == Head(inbox[u])
<1>1. e \in Events
  BY HeadIsEvent DEF Deliver
<1>2. CASE HandleMessageNew(u, e)
  <2>1. e.i \in Messages
    BY <1>1, <1>2 DEF HandleMessageNew, Events
  <2>2. QED
    BY <1>2, <2>1 DEF HandleMessageNew
<1>3. CASE HandleSync(u, e)
  BY <1>3 DEF HandleSync
<1>4. CASE HandleAck(u, e)
  BY <1>4 DEF HandleAck
<1>5. QED
  BY <1>2, <1>3, <1>4 DEF Deliver

\* Every step of the composition is a step of the server, or none.
LEMMA ServerSteps == DTypeOK /\ [DNext]_vars => [Next]_serverVars
<1> SUFFICES ASSUME DTypeOK, [DNext]_vars
             PROVE  [Next]_serverVars
  OBVIOUS
<1>1. ASSUME NEW i \in Messages, NEW k \in Tries(i),
             DReceive(i, k) \/ DStore(i, k) \/ DRefuse(i, k)
                \/ DAnswerNew(i, k) \/ DAnswerDuplicate(i, k)
      PROVE  Next
  <2>1. Receive(i, k) \/ Handle(i, k)
    BY <1>1 DEF DReceive, DStore, DRefuse, DAnswerNew, DAnswerDuplicate, Handle
  <2>2. QED
    BY <2>1 DEF Next
<1>2. ASSUME NEW m \in marks, DMark(m[1], m[2])
      PROVE  Next
  BY <1>2 DEF DMark, Next
<1>3. ASSUME NEW u \in Viewers, Deliver(u)
      PROVE  [Next]_serverVars
  <2>1. u \in Participants
    BY DeliveryAssumption DEF DeliveryAssumption
  <2>2. QED
    BY <1>3, <2>1, DeliverOnServer DEF Next
<1>4. ASSUME NEW u \in Viewers,
             \/ Join(u) \/ AnswerSync(u) \/ SyncFails(u) \/ Open(u) \/ ReadHistory(u)
             \/ LoadHistory(u) \/ HistoryFails(u) \/ Disconnect(u) \/ Connect(u)
             \/ \E i \in Messages : \/ Send(u, i) \/ Retry(u, i)
                                   \/ \E k \in Tries(i) : Timeout(u, i, k)
      PROVE  UNCHANGED serverVars
  BY <1>4 DEF Join, AnswerSync, SyncFails, Open, ReadHistory, LoadHistory, HistoryFails,
       Disconnect, Connect, Send, Retry, SendPayload, Timeout
<1>5. CASE DCrash
  BY <1>5 DEF DCrash, Next
<1>6. CASE UNCHANGED vars
  BY <1>6 DEF vars
<1>7. QED
  BY <1>1, <1>2, <1>3, <1>4, <1>5, <1>6 DEF DNext

-----------------------------------------------------------------------------
(* Delivery: types.                                                        *)

LEMMA RowsTyped ==
    /\ NoRow \in Rows
    /\ \A status \in {"pending", "failed", "sent"}, n \in Nat :
          Row(status, n) \in Rows /\ Row(status, n) # NoRow
BY DEF NoRow, Row, Rows, NotStored

LEMMA SetStatusTyped ==
    ASSUME NEW rows \in [Messages -> Rows], NEW i \in Messages, NEW status \in {"pending", "failed"}
    PROVE  /\ SetStatus(rows, i, status) \in [Messages -> Rows]
           /\ \A j \in Messages : rows[j] # NoRow => SetStatus(rows, i, status)[j] # NoRow
           /\ \A j \in Messages : SetStatus(rows, i, status)[j].status = "sent" =>
                 SetStatus(rows, i, status)[j] = rows[j]
<1> DEFINE row == [rows[i] EXCEPT !.status = status]
<1>1. row \in Rows /\ row.status = status
  BY DEF Rows
<1>2. row # NoRow
  BY <1>1 DEF NoRow
<1>3. SetStatus(rows, i, status) = IF rows[i] = NoRow THEN rows ELSE [rows EXCEPT ![i] = row]
  BY DEF SetStatus
<1> HIDE DEF row
<1>4. QED
  BY <1>1, <1>2, <1>3

LEMMA EventsTyped ==
    ASSUME DTypeOK, NEW i \in Messages, NEW k \in Tries(i)
    PROVE  /\ New(i) \in Events /\ Error(i, k) \in Events
           /\ try'[i][k].seq \in Nat => Ack(i, k) \in Events
           /\ \A S \in SUBSET Messages : Sync(S) \in Events
BY DEF New, Error, Ack, Sync, Events, Tries

LEMMA FaultTyped ==
    ASSUME faults \in 0 .. MaxFaults, NEW kind, Fault(kind)
    PROVE  faults' \in 0 .. MaxFaults
BY DeliveryAssumption DEF Fault, DeliveryAssumption

LEMMA ReceiveTyped ==
    ASSUME DTypeOK, TypeOK', NEW i \in Messages, NEW k \in Tries(i),
           DReceive(i, k) \/ DStore(i, k)
    PROVE  DTypeOK'
BY DEF DTypeOK, DReceive, DStore, clientVars, netVars

LEMMA AnswerTyped ==
    ASSUME DTypeOK, TypeOK', NEW i \in Messages, NEW k \in Tries(i),
           DAnswerNew(i, k) \/ DAnswerDuplicate(i, k) \/ DRefuse(i, k)
    PROVE  DTypeOK'
<1>1. try'[i][k].seq \in Nat
  BY DEF TypeOK, Handler
<1>2. New(i) \in Events /\ Error(i, k) \in Events /\ Ack(i, k) \in Events
  BY <1>1, EventsTyped
<1>3. inbox' \in [Viewers -> Seq(Events)]
  <2>1. \A u \in Viewers : inbox[u] \in Seq(Events)
    BY DEF DTypeOK
  <2> HIDE DEF Events
  <2>2. CASE DAnswerNew(i, k)
    BY <1>2, <2>1, <2>2 DEF DAnswerNew
  <2>3. CASE DAnswerDuplicate(i, k)
    BY <1>2, <2>1, <2>3 DEF DAnswerDuplicate
  <2>4. CASE DRefuse(i, k)
    BY <1>2, <2>1, <2>4 DEF DRefuse
  <2>5. QED
    BY <2>2, <2>3, <2>4
<1>4. faults' \in 0 .. MaxFaults
  BY FaultTyped DEF DAnswerNew, DAnswerDuplicate, DRefuse, DTypeOK
<1>5. QED
  BY <1>3, <1>4 DEF DAnswerNew, DAnswerDuplicate, DRefuse, DTypeOK, clientVars

LEMMA MarkTyped ==
    ASSUME DTypeOK, TypeOK', NEW m \in marks, DMark(m[1], m[2])
    PROVE  DTypeOK'
<1>1. faults' \in 0 .. MaxFaults
  BY FaultTyped DEF DMark, DTypeOK
<1>2. QED
  BY <1>1 DEF DMark, DTypeOK, clientVars

Request == [step : {"asked", "joined"}, after : Nat]

LEMMA AskTyped ==
    ASSUME DTypeOK, NEW u \in Viewers, NEW after \in Nat, Ask(u, after)
    PROVE  /\ syncs' \in [Viewers -> SUBSET Request]
           /\ syncs'[u] # {}
           /\ \A v \in Viewers \ {u} : syncs'[v] = syncs[v]
<1> DEFINE r == [step |-> "asked", after |-> after]
<1>1. r \in Request /\ syncs \in [Viewers -> SUBSET Request]
  BY DEF DTypeOK, Request
<1>2. syncs' = [syncs EXCEPT ![u] = syncs[u] \cup {r}]
  BY DEF Ask
<1> HIDE DEF r
<1>3. QED
  BY <1>1, <1>2

LEMMA SyncTyped ==
    ASSUME DTypeOK, TypeOK', NEW u \in Viewers, Join(u) \/ AnswerSync(u) \/ SyncFails(u)
    PROVE  DTypeOK'
<1>1. syncs \in [Viewers -> SUBSET Request]
  BY DEF DTypeOK, Request
<1>2. CASE Join(u)
  <2>1. PICK r \in syncs[u] :
          /\ syncs' = [syncs EXCEPT ![u] = (@ \ {r}) \cup {[r EXCEPT !.step = "joined"]}]
          /\ inRoom' = [inRoom EXCEPT ![u] = TRUE]
          /\ UNCHANGED <<serverVars, clientVars, skipped, up, inbox, uplink, faults>>
    BY <1>2 DEF Join
  <2>2. r \in Request
    BY <1>1
  <2>3. [r EXCEPT !.step = "joined"] \in Request
    BY <2>2 DEF Request
  <2>4. syncs' \in [Viewers -> SUBSET Request]
    BY <1>1, <2>1, <2>3
  <2>5. inRoom' \in [Viewers -> BOOLEAN]
    BY <2>1 DEF DTypeOK
  <2>6. QED
    BY <2>1, <2>4, <2>5 DEF DTypeOK, Request, clientVars
<1>3. CASE AnswerSync(u)
  <2>1. PICK r \in syncs[u] :
          /\ inbox' = [inbox EXCEPT ![u] = Append(@, Sync(FirstOf(Since(r.after))))]
          /\ skipped' = [skipped EXCEPT ![u] =
                {i \in Messages : IsStored(i)} \ FirstOf(Since(r.after))]
          /\ syncs' = [syncs EXCEPT ![u] = @ \ {r}]
          /\ UNCHANGED <<serverVars, clientVars, up, inRoom, uplink, faults>>
    BY <1>3 DEF AnswerSync
  <2>2. FirstOf(Since(r.after)) \in SUBSET Messages
    BY DEF FirstOf, Since
  <2>3. Sync(FirstOf(Since(r.after))) \in Events
    BY <2>2 DEF Sync, Events
  <2>4. inbox' \in [Viewers -> Seq(Events)]
    BY <2>1, <2>3 DEF DTypeOK
  <2>5. syncs' \in [Viewers -> SUBSET Request]
    BY <1>1, <2>1
  <2>6. skipped' \in [Viewers -> SUBSET Messages]
    BY <2>1 DEF DTypeOK
  <2>7. QED
    BY <2>1, <2>4, <2>5, <2>6 DEF DTypeOK, Request, clientVars
<1>4. CASE SyncFails(u)
  <2>1. faults' \in 0 .. MaxFaults
    BY <1>4, FaultTyped DEF SyncFails, DTypeOK
  <2>2. syncs' \in [Viewers -> SUBSET Request]
    BY <1>1, <1>4 DEF SyncFails
  <2>3. skipped' \in [Viewers -> SUBSET Messages]
    BY <1>4 DEF SyncFails, DTypeOK
  <2>4. QED
    BY <1>4, <2>1, <2>2, <2>3 DEF SyncFails, DTypeOK, Request, clientVars
<1>5. QED
  BY <1>2, <1>3, <1>4

LEMMA PanelTyped ==
    ASSUME DTypeOK, SeqsDistinct, TypeOK', NEW u \in Viewers,
           Open(u) \/ ReadHistory(u) \/ LoadHistory(u) \/ HistoryFails(u)
    PROVE  DTypeOK'
<1>1. CASE Open(u)
  BY <1>1 DEF Open, DTypeOK, netVars
<1>2. CASE ReadHistory(u)
  <2>1. history' \in [Viewers -> (SUBSET Messages) \cup {NoPage}]
    BY <1>2 DEF ReadHistory, DTypeOK
  <2>2. QED
    BY <1>2, <2>1 DEF ReadHistory, DTypeOK, netVars
<1>3. CASE LoadHistory(u)
  <2> DEFINE page == history[u]
             rows == [i \in Messages |-> IF i \in page THEN Row("sent", stored[i]) ELSE NoRow]
  <2>1. page \in SUBSET Messages
    BY <1>3 DEF LoadHistory, DTypeOK
  <2>2. Highest(SeqsOf(page)) \in Nat /\ Lowest(SeqsOf(page)) \in Nat
    BY <2>1, PageNumbers DEF DTypeOK
  <2>3. rows \in [Messages -> Rows]
    BY RowsTyped DEF DTypeOK, TypeOK
  <2>4. /\ view' = [view EXCEPT ![u] = rows]
        /\ highWater' = [highWater EXCEPT ![u] = Highest(SeqsOf(page))]
        /\ oldest' = [oldest EXCEPT ![u] = Lowest(SeqsOf(page))]
        /\ Ask(u, Highest(SeqsOf(page))) \/ UNCHANGED syncs
        /\ history' = [history EXCEPT ![u] = NoPage]
        /\ panel' = [panel EXCEPT ![u] = "open"]
        /\ UNCHANGED <<serverVars, skipped, waiting, up, inRoom, inbox, uplink, faults>>
    BY <1>3 DEF LoadHistory
  <2> HIDE DEF page, rows
  <2>5. /\ view' \in [Viewers -> [Messages -> Rows]]
        /\ highWater' \in [Viewers -> Nat] /\ oldest' \in [Viewers -> Nat]
        /\ history' \in [Viewers -> (SUBSET Messages) \cup {NoPage}]
        /\ panel' \in [Viewers -> {"closed", "loading", "open"}]
    BY <2>2, <2>3, <2>4 DEF DTypeOK
  <2>6. syncs' \in [Viewers -> SUBSET Request]
    BY <2>2, <2>4, AskTyped DEF DTypeOK, Request
  <2>7. QED
    BY <2>4, <2>5, <2>6 DEF DTypeOK, Request
<1>4. CASE HistoryFails(u)
  <2>1. faults' \in 0 .. MaxFaults
    BY <1>4, FaultTyped DEF HistoryFails, DTypeOK
  <2>2. /\ history' \in [Viewers -> (SUBSET Messages) \cup {NoPage}]
        /\ panel' \in [Viewers -> {"closed", "loading", "open"}]
    BY <1>4 DEF HistoryFails, DTypeOK
  <2>3. QED
    BY <1>4, <2>1, <2>2 DEF HistoryFails, DTypeOK
<1>5. QED
  BY <1>1, <1>2, <1>3, <1>4

LEMMA SendTyped ==
    ASSUME DTypeOK, TypeOK', NEW u \in Viewers, NEW i \in Messages,
           Send(u, i) \/ Retry(u, i)
    PROVE  DTypeOK'
<1>1. view[u] \in [Messages -> Rows]
  BY DEF DTypeOK
<1>2. PICK k \in Tries(i), rows \in [Messages -> Rows] : SendPayload(u, i, k, rows)
  <2>1. CASE Send(u, i)
    <3>1. [view[u] EXCEPT ![i] = Row("pending", NotStored)] \in [Messages -> Rows]
      BY <1>1, RowsTyped DEF NotStored
    <3>2. 1 \in Tries(i)
      BY ChatAssumption DEF Tries, ChatAssumption
    <3>3. QED
      BY <2>1, <3>1, <3>2 DEF Send
  <2>2. CASE Retry(u, i)
    BY <1>1, <2>2, SetStatusTyped DEF Retry
  <2>3. QED
    BY <2>1, <2>2
<1>3. <<i, k>> \in Messages \X Nat
  BY DEF Tries
<1>4. view' \in [Viewers -> [Messages -> Rows]]
  BY <1>2 DEF SendPayload, DTypeOK
<1>5. /\ uplink' \in SUBSET (Messages \X Nat)
      /\ waiting' \in [Viewers -> SUBSET (Messages \X Nat)]
  BY <1>2, <1>3 DEF SendPayload, DTypeOK
<1>6. QED
  BY <1>2, <1>4, <1>5 DEF SendPayload, DTypeOK

LEMMA TimeoutTyped ==
    ASSUME DTypeOK, TypeOK', NEW u \in Viewers, NEW i \in Messages, NEW k \in Tries(i),
           Timeout(u, i, k)
    PROVE  DTypeOK'
<1>1. SetStatus(view[u], i, "failed") \in [Messages -> Rows]
  BY SetStatusTyped DEF DTypeOK
<1>2. view' = [view EXCEPT ![u] = SetStatus(view[u], i, "failed")]
  BY DEF Timeout
<1>3. view' \in [Viewers -> [Messages -> Rows]]
  BY <1>1, <1>2 DEF DTypeOK
<1>4. /\ uplink' \in SUBSET (Messages \X Nat)
      /\ waiting' \in [Viewers -> SUBSET (Messages \X Nat)]
  BY DEF Timeout, DTypeOK
<1>5. QED
  BY <1>3, <1>4 DEF Timeout, DTypeOK

LEMMA ShownTyped ==
    ASSUME DTypeOK, NEW u \in Viewers, NEW S
    PROVE  /\ Shown(view[u], S) \in [Messages -> Rows]
           /\ \A i \in Messages : Shown(view[u], S)[i] =
                 IF i \in S THEN Row("sent", stored[i]) ELSE view[u][i]
<1>1. \A i \in Messages : Row("sent", stored[i]) \in Rows /\ view[u][i] \in Rows
  BY RowsTyped DEF DTypeOK, TypeOK
<1>2. QED
  BY <1>1 DEF Shown

LEMMA ArriveTyped ==
    ASSUME DTypeOK, SeqsDistinct, NEW u \in Viewers, NEW S \in SUBSET Messages, Arrive(u, S)
    PROVE  /\ view' \in [Viewers -> [Messages -> Rows]]
           /\ highWater' \in [Viewers -> Nat]
           /\ waiting' = waiting
<1>1. view' = [view EXCEPT ![u] = Shown(view[u], S)]
  BY DEF Arrive
<1>2. Highest(SeqsOf(S)) \in Nat
  BY PageNumbers DEF DTypeOK
<1>3. MaxOf(highWater[u], Highest(SeqsOf(S))) \in Nat
  BY <1>2 DEF MaxOf, DTypeOK
<1>4. QED
  BY <1>1, <1>3, ShownTyped DEF Arrive, DTypeOK

LEMMA AckTyped ==
    ASSUME DTypeOK, NEW u \in Viewers, NEW e \in Events, HandleAck(u, e)
    PROVE  /\ view' \in [Viewers -> [Messages -> Rows]]
           /\ highWater' \in [Viewers -> Nat]
           /\ waiting' \in [Viewers -> SUBSET (Messages \X Nat)]
<1>1. waiting' \in [Viewers -> SUBSET (Messages \X Nat)]
  BY DEF HandleAck, DTypeOK
<1>2. e.i \in Messages
  BY DEF HandleAck, Events
<1>3. CASE UNCHANGED <<view, highWater>>
  BY <1>1, <1>3 DEF DTypeOK
<1>4. CASE e.type = "error" /\ UNCHANGED highWater
             /\ view' = [view EXCEPT ![u] = SetStatus(view[u], e.i, "failed")]
  <2>1. SetStatus(view[u], e.i, "failed") \in [Messages -> Rows]
    BY <1>2, SetStatusTyped DEF DTypeOK
  <2>2. QED
    BY <1>1, <1>4, <2>1 DEF DTypeOK
<1>5. CASE /\ e.type = "ack"
           /\ view' = [view EXCEPT ![u] =
                 IF view[u][e.i] = NoRow THEN view[u]
                 ELSE [view[u] EXCEPT ![e.i] = Row("sent", e.seq)]]
           /\ highWater' = [highWater EXCEPT ![u] = MaxOf(highWater[u], e.seq)]
  <2>1. e.seq \in Nat
    BY <1>5 DEF Events
  <2>2. MaxOf(highWater[u], e.seq) \in Nat
    BY <2>1 DEF MaxOf, DTypeOK
  <2>3. [view[u] EXCEPT ![e.i] = Row("sent", e.seq)] \in [Messages -> Rows]
    BY <1>2, <2>1, RowsTyped DEF DTypeOK
  <2>4. QED
    BY <1>1, <1>5, <2>2, <2>3 DEF DTypeOK
<1>6. e.type \in {"ack", "error"}
  BY DEF HandleAck
<1>7. QED
  BY <1>3, <1>4, <1>5, <1>6 DEF HandleAck

LEMMA DeliverTyped ==
    ASSUME DTypeOK, SeqsDistinct, TypeOK', NEW u \in Viewers, Deliver(u)
    PROVE  DTypeOK'
<1> DEFINE e == Head(inbox[u])
<1>1. e \in Events /\ Tail(inbox[u]) \in Seq(Events)
  BY HeadIsEvent DEF Deliver
<1>2. /\ view' \in [Viewers -> [Messages -> Rows]]
      /\ highWater' \in [Viewers -> Nat]
      /\ waiting' \in [Viewers -> SUBSET (Messages \X Nat)]
  <2>1. CASE HandleMessageNew(u, e)
    <3>1. {e.i} \in SUBSET Messages
      BY <1>1, <2>1 DEF HandleMessageNew, Events
    <3>2. QED
      BY <2>1, <3>1, ArriveTyped DEF HandleMessageNew, DTypeOK
  <2>2. CASE HandleSync(u, e)
    <3>1. e.page \in SUBSET Messages
      BY <1>1, <2>2 DEF HandleSync, Events
    <3>2. QED
      BY <2>2, <3>1, ArriveTyped DEF HandleSync, DTypeOK
  <2>3. CASE HandleAck(u, e)
    BY <1>1, <2>3, AckTyped
  <2>4. QED
    BY <2>1, <2>2, <2>3 DEF Deliver
<1>3. inbox' \in [Viewers -> Seq(Events)]
  BY <1>1 DEF Deliver, DTypeOK
<1>4. QED
  BY <1>2, <1>3 DEF Deliver, DTypeOK

LEMMA HangUpTyped ==
    ASSUME DTypeOK, TypeOK', faults' \in 0 .. MaxFaults, NEW Lost, HangUp(Lost)
    PROVE  DTypeOK'
<1>1. view' \in [Viewers -> [Messages -> Rows]]
  <2>1. ASSUME NEW u \in Viewers, NEW i \in Messages
        PROVE  view[u][i] \in Rows /\ SetStatus(view[u], i, "failed")[i] \in Rows
    <3>1. view[u] \in [Messages -> Rows]
      BY DEF DTypeOK
    <3>2. SetStatus(view[u], i, "failed") \in [Messages -> Rows]
      BY <3>1, SetStatusTyped
    <3>3. QED
      BY <3>1, <3>2
  <2>2. QED
    BY <2>1 DEF HangUp
<1>2. up' \in [Viewers -> BOOLEAN] /\ inRoom' \in [Viewers -> BOOLEAN]
  BY DEF HangUp
<1>3. inbox' \in [Viewers -> Seq(Events)]
  BY DEF HangUp, DTypeOK
<1>4. syncs' \in [Viewers -> SUBSET Request]
  BY DEF HangUp, DTypeOK, Request
<1>5. /\ uplink' \in SUBSET (Messages \X Nat)
      /\ waiting' \in [Viewers -> SUBSET (Messages \X Nat)]
      /\ skipped' \in [Viewers -> SUBSET Messages]
  BY DEF HangUp, DTypeOK
<1>6. QED
  BY <1>1, <1>2, <1>3, <1>4, <1>5 DEF HangUp, DTypeOK, Request

LEMMA ConnectionTyped ==
    ASSUME DTypeOK, TypeOK', DCrash \/ \E u \in Viewers : Disconnect(u) \/ Connect(u)
    PROVE  DTypeOK'
<1>1. CASE DCrash \/ \E u \in Viewers : Disconnect(u)
  <2>1. faults' \in 0 .. MaxFaults
    BY <1>1, FaultTyped DEF Disconnect, DCrash, DTypeOK
  <2>2. QED
    BY <1>1, <2>1, HangUpTyped DEF Disconnect, DCrash
<1>2. ASSUME NEW u \in Viewers, Connect(u)
      PROVE  DTypeOK'
  <2>1. syncs' \in [Viewers -> SUBSET Request]
    BY <1>2, AskTyped DEF Connect, DTypeOK, Request
  <2>2. up' \in [Viewers -> BOOLEAN]
    BY <1>2 DEF Connect, DTypeOK
  <2>3. QED
    BY <1>2, <2>1, <2>2 DEF Connect, DTypeOK, Request, clientVars
<1>3. QED
  BY <1>1, <1>2

LEMMA DInitTyped == DInit => DTypeOK
<1> SUFFICES ASSUME DInit
             PROVE  DTypeOK
  OBVIOUS
<1>1. TypeOK
  BY InitTyped DEF DInit
<1>2. view \in [Viewers -> [Messages -> Rows]]
  BY RowsTyped DEF DInit
<1>3. faults \in 0 .. MaxFaults
  BY DeliveryAssumption DEF DInit, DeliveryAssumption
<1>4. inbox \in [Viewers -> Seq(Events)]
  BY DEF DInit
<1>5. QED
  BY <1>1, <1>2, <1>3, <1>4 DEF DInit, DTypeOK

LEMMA DNextTyped == DTypeOK /\ SeqsDistinct /\ [DNext]_vars => DTypeOK'
<1> SUFFICES ASSUME DTypeOK, SeqsDistinct, [DNext]_vars
             PROVE  DTypeOK'
  OBVIOUS
<1>1. TypeOK'
  BY ServerSteps, NextTyped DEF DTypeOK
<1>2. ASSUME NEW i \in Messages, NEW k \in Tries(i),
             DReceive(i, k) \/ DStore(i, k) \/ DRefuse(i, k)
                \/ DAnswerNew(i, k) \/ DAnswerDuplicate(i, k)
      PROVE  DTypeOK'
  BY <1>1, <1>2, ReceiveTyped, AnswerTyped
<1>3. ASSUME NEW m \in marks, DMark(m[1], m[2])
      PROVE  DTypeOK'
  BY <1>1, <1>3, MarkTyped
<1>4. ASSUME NEW u \in Viewers,
             \/ Join(u) \/ AnswerSync(u) \/ SyncFails(u) \/ Open(u) \/ ReadHistory(u)
             \/ LoadHistory(u) \/ HistoryFails(u) \/ Deliver(u)
             \/ \E i \in Messages : \/ Send(u, i) \/ Retry(u, i)
                                   \/ \E k \in Tries(i) : Timeout(u, i, k)
      PROVE  DTypeOK'
  BY <1>1, <1>4, SyncTyped, PanelTyped, DeliverTyped, SendTyped, TimeoutTyped
<1>5. CASE DCrash \/ \E u \in Viewers : Disconnect(u) \/ Connect(u)
  BY <1>1, <1>5, ConnectionTyped
<1>6. CASE UNCHANGED vars
  BY <1>1, <1>6 DEF vars, clientVars, netVars, DTypeOK
<1>7. QED
  BY <1>2, <1>3, <1>4, <1>5, <1>6 DEF DNext

-----------------------------------------------------------------------------
(* Delivery: what a step of the server does to what clients were told.     *)

\* The operators of ViewAgrees and EventsAgree, for given numbers.
RowsWith(rows, seqs) ==
    \A i \in Messages : rows[i].status = "sent" => seqs[i] # NotStored /\ rows[i].seq = seqs[i]
PageWith(page, seqs) == \A i \in page : seqs[i] # NotStored
EventWith(e, seqs) ==
    /\ e.type = "new" => seqs[e.i] # NotStored
    /\ e.type = "ack" => seqs[e.i] # NotStored /\ e.seq = seqs[e.i]
    /\ e.type = "sync" => PageWith(e.page, seqs)
QueueWith(q, seqs) == \A n \in 1 .. Len(q) : EventWith(q[n], seqs)

LEMMA AgreeMeans ==
    /\ ViewAgrees <=> \A u \in Viewers : RowsWith(view[u], stored)
    /\ EventsAgree <=> \A u \in Viewers : QueueWith(inbox[u], stored)
    /\ PagesStored <=> \A u \in Viewers : history[u] # NoPage => PageWith(history[u], stored)
    /\ ViewAgrees' <=> \A u \in Viewers : RowsWith(view'[u], stored')
    /\ EventsAgree' <=> \A u \in Viewers : QueueWith(inbox'[u], stored')
    /\ PagesStored' <=> \A u \in Viewers : history'[u] # NoPage => PageWith(history'[u], stored')
<1>1. /\ ViewAgrees <=> \A u \in Viewers : RowsWith(view[u], stored)
      /\ ViewAgrees' <=> \A u \in Viewers : RowsWith(view'[u], stored')
  BY DEF ViewAgrees, RowsWith, IsStored
<1>2. /\ EventsAgree <=> \A u \in Viewers : QueueWith(inbox[u], stored)
      /\ EventsAgree' <=> \A u \in Viewers : QueueWith(inbox'[u], stored')
  BY DEF EventsAgree, EventAgrees, QueueWith, EventWith, PageWith, IsStored
<1>3. /\ PagesStored <=> \A u \in Viewers : history[u] # NoPage => PageWith(history[u], stored)
      /\ PagesStored' <=> \A u \in Viewers : history'[u] # NoPage => PageWith(history'[u], stored')
  BY DEF PagesStored, PageWith, IsStored
<1>4. QED
  BY <1>1, <1>2, <1>3

\* Numbers only come to be.
Grows(s, t) == \A i \in Messages : s[i] # NotStored => t[i] = s[i]

LEMMA GrowingKeeps ==
    ASSUME NEW s, NEW t, Grows(s, t)
    PROVE  /\ \A rows : RowsWith(rows, s) => RowsWith(rows, t)
           /\ \A page \in SUBSET Messages : PageWith(page, s) => PageWith(page, t)
           /\ \A q \in Seq(Events) : QueueWith(q, s) => QueueWith(q, t)
<1>1. \A rows : RowsWith(rows, s) => RowsWith(rows, t)
  BY DEF Grows, RowsWith
<1>2. \A page \in SUBSET Messages : PageWith(page, s) => PageWith(page, t)
  BY DEF Grows, PageWith
<1>3. ASSUME NEW e \in Events, EventWith(e, s)
      PROVE  EventWith(e, t)
  <2>1. e.type \in {"new", "ack"} => e.i \in Messages
    BY DEF Events
  <2>2. e.type = "sync" => e.page \in SUBSET Messages
    BY DEF Events
  <2>3. QED
    BY <1>2, <1>3, <2>1, <2>2 DEF Grows, EventWith
<1>4. ASSUME NEW q \in Seq(Events), QueueWith(q, s)
      PROVE  QueueWith(q, t)
  <2>1. \A n \in 1 .. Len(q) : q[n] \in Events
    BY <1>4
  <2>2. QED
    BY <1>3, <1>4, <2>1 DEF QueueWith
<1>5. QED
  BY <1>1, <1>2, <1>4

\* The event brings message i.
Brings(e, i)  == IF e.type = "sync" THEN i \in e.page ELSE e.type = "new" /\ e.i = i
Carries(q, i) == \E n \in 1 .. Len(q) : Brings(q[n], i)

LEMMA QueueAppends ==
    ASSUME NEW q \in Seq(Events), NEW e \in Events, NEW s
    PROVE  /\ \A i : Carries(Append(q, e), i) <=> Carries(q, i) \/ Brings(e, i)
           /\ QueueWith(q, s) /\ EventWith(e, s) => QueueWith(Append(q, e), s)
<1> DEFINE v == Append(q, e)
<1> HIDE DEF Events
<1>1. /\ Len(v) = Len(q) + 1 /\ Len(q) \in Nat /\ v[Len(q) + 1] = e
      /\ \A n \in 1 .. Len(q) : v[n] = q[n]
  OBVIOUS
<1>2. \A n : n \in 1 .. Len(v) <=> n = Len(q) + 1 \/ n \in 1 .. Len(q)
  BY <1>1
<1> HIDE DEF v
<1>3. \A i : Carries(v, i) <=> Carries(q, i) \/ Brings(e, i)
  BY <1>1, <1>2 DEF Carries
<1>4. QueueWith(q, s) /\ EventWith(e, s) => QueueWith(v, s)
  BY <1>1, <1>2 DEF QueueWith
<1>5. QED
  BY <1>3, <1>4 DEF v

LEMMA QueueHead ==
    ASSUME NEW q \in Seq(Events), q # <<>>, NEW s
    PROVE  /\ \A i : Carries(q, i) => Brings(Head(q), i) \/ Carries(Tail(q), i)
           /\ QueueWith(q, s) => EventWith(Head(q), s) /\ QueueWith(Tail(q), s)
<1> DEFINE v == Tail(q)
<1> HIDE DEF Events
<1>1. /\ Len(q) \in Nat /\ Len(q) >= 1 /\ Len(v) = Len(q) - 1 /\ Head(q) = q[1]
      /\ \A n \in 1 .. Len(v) : v[n] = q[n + 1]
  BY HeadTailProperties
<1>2. \A n \in 1 .. Len(q) : n = 1 \/ (n - 1 \in 1 .. Len(v) /\ q[n] = v[n - 1])
  BY <1>1
<1>3. \A n \in 1 .. Len(v) : n + 1 \in 1 .. Len(q)
  BY <1>1
<1> HIDE DEF v
<1>4. \A i : Carries(q, i) => Brings(Head(q), i) \/ Carries(v, i)
  BY <1>1, <1>2 DEF Carries
<1>5. QueueWith(q, s) => EventWith(Head(q), s) /\ QueueWith(v, s)
  <2>1. 1 \in 1 .. Len(q)
    BY <1>1
  <2>2. QED
    BY <1>1, <1>3, <2>1 DEF QueueWith
<1>6. QED
  BY <1>4, <1>5 DEF v

\* Message i is stored and about to be broadcast.
Pending(i) == \E k \in Tries(i) : try[i][k].pc = "answer"

\* A message that is stored stays so; one that has just been stored is pending.
LEMMA ServerStores ==
    ASSUME TypeOK, [Next]_serverVars
    PROVE  /\ Grows(stored, stored')
           /\ \A i \in Messages : IsStored(i)' => IsStored(i) \/ Pending(i)'
<1>1. ASSUME NEW i \in Messages, NEW k \in Tries(i), InsertMessage(i, k)
      PROVE  /\ Grows(stored, stored')
             /\ \A j \in Messages : IsStored(j)' => IsStored(j) \/ Pending(j)'
  <2>1. CASE IsStored(i)
    BY <1>1, <2>1 DEF InsertMessage, Grows, IsStored
  <2>2. CASE ~IsStored(i)
    <3>1. /\ stored' = [stored EXCEPT ![i] = try[i][k].seq]
          /\ Step(i, k, Handling("answer", try[i][k].seq))
      BY <1>1, <2>2 DEF InsertMessage
    <3>2. Handling("answer", try[i][k].seq) \in Handler
      BY TypedTry, HandlersTyped DEF Running
    <3>3. try'[i][k].pc = "answer"
      BY <3>1, <3>2, StepChanges DEF Handling
    <3>4. Pending(i)'
      BY <3>3 DEF Pending, Tries
    <3>5. \A j \in Messages \ {i} : stored'[j] = stored[j]
      BY <3>1 DEF TypeOK
    <3>6. \A j \in Messages \ {i} : IsStored(j)' => IsStored(j)
      BY <3>5 DEF IsStored
    <3>7. Grows(stored, stored')
      BY <2>2, <3>5 DEF Grows, IsStored
    <3>8. QED
      BY <3>4, <3>6, <3>7
  <2>3. QED
    BY <2>1, <2>2
<1>2. CASE UNCHANGED stored
  BY <1>2 DEF Grows, IsStored
<1>3. UNCHANGED stored \/ \E i \in Messages : \E k \in Tries(i) : InsertMessage(i, k)
  BY DEF Next, Handle, Receive, AllocateSeq, AnswerNew, AnswerDuplicate, Refuse, Acknowledge,
       ReadUpTo, MarkRead, LoseMark, Crash, serverVars
<1>4. QED
  BY <1>1, <1>2, <1>3

\* Only the broadcast of a message, and a crash, make it pending no longer.
LEMMA PendingStays ==
    ASSUME TypeOK, NEW i \in Messages, NEW k \in Tries(i), Receive(i, k) \/ Handle(i, k),
           NEW j \in Messages, Pending(j), i = j => ~AnswerNew(i, k)
    PROVE  Pending(j)'
<1>1. PICK m \in Tries(j) : try[j][m].pc = "answer"
  BY DEF Pending
<1>2. CASE AnswerNew(i, k)
  <2>1. try'[j][m] = try[j][m]
    BY <1>2, HandlersTyped, TypedTry, StepChanges DEF AnswerNew, Acknowledge, Ended
  <2>2. QED
    BY <1>1, <2>1 DEF Pending, Tries
<1>3. CASE ~AnswerNew(i, k)
  <2>1. PICK next \in Handler : Step(i, k, next)
    <3>1. stored[i] \in Nat /\ lastSeq + 1 \in Nat /\ try[i][k].seq \in Nat /\ NotStored \in Nat
      BY TypedTry
    <3>2. \A s \in {"allocate", "insert", "find", "answer", "acked", "refused"}, n \in Nat :
             Handling(s, n) \in Handler
      BY HandlersTyped DEF Running, Ended
    <3>3. QED
      BY <1>3, <3>1, <3>2 DEF Receive, Handle, AllocateSeq, InsertMessage, AnswerDuplicate,
           Acknowledge, Refuse
  <2>2. try[i][k].pc # "answer"
    BY <1>3 DEF Receive, Handle, AllocateSeq, InsertMessage, AnswerDuplicate, Refuse, Unsent
  <2>3. try'[j][m] = try[j][m]
    BY <1>1, <2>1, <2>2, StepChanges
  <2>4. QED
    BY <1>1, <2>3 DEF Pending, Tries
<1>4. QED
  BY <1>2, <1>3

-----------------------------------------------------------------------------
(* Delivery: what clients were told agrees with what is stored.            *)

Told == ViewAgrees /\ EventsAgree /\ PagesStored

LEMMA ToldSoFar ==
    ASSUME DTypeOK, Told, Grows(stored, stored'), NEW u \in Viewers
    PROVE  /\ RowsWith(view[u], stored')
           /\ QueueWith(inbox[u], stored')
           /\ history[u] # NoPage => PageWith(history[u], stored')
<1>1. /\ RowsWith(view[u], stored)
      /\ QueueWith(inbox[u], stored)
      /\ history[u] # NoPage => PageWith(history[u], stored)
  BY AgreeMeans DEF Told
<1>2. inbox[u] \in Seq(Events) /\ (history[u] # NoPage => history[u] \in SUBSET Messages)
  BY DEF DTypeOK
<1>3. QED
  BY <1>1, <1>2, GrowingKeeps

\* Nobody is told anything new.
LEMMA QuietTold ==
    ASSUME DTypeOK, Told, Grows(stored, stored'), view' = view, inbox' = inbox,
           \A u \in Viewers : history'[u] \in {history[u], NoPage}
    PROVE  Told'
<1>1. \A u \in Viewers : /\ RowsWith(view'[u], stored')
                         /\ QueueWith(inbox'[u], stored')
                         /\ history'[u] # NoPage => PageWith(history'[u], stored')
  BY ToldSoFar
<1>2. QED
  BY <1>1, AgreeMeans DEF Told

\* What AnswerNew emits to viewer u, in order.
LEMMA AnswerEmits ==
    ASSUME DTypeOK, TypeOK', NEW i \in Messages, NEW k \in Tries(i), DAnswerNew(i, k),
           NEW u \in Viewers, NEW s,
           QueueWith(inbox[u], s), EventWith(New(i), s), EventWith(Ack(i, k), s)
    PROVE  /\ QueueWith(inbox'[u], s)
           /\ \A j : Carries(inbox[u], j) => Carries(inbox'[u], j)
           /\ inRoom[u] => Carries(inbox'[u], i)
<1>1. New(i) \in Events /\ Ack(i, k) \in Events
  BY EventsTyped DEF TypeOK, Handler
<1>2. inbox[u] \in Seq(Events)
  BY DEF DTypeOK
<1>3. Brings(New(i), i)
  BY DEF Brings, New
<1> DEFINE q == IF inRoom[u] THEN Append(inbox[u], New(i)) ELSE inbox[u]
<1> HIDE DEF Events
<1>4. inbox'[u] = IF Answering(i, k, u) THEN Append(q, Ack(i, k)) ELSE q
  <2>1. inbox'[u] = inbox[u] \o (IF inRoom[u] THEN <<New(i)>> ELSE <<>>)
                             \o (IF Answering(i, k, u) THEN <<Ack(i, k)>> ELSE <<>>)
    BY DEF DAnswerNew
  <2>2. /\ inbox[u] \o <<New(i)>> = Append(inbox[u], New(i))
        /\ inbox[u] \o <<>> = inbox[u]
    BY <1>1, <1>2
  <2>3. q = inbox[u] \o (IF inRoom[u] THEN <<New(i)>> ELSE <<>>)
    BY <2>2
  <2>4. q \in Seq(Events)
    BY <1>1, <1>2
  <2> HIDE DEF q
  <2>5. q \o <<Ack(i, k)>> = Append(q, Ack(i, k)) /\ q \o <<>> = q
    BY <1>1, <2>4
  <2>6. QED
    BY <2>1, <2>3, <2>5
<1>5. /\ q \in Seq(Events)
      /\ QueueWith(q, s)
      /\ \A j : Carries(inbox[u], j) => Carries(q, j)
      /\ inRoom[u] => Carries(q, i)
  BY <1>1, <1>2, <1>3, QueueAppends
<1> HIDE DEF q
<1>6. QED
  BY <1>1, <1>4, <1>5, QueueAppends

\* What the other answers emit: at most one event, which brings no message.
LEMMA ReplyEmits ==
    ASSUME DTypeOK, TypeOK', NEW i \in Messages, NEW k \in Tries(i),
           DAnswerDuplicate(i, k) \/ DRefuse(i, k),
           NEW u \in Viewers, NEW s,
           QueueWith(inbox[u], s), DAnswerDuplicate(i, k) => EventWith(Ack(i, k), s)
    PROVE  /\ QueueWith(inbox'[u], s)
           /\ \A j : Carries(inbox[u], j) => Carries(inbox'[u], j)
<1>1. Error(i, k) \in Events /\ Ack(i, k) \in Events
  BY EventsTyped DEF TypeOK, Handler
<1>2. inbox[u] \in Seq(Events)
  BY DEF DTypeOK
<1>3. EventWith(Error(i, k), s)
  BY DEF EventWith, Error
<1> HIDE DEF Events
<1>4. PICK e \in Events : EventWith(e, s) /\ inbox'[u] \in {inbox[u], Append(inbox[u], e)}
  <2>1. CASE DAnswerDuplicate(i, k)
    BY <1>1, <2>1 DEF DAnswerDuplicate
  <2>2. CASE DRefuse(i, k)
    BY <1>1, <1>3, <2>2 DEF DRefuse
  <2>3. QED
    BY <2>1, <2>2
<1>5. QED
  BY <1>2, <1>4, QueueAppends

LEMMA AnswerTold ==
    ASSUME DTypeOK, Told, IInv, IInv', Grows(stored, stored'),
           NEW i \in Messages, NEW k \in Tries(i),
           DAnswerNew(i, k) \/ DAnswerDuplicate(i, k) \/ DRefuse(i, k)
    PROVE  /\ Told'
           /\ \A u \in Viewers, j \in Messages :
                 Carries(inbox[u], j) => Carries(inbox'[u], j)
           /\ DAnswerNew(i, k) => \A u \in Viewers : inRoom[u] => Carries(inbox'[u], i)
<1>1. TypeOK /\ TypeOK'
  BY DEF IInv
<1>2. ASSUME DAnswerNew(i, k) \/ DAnswerDuplicate(i, k)
      PROVE  EventWith(New(i), stored') /\ EventWith(Ack(i, k), stored')
  <2>1. PICK n \in Nat : Step(i, k, Handling("acked", n))
    BY <1>1, <1>2, TypedTry DEF DAnswerNew, DAnswerDuplicate, AnswerNew, AnswerDuplicate, Acknowledge
  <2>2. try'[i][k].pc = "acked"
    BY <1>1, <2>1, HandlersTyped, StepChanges DEF Ended, Handling
  <2>3. IsStored(i)' /\ try'[i][k].seq = stored'[i]
    BY <2>2 DEF IInv, HandlersAgree, Tries
  <2>4. QED
    BY <2>3 DEF EventWith, New, Ack, IsStored
<1>3. ASSUME NEW u \in Viewers
      PROVE  /\ QueueWith(inbox'[u], stored')
             /\ \A j : Carries(inbox[u], j) => Carries(inbox'[u], j)
             /\ DAnswerNew(i, k) /\ inRoom[u] => Carries(inbox'[u], i)
  <2>1. QueueWith(inbox[u], stored')
    BY ToldSoFar
  <2>2. CASE DAnswerNew(i, k)
    BY <1>1, <1>2, <2>1, <2>2, AnswerEmits
  <2>3. CASE ~DAnswerNew(i, k)
    BY <1>1, <1>2, <2>1, <2>3, ReplyEmits
  <2>4. QED
    BY <2>2, <2>3
<1>4. view' = view /\ history' = history
  BY DEF DAnswerNew, DAnswerDuplicate, DRefuse, clientVars
<1>5. Told'
  BY <1>3, <1>4, ToldSoFar, AgreeMeans DEF Told
<1>6. QED
  BY <1>3, <1>5

\* Numbers are naturals; a page read above a number holds stored messages only.
LEMMA SyncTold ==
    ASSUME DTypeOK, Told, NEW u \in Viewers, Join(u) \/ AnswerSync(u) \/ SyncFails(u)
    PROVE  Told'
<1>1. stored' = stored /\ view' = view /\ history' = history /\ Grows(stored, stored')
  BY DEF Join, AnswerSync, SyncFails, serverVars, clientVars, Grows
<1>2. CASE Join(u) \/ SyncFails(u)
  BY <1>1, <1>2, QuietTold DEF Join, SyncFails
<1>3. CASE AnswerSync(u)
  <2>1. PICK r \in syncs[u] : inbox' = [inbox EXCEPT ![u] = Append(@, Sync(FirstOf(Since(r.after))))]
    BY <1>3 DEF AnswerSync
  <2> DEFINE page == FirstOf(Since(r.after))
  <2>2. page \in SUBSET Messages /\ \A i \in page : stored[i] > r.after
    BY DEF FirstOf, Since
  <2>3. r.after \in Nat
    BY DEF DTypeOK
  <2>4. PageWith(page, stored)
    BY <2>2, <2>3 DEF PageWith, NotStored
  <2>5. Sync(page) \in Events
    BY <2>2 DEF Sync, Events
  <2>6. EventWith(Sync(page), stored)
    BY <2>4 DEF EventWith, Sync
  <2>7. inbox[u] \in Seq(Events)
    BY DEF DTypeOK
  <2>8. QueueWith(inbox[u], stored)
    BY <1>1, ToldSoFar
  <2> HIDE DEF page, Events
  <2>9. QueueWith(Append(inbox[u], Sync(page)), stored)
    BY <2>5, <2>6, <2>7, <2>8, QueueAppends
  <2>10. inbox' = [inbox EXCEPT ![u] = Append(inbox[u], Sync(page))]
    BY <2>1 DEF page
  <2>11. \A v \in Viewers : QueueWith(inbox'[v], stored')
    BY <1>1, <2>9, <2>10, ToldSoFar DEF DTypeOK
  <2>12. QED
    BY <1>1, <2>11, ToldSoFar, AgreeMeans DEF Told
<1>4. QED
  BY <1>2, <1>3

LEMMA PanelTold ==
    ASSUME DTypeOK, Told, NEW u \in Viewers,
           Open(u) \/ ReadHistory(u) \/ LoadHistory(u) \/ HistoryFails(u)
    PROVE  Told'
<1>1. stored' = stored /\ inbox' = inbox /\ Grows(stored, stored')
  BY DEF Open, ReadHistory, LoadHistory, HistoryFails, serverVars, netVars, Grows
<1>2. CASE Open(u) \/ HistoryFails(u)
  <2>1. view' = view /\ \A v \in Viewers : history'[v] \in {history[v], NoPage}
    BY <1>2 DEF Open, HistoryFails, DTypeOK
  <2>2. QED
    BY <1>1, <2>1, QuietTold
<1>3. CASE ReadHistory(u)
  <2>1. PICK page \in SUBSET {i \in Messages : IsStored(i)} :
           history' = [history EXCEPT ![u] = page]
    BY <1>3 DEF ReadHistory
  <2>2. PageWith(page, stored)
    BY DEF PageWith, IsStored
  <2>3. view' = view
    BY <1>3 DEF ReadHistory
  <2>4. \A v \in Viewers : history'[v] # NoPage => PageWith(history'[v], stored')
    BY <1>1, <2>1, <2>2, ToldSoFar DEF DTypeOK
  <2>5. QED
    BY <1>1, <2>3, <2>4, ToldSoFar, AgreeMeans DEF Told
<1>4. CASE LoadHistory(u)
  <2> DEFINE rows == [i \in Messages |-> IF i \in history[u] THEN Row("sent", stored[i]) ELSE NoRow]
  <2>1. PageWith(history[u], stored)
    BY <1>1, <1>4, ToldSoFar DEF LoadHistory
  <2>2. RowsWith(rows, stored)
    BY <2>1 DEF RowsWith, PageWith, Row, NoRow
  <2>3. view' = [view EXCEPT ![u] = rows] /\ history' = [history EXCEPT ![u] = NoPage]
    BY <1>4 DEF LoadHistory
  <2> HIDE DEF rows
  <2>4. \A v \in Viewers : /\ RowsWith(view'[v], stored')
                           /\ history'[v] # NoPage => PageWith(history'[v], stored')
    BY <1>1, <2>2, <2>3, ToldSoFar DEF DTypeOK
  <2>5. QED
    BY <1>1, <2>4, ToldSoFar, AgreeMeans DEF Told
<1>5. QED
  BY <1>2, <1>3, <1>4

\* Rows whose status is changed to pending or failed.
LEMMA StatusTold ==
    ASSUME NEW rows \in [Messages -> Rows], NEW i \in Messages, NEW s,
           NEW status \in {"pending", "failed"}, RowsWith(rows, s)
    PROVE  RowsWith(SetStatus(rows, i, status), s)
BY SetStatusTyped DEF RowsWith

LEMMA SendTold ==
    ASSUME DTypeOK, Told, NEW u \in Viewers, NEW i \in Messages,
           \/ Send(u, i) \/ Retry(u, i)
           \/ \E k \in Tries(i) : Timeout(u, i, k)
    PROVE  Told'
<1>1. stored' = stored /\ inbox' = inbox /\ history' = history /\ Grows(stored, stored')
  BY DEF Send, Retry, SendPayload, Timeout, serverVars, Grows
<1>2. view[u] \in [Messages -> Rows] /\ RowsWith(view[u], stored)
  BY <1>1, ToldSoFar DEF DTypeOK
<1>3. PICK rows : RowsWith(rows, stored) /\ view' = [view EXCEPT ![u] = rows]
  <2>1. CASE Send(u, i)
    <3> DEFINE rows == [view[u] EXCEPT ![i] = Row("pending", NotStored)]
    <3>1. RowsWith(rows, stored)
      BY <1>2 DEF RowsWith, Row
    <3>2. view' = [view EXCEPT ![u] = rows]
      BY <2>1 DEF Send, SendPayload
    <3>3. QED
      BY <3>1, <3>2
  <2>2. CASE Retry(u, i)
    <3>1. RowsWith(SetStatus(view[u], i, "pending"), stored)
      BY <1>2, StatusTold
    <3>2. view' = [view EXCEPT ![u] = SetStatus(view[u], i, "pending")]
      BY <2>2 DEF Retry, SendPayload
    <3>3. QED
      BY <3>1, <3>2
  <2>3. CASE \E k \in Tries(i) : Timeout(u, i, k)
    <3>1. RowsWith(SetStatus(view[u], i, "failed"), stored)
      BY <1>2, StatusTold
    <3>2. view' = [view EXCEPT ![u] = SetStatus(view[u], i, "failed")]
      BY <2>3 DEF Timeout
    <3>3. QED
      BY <3>1, <3>2
  <2>4. QED
    BY <2>1, <2>2, <2>3
<1>4. \A v \in Viewers : RowsWith(view'[v], stored')
  BY <1>1, <1>3, ToldSoFar DEF DTypeOK
<1>5. QED
  BY <1>1, <1>4, ToldSoFar, AgreeMeans DEF Told

\* The rows after messages S have arrived.
LEMMA ArriveShows ==
    ASSUME DTypeOK, NEW u \in Viewers, NEW S \in SUBSET Messages, Arrive(u, S),
           RowsWith(view[u], stored), PageWith(S, stored)
    PROVE  \E rows : /\ view' = [view EXCEPT ![u] = rows]
                     /\ RowsWith(rows, stored)
                     /\ \A j \in Messages : view[u][j] # NoRow \/ j \in S => rows[j] # NoRow
<1> DEFINE rows == Shown(view[u], S)
<1>1. view' = [view EXCEPT ![u] = rows]
  BY DEF Arrive
<1>2. \A i \in Messages : rows[i] = IF i \in S THEN Row("sent", stored[i]) ELSE view[u][i]
  BY ShownTyped
<1>3. \A i \in Messages : Row("sent", stored[i]) # NoRow
  BY RowsTyped DEF DTypeOK, TypeOK
<1>4. \A i \in Messages : Row("sent", stored[i]).seq = stored[i]
  BY DEF Row
<1> HIDE DEF rows
<1>5. RowsWith(rows, stored)
  BY <1>2, <1>4 DEF RowsWith, PageWith
<1>6. \A j \in Messages : view[u][j] # NoRow \/ j \in S => rows[j] # NoRow
  BY <1>2, <1>3
<1>7. QED
  BY <1>1, <1>5, <1>6

\* The rows after the callback of a try has run: none goes.
LEMMA AckShows ==
    ASSUME DTypeOK, NEW u \in Viewers, NEW e \in Events, HandleAck(u, e),
           RowsWith(view[u], stored), EventWith(e, stored)
    PROVE  \E rows : /\ view' = [view EXCEPT ![u] = rows]
                     /\ RowsWith(rows, stored)
                     /\ \A j \in Messages : view[u][j] # NoRow => rows[j] # NoRow
<1> DEFINE failed == SetStatus(view[u], e.i, "failed")
           sent == [view[u] EXCEPT ![e.i] = Row("sent", e.seq)]
<1>1. view[u] \in [Messages -> Rows] /\ view = [view EXCEPT ![u] = view[u]]
  BY DEF DTypeOK
<1>2. e.type \in {"ack", "error"} /\ e.i \in Messages
  BY DEF HandleAck, Events
<1>3. CASE view' = view
  BY <1>1, <1>3
<1>4. CASE view' = [view EXCEPT ![u] = failed]
  <2>1. RowsWith(failed, stored)
    BY <1>1, <1>2, StatusTold
  <2>2. \A j \in Messages : view[u][j] # NoRow => failed[j] # NoRow
    BY <1>1, <1>2, SetStatusTyped
  <2>3. QED
    BY <1>4, <2>1, <2>2
<1>5. CASE /\ e.type = "ack"
           /\ view[u][e.i] # NoRow
           /\ view' = [view EXCEPT ![u] = sent]
  <2>1. stored[e.i] # NotStored /\ e.seq = stored[e.i] /\ e.seq \in Nat
    BY <1>5 DEF EventWith, Events
  <2>2. /\ \A j \in Messages : sent[j] = IF j = e.i THEN Row("sent", e.seq) ELSE view[u][j]
        /\ Row("sent", e.seq).seq = e.seq /\ Row("sent", e.seq) # NoRow
    BY <1>1, <2>1, RowsTyped DEF Row
  <2> HIDE DEF sent
  <2>3. RowsWith(sent, stored)
    BY <1>2, <2>1, <2>2 DEF RowsWith
  <2>4. \A j \in Messages : view[u][j] # NoRow => sent[j] # NoRow
    BY <2>2
  <2>5. QED
    BY <1>5, <2>3, <2>4
<1>6. \/ view' = view
      \/ view' = [view EXCEPT ![u] = failed]
      \/ /\ e.type = "ack"
         /\ view[u][e.i] # NoRow
         /\ view' = [view EXCEPT ![u] = sent]
  BY <1>1, <1>2 DEF HandleAck
<1>7. QED
  BY <1>3, <1>4, <1>5, <1>6

\* The event at the head of the inbox is shown, and nothing else is lost.
LEMMA DeliverShows ==
    ASSUME DTypeOK, Told, NEW u \in Viewers, Deliver(u)
    PROVE  /\ Told'
           /\ stored' = stored
           /\ \A v \in Viewers \ {u} : view'[v] = view[v] /\ inbox'[v] = inbox[v]
           /\ \A j \in Messages :
                 /\ InView(u, j) => InView(u, j)'
                 /\ Carries(inbox[u], j) => Carries(inbox'[u], j) \/ InView(u, j)'
<1> DEFINE e == Head(inbox[u])
<1>1. e \in Events /\ inbox[u] \in Seq(Events) /\ inbox[u] # <<>>
  BY HeadIsEvent DEF Deliver, DTypeOK
<1>2. stored' = stored /\ history' = history /\ inbox' = [inbox EXCEPT ![u] = Tail(inbox[u])]
  BY DeliverOnServer DEF ReadUpTo, serverVars, Deliver
<1>3. /\ RowsWith(view[u], stored) /\ QueueWith(inbox[u], stored)
  BY AgreeMeans DEF Told
<1>4. EventWith(e, stored) /\ QueueWith(Tail(inbox[u]), stored)
  BY <1>1, <1>3, QueueHead
<1>5. PICK rows : /\ view' = [view EXCEPT ![u] = rows]
                  /\ RowsWith(rows, stored)
                  /\ \A j \in Messages : view[u][j] # NoRow \/ Brings(e, j) => rows[j] # NoRow
  <2>1. CASE HandleMessageNew(u, e)
    <3>1. e.type = "new" /\ {e.i} \in SUBSET Messages /\ PageWith({e.i}, stored)
      BY <1>1, <1>4, <2>1 DEF HandleMessageNew, Events, EventWith, PageWith
    <3>2. \A j \in Messages : Brings(e, j) => j \in {e.i}
      BY <3>1 DEF Brings
    <3> HIDE DEF e
    <3>3. QED
      BY <1>3, <2>1, <3>1, <3>2, ArriveShows DEF HandleMessageNew
  <2>2. CASE HandleSync(u, e)
    <3>1. e.type = "sync" /\ e.page \in SUBSET Messages /\ PageWith(e.page, stored)
      BY <1>1, <1>4, <2>2 DEF HandleSync, Events, EventWith
    <3>2. \A j \in Messages : Brings(e, j) => j \in e.page
      BY <3>1 DEF Brings
    <3>3. view = [view EXCEPT ![u] = view[u]]
      BY DEF DTypeOK
    <3> HIDE DEF e
    <3>4. CASE e.page = {}
      BY <1>3, <2>2, <3>2, <3>3, <3>4 DEF HandleSync
    <3>5. CASE e.page # {}
      BY <1>3, <2>2, <3>1, <3>2, <3>5, ArriveShows DEF HandleSync
    <3>6. QED
      BY <3>4, <3>5
  <2>3. CASE HandleAck(u, e)
    <3>1. \A j \in Messages : ~Brings(e, j)
      BY <2>3 DEF HandleAck, Brings
    <3> HIDE DEF e
    <3>2. QED
      BY <1>1, <1>3, <1>4, <2>3, <3>1, AckShows
  <2>4. QED
    BY <2>1, <2>2, <2>3 DEF Deliver
<1> HIDE DEF e
<1>6. \A v \in Viewers \ {u} : view'[v] = view[v] /\ inbox'[v] = inbox[v]
  BY <1>2, <1>5 DEF DTypeOK
<1>7. view'[u] = rows /\ inbox'[u] = Tail(inbox[u])
  BY <1>2, <1>5 DEF DTypeOK
<1>8. Told'
  <2>1. \A v \in Viewers : RowsWith(view'[v], stored') /\ QueueWith(inbox'[v], stored')
    BY <1>2, <1>4, <1>5, <1>6, <1>7, AgreeMeans DEF Told
  <2>2. QED
    BY <1>2, <2>1, AgreeMeans DEF Told
<1>9. ASSUME NEW j \in Messages
      PROVE  /\ InView(u, j) => InView(u, j)'
             /\ Carries(inbox[u], j) => Carries(inbox'[u], j) \/ InView(u, j)'
  <2>1. Carries(inbox[u], j) => Brings(e, j) \/ Carries(Tail(inbox[u]), j)
    BY <1>1, QueueHead DEF e
  <2>2. QED
    BY <1>5, <1>7, <2>1 DEF InView
<1>10. QED
  BY <1>2, <1>6, <1>8, <1>9

LEMMA HangUpTold ==
    ASSUME DTypeOK, Told, NEW Lost, HangUp(Lost), stored' = stored
    PROVE  Told'
<1>1. Grows(stored, stored')
  BY DEF Grows
<1>2. ASSUME NEW v \in Viewers
      PROVE  /\ RowsWith(view'[v], stored')
             /\ QueueWith(inbox'[v], stored')
  <2>1. ASSUME NEW i \in Messages, view'[v][i].status = "sent"
        PROVE  view'[v][i] = view[v][i]
    <3>1. view[v] \in [Messages -> Rows]
      BY DEF DTypeOK
    <3>2. view'[v][i] \in {view[v][i], SetStatus(view[v], i, "failed")[i]}
      BY DEF HangUp
    <3>3. QED
      BY <2>1, <3>1, <3>2, SetStatusTyped
  <2>2. RowsWith(view'[v], stored')
    BY <1>1, <2>1, ToldSoFar DEF RowsWith
  <2>3. QueueWith(<<>>, stored')
    BY DEF QueueWith
  <2>4. inbox'[v] \in {<<>>, inbox[v]}
    BY DEF HangUp
  <2>5. QED
    BY <1>1, <2>2, <2>3, <2>4, ToldSoFar
<1>3. \A v \in Viewers : history'[v] # NoPage => PageWith(history'[v], stored')
  BY <1>1, ToldSoFar DEF HangUp
<1>4. QED
  BY <1>2, <1>3, AgreeMeans DEF Told

-----------------------------------------------------------------------------
(* Delivery: no gap.                                                       *)

LEMMA RoomsStayLive == DTypeOK /\ RoomsAreLive /\ [DNext]_vars => RoomsAreLive'
<1> SUFFICES ASSUME DTypeOK, RoomsAreLive, [DNext]_vars
             PROVE  RoomsAreLive'
  OBVIOUS
<1>1. ASSUME NEW Lost, HangUp(Lost)
      PROVE  RoomsAreLive'
  BY <1>1 DEF HangUp, RoomsAreLive
<1>2. ASSUME NEW u \in Viewers, up'[u],
             \A v \in Viewers \ {u} : /\ up'[v] = up[v] /\ inRoom'[v] = inRoom[v]
                                      /\ syncs'[v] = syncs[v]
      PROVE  RoomsAreLive'
  BY <1>2 DEF RoomsAreLive
<1>3. ASSUME NEW u \in Viewers, Join(u) \/ AnswerSync(u) \/ SyncFails(u)
      PROVE  RoomsAreLive'
  <2>1. syncs[u] # {} /\ up' = up
    BY <1>3 DEF Join, AnswerSync, SyncFails
  <2>2. \A v \in Viewers \ {u} : inRoom'[v] = inRoom[v] /\ syncs'[v] = syncs[v]
    BY <1>3 DEF Join, AnswerSync, SyncFails, DTypeOK
  <2>3. QED
    BY <1>2, <2>1, <2>2 DEF RoomsAreLive
<1>4. ASSUME NEW u \in Viewers, LoadHistory(u) \/ Connect(u)
      PROVE  RoomsAreLive'
  <2> DEFINE silent == syncs' = syncs /\ \A v \in Viewers : up[v] => up'[v]
             asked  == up'[u] /\ \A v \in Viewers \ {u} : up'[v] = up[v] /\ syncs'[v] = syncs[v]
  <2>1. inRoom' = inRoom /\ (silent \/ asked)
    BY <1>4 DEF LoadHistory, Connect, Ask, DTypeOK
  <2>2. CASE silent
    BY <2>1, <2>2 DEF RoomsAreLive
  <2>3. CASE asked
    BY <1>2, <2>1, <2>3
  <2>4. QED
    BY <2>1, <2>2, <2>3
<1>5. CASE UNCHANGED <<up, inRoom, syncs>>
  BY <1>5 DEF RoomsAreLive
<1>6. QED
  <2>1. CASE UNCHANGED vars
    BY <1>5, <2>1 DEF vars, netVars
  <2>2. ASSUME NEW i \in Messages, NEW k \in Tries(i),
               DReceive(i, k) \/ DStore(i, k) \/ DRefuse(i, k)
                  \/ DAnswerNew(i, k) \/ DAnswerDuplicate(i, k)
        PROVE  RoomsAreLive'
    BY <1>5, <2>2 DEF DReceive, DStore, DRefuse, DAnswerNew, DAnswerDuplicate, netVars
  <2>3. ASSUME NEW m \in marks, DMark(m[1], m[2])
        PROVE  RoomsAreLive'
    BY <1>5, <2>3 DEF DMark
  <2>4. ASSUME NEW u \in Viewers,
               \/ Open(u) \/ ReadHistory(u) \/ HistoryFails(u) \/ Deliver(u)
               \/ \E i \in Messages : \/ Send(u, i) \/ Retry(u, i)
                                     \/ \E k \in Tries(i) : Timeout(u, i, k)
        PROVE  RoomsAreLive'
    BY <1>5, <2>4 DEF Open, ReadHistory, HistoryFails, Deliver, Send, Retry, SendPayload,
         Timeout, netVars
  <2>5. CASE DCrash \/ \E u \in Viewers : Disconnect(u)
    BY <1>1, <2>5 DEF DCrash, Disconnect
  <2>6. QED
    BY <1>3, <1>4, <2>1, <2>2, <2>3, <2>4, <2>5 DEF DNext

\* NoGapInRoom for one viewer.
NoGapFor(u) == inRoom[u] /\ syncs[u] = {} => \A i \in Messages : IsStored(i) => Covered(u, i)

LEMMA CoveredMeans ==
    ASSUME NEW u \in Viewers, NEW i \in Messages
    PROVE  /\ Covered(u, i) <=> \/ InView(u, i) \/ Carries(inbox[u], i)
                                \/ i \in skipped[u] \/ Pending(i)
           /\ Covered(u, i)' <=> \/ InView(u, i)' \/ Carries(inbox'[u], i)
                                 \/ i \in skipped'[u] \/ Pending(i)'
<1>1. Covered(u, i) <=> \/ InView(u, i) \/ Carries(inbox[u], i)
                        \/ i \in skipped[u] \/ Pending(i)
  BY DEF Covered, InInbox, Carries, Brings, Pending
<1>2. Covered(u, i)' <=> \/ InView(u, i)' \/ Carries(inbox'[u], i)
                         \/ i \in skipped'[u] \/ Pending(i)'
  BY DEF Covered, InInbox, Carries, Brings, Pending
<1>3. QED
  BY <1>1, <1>2

\* A step that leaves viewer u subscribed loses nothing that covers a message.
LEMMA GapKept ==
    ASSUME NEW u \in Viewers, NoGapFor(u),
           inRoom'[u] /\ syncs'[u] = {} =>
              /\ inRoom[u] /\ syncs[u] = {}
              /\ \A j \in Messages :
                    /\ IsStored(j)' => IsStored(j) \/ Pending(j)'
                    /\ InView(u, j) => InView(u, j)'
                    /\ Carries(inbox[u], j) => Carries(inbox'[u], j) \/ InView(u, j)'
                    /\ Pending(j) => Pending(j)' \/ Carries(inbox'[u], j)
                    /\ j \in skipped[u] => j \in skipped'[u]
    PROVE  NoGapFor(u)'
BY CoveredMeans DEF NoGapFor

\* A step that concerns another viewer, or nothing that covers a message.
LEMMA GapSame ==
    ASSUME NEW v \in Viewers, NoGapFor(v), try' = try, stored' = stored,
           view'[v] = view[v], inbox'[v] = inbox[v], skipped'[v] = skipped[v],
           inRoom'[v] => inRoom[v], inRoom'[v] /\ syncs'[v] = {} => syncs[v] = {}
    PROVE  NoGapFor(v)'
BY DEF NoGapFor, Covered, InView, InInbox, IsStored

LEMMA HandlersNoGap ==
    ASSUME DTypeOK, Told, IInv, IInv', NoGapInRoom, NEW i \in Messages, NEW k \in Tries(i),
           DReceive(i, k) \/ DStore(i, k) \/ DRefuse(i, k)
              \/ DAnswerNew(i, k) \/ DAnswerDuplicate(i, k)
    PROVE  NoGapInRoom'
<1>1. Receive(i, k) \/ Handle(i, k)
  BY DEF DReceive, DStore, DRefuse, DAnswerNew, DAnswerDuplicate, Handle
<1>2. TypeOK /\ [Next]_serverVars
  BY <1>1 DEF IInv, Next
<1>3. /\ view' = view /\ skipped' = skipped /\ inRoom' = inRoom /\ syncs' = syncs
      /\ inbox' = inbox \/ DRefuse(i, k) \/ DAnswerNew(i, k) \/ DAnswerDuplicate(i, k)
  BY DEF DReceive, DStore, DRefuse, DAnswerNew, DAnswerDuplicate, clientVars, netVars
<1>4. \A u \in Viewers, j \in Messages : Carries(inbox[u], j) => Carries(inbox'[u], j)
  BY <1>2, <1>3, ServerStores, AnswerTold
<1>5. DAnswerNew(i, k) => \A u \in Viewers : inRoom[u] => Carries(inbox'[u], i)
  BY <1>2, ServerStores, AnswerTold
<1>6. ~DAnswerNew(i, k) => ~AnswerNew(i, k)
  BY DEF DReceive, DStore, DRefuse, DAnswerDuplicate, Receive, AllocateSeq, InsertMessage,
       Refuse, AnswerNew, AnswerDuplicate, Unsent
<1>7. \A u \in Viewers, j \in Messages :
         inRoom[u] /\ Pending(j) => Pending(j)' \/ Carries(inbox'[u], j)
  BY <1>1, <1>2, <1>5, <1>6, PendingStays
<1>8. ASSUME NEW u \in Viewers
      PROVE  NoGapFor(u)'
  <2>1. NoGapFor(u)
    BY DEF NoGapInRoom, NoGapFor
  <2>2. \A j \in Messages : InView(u, j) => InView(u, j)'
    BY <1>3 DEF InView
  <2>3. \A j \in Messages : IsStored(j)' => IsStored(j) \/ Pending(j)'
    BY <1>2, ServerStores
  <2>4. QED
    BY <1>3, <1>4, <1>7, <2>1, <2>2, <2>3, GapKept
<1>9. QED
  BY <1>8 DEF NoGapInRoom, NoGapFor

LEMMA SyncNoGap ==
    ASSUME DTypeOK, NoGapInRoom, NEW u \in Viewers, Join(u) \/ AnswerSync(u) \/ SyncFails(u)
    PROVE  NoGapInRoom'
<1>1. try' = try /\ stored' = stored /\ view' = view
  BY DEF Join, AnswerSync, SyncFails, serverVars, clientVars
<1>2. ASSUME NEW v \in Viewers \ {u}
      PROVE  NoGapFor(v)'
  <2>1. NoGapFor(v)
    BY DEF NoGapInRoom, NoGapFor
  <2>2. /\ inbox'[v] = inbox[v] /\ skipped'[v] = skipped[v]
        /\ inRoom'[v] = inRoom[v] /\ syncs'[v] = syncs[v]
    BY DEF Join, AnswerSync, SyncFails, DTypeOK
  <2>3. QED
    BY <1>1, <2>1, <2>2, GapSame
<1>3. NoGapFor(u)'
  <2>1. CASE Join(u)
    <3>1. PICK r \in syncs[u] :
             syncs' = [syncs EXCEPT ![u] = (@ \ {r}) \cup {[r EXCEPT !.step = "joined"]}]
      BY <2>1 DEF Join
    <3> DEFINE joined == [r EXCEPT !.step = "joined"]
    <3> HIDE DEF joined
    <3>2. syncs' = [syncs EXCEPT ![u] = (syncs[u] \ {r}) \cup {joined}]
      BY <3>1 DEF joined
    <3>3. joined \in syncs'[u]
      BY <3>2 DEF DTypeOK
    <3>4. QED
      BY <3>3 DEF NoGapFor
  <2>2. CASE AnswerSync(u)
    <3>1. PICK r \in syncs[u] :
             /\ inbox' = [inbox EXCEPT ![u] = Append(@, Sync(FirstOf(Since(r.after))))]
             /\ skipped' = [skipped EXCEPT ![u] =
                   {i \in Messages : IsStored(i)} \ FirstOf(Since(r.after))]
      BY <2>2 DEF AnswerSync
    <3> DEFINE page == FirstOf(Since(r.after))
    <3>2. page \in SUBSET Messages
      BY DEF FirstOf, Since
    <3> HIDE DEF page
    <3>3. inbox[u] \in Seq(Events) /\ Sync(page) \in Events
      BY <3>2 DEF DTypeOK, Sync, Events
    <3>4. /\ inbox'[u] = Append(inbox[u], Sync(page))
          /\ skipped'[u] = {i \in Messages : IsStored(i)} \ page
      BY <3>1 DEF DTypeOK, page
    <3>5. \A i \in page : Carries(inbox'[u], i)
      <4>1. \A i \in page : Brings(Sync(page), i)
        BY DEF Brings, Sync
      <4>2. \A i : Brings(Sync(page), i) => Carries(Append(inbox[u], Sync(page)), i)
        BY <3>3, QueueAppends
      <4>3. QED
        BY <3>4, <4>1, <4>2
    <3>6. \A i \in Messages : IsStored(i)' => i \in page \/ i \in skipped'[u]
      BY <1>1, <3>4 DEF IsStored
    <3>7. QED
      BY <3>5, <3>6, CoveredMeans DEF NoGapFor
  <2>3. CASE SyncFails(u)
    <3>1. skipped'[u] = Messages
      BY <2>3 DEF SyncFails, DTypeOK
    <3>2. QED
      BY <3>1, CoveredMeans DEF NoGapFor
  <2>4. QED
    BY <2>1, <2>2, <2>3
<1>4. QED
  BY <1>2, <1>3 DEF NoGapInRoom, NoGapFor

LEMMA PanelNoGap ==
    ASSUME DTypeOK, RoomsAreLive, NoGapInRoom, NEW u \in Viewers,
           Open(u) \/ ReadHistory(u) \/ LoadHistory(u) \/ HistoryFails(u)
    PROVE  NoGapInRoom'
<1>1. /\ try' = try /\ stored' = stored /\ skipped' = skipped
      /\ inbox' = inbox /\ inRoom' = inRoom
  BY DEF Open, ReadHistory, LoadHistory, HistoryFails, serverVars, netVars
<1>2. ASSUME NEW v \in Viewers, view'[v] = view[v], syncs'[v] = syncs[v]
      PROVE  NoGapFor(v)'
  BY <1>1, <1>2, GapSame DEF NoGapInRoom, NoGapFor
<1>3. CASE Open(u) \/ ReadHistory(u) \/ HistoryFails(u)
  <2>1. view' = view /\ syncs' = syncs
    BY <1>3 DEF Open, ReadHistory, HistoryFails, netVars
  <2>2. QED
    BY <1>2, <2>1 DEF NoGapInRoom, NoGapFor
<1>4. CASE LoadHistory(u)
  <2>1. \A v \in Viewers \ {u} : view'[v] = view[v] /\ syncs'[v] = syncs[v]
    BY <1>4 DEF LoadHistory, Ask, DTypeOK
  <2>2. up[u] => syncs'[u] # {}
    BY <1>4 DEF LoadHistory, Ask, DTypeOK
  <2>3. NoGapFor(u)'
    BY <1>1, <2>2 DEF NoGapFor, RoomsAreLive
  <2>4. QED
    BY <1>2, <2>1, <2>3 DEF NoGapInRoom, NoGapFor
<1>5. QED
  BY <1>3, <1>4

\* Rows change, and none goes; nothing else that covers a message does.
LEMMA SendNoGap ==
    ASSUME DTypeOK, NoGapInRoom, NEW u \in Viewers, NEW i \in Messages,
           \/ Send(u, i) \/ Retry(u, i)
           \/ \E k \in Tries(i) : Timeout(u, i, k)
    PROVE  NoGapInRoom'
<1>1. /\ try' = try /\ stored' = stored /\ skipped' = skipped
      /\ inbox' = inbox /\ inRoom' = inRoom /\ syncs' = syncs
  BY DEF Send, Retry, SendPayload, Timeout, serverVars
<1>2. view[u] \in [Messages -> Rows]
  BY DEF DTypeOK
<1>3. \A v \in Viewers \ {u} : view'[v] = view[v]
  BY DEF Send, Retry, SendPayload, Timeout, DTypeOK
<1>4. \A j \in Messages : view[u][j] # NoRow => view'[u][j] # NoRow
  <2>1. CASE Send(u, i)
    <3>1. view'[u] = [view[u] EXCEPT ![i] = Row("pending", NotStored)]
      BY <2>1 DEF Send, SendPayload, DTypeOK
    <3>2. Row("pending", NotStored) # NoRow
      BY DEF Row, NoRow
    <3>3. QED
      BY <1>2, <3>1, <3>2
  <2>2. CASE ~Send(u, i)
    <3>1. \E status \in {"pending", "failed"} : view'[u] = SetStatus(view[u], i, status)
      BY <2>2 DEF Retry, SendPayload, Timeout, DTypeOK
    <3>2. QED
      BY <1>2, <3>1, SetStatusTyped
  <2>3. QED
    BY <2>1, <2>2
<1>5. \A v \in Viewers, j \in Messages : InView(v, j) => InView(v, j)'
  BY <1>3, <1>4 DEF InView
<1>6. \A v \in Viewers, j \in Messages : Covered(v, j) => Covered(v, j)'
  BY <1>1, <1>5, CoveredMeans DEF Pending
<1>7. QED
  BY <1>1, <1>6 DEF NoGapInRoom, IsStored

LEMMA DeliverNoGap ==
    ASSUME DTypeOK, Told, NoGapInRoom, NEW u \in Viewers, Deliver(u)
    PROVE  NoGapInRoom'
<1>1. /\ try' = try /\ stored' = stored
  BY DeliverOnServer DEF ReadUpTo, serverVars
<1>2. skipped' = skipped /\ inRoom' = inRoom /\ syncs' = syncs
  BY DEF Deliver
<1>3. \A v \in Viewers \ {u} : view'[v] = view[v] /\ inbox'[v] = inbox[v]
  BY DeliverShows
<1>4. ASSUME NEW v \in Viewers \ {u}
      PROVE  NoGapFor(v)'
  BY <1>1, <1>2, <1>3, GapSame DEF NoGapInRoom, NoGapFor
<1>5. NoGapFor(u)'
  <2>1. \A j \in Messages : /\ InView(u, j) => InView(u, j)'
                            /\ Carries(inbox[u], j) => Carries(inbox'[u], j) \/ InView(u, j)'
    BY DeliverShows
  <2>2. \A j \in Messages : Pending(j) => Pending(j)'
    BY <1>1 DEF Pending
  <2>3. \A j \in Messages : IsStored(j)' => IsStored(j)
    BY <1>1 DEF IsStored
  <2>4. NoGapFor(u)
    BY DEF NoGapInRoom, NoGapFor
  <2>5. QED
    BY <1>2, <2>1, <2>2, <2>3, <2>4, GapKept
<1>6. QED
  BY <1>4, <1>5 DEF NoGapInRoom, NoGapFor

LEMMA ConnectionNoGap ==
    ASSUME DTypeOK, RoomsAreLive, NoGapInRoom,
           DCrash \/ \E u \in Viewers : Disconnect(u) \/ Connect(u)
    PROVE  NoGapInRoom'
<1>1. CASE DCrash
  <2>1. \A v \in Viewers : ~inRoom'[v]
    BY <1>1 DEF DCrash, HangUp, RoomsAreLive
  <2>2. QED
    BY <2>1 DEF NoGapInRoom
<1>2. ASSUME NEW u \in Viewers, Disconnect(u)
      PROVE  NoGapInRoom'
  <2>1. try' = try /\ stored' = stored /\ HangUp({u})
    BY <1>2 DEF Disconnect, serverVars
  <2>2. ASSUME NEW v \in Viewers \ {u}
        PROVE  NoGapFor(v)'
    <3>1. /\ inRoom'[v] = inRoom[v] /\ inbox'[v] = inbox[v] /\ syncs'[v] = syncs[v]
          /\ skipped'[v] = skipped[v]
      BY <2>1 DEF HangUp, DTypeOK
    <3>2. view'[v] = view[v]
      BY <2>1 DEF HangUp, DTypeOK
    <3>3. QED
      BY <2>1, <3>1, <3>2, GapSame DEF NoGapInRoom, NoGapFor
  <2>3. ~inRoom'[u]
    BY <2>1 DEF HangUp
  <2>4. QED
    BY <2>2, <2>3 DEF NoGapInRoom, NoGapFor
<1>3. ASSUME NEW u \in Viewers, Connect(u)
      PROVE  NoGapInRoom'
  <2>1. /\ try' = try /\ stored' = stored /\ view' = view /\ inbox' = inbox
        /\ skipped' = skipped /\ inRoom' = inRoom
    BY <1>3 DEF Connect, serverVars, clientVars
  <2>2. ASSUME NEW v \in Viewers \ {u}
        PROVE  NoGapFor(v)'
    <3>1. syncs'[v] = syncs[v]
      BY <1>3 DEF Connect, Ask, DTypeOK
    <3>2. QED
      BY <2>1, <3>1, GapSame DEF NoGapInRoom, NoGapFor
  <2>3. ~inRoom'[u]
    BY <1>3, <2>1 DEF Connect, RoomsAreLive
  <2>4. QED
    BY <2>2, <2>3 DEF NoGapInRoom, NoGapFor
<1>4. QED
  BY <1>1, <1>2, <1>3

-----------------------------------------------------------------------------
(* Delivery: the invariant and the theorems.                               *)

LEMMA DInitInv == DInit => DInv
<1> SUFFICES ASSUME DInit
             PROVE  DInv
  OBVIOUS
<1>1. IInv
  BY InitIInv DEF DInit
<1>2. ViewAgrees
  BY DEF DInit, ViewAgrees, NoRow
<1>3. EventsAgree /\ PagesStored /\ RoomsAreLive /\ NoGapInRoom
  BY DEF DInit, EventsAgree, PagesStored, RoomsAreLive, NoGapInRoom
<1>4. QED
  BY <1>1, <1>2, <1>3, DInitTyped DEF DInv

LEMMA DNextTold ==
    ASSUME DTypeOK, Told, IInv, IInv', [DNext]_vars
    PROVE  Told'
<1>1. TypeOK /\ [Next]_serverVars
  BY ServerSteps DEF DTypeOK
<1>2. Grows(stored, stored')
  BY <1>1, ServerStores
<1>3. ASSUME view' = view, inbox' = inbox, history' = history
      PROVE  Told'
  BY <1>2, <1>3, QuietTold
<1>4. ASSUME NEW i \in Messages, NEW k \in Tries(i), DReceive(i, k) \/ DStore(i, k)
      PROVE  Told'
  BY <1>3, <1>4 DEF DReceive, DStore, clientVars, netVars
<1>5. ASSUME NEW i \in Messages, NEW k \in Tries(i),
             DRefuse(i, k) \/ DAnswerNew(i, k) \/ DAnswerDuplicate(i, k)
      PROVE  Told'
  BY <1>2, <1>5, AnswerTold
<1>6. ASSUME NEW m \in marks, DMark(m[1], m[2])
      PROVE  Told'
  BY <1>3, <1>6 DEF DMark, clientVars
<1>7. ASSUME NEW u \in Viewers,
             \/ Join(u) \/ AnswerSync(u) \/ SyncFails(u) \/ Open(u) \/ ReadHistory(u)
             \/ LoadHistory(u) \/ HistoryFails(u) \/ Deliver(u)
             \/ \E i \in Messages : \/ Send(u, i) \/ Retry(u, i)
                                   \/ \E k \in Tries(i) : Timeout(u, i, k)
      PROVE  Told'
  BY <1>7, SyncTold, PanelTold, DeliverShows, SendTold
<1>8. CASE DCrash \/ \E u \in Viewers : Disconnect(u)
  BY <1>8, HangUpTold DEF DCrash, Crash, Disconnect, serverVars
<1>9. ASSUME NEW u \in Viewers, Connect(u)
      PROVE  Told'
  BY <1>3, <1>9 DEF Connect, clientVars
<1>10. CASE UNCHANGED vars
  BY <1>3, <1>10 DEF vars, clientVars, netVars
<1>11. QED
  BY <1>4, <1>5, <1>6, <1>7, <1>8, <1>9, <1>10 DEF DNext

LEMMA DNextNoGap ==
    ASSUME DTypeOK, Told, IInv, IInv', RoomsAreLive, NoGapInRoom, [DNext]_vars
    PROVE  NoGapInRoom'
<1>1. ASSUME view' = view, inbox' = inbox, skipped' = skipped, inRoom' = inRoom,
             syncs' = syncs, try' = try, stored' = stored
      PROVE  NoGapInRoom'
  BY <1>1, GapSame DEF NoGapInRoom, NoGapFor
<1>2. ASSUME NEW i \in Messages, NEW k \in Tries(i),
             DReceive(i, k) \/ DStore(i, k) \/ DRefuse(i, k)
                \/ DAnswerNew(i, k) \/ DAnswerDuplicate(i, k)
      PROVE  NoGapInRoom'
  BY <1>2, HandlersNoGap
<1>3. ASSUME NEW m \in marks, DMark(m[1], m[2])
      PROVE  NoGapInRoom'
  BY <1>1, <1>3 DEF DMark, MarkRead, LoseMark, clientVars
<1>4. ASSUME NEW u \in Viewers,
             \/ Join(u) \/ AnswerSync(u) \/ SyncFails(u) \/ Open(u) \/ ReadHistory(u)
             \/ LoadHistory(u) \/ HistoryFails(u) \/ Deliver(u)
             \/ \E i \in Messages : \/ Send(u, i) \/ Retry(u, i)
                                   \/ \E k \in Tries(i) : Timeout(u, i, k)
      PROVE  NoGapInRoom'
  BY <1>4, SyncNoGap, PanelNoGap, DeliverNoGap, SendNoGap
<1>5. CASE DCrash \/ \E u \in Viewers : Disconnect(u) \/ Connect(u)
  BY <1>5, ConnectionNoGap
<1>6. CASE UNCHANGED vars
  BY <1>1, <1>6 DEF vars, serverVars, clientVars, netVars
<1>7. QED
  BY <1>2, <1>3, <1>4, <1>5, <1>6 DEF DNext

LEMMA DNextInv == DInv /\ [DNext]_vars => DInv'
<1> SUFFICES ASSUME DInv, [DNext]_vars
             PROVE  DInv'
  OBVIOUS
<1>1. DTypeOK /\ IInv /\ Told /\ RoomsAreLive /\ NoGapInRoom
  BY DEF DInv, Told
<1>2. IInv'
  BY <1>1, ServerSteps, NextIInv
<1>3. DTypeOK'
  BY <1>1, DNextTyped DEF IInv
<1>4. Told'
  BY <1>1, <1>2, DNextTold
<1>5. RoomsAreLive'
  BY <1>1, RoomsStayLive
<1>6. NoGapInRoom'
  BY <1>1, <1>2, DNextNoGap
<1>7. QED
  BY <1>2, <1>3, <1>4, <1>5, <1>6 DEF DInv, Told

\* The invariant holds of every behaviour of the composition.
THEOREM AlwaysDInv == DSpec => []DInv
<1>1. QED
  BY DInitInv, DNextInv, PTL DEF DSpec

\* Every variable of the composition keeps its type.
THEOREM DeliveryTyped == DSpec => []DTypeOK
<1>1. DInv => DTypeOK
  BY DEF DInv
<1>2. QED
  BY <1>1, AlwaysDInv, PTL

\* The panel never shows a message as sent that is not stored, nor under
\* another number: the handlers of useConversationChat.ts may run in any order
\* with the answers of socketServer.ts, pages, retries, timeouts and crashes.
THEOREM PanelsAgree == DSpec => []ViewAgrees
<1>1. DInv => ViewAgrees
  BY DEF DInv
<1>2. QED
  BY <1>1, AlwaysDInv, PTL

\* Joining the room before reading what was missed leaves no gap between the
\* answer to a sync and the live events (registerSync of socketServer.ts).
THEOREM NothingFallsBetween == DSpec => []NoGapWhileConnected
<1>1. DInv => NoGapWhileConnected
  BY DEF DInv, NoGapInRoom, NoGapWhileConnected, Subscribed
<1>2. QED
  BY <1>1, AlwaysDInv, PTL

\* What the composition does to the server the server may do: the theorems
\* about ChatServer hold of the composition.
THEOREM DeliveryRunsServer == DSpec => Spec
<1>1. DInit => Init
  BY DEF DInit
<1>2. DInv /\ [DNext]_vars => [Next]_serverVars
  BY ServerSteps DEF DInv
<1>3. QED
  BY <1>1, <1>2, AlwaysDInv, PTL DEF DSpec, Spec
=============================================================================

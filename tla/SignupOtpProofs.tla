--------------------------- MODULE SignupOtpProofs ---------------------------
(***************************************************************************)
(* Theorems about SignupOtp, for every set of signups and of requests to   *)
(* verify and every number of attempts.                                    *)
(***************************************************************************)
EXTENDS SignupOtp, FiniteSetTheorems, TLAPS

\* A request to verify, as TypeOK has it.
VerifyRequest ==
    [step : VerifySteps, guess : Signups \cup {None},
     code : Signups \cup {None}, attempts : 0..MaxAttempts - 1]

-----------------------------------------------------------------------------
(* What the steps of a request to verify change.                           *)

\* v goes on by one step, with the guess and what it read.
Moves(v, step) ==
    /\ verify' \in [Verifies -> VerifyRequest]
    /\ verify'[v].step = step
    /\ verify'[v].guess = verify[v].guess
    /\ verify'[v].code = verify[v].code
    /\ verify'[v].attempts = verify[v].attempts
    /\ \A w \in Verifies \ {v} : verify'[w] = verify[w]

LEMMA StepMoves ==
    ASSUME TypeOK, NEW v \in Verifies, NEW step \in VerifySteps, Step(v, step)
    PROVE  Moves(v, step)
<1>1. verify \in [Verifies -> VerifyRequest]
  BY DEF TypeOK, VerifyRequest
<1>2. verify' = [verify EXCEPT ![v].step = step]
  BY DEF Step
<1>3. verify[v] \in VerifyRequest
  BY <1>1
<1>4. [verify[v] EXCEPT !.step = step] \in VerifyRequest
  BY <1>3 DEF VerifyRequest
<1>5. verify'[v] = [verify[v] EXCEPT !.step = step] /\ \A w \in Verifies \ {v} : verify'[w] = verify[w]
  BY <1>1, <1>2
<1>6. verify' \in [Verifies -> VerifyRequest]
  BY <1>1, <1>2, <1>4, <1>5
<1>7. QED
  BY <1>3, <1>5, <1>6 DEF Moves, VerifyRequest

\* A guess is compared with what the key holds.
LEMMA SubmitChanges ==
    ASSUME TypeOK, NEW v \in Verifies, NEW guess \in Signups \cup {None}, Submit(v, guess)
    PROVE  /\ verify' \in [Verifies -> VerifyRequest]
           /\ verify[v].step = "idle"
           /\ verify'[v].step \in {"expired", "right", "wrong"}
           /\ verify'[v].step = "expired" <=> key = NoKey
           /\ verify'[v].step = "right" => guess = key.code
           /\ verify'[v].step = "wrong" => guess # key.code
           /\ verify'[v].guess = guess /\ verify'[v].code = key.code
           /\ verify'[v].attempts = key.attempts
           /\ \A w \in Verifies \ {v} : verify'[w] = verify[w]
           /\ UNCHANGED <<docs, signup, before, crossed>>
           /\ met' = (met \/ Judging # {})
<1>1. /\ verify \in [Verifies -> VerifyRequest]
      /\ key.code \in Signups \cup {None} /\ key.attempts \in 0..MaxAttempts - 1
      /\ key.attempts < MaxAttempts
  BY SignupAssumption DEF TypeOK, VerifyRequest, SignupAssumption
<1> DEFINE judged == IF key = NoKey THEN "expired"
                     ELSE IF key.code = guess /\ key.attempts < MaxAttempts
                          THEN "right" ELSE "wrong"
<1>2. /\ verify[v].step = "idle"
      /\ verify' = [verify EXCEPT ![v] =
            [step |-> judged, guess |-> guess, code |-> key.code, attempts |-> key.attempts]]
      /\ UNCHANGED <<docs, signup, before, crossed>>
      /\ met' = (met \/ Judging # {})
  BY DEF Submit
<1>3. /\ judged \in {"expired", "right", "wrong"}
      /\ judged = "expired" <=> key = NoKey
      /\ judged = "right" => guess = key.code
      /\ judged = "wrong" => guess # key.code
  BY <1>1
<1>4. [step |-> judged, guess |-> guess, code |-> key.code, attempts |-> key.attempts] \in VerifyRequest
  BY <1>1, <1>3 DEF VerifyRequest, VerifySteps
<1> HIDE DEF judged
<1>5. QED
  BY <1>1, <1>2, <1>3, <1>4

\* A wrong guess that is counted: the last one takes the key away, any other
\* writes back what was read with one attempt more.
LEMMA CountChanges ==
    ASSUME TypeOK, NEW v \in Verifies, CountWrong(v)
    PROVE  /\ verify[v].step = "wrong"
           /\ UNCHANGED <<account, signup, before, met, crossed>>
           /\ key' \in [code : Signups \cup {None}, attempts : 0..MaxAttempts - 1, ttl : BOOLEAN]
           /\ \/ /\ verify[v].attempts + 1 >= MaxAttempts
                 /\ key' = NoKey /\ Moves(v, "exceeded")
              \/ /\ verify[v].attempts + 1 < MaxAttempts
                 /\ key'.code = verify[v].code /\ key'.attempts = verify[v].attempts + 1
                 /\ Moves(v, "invalid")
<1>1. verify[v].attempts \in 0..MaxAttempts - 1 /\ verify[v].code \in Signups \cup {None} /\ MaxAttempts \in Nat
      /\ MaxAttempts # 0
  BY SignupAssumption DEF TypeOK, SignupAssumption
<1>2. verify[v].step = "wrong" /\ UNCHANGED <<account, signup, before, met, crossed>>
  BY DEF CountWrong, history
<1>3. CASE verify[v].attempts + 1 >= MaxAttempts
  <2>1. key' = NoKey /\ Step(v, "exceeded")
    BY <1>3 DEF CountWrong
  <2>2. Moves(v, "exceeded")
    BY <2>1, StepMoves DEF VerifySteps
  <2>3. NoKey \in [code : Signups \cup {None}, attempts : 0..MaxAttempts - 1, ttl : BOOLEAN]
    BY <1>1 DEF NoKey
  <2>4. QED
    BY <1>2, <1>3, <2>1, <2>2, <2>3
<1>4. CASE ~(verify[v].attempts + 1 >= MaxAttempts)
  <2>1. /\ key' = [code |-> verify[v].code, attempts |-> verify[v].attempts + 1,
                   ttl |-> key # NoKey /\ key.ttl]
        /\ Step(v, "invalid")
    BY <1>4 DEF CountWrong
  <2>2. Moves(v, "invalid")
    BY <2>1, StepMoves DEF VerifySteps
  <2>3. verify[v].attempts + 1 \in 0..MaxAttempts - 1 /\ verify[v].attempts + 1 < MaxAttempts
    BY <1>1, <1>4
  <2>4. (key # NoKey /\ key.ttl) \in BOOLEAN
    OBVIOUS
  <2>5. key' \in [code : Signups \cup {None}, attempts : 0..MaxAttempts - 1, ttl : BOOLEAN]
    BY <1>1, <2>1, <2>3, <2>4
  <2>6. key'.code = verify[v].code /\ key'.attempts = verify[v].attempts + 1
    BY <2>1
  <2>7. QED
    BY <1>2, <2>2, <2>3, <2>5, <2>6
<1>5. QED
  BY <1>3, <1>4

-----------------------------------------------------------------------------
(* Types.                                                                  *)

LEMMA NextTyped == TypeOK /\ [Next]_vars => TypeOK'
<1> SUFFICES ASSUME TypeOK, [Next]_vars
             PROVE  TypeOK'
  OBVIOUS
<1>1. verify \in [Verifies -> VerifyRequest]
  BY DEF TypeOK, VerifyRequest
<1> DEFINE Typed == /\ account \in [password : Signups \cup {None}, verified : BOOLEAN]
                    /\ key \in [code : Signups \cup {None}, attempts : 0..MaxAttempts - 1, ttl : BOOLEAN]
                    /\ signup \in [Signups -> SignupSteps]
                    /\ verify \in [Verifies -> VerifyRequest]
                    /\ before \subseteq Signups /\ met \in BOOLEAN /\ crossed \in BOOLEAN
<1>2. SUFFICES Typed'
  BY DEF TypeOK, VerifyRequest
<1>3. NoKey \in [code : Signups \cup {None}, attempts : 0..MaxAttempts - 1, ttl : BOOLEAN]
  BY SignupAssumption DEF NoKey, SignupAssumption
<1>4. ASSUME NEW s \in Signups, SignUp(s) \/ Duplicate(s) \/ SignupFails(s)
      PROVE  Typed'
  BY <1>1, <1>4 DEF SignUp, Duplicate, SignupFails, SignupSteps, TypeOK, docs, history
<1>5. ASSUME NEW s \in Signups, Save(s)
      PROVE  Typed'
  <2>1. account' \in [password : Signups \cup {None}, verified : BOOLEAN]
    <3>1. CASE account' = [account EXCEPT !.password = s]
      BY <3>1 DEF TypeOK
    <3>2. CASE account' = [password |-> s, verified |-> FALSE]
      BY <3>2
    <3>3. QED
      BY <1>5, <3>1, <3>2 DEF Save
  <2>2. signup' \in [Signups -> SignupSteps] /\ UNCHANGED <<key, verify, before, met, crossed>>
    BY <1>5 DEF Save, SignupSteps, TypeOK, history
  <2>3. QED
    BY <1>1, <2>1, <2>2 DEF TypeOK
<1>6. ASSUME NEW s \in Signups, StoreOtp(s)
      PROVE  Typed'
  <2>1. [code |-> s, attempts |-> 0, ttl |-> TRUE]
            \in [code : Signups \cup {None}, attempts : 0..MaxAttempts - 1, ttl : BOOLEAN]
    BY SignupAssumption DEF SignupAssumption
  <2>2. QED
    BY <1>1, <1>6, <2>1 DEF StoreOtp, SignupSteps, TypeOK
<1>7. ASSUME NEW v \in Verifies, NEW guess \in Signups \cup {None}, Submit(v, guess)
      PROVE  Typed'
  BY <1>7, SubmitChanges DEF TypeOK, docs
<1>8. ASSUME NEW v \in Verifies, CountWrong(v)
      PROVE  Typed'
  BY <1>8, CountChanges DEF TypeOK, Moves
<1>9. ASSUME NEW v \in Verifies, Consume(v) \/ VerifyFails(v)
      PROVE  Typed'
  <2>1. \E step \in {"matched", "failed"} : Step(v, step)
    BY <1>9 DEF Consume, VerifyFails
  <2>2. verify' \in [Verifies -> VerifyRequest]
    BY <2>1, StepMoves DEF VerifySteps, Moves
  <2>3. QED
    BY <1>3, <1>9, <2>2 DEF Consume, VerifyFails, TypeOK, docs, history
<1>10. ASSUME NEW v \in Verifies, MarkVerified(v)
       PROVE  Typed'
  <2>1. \E step \in {"no signup", "verified"} : Step(v, step)
    BY <1>10 DEF MarkVerified
  <2>2. verify' \in [Verifies -> VerifyRequest]
    BY <2>1, StepMoves DEF VerifySteps, Moves
  <2>3. account' \in [password : Signups \cup {None}, verified : BOOLEAN] /\ before' \subseteq Signups
    BY <1>10 DEF MarkVerified, TypeOK
  <2>4. QED
    BY <1>10, <2>2, <2>3 DEF MarkVerified, TypeOK
<1>11. CASE KeyExpires \/ UNCHANGED vars
  BY <1>1, <1>3, <1>11 DEF KeyExpires, vars, docs, history, TypeOK
<1>12. QED
  BY <1>4, <1>5, <1>6, <1>7, <1>8, <1>9, <1>10, <1>11 DEF Next

-----------------------------------------------------------------------------
(* Accounts and codes.                                                     *)

LEMMA OwnedStays == IInv /\ [Next]_vars => AccountOwned'
<1> SUFFICES ASSUME IInv, [Next]_vars
             PROVE  AccountOwned'
  OBVIOUS
<1>1. /\ TypeOK
      /\ account # NoAccount => account.password \in Signups /\ signup[account.password] # "idle"
      /\ account.verified =>
            /\ account.password \in before
            /\ \A s \in Signups : signup[s] \in {"new", "again"} => s \in before
  BY DEF IInv, AccountOwned
<1>2. ASSUME NEW s \in Signups, SignUp(s)
      PROVE  AccountOwned'
  <2>1. /\ signup[s] = "idle" /\ UNCHANGED <<account, before>>
        /\ signup'[s] \in {"conflict", "new", "again"}
        /\ account.verified => signup'[s] = "conflict"
        /\ \A t \in Signups \ {s} : signup'[t] = signup[t]
    BY <1>1, <1>2 DEF SignUp, docs, TypeOK
  <2>2. QED
    BY <1>1, <2>1 DEF AccountOwned
<1>3. ASSUME NEW s \in Signups, Save(s)
      PROVE  AccountOwned'
  <2>1. /\ signup'[s] = "saved" /\ signup[s] \in {"new", "again"} /\ UNCHANGED before
        /\ \A t \in Signups \ {s} : signup'[t] = signup[t]
    BY <1>1, <1>3 DEF Save, history, TypeOK
  <2>2. account'.password = s /\ (account'.verified => account.verified)
    <3>1. CASE account' = [account EXCEPT !.password = s]
      BY <1>1, <3>1 DEF TypeOK
    <3>2. CASE account' = [password |-> s, verified |-> FALSE]
      BY <3>2
    <3>3. QED
      BY <1>3, <3>1, <3>2 DEF Save
  <2>3. QED
    BY <1>1, <2>1, <2>2 DEF AccountOwned
<1>4. ASSUME NEW s \in Signups, Duplicate(s) \/ SignupFails(s) \/ StoreOtp(s)
      PROVE  AccountOwned'
  <2>1. /\ UNCHANGED <<account, before>>
        /\ signup'[s] \in {"failed", "mailed"}
        /\ \A t \in Signups \ {s} : signup'[t] = signup[t]
    BY <1>1, <1>4 DEF Duplicate, SignupFails, StoreOtp, docs, history, TypeOK
  <2>2. QED
    BY <1>1, <2>1 DEF AccountOwned
<1>5. ASSUME NEW v \in Verifies, MarkVerified(v)
      PROVE  AccountOwned'
  <2>1. CASE account = NoAccount
    <3>1. UNCHANGED <<account, before>> /\ UNCHANGED signup
      BY <1>5, <2>1 DEF MarkVerified
    <3>2. QED
      BY <1>1, <3>1 DEF AccountOwned
  <2>2. CASE account # NoAccount
    <3>1. /\ account' = [account EXCEPT !.verified = TRUE] /\ UNCHANGED signup
          /\ before' = IF account.verified THEN before ELSE {s \in Signups : signup[s] # "idle"}
      BY <1>5, <2>2 DEF MarkVerified
    <3>2. account'.password = account.password
      BY <1>1, <3>1 DEF TypeOK
    <3>3. QED
      BY <1>1, <2>2, <3>1, <3>2 DEF AccountOwned
  <2>3. QED
    BY <2>1, <2>2
<1>6. ASSUME UNCHANGED <<account, signup, before>>
      PROVE  AccountOwned'
  BY <1>1, <1>6 DEF AccountOwned
<1>7. ASSUME NEW v \in Verifies, NEW guess \in Signups \cup {None},
             Submit(v, guess) \/ CountWrong(v) \/ Consume(v) \/ VerifyFails(v)
      PROVE  UNCHANGED <<account, signup, before>>
  BY <1>7 DEF Submit, CountWrong, Consume, VerifyFails, docs, history
<1>8. CASE KeyExpires \/ UNCHANGED vars
  BY <1>6, <1>8 DEF KeyExpires, vars, docs, history
<1>9. QED
  BY <1>2, <1>3, <1>4, <1>5, <1>6, <1>7, <1>8 DEF Next

\* How a signup, or time, may change what is stored.
LEMMA SignupChanges ==
    ASSUME TypeOK, NEW s \in Signups, SignUp(s) \/ Save(s) \/ Duplicate(s) \/ SignupFails(s)
    PROVE  /\ UNCHANGED <<key, verify, met>>
           /\ signup[s] # "mailed" /\ signup'[s] # "mailed"
           /\ \A t \in Signups \ {s} : signup'[t] = signup[t]
<1>1. UNCHANGED <<key, verify, met>>
  BY DEF SignUp, Save, Duplicate, SignupFails, docs, history
<1>2. CASE SignUp(s)
  BY <1>1, <1>2 DEF SignUp, TypeOK
<1>3. CASE Save(s) \/ Duplicate(s) \/ SignupFails(s)
  BY <1>1, <1>3 DEF Save, Duplicate, SignupFails, SigningUp, TypeOK
<1>4. QED
  BY <1>2, <1>3

LEMMA StoreChanges ==
    ASSUME TypeOK, NEW s \in Signups, StoreOtp(s)
    PROVE  /\ UNCHANGED <<account, verify, met>>
           /\ key' = [code |-> s, attempts |-> 0, ttl |-> TRUE]
           /\ key'.code = s /\ key'.attempts = 0
           /\ signup[s] = "saved" /\ signup'[s] = "mailed"
           /\ \A t \in Signups \ {s} : signup'[t] = signup[t]
           /\ crossed' = (crossed \/ Judging # {})
BY DEF StoreOtp, TypeOK

\* A request to verify that leaves the judging for good.
LEMMA LeaveChanges ==
    ASSUME TypeOK, NEW v \in Verifies, Consume(v) \/ MarkVerified(v) \/ VerifyFails(v)
    PROVE  /\ key' \in {key, NoKey} /\ UNCHANGED <<signup, met, crossed>>
           /\ verify[v].step \in {"wrong", "right", "matched"}
           /\ \E step \in {"matched", "verified", "no signup", "failed"} : Moves(v, step)
<1>1. /\ key' \in {key, NoKey} /\ UNCHANGED <<signup, met, crossed>>
      /\ verify[v].step \in {"wrong", "right", "matched"}
  BY DEF Consume, MarkVerified, VerifyFails, docs, history
<1>2. PICK step \in {"matched", "verified", "no signup", "failed"} : Step(v, step)
  BY DEF Consume, MarkVerified, VerifyFails
<1>3. Moves(v, step)
  BY <1>2, StepMoves DEF VerifySteps
<1>4. QED
  BY <1>1, <1>3

LEMMA FreshStays == IInv /\ [Next]_vars => CodesFresh'
<1> SUFFICES ASSUME IInv, [Next]_vars
             PROVE  CodesFresh'
  OBVIOUS
<1>1. /\ TypeOK
      /\ \A s \in Signups : signup[s] # "mailed" =>
            key.code # s /\ \A v \in Verifies : verify[v].code # s
      /\ \A v \in Verifies : verify[v].step = "wrong" => verify[v].guess # verify[v].code
  BY DEF IInv, CodesFresh
<1>2. NoKey.code = None /\ None \notin Signups
  BY SignupAssumption DEF NoKey, SignupAssumption
<1>3. ASSUME NEW s \in Signups, SignUp(s) \/ Save(s) \/ Duplicate(s) \/ SignupFails(s)
      PROVE  CodesFresh'
  BY <1>1, <1>3, SignupChanges DEF CodesFresh
<1>4. ASSUME NEW s \in Signups, StoreOtp(s)
      PROVE  CodesFresh'
  BY <1>1, <1>4, StoreChanges DEF CodesFresh
<1>5. ASSUME NEW v \in Verifies, NEW guess \in Signups \cup {None}, Submit(v, guess)
      PROVE  CodesFresh'
  <2>1. UNCHANGED <<key, signup>>
    BY <1>1, <1>5, SubmitChanges DEF docs
  <2>2. QED
    BY <1>1, <1>5, <2>1, SubmitChanges DEF CodesFresh
<1>6. ASSUME NEW v \in Verifies, CountWrong(v)
      PROVE  CodesFresh'
  <2>1. key'.code \in {None, verify[v].code} /\ UNCHANGED signup
    BY <1>1, <1>2, <1>6, CountChanges
  <2>2. PICK step \in {"exceeded", "invalid"} : Moves(v, step)
    BY <1>1, <1>6, CountChanges
  <2>3. QED
    BY <1>1, <1>2, <2>1, <2>2 DEF Moves, CodesFresh
<1>7. ASSUME NEW v \in Verifies, Consume(v) \/ MarkVerified(v) \/ VerifyFails(v)
      PROVE  CodesFresh'
  <2>1. key'.code \in {None, key.code} /\ UNCHANGED signup
    BY <1>1, <1>2, <1>7, LeaveChanges
  <2>2. PICK step \in {"matched", "verified", "no signup", "failed"} : Moves(v, step)
    BY <1>1, <1>7, LeaveChanges
  <2>3. QED
    BY <1>1, <1>2, <2>1, <2>2 DEF Moves, CodesFresh
<1>8. CASE KeyExpires \/ UNCHANGED vars
  <2>1. key' \in {key, NoKey} /\ UNCHANGED <<signup, verify>>
    BY <1>8 DEF KeyExpires, vars, docs
  <2>2. QED
    BY <1>1, <1>2, <2>1 DEF CodesFresh
<1>9. QED
  BY <1>3, <1>4, <1>5, <1>6, <1>7, <1>8 DEF Next

-----------------------------------------------------------------------------
(* The wrong guesses of a code.                                            *)

Counted == {"invalid", "exceeded"}

\* Only counting adds to them.
LEMMA GuessesKept ==
    ASSUME \A w \in Verifies :
              \/ verify'[w] = verify[w]
              \/ verify[w].step \notin Counted /\ verify'[w].step \notin Counted,
           NEW c
    PROVE  WrongGuesses(c)' = WrongGuesses(c)
BY DEF WrongGuesses, Counted

LEMMA GuessCounted ==
    ASSUME TypeOK, NEW v \in Verifies, NEW step \in Counted, Moves(v, step),
           verify[v].step = "wrong", verify[v].guess # verify[v].code, NEW c,
           IsFiniteSet(WrongGuesses(c))
    PROVE  /\ IsFiniteSet(WrongGuesses(c)')
           /\ Cardinality(WrongGuesses(c)) \in Nat
           /\ verify[v].code = c =>
                Cardinality(WrongGuesses(c)') = Cardinality(WrongGuesses(c)) + 1
           /\ verify[v].code # c => WrongGuesses(c)' = WrongGuesses(c)
<1>1. v \notin WrongGuesses(c) /\ Cardinality(WrongGuesses(c)) \in Nat
  BY FS_CardinalityType DEF WrongGuesses
<1>2. CASE verify[v].code = c
  <2>1. WrongGuesses(c)' = WrongGuesses(c) \cup {v}
    BY <1>2 DEF WrongGuesses, Moves, Counted
  <2>2. QED
    BY <1>1, <1>2, <2>1, FS_AddElement
<1>3. CASE verify[v].code # c
  <2>1. WrongGuesses(c)' = WrongGuesses(c)
    BY <1>3 DEF WrongGuesses, Moves
  <2>2. QED
    BY <1>1, <1>3, <2>1
<1>4. QED
  BY <1>2, <1>3

\* Steps that count nothing: they leave the guesses alone, store no code, and
\* bring nobody to judge.
Quiet ==
    /\ key' \in {key, NoKey} /\ UNCHANGED met
    /\ \A w \in Verifies :
        \/ verify'[w] = verify[w]
        \/ verify[w].step \notin Counted /\ verify'[w].step \notin Counted \cup {"wrong", "right"}

LEMMA QuietSteps ==
    ASSUME TypeOK
    PROVE  /\ \A s \in Signups : SignUp(s) \/ Save(s) \/ Duplicate(s) \/ SignupFails(s) => Quiet
           /\ \A v \in Verifies : Consume(v) \/ MarkVerified(v) \/ VerifyFails(v) => Quiet
           /\ KeyExpires \/ UNCHANGED vars => Quiet
<1>1. ASSUME NEW s \in Signups, SignUp(s) \/ Save(s) \/ Duplicate(s) \/ SignupFails(s)
      PROVE  Quiet
  BY <1>1, SignupChanges DEF Quiet
<1>2. ASSUME NEW v \in Verifies, Consume(v) \/ MarkVerified(v) \/ VerifyFails(v)
      PROVE  Quiet
  <2>1. key' \in {key, NoKey} /\ UNCHANGED met /\ verify[v].step \in {"wrong", "right", "matched"}
    BY <1>2, LeaveChanges
  <2>2. PICK step \in {"matched", "verified", "no signup", "failed"} : Moves(v, step)
    BY <1>2, LeaveChanges
  <2>3. QED
    BY <2>1, <2>2 DEF Moves, Quiet, Counted
<1>3. ASSUME KeyExpires \/ UNCHANGED vars
      PROVE  Quiet
  BY <1>3 DEF KeyExpires, vars, docs, history, Quiet
<1>4. QED
  BY <1>1, <1>2, <1>3

LEMMA QuietGuesses ==
    ASSUME Quiet
    PROVE  /\ \A c : WrongGuesses(c)' = WrongGuesses(c)
           /\ \A w \in Judging' : w \in Judging /\ verify'[w] = verify[w]
<1>1. ASSUME NEW c PROVE WrongGuesses(c)' = WrongGuesses(c)
  BY GuessesKept DEF Quiet
<1>2. \A w \in Judging' : w \in Judging /\ verify'[w] = verify[w]
  BY DEF Quiet, Judging
<1>3. QED
  BY <1>1, <1>2

LEMMA EarnedStays == IInv /\ [Next]_vars => CountsEarned'
<1> SUFFICES ASSUME IInv, [Next]_vars, NEW c \in Signups \cup {None}
             PROVE  /\ IsFiniteSet(WrongGuesses(c)')
                    /\ \A v \in Verifies : verify'[v].code = c =>
                        /\ v \in Judging' => verify'[v].attempts <= Cardinality(WrongGuesses(c)')
                        /\ verify'[v].step = "exceeded" => MaxAttempts <= Cardinality(WrongGuesses(c)')
                    /\ key' # NoKey /\ key'.code = c => key'.attempts <= Cardinality(WrongGuesses(c)')
  BY DEF CountsEarned
<1> DEFINE Earned(g, j, k, r) ==
                /\ IsFiniteSet(g)
                /\ \A v \in Verifies : r[v].code = c =>
                    /\ v \in j => r[v].attempts <= Cardinality(g)
                    /\ r[v].step = "exceeded" => MaxAttempts <= Cardinality(g)
                /\ k # NoKey /\ k.code = c => k.attempts <= Cardinality(g)
<1> SUFFICES Earned(WrongGuesses(c)', Judging', key', verify')
  OBVIOUS
<1>1. TypeOK /\ Earned(WrongGuesses(c), Judging, key, verify) /\ NoKey = NoKey'
  BY DEF IInv, CountsEarned, NoKey
<1>2. MaxAttempts \in Nat /\ Cardinality(WrongGuesses(c)) \in Nat
  BY <1>1, SignupAssumption, FS_CardinalityType DEF SignupAssumption
<1>3. CASE Quiet
  <2>1. /\ WrongGuesses(c)' = WrongGuesses(c) /\ key' \in {key, NoKey}
        /\ \A w \in Judging' : w \in Judging /\ verify'[w] = verify[w]
    BY <1>3, QuietGuesses DEF Quiet
  <2>2. \A w \in Verifies : verify'[w].step = "exceeded" => verify'[w] = verify[w]
    BY <1>3 DEF Quiet, Counted
  <2>3. QED
    BY <1>1, <2>1, <2>2
<1>4. ASSUME NEW s \in Signups, StoreOtp(s)
      PROVE  Earned(WrongGuesses(c)', Judging', key', verify')
  <2>1. UNCHANGED verify /\ key'.attempts = 0
    BY <1>1, <1>4, StoreChanges
  <2>2. WrongGuesses(c)' = WrongGuesses(c) /\ Judging' = Judging
    BY <2>1 DEF WrongGuesses, Judging
  <2>3. QED
    BY <1>1, <1>2, <2>1, <2>2
<1>5. ASSUME NEW v \in Verifies, NEW guess \in Signups \cup {None}, Submit(v, guess)
      PROVE  Earned(WrongGuesses(c)', Judging', key', verify')
  <2>1. /\ UNCHANGED key /\ verify[v].step = "idle"
        /\ verify'[v].step \in {"expired", "right", "wrong"}
        /\ verify'[v].step = "expired" <=> key = NoKey
        /\ verify'[v].code = key.code /\ verify'[v].attempts = key.attempts
        /\ \A w \in Verifies \ {v} : verify'[w] = verify[w]
    BY <1>1, <1>5, SubmitChanges DEF docs
  <2>2. WrongGuesses(c)' = WrongGuesses(c)
    BY <2>1, GuessesKept DEF Counted
  <2>3. \A w \in Verifies \ {v} : w \in Judging' => w \in Judging
    BY <2>1 DEF Judging
  <2>4. v \in Judging' => key # NoKey
    BY <2>1 DEF Judging
  <2>5. QED
    BY <1>1, <2>1, <2>2, <2>3, <2>4
<1>6. ASSUME NEW v \in Verifies, CountWrong(v)
      PROVE  Earned(WrongGuesses(c)', Judging', key', verify')
  <2>1. /\ verify[v].step = "wrong" /\ verify[v].guess # verify[v].code /\ v \in Judging
        /\ verify[v].attempts \in Nat
    BY <1>1, <1>6, CountChanges DEF IInv, CodesFresh, Judging, TypeOK
  <2>2. PICK step \in Counted :
          /\ Moves(v, step)
          /\ \/ verify[v].attempts + 1 >= MaxAttempts /\ key' = NoKey
             \/ /\ step = "invalid" /\ key'.code = verify[v].code
                /\ key'.attempts = verify[v].attempts + 1
    BY <1>1, <1>6, CountChanges DEF Counted
  <2>3. /\ IsFiniteSet(WrongGuesses(c)')
        /\ verify[v].code = c => Cardinality(WrongGuesses(c)') = Cardinality(WrongGuesses(c)) + 1
        /\ verify[v].code # c => WrongGuesses(c)' = WrongGuesses(c)
    BY <1>1, <2>1, <2>2, GuessCounted
  <2>4. /\ verify'[v].step = step /\ verify'[v].code = verify[v].code
        /\ \A w \in Verifies \ {v} : verify'[w] = verify[w] /\ (w \in Judging' => w \in Judging)
        /\ v \notin Judging'
    BY <2>2 DEF Moves, Counted, Judging
  <2>5. /\ \A w \in Verifies : verify[w].attempts \in Nat
        /\ Cardinality(WrongGuesses(c)) <= Cardinality(WrongGuesses(c)')
        /\ Cardinality(WrongGuesses(c)') \in Nat
    BY <1>1, <1>2, <2>3 DEF TypeOK
  <2>6. ASSUME NEW w \in Verifies \ {v}, verify'[w].code = c
        PROVE  /\ w \in Judging' => verify'[w].attempts <= Cardinality(WrongGuesses(c)')
               /\ verify'[w].step = "exceeded" => MaxAttempts <= Cardinality(WrongGuesses(c)')
    <3>1. /\ w \in Judging => verify[w].attempts <= Cardinality(WrongGuesses(c))
          /\ verify[w].step = "exceeded" => MaxAttempts <= Cardinality(WrongGuesses(c))
      BY <1>1, <2>4, <2>6
    <3>2. QED
      BY <1>2, <2>4, <2>5, <3>1
  <2>7. ASSUME verify[v].code = c
        PROVE  verify[v].attempts + 1 <= Cardinality(WrongGuesses(c)')
    BY <1>1, <1>2, <2>1, <2>3, <2>7
  <2>8. verify'[v].code = c /\ verify'[v].step = "exceeded" => MaxAttempts <= Cardinality(WrongGuesses(c)')
    BY <1>2, <2>1, <2>2, <2>4, <2>5, <2>7
  <2>9. key' # NoKey /\ key'.code = c => key'.attempts <= Cardinality(WrongGuesses(c)')
    BY <2>2, <2>7
  <2>10. QED
    BY <2>3, <2>4, <2>6, <2>8, <2>9
<1> HIDE DEF Earned
<1>7. QED
  BY <1>1, <1>3, <1>4, <1>5, <1>6, QuietSteps DEF Next

LEMMA NoneUncountedStays == IInv /\ [Next]_vars => NoneUncounted'
<1> SUFFICES ASSUME IInv, [Next]_vars, ~met'
             PROVE  /\ \A v, w \in Judging' : v = w
                    /\ \A c \in Signups \cup {None} :
                        /\ \A v \in Judging' :
                            verify'[v].code = c => Cardinality(WrongGuesses(c)') <= verify'[v].attempts
                        /\ key' # NoKey /\ key'.code = c =>
                            Cardinality(WrongGuesses(c)') <= key'.attempts
                        /\ Cardinality(WrongGuesses(c)') <= MaxAttempts
  BY DEF NoneUncounted
<1> DEFINE One(j) == \A v, w \in j : v = w
           Missed(c, g, j, k, r) ==
                /\ \A v \in j : r[v].code = c => Cardinality(g) <= r[v].attempts
                /\ k # NoKey /\ k.code = c => Cardinality(g) <= k.attempts
                /\ Cardinality(g) <= MaxAttempts
           Goal == /\ One(Judging')
                   /\ \A c \in Signups \cup {None} : Missed(c, WrongGuesses(c)', Judging', key', verify')
<1> SUFFICES Goal
  OBVIOUS
<1>1. TypeOK /\ NoKey = NoKey' /\ MaxAttempts \in Nat
  BY SignupAssumption DEF IInv, NoKey, SignupAssumption
<1>2. ~met => One(Judging) /\ \A c \in Signups \cup {None} : Missed(c, WrongGuesses(c), Judging, key, verify)
  BY DEF IInv, NoneUncounted
<1>3. CASE Quiet
  <2>1. /\ \A c : WrongGuesses(c)' = WrongGuesses(c)
        /\ \A w \in Judging' : w \in Judging /\ verify'[w] = verify[w]
    BY <1>3, QuietGuesses
  <2>2. key' \in {key, NoKey} /\ ~met
    BY <1>3 DEF Quiet
  <2>3. One(Judging')
    BY <1>2, <2>1, <2>2
  <2>4. ASSUME NEW c \in Signups \cup {None}
        PROVE  Missed(c, WrongGuesses(c)', Judging', key', verify')
    <3>1. Missed(c, WrongGuesses(c), Judging, key, verify) /\ WrongGuesses(c)' = WrongGuesses(c)
      BY <1>2, <2>1, <2>2
    <3>2. QED
      BY <2>1, <2>2, <3>1
  <2>5. QED
    BY <2>3, <2>4
<1>4. ASSUME NEW s \in Signups, StoreOtp(s)
      PROVE  Goal
  <2>1. UNCHANGED <<verify, met>> /\ key'.attempts = 0 /\ key'.code = s /\ signup[s] = "saved"
    BY <1>1, <1>4, StoreChanges
  <2>2. Judging' = Judging /\ \A c : WrongGuesses(c)' = WrongGuesses(c)
    BY <2>1 DEF WrongGuesses, Judging
  <2>3. Cardinality(WrongGuesses(s)) = 0
    <3>1. WrongGuesses(s) = {}
      BY <2>1 DEF IInv, CodesFresh, WrongGuesses
    <3>2. QED
      BY <3>1, FS_EmptySet
  <2>4. ASSUME NEW c \in Signups \cup {None}
        PROVE  Missed(c, WrongGuesses(c)', Judging', key', verify')
    <3>1. Missed(c, WrongGuesses(c), Judging, key, verify) /\ WrongGuesses(c)' = WrongGuesses(c)
      BY <1>2, <2>1, <2>2
    <3>2. key'.code = c => Cardinality(WrongGuesses(c)') <= key'.attempts
      BY <2>1, <2>3, <3>1
    <3>3. QED
      BY <2>1, <2>2, <3>1, <3>2
  <2>5. QED
    BY <1>2, <2>1, <2>2, <2>4
<1>5. ASSUME NEW v \in Verifies, NEW guess \in Signups \cup {None}, Submit(v, guess)
      PROVE  Goal
  <2>1. /\ UNCHANGED key /\ verify[v].step = "idle" /\ met' = (met \/ Judging # {})
        /\ verify'[v].step \in {"expired", "right", "wrong"}
        /\ verify'[v].step = "expired" <=> key = NoKey
        /\ verify'[v].code = key.code /\ verify'[v].attempts = key.attempts
        /\ \A w \in Verifies \ {v} : verify'[w] = verify[w]
    BY <1>1, <1>5, SubmitChanges DEF docs
  <2>2. ~met /\ Judging = {}
    BY <2>1
  <2>3. \A w \in Judging' : w = v
    BY <2>1, <2>2 DEF Judging
  <2>4. v \in Judging' => key # NoKey
    BY <2>1 DEF Judging
  <2>5. ASSUME NEW c \in Signups \cup {None}
        PROVE  Missed(c, WrongGuesses(c)', Judging', key', verify')
    <3>1. WrongGuesses(c)' = WrongGuesses(c)
      BY <2>1, GuessesKept DEF Counted
    <3>2. Missed(c, WrongGuesses(c), Judging, key, verify)
      BY <1>2, <2>2
    <3>3. QED
      BY <1>1, <2>1, <2>3, <2>4, <3>1, <3>2
  <2>6. QED
    BY <2>3, <2>5
<1>6. ASSUME NEW v \in Verifies, CountWrong(v)
      PROVE  Goal
  <2>1. /\ verify[v].step = "wrong" /\ verify[v].guess # verify[v].code /\ v \in Judging
        /\ verify[v].attempts \in 0..MaxAttempts - 1 /\ ~met
    BY <1>1, <1>6, CountChanges DEF IInv, CodesFresh, Judging, TypeOK
  <2>2. PICK step \in Counted :
          /\ Moves(v, step)
          /\ \/ key' = NoKey
             \/ key'.code = verify[v].code /\ key'.attempts = verify[v].attempts + 1
    BY <1>1, <1>6, CountChanges DEF Counted
  <2>3. Judging' = {}
    BY <1>2, <2>1, <2>2 DEF Moves, Counted, Judging
  <2>4. ASSUME NEW c \in Signups \cup {None}
        PROVE  Missed(c, WrongGuesses(c)', Judging', key', verify')
    <3>1. IsFiniteSet(WrongGuesses(c)) /\ Missed(c, WrongGuesses(c), Judging, key, verify)
      BY <1>2, <2>1 DEF IInv, CountsEarned
    <3>2. /\ Cardinality(WrongGuesses(c)) \in Nat
          /\ verify[v].code = c => Cardinality(WrongGuesses(c)') = Cardinality(WrongGuesses(c)) + 1
          /\ verify[v].code # c => WrongGuesses(c)' = WrongGuesses(c)
      BY <1>1, <2>1, <2>2, <3>1, GuessCounted
    <3>3. CASE verify[v].code = c
      <4>1. Cardinality(WrongGuesses(c)') <= verify[v].attempts + 1
        BY <2>1, <3>1, <3>2, <3>3
      <4>2. Cardinality(WrongGuesses(c)') <= MaxAttempts
        BY <1>1, <2>1, <3>2, <3>3, <4>1
      <4>3. QED
        BY <2>2, <2>3, <4>1, <4>2
    <3>4. CASE verify[v].code # c
      BY <1>1, <2>2, <2>3, <3>1, <3>2, <3>4
    <3>5. QED
      BY <3>3, <3>4
  <2>5. QED
    BY <2>3, <2>4
<1> HIDE DEF Goal
<1>7. QED
  BY <1>1, <1>3, <1>4, <1>5, <1>6, QuietSteps DEF Next

-----------------------------------------------------------------------------
(* The two writes of a signup.                                             *)

\* WritesAgree, of a state in which there are these signups, account, key,
\* and requests that judge.
Agree(sg, a, k, j, r) ==
    /\ \A s, t \in Signups :
        sg[s] \in {"new", "again", "saved"} /\ sg[t] \in {"new", "again", "saved"} => s = t
    /\ \A s \in Signups : sg[s] = "saved" => a.password = s
    /\ (\A s \in Signups : sg[s] # "saved") =>
        /\ k # NoKey => k.code = a.password
        /\ \A v \in j : r[v].code = a.password

LEMMA AgreeStays == IInv /\ [Next]_vars => WritesAgree'
<1> SUFFICES ASSUME IInv, [Next]_vars, ~crossed'
             PROVE  Agree(signup', account', key', Judging', verify')
  BY DEF WritesAgree, Agree, SigningUp, NoKey
<1> DEFINE Goal == Agree(signup', account', key', Judging', verify')
<1>1. TypeOK
  BY DEF IInv
<1>2. ~crossed => Agree(signup, account, key, Judging, verify)
  BY DEF IInv, WritesAgree, Agree, SigningUp
<1>3. ASSUME NEW s \in Signups, SignUp(s)
      PROVE  Goal
  <2>1. /\ UNCHANGED <<account, key, verify>> /\ ~crossed /\ SigningUp = {}
        /\ \A t \in Signups \ {s} : signup'[t] = signup[t]
        /\ signup'[s] \in {"conflict", "new", "again"}
    BY <1>1, <1>3 DEF SignUp, docs, TypeOK
  <2>2. Judging' = Judging
    BY <2>1 DEF Judging
  <2>3. QED
    BY <1>2, <2>1, <2>2 DEF Agree, SigningUp
<1>4. ASSUME NEW s \in Signups, Save(s)
      PROVE  Goal
  <2>1. /\ ~crossed /\ signup[s] \in {"new", "again"} /\ signup'[s] = "saved"
        /\ \A t \in Signups \ {s} : signup'[t] = signup[t]
    BY <1>1, <1>4 DEF Save, history, TypeOK
  <2>2. account'.password = s
    <3>1. CASE account' = [account EXCEPT !.password = s]
      BY <1>1, <3>1 DEF TypeOK
    <3>2. CASE account' = [password |-> s, verified |-> FALSE]
      BY <3>2
    <3>3. QED
      BY <1>4, <3>1, <3>2 DEF Save
  <2>3. QED
    BY <1>2, <2>1, <2>2 DEF Agree
<1>5. ASSUME NEW s \in Signups, Duplicate(s) \/ SignupFails(s)
      PROVE  Goal
  <2>1. /\ UNCHANGED <<account, key, verify>> /\ ~crossed
        /\ signup[s] \in {"new", "again"} /\ signup'[s] = "failed"
        /\ \A t \in Signups \ {s} : signup'[t] = signup[t]
    BY <1>1, <1>5 DEF Duplicate, SignupFails, SigningUp, docs, history, TypeOK
  <2>2. Judging' = Judging
    BY <2>1 DEF Judging
  <2>3. QED
    BY <1>2, <2>1, <2>2 DEF Agree
<1>6. ASSUME NEW s \in Signups, StoreOtp(s)
      PROVE  Goal
  <2>1. /\ UNCHANGED <<account, verify>> /\ key'.code = s /\ ~crossed /\ Judging = {}
        /\ signup[s] = "saved" /\ signup'[s] = "mailed"
        /\ \A t \in Signups \ {s} : signup'[t] = signup[t]
    BY <1>1, <1>6, StoreChanges
  <2>2. Judging' = {}
    BY <2>1 DEF Judging
  <2>3. QED
    BY <1>2, <2>1, <2>2 DEF Agree
<1>7. ASSUME NEW v \in Verifies, NEW guess \in Signups \cup {None}, Submit(v, guess)
      PROVE  Goal
  <2>1. /\ UNCHANGED <<account, key, signup, crossed>>
        /\ verify'[v].step \in {"expired", "right", "wrong"}
        /\ verify'[v].step = "expired" <=> key = NoKey
        /\ verify'[v].code = key.code
        /\ \A w \in Verifies \ {v} : verify'[w] = verify[w]
    BY <1>1, <1>7, SubmitChanges DEF docs
  <2>2. \A w \in Judging' : (w \in Judging /\ w # v) \/ (w = v /\ key # NoKey)
    BY <2>1 DEF Judging
  <2>3. QED
    BY <1>2, <2>1, <2>2 DEF Agree, Judging
<1>8. ASSUME NEW v \in Verifies, CountWrong(v)
      PROVE  Goal
  <2>1. /\ v \in Judging /\ UNCHANGED <<account, signup, crossed>>
        /\ key' = NoKey \/ key'.code = verify[v].code
    BY <1>1, <1>8, CountChanges DEF Judging
  <2>2. PICK step \in Counted : Moves(v, step)
    BY <1>1, <1>8, CountChanges DEF Counted
  <2>3. \A w \in Judging' : w \in Judging /\ verify'[w] = verify[w]
    BY <2>2 DEF Moves, Judging, Counted
  <2>4. QED
    BY <1>2, <2>1, <2>3 DEF Agree
<1>9. ASSUME Quiet, UNCHANGED <<signup, crossed>>, account'.password = account.password
      PROVE  Goal
  <2>1. /\ key' \in {key, NoKey}
        /\ \A w \in Judging' : w \in Judging /\ verify'[w] = verify[w]
    BY <1>9, QuietGuesses DEF Quiet
  <2>2. QED
    BY <1>2, <1>9, <2>1 DEF Agree
<1>10. ASSUME NEW v \in Verifies, Consume(v) \/ MarkVerified(v) \/ VerifyFails(v)
       PROVE  UNCHANGED <<signup, crossed>> /\ account'.password = account.password
  <2>1. CASE MarkVerified(v)
    BY <1>1, <2>1 DEF MarkVerified, TypeOK
  <2>2. CASE Consume(v) \/ VerifyFails(v)
    BY <2>2 DEF Consume, VerifyFails, docs, history
  <2>3. QED
    BY <1>10, <2>1, <2>2
<1>11. CASE KeyExpires \/ UNCHANGED vars
  <2>1. UNCHANGED <<signup, crossed, account>>
    BY <1>11 DEF KeyExpires, vars, docs, history
  <2>2. QED
    BY <1>1, <1>9, <1>11, <2>1, QuietSteps
<1> HIDE DEF Goal
<1>12. ASSUME NEW v \in Verifies, Consume(v) \/ MarkVerified(v) \/ VerifyFails(v)
       PROVE  Goal
  BY <1>1, <1>9, <1>10, <1>12, QuietSteps
<1>13. QED
  BY <1>3, <1>4, <1>5, <1>6, <1>7, <1>8, <1>11, <1>12 DEF Next, Goal

-----------------------------------------------------------------------------
(* The theorems.                                                           *)

LEMMA InitHolds == Init => IInv
<1> SUFFICES ASSUME Init
             PROVE  IInv
  OBVIOUS
<1>1. /\ account = NoAccount /\ key = NoKey /\ before = {} /\ met = FALSE /\ crossed = FALSE
      /\ signup \in [Signups -> SignupSteps] /\ \A s \in Signups : signup[s] = "idle"
      /\ verify \in [Verifies -> VerifyRequest]
      /\ \A v \in Verifies : verify[v] = Asleep
  BY SignupAssumption DEF Init, Asleep, VerifyRequest, VerifySteps, SignupSteps, SignupAssumption
<1>2. /\ MaxAttempts \in Nat \ {0} /\ None \notin Signups /\ Asleep.step = "idle" /\ Asleep.code = None
      /\ NoKey.code = None /\ account.verified = FALSE
  BY <1>1, SignupAssumption DEF SignupAssumption, Asleep, NoKey, NoAccount
<1>3. TypeOK
  <2>1. NoAccount \in [password : Signups \cup {None}, verified : BOOLEAN]
    BY DEF NoAccount
  <2>2. NoKey \in [code : Signups \cup {None}, attempts : 0..MaxAttempts - 1, ttl : BOOLEAN]
    BY <1>2 DEF NoKey
  <2>3. QED
    BY <1>1, <2>1, <2>2 DEF TypeOK, VerifyRequest
<1>4. Judging = {} /\ SigningUp = {} /\ \A c : WrongGuesses(c) = {}
  BY <1>1, <1>2 DEF Judging, SigningUp, WrongGuesses
<1>5. AccountOwned /\ CodesFresh /\ WritesAgree
  BY <1>1, <1>2, <1>4 DEF AccountOwned, CodesFresh, WritesAgree
<1>6. CountsEarned /\ NoneUncounted
  BY <1>1, <1>2, <1>4, FS_EmptySet DEF CountsEarned, NoneUncounted
<1>7. QED
  BY <1>3, <1>5, <1>6 DEF IInv

LEMMA Holds == Spec => []IInv
<1>1. IInv /\ [Next]_vars => IInv'
  <2>1. IInv => TypeOK
    BY DEF IInv
  <2>2. QED
    BY <2>1, NextTyped, OwnedStays, FreshStays, EarnedStays, NoneUncountedStays, AgreeStays DEF IInv
<1>2. QED
  BY <1>1, InitHolds, PTL DEF Spec

\* Requests keep to their steps and the stored count below its limit, so that
\* the code's comparison `attempts >= OTP_MAX_ATTEMPTS` on a key that was read
\* never decides anything (otp.ts:37-41).
THEOREM SignupTyped == Spec => []TypeOK
<1>1. IInv => TypeOK
  BY DEF IInv
<1>2. QED
  BY <1>1, Holds, PTL

\* A verified account keeps the password of a signup that had begun when it
\* was verified, whatever the order of the operations (auth.ts:107-118).
THEOREM VerifiedKeepsPassword == Spec => []VerifiedAccountKept
<1>1. IInv => VerifiedAccountKept
  BY DEF IInv, AccountOwned, VerifiedAccountKept
<1>2. QED
  BY <1>1, Holds, PTL

\* Nobody is locked out of a code before MaxAttempts wrong guesses of it, and
\* races never add to the stored count (otp.ts:42-57).
THEOREM LockoutIsEarned == Spec => []LockoutEarned
<1>1. IInv => LockoutEarned
  <2> SUFFICES ASSUME IInv
               PROVE  LockoutEarned
    OBVIOUS
  <2>1. TypeOK /\ MaxAttempts \in Nat
    BY SignupAssumption DEF IInv, SignupAssumption
  <2>2. ASSUME NEW c \in Signups \cup {None}
        PROVE  /\ Cardinality(WrongGuesses(c)) \in Nat
               /\ \A v \in Verifies : verify[v].code = c /\ verify[v].step = "exceeded" =>
                    MaxAttempts <= Cardinality(WrongGuesses(c))
               /\ key # NoKey /\ key.code = c => key.attempts <= Cardinality(WrongGuesses(c))
    BY FS_CardinalityType DEF IInv, CountsEarned
  <2>3. key.code \in Signups \cup {None} /\ \A v \in Verifies : verify[v].code \in Signups \cup {None}
    BY <2>1 DEF TypeOK
  <2>4. QED
    BY <2>1, <2>2, <2>3 DEF LockoutEarned
<1>2. QED
  BY <1>1, Holds, PTL

\* One request to verify after the other gets at most MaxAttempts guesses of
\* a code (otp.ts:37-47).
THEOREM GuessesAreBounded == Spec => []GuessesBounded
<1>1. IInv => GuessesBounded
  BY DEF IInv, NoneUncounted, GuessesBounded
<1>2. QED
  BY <1>1, Holds, PTL

\* The stored code and the saved password are of one signup, if signups
\* overlapped with nothing and none was cut short (auth.ts:112-124).
THEOREM CodeAndPasswordAgree == Spec => []CodeMatchesPassword
<1>1. IInv => CodeMatchesPassword
  BY DEF IInv, WritesAgree, CodeMatchesPassword, SigningUp
<1>2. QED
  BY <1>1, Holds, PTL
=============================================================================

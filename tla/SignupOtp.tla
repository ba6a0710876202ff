------------------------------ MODULE SignupOtp ------------------------------
(***************************************************************************)
(* Signing up with one e-mail address: POST /signup and /verify-otp of     *)
(* apps/api/src/routes/auth.ts, the one-time code that                     *)
(* apps/api/src/lib/otp.ts keeps in Redis under a key of the address, and  *)
(* the forms that call them.                                               *)
(*                                                                         *)
(* Every signup brings a password and draws a code of its own; both are    *)
(* named by the signup.  A handler does one operation of MongoDB or Redis  *)
(* at a time.  Whether the address, password and name are well formed is   *)
(* settled before the first of them and left out.                          *)
(***************************************************************************)
EXTENDS Naturals, FiniteSets

CONSTANTS
    Signups,       \* requests to sign up: otpRateLimiter lets 3 an hour pass
    Verifies,      \* requests to verify
    MaxAttempts,   \* OTP_MAX_ATTEMPTS
    None           \* no signup: no account, no key, a wrong code

ASSUME SignupAssumption ==
    /\ None \notin Signups
    /\ MaxAttempts \in Nat \ {0}

VARIABLES
    account,       \* the user document: whose password, verified or not
    key,           \* the Redis key: whose code, attempts, whether it expires
    signup,        \* [Signups -> progress of the request]
    verify,        \* [Verifies -> progress of the request, and what it read]
    before,        \* history: signups begun when the account was verified
    met,           \* history: a verify read the key while another had it read
    crossed        \* history: a signup overlapped a request, or was cut short

docs    == <<account, key>>
history == <<before, met, crossed>>
vars    == <<docs, signup, verify, history>>

NoAccount == [password |-> None, verified |-> FALSE]
NoKey     == [code |-> None, attempts |-> 0, ttl |-> FALSE]
Asleep    == [step |-> "idle", guess |-> None, code |-> None, attempts |-> 0]

SignupSteps == {"idle", "new", "again", "saved", "mailed", "conflict", "failed"}
VerifySteps == {"idle", "wrong", "right", "matched",
                "verified", "invalid", "exceeded", "expired", "no signup", "failed"}

TypeOK ==
    /\ account \in [password : Signups \cup {None}, verified : BOOLEAN]
    /\ key \in [code : Signups \cup {None}, attempts : 0..MaxAttempts - 1, ttl : BOOLEAN]
    /\ signup \in [Signups -> SignupSteps]
    /\ verify \in [Verifies -> [step : VerifySteps, guess : Signups \cup {None},
                                code : Signups \cup {None}, attempts : 0..MaxAttempts - 1]]
    /\ before \subseteq Signups
    /\ met \in BOOLEAN
    /\ crossed \in BOOLEAN

Init ==
    /\ account = NoAccount
    /\ key = NoKey
    /\ signup = [s \in Signups |-> "idle"]
    /\ verify = [v \in Verifies |-> Asleep]
    /\ before = {}
    /\ met = FALSE
    /\ crossed = FALSE

\* Requests that have begun and can still change something.
SigningUp == {s \in Signups : signup[s] \in {"new", "again", "saved"}}
Judging   == {v \in Verifies : verify[v].step \in {"wrong", "right"}}

-----------------------------------------------------------------------------
(* POST /signup.                                                           *)

\* Mutant: a verified account may be signed up again.
SignUpAnyway(s) ==
    /\ signup[s] = "idle"
    /\ signup' = [signup EXCEPT ![s] = IF account = NoAccount THEN "new" ELSE "again"]
    /\ crossed' = (crossed \/ SigningUp # {})
    /\ UNCHANGED <<docs, verify, before, met>>

\* findOne: 409 if the account is verified.
SignUp(s) ==
    /\ signup[s] = "idle"
    /\ signup' = [signup EXCEPT ![s] =
          IF account.verified THEN "conflict"
          ELSE IF account = NoAccount THEN "new" ELSE "again"]
    /\ crossed' = (crossed \/ SigningUp # {})
    /\ UNCHANGED <<docs, verify, before, met>>

\* Mutant: the name is saved, the password is not.
SaveName(s) ==
    /\ signup[s] \in {"new", "again"}
    /\ signup' = [signup EXCEPT ![s] = "saved"]
    /\ account' = IF signup[s] = "again" THEN account
                  ELSE [password |-> s, verified |-> FALSE]
    /\ UNCHANGED <<key, verify, history>>

\* save() writes the new password into the account there is, verified in the
\* meantime or not; create() makes one, unless the unique index on email
\* stops it.
Save(s) ==
    /\ \/ signup[s] = "again" /\ account' = [account EXCEPT !.password = s]
       \/ signup[s] = "new" /\ account = NoAccount
          /\ account' = [password |-> s, verified |-> FALSE]
    /\ signup' = [signup EXCEPT ![s] = "saved"]
    /\ UNCHANGED <<key, verify, history>>

Duplicate(s) ==
    /\ signup[s] = "new" /\ account # NoAccount
    /\ signup' = [signup EXCEPT ![s] = "failed"]
    /\ UNCHANGED <<docs, verify, history>>

\* storeOtp, with an expiry, then the mail.
StoreOtp(s) ==
    /\ signup[s] = "saved"
    /\ key' = [code |-> s, attempts |-> 0, ttl |-> TRUE]
    /\ signup' = [signup EXCEPT ![s] = "mailed"]
    /\ crossed' = (crossed \/ Judging # {})
    /\ UNCHANGED <<account, verify, before, met>>

\* MongoDB or Redis refuses, or the process dies.
SignupFails(s) ==
    /\ s \in SigningUp
    /\ signup' = [signup EXCEPT ![s] = "failed"]
    /\ crossed' = (crossed \/ signup[s] = "saved")
    /\ UNCHANGED <<docs, verify, before, met>>

-----------------------------------------------------------------------------
(* POST /verify-otp.                                                       *)

Step(v, step) == verify' = [verify EXCEPT ![v].step = step]

\* GET: a code the user has been mailed, or a wrong one, is compared with the
\* one stored.  A key that has used up its attempts counts as wrong.
Submit(v, guess) ==
    /\ verify[v].step = "idle"
    /\ guess # None => signup[guess] = "mailed"
    /\ verify' = [verify EXCEPT ![v] =
          [step  |-> IF key = NoKey THEN "expired"
                     ELSE IF key.code = guess /\ key.attempts < MaxAttempts
                          THEN "right" ELSE "wrong",
           guess |-> guess, code |-> key.code, attempts |-> key.attempts]]
    /\ met' = (met \/ Judging # {})
    /\ UNCHANGED <<docs, signup, before, crossed>>

\* Mutant: one attempt too few.
CountWrongHasty(v) ==
    LET n == verify[v].attempts + 1
    IN  /\ verify[v].step = "wrong"
        /\ IF n + 1 >= MaxAttempts
           THEN key' = NoKey /\ Step(v, "exceeded")
           ELSE /\ key' = [code |-> verify[v].code, attempts |-> n,
                           ttl |-> key # NoKey /\ key.ttl]
                /\ Step(v, "invalid")
        /\ UNCHANGED <<account, signup, history>>

\* Mutant: the attempts written back are those that were read.
CountNothing(v) ==
    LET n == verify[v].attempts + 1
    IN  /\ verify[v].step = "wrong"
        /\ IF n >= MaxAttempts
           THEN key' = NoKey /\ Step(v, "exceeded")
           ELSE /\ key' = [code |-> verify[v].code, attempts |-> n - 1,
                           ttl |-> key # NoKey /\ key.ttl]
                /\ Step(v, "invalid")
        /\ UNCHANGED <<account, signup, history>>

\* A wrong guess: DEL after the last attempt, else SET KEEPTTL of what was
\* read with one attempt more, which keeps the expiry the key has now, and
\* makes a key without one if there is no key.
CountWrong(v) ==
    LET n == verify[v].attempts + 1
    IN  /\ verify[v].step = "wrong"
        /\ IF n >= MaxAttempts
           THEN key' = NoKey /\ Step(v, "exceeded")
           ELSE /\ key' = [code |-> verify[v].code, attempts |-> n,
                           ttl |-> key # NoKey /\ key.ttl]
                /\ Step(v, "invalid")
        /\ UNCHANGED <<account, signup, history>>

\* The right guess: DEL, whatever is under the key by now ...
Consume(v) ==
    /\ verify[v].step = "right"
    /\ key' = NoKey
    /\ Step(v, "matched")
    /\ UNCHANGED <<account, signup, history>>

\* ... then findOneAndUpdate sets emailVerifiedAt.
MarkVerified(v) ==
    /\ verify[v].step = "matched"
    /\ IF account = NoAccount
       THEN Step(v, "no signup") /\ UNCHANGED <<account, before>>
       ELSE /\ Step(v, "verified")
            /\ account' = [account EXCEPT !.verified = TRUE]
            /\ before' = IF account.verified THEN before
                         ELSE {s \in Signups : signup[s] # "idle"}
    /\ UNCHANGED <<key, signup, met, crossed>>

VerifyFails(v) ==
    /\ verify[v].step \in {"wrong", "right", "matched"}
    /\ Step(v, "failed")
    /\ UNCHANGED <<docs, signup, history>>

\* Ten minutes after storeOtp.
KeyExpires ==
    /\ key.ttl
    /\ key' = NoKey
    /\ UNCHANGED <<account, signup, verify, history>>

Next ==
    \/ \E s \in Signups :
        SignUp(s) \/ Save(s) \/ Duplicate(s) \/ StoreOtp(s) \/ SignupFails(s)
    \/ \E v \in Verifies :
        \/ \E guess \in Signups \cup {None} : Submit(v, guess)
        \/ CountWrong(v) \/ Consume(v) \/ MarkVerified(v) \/ VerifyFails(v)
    \/ KeyExpires

Spec == Init /\ [][Next]_vars

-----------------------------------------------------------------------------
(* Properties.                                                             *)

\* A verified account keeps the password of a signup that had begun when it
\* was verified: later signups get 409, whatever the order of the operations
\* (auth.ts:107-118, 150-154).
VerifiedAccountKept == account.verified => account.password \in before

\* The wrong guesses of code c that were counted, or have used it up.
WrongGuesses(c) ==
    {v \in Verifies : verify[v].code = c /\ verify[v].guess # c
                      /\ verify[v].step \in {"invalid", "exceeded"}}

\* Requests that race lose attempts and never add one: nobody is told
\* "too many attempts" before MaxAttempts wrong guesses of that code, and the
\* stored count never exceeds the guesses made (otp.ts:42-57).
LockoutEarned ==
    /\ \A v \in Verifies :
         verify[v].step = "exceeded" => Cardinality(WrongGuesses(verify[v].code)) >= MaxAttempts
    /\ key # NoKey => key.attempts <= Cardinality(WrongGuesses(key.code))

\* When requests to verify do not overlap, nobody gets more than MaxAttempts
\* guesses of a code, even if signups write new codes in between
\* (otp.ts:37-47).
GuessesBounded ==
    ~met => \A c \in Signups : Cardinality(WrongGuesses(c)) <= MaxAttempts

\* The code that is stored and the password that is saved are those of one
\* signup, once the signups are through, unless a signup overlapped another
\* or a guess, or was cut short between the two (auth.ts:112-124).
CodeMatchesPassword ==
    ~crossed /\ SigningUp = {} /\ key # NoKey => key.code = account.password

-----------------------------------------------------------------------------
(* What the properties rest on.                                            *)

\* An account belongs to a signup that began, and who may still write a
\* password into a verified one began before it was verified.
AccountOwned ==
    /\ account # NoAccount =>
        account.password \in Signups /\ signup[account.password] # "idle"
    /\ account.verified =>
        /\ account.password \in before
        /\ \A s \in Signups : signup[s] \in {"new", "again"} => s \in before

\* A code is not known to Redis, nor to anyone who read it there, before its
\* signup has stored it; a guess that was found wrong is not the code.
CodesFresh ==
    /\ \A s \in Signups : signup[s] # "mailed" =>
        key.code # s /\ \A v \in Verifies : verify[v].code # s
    /\ \A v \in Verifies : verify[v].step = "wrong" => verify[v].guess # verify[v].code

\* Nobody holds a count that exceeds the wrong guesses made.
CountsEarned ==
    \A c \in Signups \cup {None} :
        /\ IsFiniteSet(WrongGuesses(c))
        /\ \A v \in Verifies : verify[v].code = c =>
            /\ v \in Judging => verify[v].attempts <= Cardinality(WrongGuesses(c))
            /\ verify[v].step = "exceeded" => MaxAttempts <= Cardinality(WrongGuesses(c))
        /\ key # NoKey /\ key.code = c => key.attempts <= Cardinality(WrongGuesses(c))

\* As long as requests to verify do not overlap, none falls short of them.
NoneUncounted ==
    ~met =>
        /\ \A v, w \in Judging : v = w
        /\ \A c \in Signups \cup {None} :
            /\ \A v \in Judging :
                verify[v].code = c => Cardinality(WrongGuesses(c)) <= verify[v].attempts
            /\ key # NoKey /\ key.code = c => Cardinality(WrongGuesses(c)) <= key.attempts
            /\ Cardinality(WrongGuesses(c)) <= MaxAttempts

\* As long as signups do not overlap with anything, one is under way at most,
\* and only between its two writes do code and password disagree.
WritesAgree ==
    ~crossed =>
        /\ \A s, t \in SigningUp : s = t
        /\ \A s \in Signups : signup[s] = "saved" => account.password = s
        /\ (\A s \in Signups : signup[s] # "saved") =>
            /\ key # NoKey => key.code = account.password
            /\ \A v \in Judging : verify[v].code = account.password

IInv ==
    /\ TypeOK /\ AccountOwned /\ CodesFresh
    /\ CountsEarned /\ NoneUncounted /\ WritesAgree
=============================================================================

---------------------------- MODULE RefreshTokens ----------------------------
(***************************************************************************)
(* The refresh tokens of one account: POST /login, /refresh and /logout of *)
(* apps/api/src/routes/auth.ts on the collection of                        *)
(* apps/api/src/models/RefreshToken.ts.                                    *)
(*                                                                         *)
(* A handler runs one MongoDB operation at a time, and the operations of   *)
(* other requests fall in between.  Tokens are numbered in the order of    *)
(* their creation, a family is named by its first token, and tokens expire *)
(* in order because they all last REFRESH_TOKEN_TTL_MS.  Their replacedBy, *)
(* userAgent and ip, which no code reads, are left out.                    *)
(***************************************************************************)
EXTENDS Naturals

CONSTANTS
    Requests,    \* requests the API can have at a time
    MaxTokens    \* bound on the tokens ever created

ASSUME TokensAssumption == MaxTokens \in Nat

VARIABLES
    made,        \* tokens 1..made have been created
    family,      \* [Tokens -> first token of the family, 0 if not created]
    revoked,     \* tokens whose revokedAt is set
    aged,        \* tokens 1..aged are past their expiresAt
    swept,       \* tokens 1..swept have been deleted by the TTL index
    req          \* [Requests -> state of the request]

tokenVars == <<made, family, revoked, aged, swept>>
authVars  == <<tokenVars, req>>

Tokens == 1..MaxTokens

\* A request: the token its cookie presents (0 for none), and the token its
\* answer hands out.
Kinds   == {"none", "login", "refresh", "logout"}
Steps   == {"idle", "sent", "missed", "reused", "rotated", "ok", "refused", "burnt", "failed"}
Request == [kind : Kinds, step : Steps, shown : 0..MaxTokens, new : 0..MaxTokens]
Idle    == [kind |-> "none", step |-> "idle", shown |-> 0, new |-> 0]

TypeOK ==
    /\ made \in 0..MaxTokens
    /\ family \in [Tokens -> 0..MaxTokens]
    /\ revoked \subseteq 1..made
    /\ aged \in 0..made
    /\ swept \in 0..aged
    /\ req \in [Requests -> Request]

\* Not revoked: the tokens that can be rotated, until they expire.
Unrevoked(n) == n \in 1..made /\ n \notin revoked
Usable(n)    == Unrevoked(n) /\ n > aged

\* r has revoked its token and has not created the replacement yet.
Rotating(r) == req[r].kind = "refresh" /\ req[r].step = "rotated"

\* 401, in the second case for a token that was reused.
Refused(r)  == req[r].step \in {"refused", "burnt"}
Answered(r) == Refused(r) \/ req[r].step \in {"ok", "failed"}

Init ==
    /\ made = 0
    /\ family = [n \in Tokens |-> 0]
    /\ revoked = {}
    /\ aged = 0
    /\ swept = 0
    /\ req = [r \in Requests |-> Idle]

-----------------------------------------------------------------------------
Goto(r, step) == req' = [req EXCEPT ![r].step = step]

\* A request arrives with the token of its cookie.
Send(r, kind, n) ==
    /\ req[r] = Idle
    /\ req' = [req EXCEPT ![r] = [kind |-> kind, step |-> "sent", shown |-> n, new |-> 0]]
    /\ UNCHANGED tokenVars

\* RefreshToken.create, in family f.
Create(r, f) ==
    /\ made < MaxTokens
    /\ made' = made + 1
    /\ family' = [family EXCEPT ![made + 1] = f]
    /\ req' = [req EXCEPT ![r].step = "ok", ![r].new = made + 1]
    /\ UNCHANGED <<revoked, aged, swept>>

\* The credentials are right: a token in a family of its own.  A refused
\* login changes nothing here.
Login(r) ==
    /\ req[r].kind = "login" /\ req[r].step = "sent"
    /\ Create(r, made + 1)

\* Mutant: the token is looked up without revokedAt: null.
RotateAny(r) ==
    /\ req[r].kind = "refresh" /\ req[r].step = "sent"
    /\ req[r].shown \in 1..made /\ req[r].shown > aged
    /\ revoked' = revoked \cup {req[r].shown}
    /\ Goto(r, "rotated")
    /\ UNCHANGED <<made, family, aged, swept>>

\* findOneAndUpdate finds the token neither revoked nor expired: revoked.
Rotate(r) ==
    /\ req[r].kind = "refresh" /\ req[r].step = "sent"
    /\ Usable(req[r].shown)
    /\ revoked' = revoked \cup {req[r].shown}
    /\ Goto(r, "rotated")
    /\ UNCHANGED <<made, family, aged, swept>>

\* It finds none; without a cookie it is not even called.
Miss(r) ==
    /\ req[r].kind = "refresh" /\ req[r].step = "sent"
    /\ ~Usable(req[r].shown)
    /\ Goto(r, IF req[r].shown = 0 THEN "refused" ELSE "missed")
    /\ UNCHANGED tokenVars

\* findOne: was the token revoked, or is it merely expired or deleted?
LookUp(r) ==
    /\ req[r].step = "missed"
    /\ Goto(r, IF req[r].shown \in revoked /\ req[r].shown > swept
               THEN "reused" ELSE "refused")
    /\ UNCHANGED tokenVars

\* A reused token: updateMany revokes what the family still has.
Burn(r) ==
    /\ req[r].step = "reused"
    /\ revoked' = revoked \cup {n \in 1..made : family[n] = family[req[r].shown]}
    /\ Goto(r, "burnt")
    /\ UNCHANGED <<made, family, aged, swept>>

\* The replacement of a rotated token.
Replace(r) ==
    /\ Rotating(r)
    /\ Create(r, family[req[r].shown])

\* The account of a rotated token is gone or suspended, which only an
\* operator does.
RefuseAccount(r) ==
    /\ Rotating(r)
    /\ Goto(r, "refused")
    /\ UNCHANGED tokenVars

\* Mutant: logout only clears the cookie.
LogoutKeeps(r) ==
    /\ req[r].kind = "logout" /\ req[r].step = "sent"
    /\ Goto(r, "ok")
    /\ UNCHANGED tokenVars

\* updateOne revokes the presented token, and no other.
Logout(r) ==
    /\ req[r].kind = "logout" /\ req[r].step = "sent"
    /\ revoked' = revoked \cup ({req[r].shown} \cap 1..made)
    /\ Goto(r, "ok")
    /\ UNCHANGED <<made, family, aged, swept>>

\* The handler is cut short, by an error of MongoDB or a crash, or its
\* answer is lost.
Fail(r) ==
    /\ req[r] # Idle
    /\ req[r].step # "failed"
    /\ Goto(r, "failed")
    /\ UNCHANGED tokenVars

\* The answer has left.
Finish(r) ==
    /\ Answered(r)
    /\ req' = [req EXCEPT ![r] = Idle]
    /\ UNCHANGED tokenVars

\* Time passes; a deleted token is as good as unknown.
Expire ==
    /\ aged < made
    /\ aged' = aged + 1
    /\ UNCHANGED <<made, family, revoked, swept, req>>
\* Mutant: deleted some time after its creation, whatever its expiresAt.
SweepEarly ==
    /\ swept < made
    /\ swept' = swept + 1
    /\ UNCHANGED <<made, family, revoked, aged, req>>
Sweep ==
    /\ swept < aged
    /\ swept' = swept + 1
    /\ UNCHANGED <<made, family, revoked, aged, req>>

Handle(r) ==
    Login(r) \/ Rotate(r) \/ Miss(r) \/ LookUp(r) \/ Burn(r) \/ Replace(r) \/ Logout(r)

\* A client may present any token it was ever given.
Next ==
    \/ \E r \in Requests :
        \/ \E kind \in Kinds \ {"none"}, n \in 0..made : Send(r, kind, n)
        \/ Handle(r) \/ RefuseAccount(r) \/ Fail(r) \/ Finish(r)
    \/ Expire \/ Sweep

Spec == Init /\ [][Next]_authVars

-----------------------------------------------------------------------------
(* Properties.                                                             *)

\* A family never has two unrevoked tokens, nor an unrevoked token while a
\* request that has revoked its token is about to create the next, nor two
\* such requests: one holder at most can go on with the session
\* (auth.ts:211-245).
OneLivePerFamily ==
    /\ \A m, n \in Tokens :
        Unrevoked(m) /\ Unrevoked(n) /\ family[m] = family[n] => m = n
    /\ \A r \in Requests, n \in Tokens :
        Rotating(r) /\ Unrevoked(n) => family[n] # family[req[r].shown]
    /\ \A r, s \in Requests :
        Rotating(r) /\ Rotating(s) /\ family[req[r].shown] = family[req[s].shown] => r = s

\* The session of family f goes on: a token can be refreshed, or is being.
Open(f) ==
    \/ \E n \in Tokens : Usable(n) /\ family[n] = f
    \/ \E r \in Requests : Rotating(r) /\ family[req[r].shown] = f

SessionOf(f) ==
    IF Open(f) THEN "open" ELSE IF family[f] = f THEN "ended" ELSE "none"

Contract == INSTANCE SessionContract
    WITH Sessions <- Tokens, session <- [f \in Tokens |-> SessionOf(f)]

\* Families begin with a login, end by logout, reuse, expiry or a refresh cut
\* short, and never come back (auth.ts:60-75, 196-268).
ImplementsSession == Contract!SSpec

-----------------------------------------------------------------------------
(* What the properties rest on.                                            *)

\* A family bears the number of its first token, which is one of its own.
FamiliesNamed ==
    /\ \A n \in Tokens : IF n <= made THEN family[n] \in 1..n ELSE family[n] = 0
    /\ \A n \in 1..made : family[family[n]] = family[n]

\* Nobody shows a token that was never created, and who goes on rotating or
\* burning found the token it shows revoked.
RequestsKnown ==
    \A r \in Requests :
        /\ req[r].shown <= made
        /\ Rotating(r) \/ req[r].step = "reused" => req[r].shown \in revoked

\* OneLivePerFamily speaks of families, so it is inductive only together with
\* what the numbers in family mean.
IInv == TypeOK /\ FamiliesNamed /\ RequestsKnown /\ OneLivePerFamily
=============================================================================

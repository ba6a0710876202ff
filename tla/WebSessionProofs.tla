-------------------------- MODULE WebSessionProofs --------------------------
(***************************************************************************)
(* Theorems about RefreshTokens and WebSession, for every set of requests  *)
(* and tabs and every bound on tokens, logins and faults.                  *)
(***************************************************************************)
EXTENDS WebSession, TLAPS

-----------------------------------------------------------------------------
(* Steps of requests.                                                      *)

\* A step of one request changes neither what it is nor any other request.
LEMMA GotoChanges ==
    ASSUME TypeOK, NEW r \in Requests, NEW step \in Steps, Goto(r, step)
    PROVE  /\ req' \in [Requests -> Request]
           /\ req'[r].kind = req[r].kind /\ req'[r].step = step
           /\ req'[r].shown = req[r].shown /\ req'[r].new = req[r].new
           /\ \A s \in Requests \ {r} : req'[s] = req[s]
BY DEF TypeOK, Goto, Request

\* The token a creation makes, and the request that hands it out.
LEMMA CreateChanges ==
    ASSUME TypeOK, NEW r \in Requests, NEW f \in 0..MaxTokens, Create(r, f)
    PROVE  /\ made + 1 \in Tokens /\ made' = made + 1
           /\ family' \in [Tokens -> 0..MaxTokens]
           /\ family'[made + 1] = f
           /\ \A n \in Tokens \ {made + 1} : family'[n] = family[n]
           /\ req' \in [Requests -> Request]
           /\ req'[r].kind = req[r].kind /\ req'[r].step = "ok"
           /\ req'[r].shown = req[r].shown /\ req'[r].new = made + 1
           /\ \A s \in Requests \ {r} : req'[s] = req[s]
<1>1. made + 1 \in Tokens /\ made' = made + 1
  BY TokensAssumption DEF TypeOK, Create, Tokens, TokensAssumption
<1>2. /\ family' \in [Tokens -> 0..MaxTokens]
      /\ family'[made + 1] = f
      /\ \A n \in Tokens \ {made + 1} : family'[n] = family[n]
  BY <1>1 DEF TypeOK, Create
<1>3. req' = [req EXCEPT ![r].step = "ok", ![r].new = made + 1]
  BY DEF Create
<1>4. [req[r] EXCEPT !.step = "ok", !.new = made + 1] \in Request
  <2>1. req[r] \in Request /\ made + 1 \in 0..MaxTokens
    BY <1>1 DEF TypeOK, Tokens
  <2>2. QED
    BY <2>1 DEF Request, Steps
<1>5. /\ req'[r] = [req[r] EXCEPT !.step = "ok", !.new = made + 1]
      /\ \A s \in Requests \ {r} : req'[s] = req[s]
  BY <1>3 DEF TypeOK
<1>6. req' \in [Requests -> Request]
  BY <1>3, <1>4, <1>5 DEF TypeOK
<1>7. QED
  BY <1>1, <1>2, <1>5, <1>6 DEF TypeOK, Request

\* A request that arrives.
LEMMA SendChanges ==
    ASSUME TypeOK, NEW r \in Requests, NEW kind \in Kinds, NEW n \in 0..made, Send(r, kind, n)
    PROVE  /\ req' \in [Requests -> Request]
           /\ req[r] = Idle
           /\ req'[r].kind = kind /\ req'[r].step = "sent"
           /\ req'[r].shown = n /\ req'[r].new = 0
           /\ \A s \in Requests \ {r} : req'[s] = req[s]
<1>1. n \in 0..MaxTokens
  BY TokensAssumption DEF TypeOK, TokensAssumption
<1>2. QED
  BY <1>1 DEF TypeOK, Send, Request, Steps, Idle

-----------------------------------------------------------------------------
(* Types.                                                                  *)

LEMMA InitTyped == Init => TypeOK
BY TokensAssumption DEF Init, TypeOK, Tokens, Idle, Request, Kinds, Steps, TokensAssumption

\* Who goes on rotating or burning found a token, and a token found exists.
LEMMA ShownExists ==
    ASSUME TypeOK, RequestsKnown, NEW r \in Requests, Rotating(r) \/ req[r].step = "reused"
    PROVE  req[r].shown \in Tokens /\ req[r].shown \in 1..made /\ req[r].shown \in revoked
<1>1. req[r].shown \in revoked
  BY DEF RequestsKnown
<1>2. req[r].shown \in 1..made
  BY <1>1 DEF TypeOK
<1>3. made \in Nat /\ made <= MaxTokens
  BY TokensAssumption DEF TypeOK, TokensAssumption
<1>4. QED
  BY <1>1, <1>2, <1>3, TokensAssumption DEF Tokens, TokensAssumption

\* Replace looks up the family of the token its request shows: its type needs
\* that the token exists.
LEMMA NextTyped == TypeOK /\ RequestsKnown /\ [Next]_authVars => TypeOK'
<1> SUFFICES ASSUME TypeOK, RequestsKnown, [Next]_authVars
             PROVE  TypeOK'
  OBVIOUS
<1>1. ASSUME NEW r \in Requests, NEW kind \in Kinds, NEW n \in 0..made, Send(r, kind, n)
      PROVE  TypeOK'
  BY <1>1, SendChanges DEF Send, tokenVars, TypeOK
<1>2. ASSUME NEW r \in Requests, NEW f \in 0..MaxTokens, Create(r, f)
      PROVE  TypeOK'
  <2>1. made' \in 0..MaxTokens /\ family' \in [Tokens -> 0..MaxTokens]
        /\ req' \in [Requests -> Request]
    BY <1>2, CreateChanges DEF Tokens
  <2>2. revoked' \subseteq 1..made' /\ aged' \in 0..made' /\ swept' \in 0..aged'
    BY <1>2, TokensAssumption DEF Create, TypeOK, TokensAssumption
  <2>3. QED
    BY <2>1, <2>2 DEF TypeOK
<1>3. ASSUME NEW r \in Requests, Login(r)
      PROVE  TypeOK'
  <2>1. made + 1 \in 0..MaxTokens
    BY <1>3, TokensAssumption DEF Login, Create, TypeOK, TokensAssumption
  <2>2. QED
    BY <1>2, <1>3, <2>1 DEF Login
<1>4. ASSUME NEW r \in Requests, Replace(r)
      PROVE  TypeOK'
  <2>1. family[req[r].shown] \in 0..MaxTokens
    BY <1>4, ShownExists DEF Replace, TypeOK
  <2>2. QED
    BY <1>2, <1>4, <2>1 DEF Replace
<1>5. ASSUME NEW r \in Requests, NEW step \in Steps, Goto(r, step),
             UNCHANGED <<made, family, aged, swept>>, revoked' \subseteq 1..made
      PROVE  TypeOK'
  BY <1>5, GotoChanges DEF TypeOK
<1>6. ASSUME NEW r \in Requests,
             Rotate(r) \/ Miss(r) \/ LookUp(r) \/ Burn(r) \/ Logout(r) \/ RefuseAccount(r) \/ Fail(r)
      PROVE  TypeOK'
  <2>1. \E step \in Steps : Goto(r, step)
    BY <1>6 DEF Rotate, Miss, LookUp, Burn, Logout, RefuseAccount, Fail, Steps
  <2>2. UNCHANGED <<made, family, aged, swept>> /\ revoked' \subseteq 1..made
    BY <1>6 DEF Rotate, Miss, LookUp, Burn, Logout, RefuseAccount, Fail, tokenVars, TypeOK, Usable,
                Unrevoked
  <2>3. QED
    BY <1>5, <2>1, <2>2
<1>7. ASSUME NEW r \in Requests, Finish(r)
      PROVE  TypeOK'
  BY <1>7, InitTyped, TokensAssumption
     DEF Finish, TypeOK, tokenVars, Idle, Request, Kinds, Steps, TokensAssumption
<1>8. CASE Expire \/ Sweep
  <2>1. UNCHANGED <<made, family, revoked, req>>
    BY <1>8 DEF Expire, Sweep
  <2>2. aged' \in 0..made /\ swept' \in 0..aged'
    BY <1>8, TokensAssumption DEF Expire, Sweep, TypeOK, TokensAssumption
  <2>3. QED
    BY <2>1, <2>2 DEF TypeOK
<1>9. CASE UNCHANGED authVars
  BY <1>9 DEF authVars, tokenVars, TypeOK
<1>10. QED
  BY <1>1, <1>3, <1>4, <1>6, <1>7, <1>8, <1>9 DEF Next, Handle, Kinds

-----------------------------------------------------------------------------
(* Families and requests.                                                  *)

LEMMA InitHolds == Init => IInv
<1> SUFFICES ASSUME Init
             PROVE  IInv
  OBVIOUS
<1>1. TypeOK
  BY InitTyped
<1>2. FamiliesNamed
  BY TokensAssumption DEF Init, FamiliesNamed, Tokens, TokensAssumption
<1>3. RequestsKnown
  <2>1. made = 0 /\ \A r \in Requests : req[r] = Idle
    BY DEF Init
  <2>2. Idle.shown = 0 /\ Idle.step = "idle"
    BY DEF Idle
  <2> SUFFICES ASSUME NEW r \in Requests
               PROVE  /\ req[r].shown <= made
                      /\ Rotating(r) \/ req[r].step = "reused" => req[r].shown \in revoked
    BY DEF RequestsKnown
  <2>3. req[r].shown = 0 /\ req[r].step = "idle"
    BY <2>1, <2>2
  <2>4. QED
    BY <2>1, <2>3 DEF Rotating
<1>4. OneLivePerFamily
  BY DEF Init, OneLivePerFamily, Rotating, Unrevoked, Idle
<1>5. QED
  BY <1>1, <1>2, <1>3, <1>4 DEF IInv

\* Where a new token is named after itself, or follows one that exists.
LEMMA NamesKept ==
    ASSUME IInv, NEW f \in Tokens, f = made + 1 \/ (f \in 1..made /\ family[f] = f),
           made + 1 \in Tokens, made' = made + 1,
           family'[made + 1] = f,
           \A n \in Tokens \ {made + 1} : family'[n] = family[n]
    PROVE  FamiliesNamed'
<1>1. made \in Nat /\ MaxTokens \in Nat
  BY TokensAssumption DEF IInv, TypeOK, TokensAssumption
<1>2. \A n \in Tokens : IF n <= made' THEN family'[n] \in 1..n ELSE family'[n] = 0
  BY <1>1 DEF IInv, FamiliesNamed, Tokens
<1>3. \A n \in 1..made : family[n] \in 1..made /\ family[family[n]] = family[n]
  BY <1>1 DEF IInv, FamiliesNamed, Tokens
<1>4. \A n \in 1..made' : family'[family'[n]] = family'[n]
  BY <1>1, <1>3 DEF Tokens
<1>5. QED
  BY <1>2, <1>4 DEF FamiliesNamed

\* What keeps the requests known: nothing shown, revoked or created is taken
\* back, and a request that goes on with a token has found it revoked.
LEMMA KnownKept ==
    ASSUME IInv, req' \in [Requests -> Request], made' \in Nat, made <= made',
           revoked \subseteq revoked',
           \A s \in Requests :
               \/ req'[s] = req[s]
               \/ /\ req'[s].shown <= made'
                  /\ \/ req'[s].step \notin {"rotated", "reused"}
                     \/ req'[s].shown \in revoked'
    PROVE  RequestsKnown'
<1> SUFFICES ASSUME NEW s \in Requests
             PROVE  /\ req'[s].shown <= made'
                    /\ Rotating(s)' \/ req'[s].step = "reused" => req'[s].shown \in revoked'
  BY DEF RequestsKnown
<1>1. CASE req'[s] = req[s]
  <2>1. req[s].shown \in Nat /\ made \in Nat
    BY TokensAssumption DEF IInv, TypeOK, Request, TokensAssumption
  <2>2. req[s].shown <= made /\ (Rotating(s) \/ req[s].step = "reused" => req[s].shown \in revoked)
    BY DEF IInv, RequestsKnown
  <2>3. QED
    BY <1>1, <2>1, <2>2 DEF Rotating
<1>2. CASE /\ req'[s].shown <= made'
           /\ \/ req'[s].step \notin {"rotated", "reused"}
              \/ req'[s].shown \in revoked'
  BY <1>2 DEF Rotating
<1>3. QED
  BY <1>1, <1>2

\* No family gains a live token or a rotating request.
LEMMA NoNewHolder ==
    ASSUME IInv, UNCHANGED <<made, family>>, revoked \subseteq revoked',
           \A s \in Requests : Rotating(s)' => Rotating(s) /\ req'[s].shown = req[s].shown
    PROVE  OneLivePerFamily'
BY DEF IInv, OneLivePerFamily, Unrevoked

\* A rotation takes the live token's place.
LEMMA RotateKeepsOne ==
    ASSUME IInv, NEW r \in Requests, Rotate(r)
    PROVE  IInv'
<1>1. /\ req' \in [Requests -> Request]
      /\ req'[r].step = "rotated" /\ req'[r].shown = req[r].shown
      /\ \A s \in Requests \ {r} : req'[s] = req[s]
  BY GotoChanges DEF IInv, Rotate, Steps
<1>2. UNCHANGED <<made, family>> /\ revoked' = revoked \cup {req[r].shown}
  BY DEF Rotate
<1>3. TypeOK'
  BY NextTyped DEF IInv, Next, Handle
<1>4. FamiliesNamed'
  BY <1>2 DEF IInv, FamiliesNamed
<1>5. made \in Nat /\ req[r].shown <= made
  BY TokensAssumption DEF IInv, TypeOK, RequestsKnown, TokensAssumption
<1>6. RequestsKnown'
  BY <1>1, <1>2, <1>5, KnownKept
<1>7. Unrevoked(req[r].shown) /\ req[r].shown \in Tokens
  BY TokensAssumption DEF Rotate, Usable, Unrevoked, IInv, TypeOK, Tokens, TokensAssumption
<1>8. \A n \in Tokens : Unrevoked(n)' => Unrevoked(n) /\ n # req[r].shown
  BY <1>2 DEF Unrevoked
<1>9. \A s \in Requests \ {r} : Rotating(s)' => Rotating(s) /\ req'[s].shown = req[s].shown
  BY <1>1 DEF Rotating
<1>10. OneLivePerFamily'
  <2>1. \A m, n \in Tokens : Unrevoked(m)' /\ Unrevoked(n)' /\ family'[m] = family'[n] => m = n
    BY <1>2, <1>8 DEF IInv, OneLivePerFamily
  <2>2. \A s \in Requests, n \in Tokens :
            Rotating(s)' /\ Unrevoked(n)' => family'[n] # family'[req'[s].shown]
    BY <1>1, <1>2, <1>7, <1>8, <1>9 DEF IInv, OneLivePerFamily
  <2>3. \A s \in Requests \ {r} : Rotating(s)' => family[req[r].shown] # family'[req'[s].shown]
    BY <1>2, <1>7, <1>9 DEF IInv, OneLivePerFamily
  <2>4. \A s, t \in Requests \ {r} :
            Rotating(s)' /\ Rotating(t)' /\ family'[req'[s].shown] = family'[req'[t].shown] => s = t
    BY <1>2, <1>9 DEF IInv, OneLivePerFamily
  <2>5. QED
    BY <1>1, <1>2, <2>1, <2>2, <2>3, <2>4 DEF OneLivePerFamily
<1>11. QED
  BY <1>3, <1>4, <1>6, <1>10 DEF IInv

\* A token is created in a family that has no holder but its request.
LEMMA CreateKeepsOne ==
    ASSUME IInv, NEW r \in Requests, NEW f \in Tokens, Create(r, f), TypeOK',
           f = made + 1 \/ (f \in 1..made /\ family[f] = f),
           \A n \in Tokens : Unrevoked(n) => family[n] # f,
           \A s \in Requests \ {r} : Rotating(s) => family[req[s].shown] # f
    PROVE  IInv'
<1>1. f \in 0..MaxTokens
  BY DEF Tokens
<1>2. /\ made + 1 \in Tokens /\ made' = made + 1
      /\ family'[made + 1] = f
      /\ \A n \in Tokens \ {made + 1} : family'[n] = family[n]
      /\ req' \in [Requests -> Request]
      /\ req'[r].step = "ok" /\ req'[r].shown = req[r].shown
      /\ \A s \in Requests \ {r} : req'[s] = req[s]
  BY <1>1, CreateChanges DEF IInv
<1>3. revoked' = revoked
  BY DEF Create
<1>4. FamiliesNamed'
  BY <1>2, NamesKept
<1>5. made \in Nat /\ \A s \in Requests : req[s].shown \in Nat /\ req[s].shown <= made
  BY TokensAssumption DEF IInv, TypeOK, Request, RequestsKnown, TokensAssumption
<1>6. RequestsKnown'
  BY <1>2, <1>3, <1>5, KnownKept
<1>7. \A n \in Tokens : Unrevoked(n)' => n = made + 1 \/ (Unrevoked(n) /\ n # made + 1)
  BY <1>2, <1>3, <1>5 DEF Unrevoked
<1>8. \A s \in Requests : Rotating(s)' => s # r /\ Rotating(s) /\ req'[s] = req[s]
  BY <1>2 DEF Rotating
<1>9. \A s \in Requests : Rotating(s) => req[s].shown \in Tokens \ {made + 1}
  BY <1>5, ShownExists DEF IInv
<1>10. OneLivePerFamily'
  <2>1. \A m, n \in Tokens : Unrevoked(m)' /\ Unrevoked(n)' /\ family'[m] = family'[n] => m = n
    BY <1>2, <1>7 DEF IInv, OneLivePerFamily
  <2>2. \A s \in Requests, n \in Tokens :
            Rotating(s)' /\ Unrevoked(n)' => family'[n] # family'[req'[s].shown]
    BY <1>2, <1>7, <1>8, <1>9 DEF IInv, OneLivePerFamily
  <2>3. \A s, t \in Requests :
            Rotating(s)' /\ Rotating(t)' /\ family'[req'[s].shown] = family'[req'[t].shown] => s = t
    BY <1>2, <1>8, <1>9 DEF IInv, OneLivePerFamily
  <2>4. QED
    BY <2>1, <2>2, <2>3 DEF OneLivePerFamily
<1>11. QED
  BY <1>4, <1>6, <1>10 DEF IInv

LEMMA LoginKeepsOne ==
    ASSUME IInv, NEW r \in Requests, Login(r)
    PROVE  IInv'
<1>1. TypeOK'
  BY NextTyped DEF IInv, Next, Handle
<1>2. made \in Nat /\ MaxTokens \in Nat /\ made + 1 \in Tokens
  BY TokensAssumption DEF IInv, TypeOK, Login, Create, Tokens, TokensAssumption
<1>3. \A n \in 1..made : n \in Tokens /\ family[n] # made + 1
  BY <1>2 DEF IInv, FamiliesNamed, Tokens
<1>4. \A n \in Tokens : Unrevoked(n) => family[n] # made + 1
  BY <1>3 DEF Unrevoked
<1>5. \A s \in Requests : Rotating(s) => family[req[s].shown] # made + 1
  BY <1>3, ShownExists DEF IInv
<1>6. QED
  BY <1>1, <1>2, <1>4, <1>5, CreateKeepsOne DEF Login

LEMMA ReplaceKeepsOne ==
    ASSUME IInv, NEW r \in Requests, Replace(r)
    PROVE  IInv'
<1>1. TypeOK'
  BY NextTyped DEF IInv, Next, Handle
<1>2. Rotating(r) /\ req[r].shown \in Tokens /\ req[r].shown \in 1..made
  BY ShownExists DEF IInv, Replace
<1>3. made \in Nat /\ MaxTokens \in Nat
  BY TokensAssumption DEF IInv, TypeOK, TokensAssumption
<1>4. /\ family[req[r].shown] \in Tokens /\ family[req[r].shown] \in 1..made
      /\ family[family[req[r].shown]] = family[req[r].shown]
  BY <1>2, <1>3 DEF IInv, FamiliesNamed, Tokens
<1>5. \A n \in Tokens : Unrevoked(n) => family[n] # family[req[r].shown]
  BY <1>2 DEF IInv, OneLivePerFamily
<1>6. \A s \in Requests \ {r} : Rotating(s) => family[req[s].shown] # family[req[r].shown]
  BY <1>2 DEF IInv, OneLivePerFamily
<1>7. QED
  BY <1>1, <1>4, <1>5, <1>6, CreateKeepsOne DEF Replace

\* Every other step of a request leaves the families as they are.
LEMMA OthersKeepOne ==
    ASSUME IInv, NEW r \in Requests, TypeOK', UNCHANGED <<made, family>>, revoked \subseteq revoked',
           \A s \in Requests \ {r} : req'[s] = req[s],
           ~Rotating(r)', req'[r].shown <= made,
           req'[r].step = "reused" => req'[r].shown \in revoked
    PROVE  IInv'
<1>1. FamiliesNamed'
  BY DEF IInv, FamiliesNamed
<1>2. OneLivePerFamily'
  BY NoNewHolder DEF Rotating
<1>3. RequestsKnown'
  <2> SUFFICES ASSUME NEW s \in Requests
               PROVE  /\ req'[s].shown <= made'
                      /\ Rotating(s)' \/ req'[s].step = "reused" => req'[s].shown \in revoked'
    BY DEF RequestsKnown
  <2>1. CASE s = r
    BY <2>1
  <2>2. CASE s # r
    BY <2>2 DEF IInv, RequestsKnown, Rotating
  <2>3. QED
    BY <2>1, <2>2
<1>4. QED
  BY <1>1, <1>2, <1>3 DEF IInv

LEMMA NextHolds == IInv /\ [Next]_authVars => IInv'
<1> SUFFICES ASSUME IInv, [Next]_authVars
             PROVE  IInv'
  OBVIOUS
<1>1. TypeOK'
  BY NextTyped DEF IInv
<1>2. made \in Nat /\ \A r \in Requests : req[r].shown \in Nat /\ req[r].shown <= made
  BY TokensAssumption DEF IInv, TypeOK, Request, RequestsKnown, TokensAssumption
<1>3. ASSUME NEW r \in Requests, NEW kind \in Kinds, NEW n \in 0..made, Send(r, kind, n)
      PROVE  IInv'
  <2>1. /\ req'[r].step = "sent" /\ req'[r].shown <= made
        /\ \A s \in Requests \ {r} : req'[s] = req[s]
    BY <1>2, <1>3, SendChanges DEF IInv
  <2>2. UNCHANGED <<made, family, revoked>>
    BY <1>3 DEF Send, tokenVars
  <2>3. ~Rotating(r)'
    BY <2>1 DEF Rotating
  <2>4. QED
    BY <1>1, <2>1, <2>2, <2>3, OthersKeepOne
<1>4. ASSUME NEW r \in Requests, Miss(r) \/ LookUp(r) \/ Burn(r) \/ Logout(r) \/ RefuseAccount(r) \/ Fail(r)
      PROVE  IInv'
  <2>1. PICK step \in Steps \ {"rotated"} :
            /\ Goto(r, step)
            /\ step = "reused" => req[r].shown \in revoked
    BY <1>4 DEF Miss, LookUp, Burn, Logout, RefuseAccount, Fail, Steps
  <2>2. /\ req'[r].step = step /\ req'[r].shown = req[r].shown
        /\ \A s \in Requests \ {r} : req'[s] = req[s]
    BY <2>1, GotoChanges DEF IInv
  <2>3. UNCHANGED <<made, family>> /\ revoked \subseteq revoked'
    BY <1>4 DEF Miss, LookUp, Burn, Logout, RefuseAccount, Fail, tokenVars
  <2>4. ~Rotating(r)'
    BY <2>1, <2>2 DEF Rotating
  <2>5. QED
    BY <1>1, <1>2, <2>1, <2>2, <2>3, <2>4, OthersKeepOne
<1>5. ASSUME NEW r \in Requests, Finish(r)
      PROVE  IInv'
  <2>1. req'[r] = Idle /\ \A s \in Requests \ {r} : req'[s] = req[s]
    BY <1>5 DEF Finish, IInv, TypeOK
  <2>2. UNCHANGED <<made, family, revoked>>
    BY <1>5 DEF Finish, tokenVars
  <2>3. ~Rotating(r)' /\ req'[r].shown <= made /\ req'[r].step # "reused"
    BY <1>2, <2>1 DEF Rotating, Idle
  <2>4. QED
    BY <1>1, <2>1, <2>2, <2>3, OthersKeepOne
<1>6. CASE Expire \/ Sweep \/ UNCHANGED authVars
  <2>1. UNCHANGED <<made, family, revoked, req>>
    BY <1>6 DEF Expire, Sweep, authVars, tokenVars
  <2>2. QED
    BY <1>1, <2>1 DEF IInv, FamiliesNamed, RequestsKnown, OneLivePerFamily, Rotating, Unrevoked
<1>7. QED
  BY <1>3, <1>4, <1>5, <1>6, LoginKeepsOne, RotateKeepsOne, ReplaceKeepsOne DEF Next, Handle, Kinds

\* A family has one holder: whatever requests come, and however they
\* interleave, no second token of a session lives beside the first (auth.ts:211-245).
THEOREM RefreshTokensSafe == Spec => [](TypeOK /\ OneLivePerFamily)
<1>1. IInv => TypeOK /\ OneLivePerFamily
  BY DEF IInv
<1>2. QED
  BY <1>1, InitHolds, NextHolds, PTL DEF Spec

-----------------------------------------------------------------------------
(* The browser's steps are steps of the API, or none.                      *)

\* Tab t sends r, a request of some kind with the browser's cookie; the old
\* page's requests may be on their own from now on.
Asks(t, r, kind) ==
    /\ req[r] = Idle
    /\ req' \in [Requests -> Request]
    /\ req'[r].kind = kind /\ req'[r].step = "sent"
    /\ req'[r].shown = cookie /\ req'[r].new = 0
    /\ \A s \in Requests \ {r} : req'[s] = req[s]
    /\ UNCHANGED <<made, family, revoked, aged, swept, cookie>>
    /\ page' \in [Tabs -> Pages] /\ page'[t] \notin {"closed"}
    /\ \A u \in Tabs : page'[u] \in {page[u], "loading"} /\ (u # t => page'[u] = page[u])
    /\ waits' \in [Requests -> Tabs \cup {NoTab}] /\ waits'[r] = t
    /\ \A s \in Requests \ {r} :
        waits'[s] = waits[s] \/ (waits[s] = t /\ page[t] # "closed" /\ waits'[s] = NoTab /\ faults' # 0)
    /\ logins' \in 0..MaxLogins /\ faults' \in 0..MaxFaults /\ faults <= faults'
    /\ kind = "refresh" => InFlight(t) = {} \/ faults' # 0 \/ page[t] = "closed"

LEMMA AskChanges ==
    ASSUME WTypeOK, KindsKept, Awaited, NEW t \in Tabs,
           Load(t) \/ Unauthorized(t) \/ AskToLogIn(t) \/ AskToLogOut(t)
    PROVE  \E r \in Requests, kind \in {"refresh", "login", "logout"} :
               Send(r, kind, cookie) /\ Asks(t, r, kind)
<1>1. cookie \in 0..made /\ TypeOK /\ faults \in Nat /\ MaxFaults \in Nat /\ MaxLogins \in Nat
  BY TokensAssumption, WebAssumption DEF WTypeOK, TypeOK, KindsKept, TokensAssumption, WebAssumption
<1>2. ASSUME NEW r \in Requests, NEW kind \in {"refresh", "login", "logout"}, Send(r, kind, cookie)
      PROVE  /\ req[r] = Idle
             /\ req' \in [Requests -> Request]
             /\ req'[r].kind = kind /\ req'[r].step = "sent"
             /\ req'[r].shown = cookie /\ req'[r].new = 0
             /\ \A s \in Requests \ {r} : req'[s] = req[s]
             /\ UNCHANGED <<made, family, revoked, aged, swept>>
  <2>1. kind \in Kinds
    BY DEF Kinds
  <2>2. UNCHANGED <<made, family, revoked, aged, swept>>
    BY <1>2 DEF Send, tokenVars
  <2>3. QED
    BY <1>1, <1>2, <2>1, <2>2, SendChanges
<1>3. CASE Load(t)
  <2>1. PICK r \in Requests :
            /\ Send(r, "refresh", cookie)
            /\ waits' = [s \in Requests |->
                  IF s = r THEN t ELSE IF waits[s] = t THEN NoTab ELSE waits[s]]
    BY <1>3 DEF Load
  <2>2. /\ page' = [page EXCEPT ![t] = "loading"]
        /\ IF page[t] = "closed" THEN UNCHANGED faults
           ELSE faults < MaxFaults /\ faults' = faults + 1
        /\ UNCHANGED <<cookie, logins>>
    BY <1>3 DEF Load
  <2>3. /\ page' \in [Tabs -> Pages] /\ page'[t] \notin {"closed"}
        /\ \A u \in Tabs : page'[u] \in {page[u], "loading"} /\ (u # t => page'[u] = page[u])
    BY <2>2 DEF WTypeOK, Pages
  <2>4. faults' \in 0..MaxFaults /\ faults <= faults' /\ (page[t] = "closed" \/ faults' # 0)
    BY <1>1, <2>2 DEF WTypeOK
  <2>5. /\ waits' \in [Requests -> Tabs \cup {NoTab}] /\ waits'[r] = t
        /\ \A s \in Requests \ {r} :
            waits'[s] = waits[s] \/ (waits[s] = t /\ page[t] # "closed" /\ waits'[s] = NoTab)
    BY <2>1, WebAssumption DEF WTypeOK, Awaited, WebAssumption
  <2>6. Asks(t, r, "refresh")
    BY <2>1, <1>2, <2>2, <2>3, <2>4, <2>5 DEF WTypeOK, Asks
  <2>7. QED
    BY <2>1, <2>6
<1>4. CASE Unauthorized(t) \/ AskToLogIn(t) \/ AskToLogOut(t)
  <2>1. PICK r \in Requests, kind \in {"refresh", "login", "logout"} :
            /\ Send(r, kind, cookie)
            /\ waits' = [waits EXCEPT ![r] = t]
            /\ kind = "refresh" => InFlight(t) = {}
    BY <1>4 DEF Unauthorized, AskToRefresh, AskToLogIn, AskToLogOut, Ask
  <2>2. UNCHANGED <<cookie, page, faults>> /\ page[t] # "closed"
    BY <1>4 DEF Unauthorized, AskToLogIn, AskToLogOut
  <2>3. logins' \in 0..MaxLogins
    BY <1>1, <1>4 DEF WTypeOK, Unauthorized, AskToLogIn, AskToLogOut
  <2>4. /\ waits' \in [Requests -> Tabs \cup {NoTab}] /\ waits'[r] = t
        /\ \A s \in Requests \ {r} : waits'[s] = waits[s]
    BY <2>1 DEF WTypeOK
  <2>5. QED
    BY <1>1, <2>1, <1>2, <2>2, <2>3, <2>4 DEF WTypeOK, Asks
<1>5. QED
  BY <1>3, <1>4

LEMMA StepOfTokens == WTypeOK /\ KindsKept /\ Awaited /\ [WNext]_vars => [Next]_authVars
<1> SUFFICES ASSUME WTypeOK, KindsKept, Awaited, [WNext]_vars
             PROVE  [Next]_authVars
  OBVIOUS
<1>1. cookie \in 0..made
  BY TokensAssumption DEF WTypeOK, TypeOK, KindsKept, TokensAssumption
<1>2. ASSUME NEW t \in Tabs, Load(t) \/ Unauthorized(t) \/ AskToLogIn(t) \/ AskToLogOut(t)
      PROVE  Next
  <2>1. PICK r \in Requests, kind \in {"refresh", "login", "logout"} : Send(r, kind, cookie)
    BY <1>2, AskChanges
  <2>2. QED
    BY <1>1, <2>1 DEF Next, Kinds
<1>3. ASSUME NEW r \in Requests, Server(r) \/ Reply(r) \/ WFail(r)
      PROVE  Next
  BY <1>3 DEF Server, Reply, WFail, Next
<1>4. ASSUME NEW r \in Requests, Drop(r)
      PROVE  UNCHANGED authVars
  BY <1>4 DEF Drop
<1>5. CASE Time
  BY <1>5 DEF Time, Next
<1>6. CASE UNCHANGED vars
  BY <1>6 DEF vars
<1>7. QED
  BY <1>2, <1>3, <1>4, <1>5, <1>6 DEF WNext

-----------------------------------------------------------------------------
(* What the API's steps change, by what they do to the tokens.             *)

\* r goes on by one step, and nothing else of the requests changes.
Moves(r, step) ==
    /\ req' \in [Requests -> Request]
    /\ req'[r].kind = req[r].kind /\ req'[r].step = step
    /\ req'[r].shown = req[r].shown /\ req'[r].new = req[r].new
    /\ \A s \in Requests \ {r} : req'[s] = req[s]

\* A refresh that learns something of its token, or is refused.
LEMMA QuietChanges ==
    ASSUME TypeOK, KindsKept, NEW r \in Requests, Miss(r) \/ LookUp(r) \/ RefuseAccount(r)
    PROVE  /\ req[r].kind = "refresh" /\ req[r].step \in {"sent", "missed", "rotated"}
           /\ \E step \in {"missed", "reused", "refused"} :
                Moves(r, step) /\ (step # "refused" => req[r].step # "rotated")
           /\ UNCHANGED <<made, family, revoked>>
<1>1. PICK step \in {"missed", "reused", "refused"} :
          Goto(r, step) /\ (step # "refused" => req[r].step # "rotated")
  BY DEF Miss, LookUp, RefuseAccount
<1>2. Moves(r, step)
  BY <1>1, GotoChanges DEF Moves, Steps
<1>3. /\ req[r].kind = "refresh" /\ req[r].step \in {"sent", "missed", "rotated"}
      /\ UNCHANGED <<made, family, revoked>>
  BY DEF Miss, LookUp, RefuseAccount, Rotating, KindsKept, tokenVars
<1>4. QED
  BY <1>1, <1>2, <1>3

LEMMA RevokingChanges ==
    ASSUME TypeOK, KindsKept, NEW r \in Requests, Rotate(r) \/ Burn(r) \/ Logout(r)
    PROVE  /\ UNCHANGED <<made, family>> /\ revoked \subseteq revoked'
           /\ req[r].kind \in {"refresh", "logout"}
           /\ \/ /\ Rotate(r) /\ Moves(r, "rotated")
                 /\ req[r].kind = "refresh" /\ req[r].step = "sent"
                 /\ revoked' = revoked \cup {req[r].shown}
              \/ /\ Burn(r) /\ Moves(r, "burnt")
                 /\ req[r].kind = "refresh" /\ req[r].step = "reused"
                 /\ revoked' = revoked \cup {n \in 1..made : family[n] = family[req[r].shown]}
              \/ /\ Logout(r) /\ Moves(r, "ok")
                 /\ req[r].kind = "logout" /\ req[r].step = "sent"
                 /\ revoked' = revoked \cup ({req[r].shown} \cap 1..made)
<1>1. CASE Rotate(r)
  BY <1>1, GotoChanges DEF Rotate, Moves, Steps
<1>2. CASE Burn(r)
  BY <1>2, GotoChanges DEF Burn, Moves, Steps, KindsKept
<1>3. CASE Logout(r)
  BY <1>3, GotoChanges DEF Logout, Moves, Steps
<1>4. QED
  BY <1>1, <1>2, <1>3

\* r creates a token in family f, and is about to hand it out.
Creates(r, f) ==
    /\ made + 1 \in Tokens /\ made' = made + 1
    /\ family'[made + 1] = f
    /\ \A n \in Tokens \ {made + 1} : family'[n] = family[n]
    /\ UNCHANGED revoked
    /\ req' \in [Requests -> Request]
    /\ req'[r].kind = req[r].kind /\ req'[r].step = "ok"
    /\ req'[r].shown = req[r].shown /\ req'[r].new = made + 1
    /\ \A s \in Requests \ {r} : req'[s] = req[s]

LEMMA CreatingChanges ==
    ASSUME IInv, NEW r \in Requests, Login(r) \/ Replace(r)
    PROVE  \/ /\ req[r].kind = "login" /\ req[r].step = "sent"
              /\ Creates(r, made + 1)
           \/ /\ req[r].kind = "refresh" /\ req[r].step = "rotated"
              /\ req[r].shown \in 1..made
              /\ Creates(r, family[req[r].shown])
<1>1. CASE Login(r)
  <2>1. Create(r, made + 1) /\ made + 1 \in 0..MaxTokens
    BY <1>1, TokensAssumption DEF Login, Create, IInv, TypeOK, TokensAssumption
  <2>2. Creates(r, made + 1)
    BY <2>1, CreateChanges DEF IInv, Creates, Create
  <2>3. QED
    BY <1>1, <2>2 DEF Login
<1>2. CASE Replace(r)
  <2>1. Rotating(r) /\ req[r].shown \in Tokens /\ req[r].shown \in 1..made
    BY <1>2, ShownExists DEF IInv, Replace
  <2>2. Create(r, family[req[r].shown]) /\ family[req[r].shown] \in 0..MaxTokens
    BY <1>2, <2>1 DEF Replace, IInv, TypeOK
  <2>3. Creates(r, family[req[r].shown])
    BY <2>2, CreateChanges DEF IInv, Creates, Create
  <2>4. QED
    BY <2>1, <2>3 DEF Rotating
<1>3. QED
  BY <1>1, <1>2

\* r's answer has left: the browser obeys it if a tab still waits for it.
LEMMA ReplyChanges ==
    ASSUME WTypeOK, KindsKept, Awaited, NEW r \in Requests, Reply(r)
    PROVE  /\ req[r] # Idle /\ req[r].step # "rotated"
           /\ req' \in [Requests -> Request] /\ req'[r] = Idle
           /\ \A s \in Requests \ {r} : req'[s] = req[s]
           /\ UNCHANGED <<made, family, revoked, aged, swept, logins, faults>>
           /\ waits' \in [Requests -> Tabs \cup {NoTab}] /\ waits'[r] = NoTab
           /\ \A s \in Requests \ {r} : waits'[s] = waits[s]
           /\ cookie' \in {cookie, 0} \/ (Handing(r) /\ cookie' = req[r].new)
           /\ Handing(r) /\ waits[r] # NoTab => cookie' = req[r].new
           /\ page' \in [Tabs -> Pages]
           /\ \A u \in Tabs : u # waits[r] => page'[u] = page[u]
           /\ waits[r] # NoTab =>
                /\ page'[waits[r]] # "closed"
                /\ page'[waits[r]] = "app" => Handing(r) \/ req[r].step = "failed"
<1>1. /\ req[r] \in Request /\ Answered(r)
      /\ req' = [req EXCEPT ![r] = Idle]
      /\ UNCHANGED <<made, family, revoked, aged, swept, logins, faults>>
      /\ waits' = [waits EXCEPT ![r] = NoTab]
      /\ IF waits[r] = NoTab THEN UNCHANGED <<cookie, page>>
         ELSE /\ cookie' = Obey(r)
              /\ page' = [page EXCEPT ![waits[r]] = Store(r, waits[r])]
  BY DEF Reply, Finish, tokenVars, WTypeOK, TypeOK
<1>2. Idle \in Request /\ Idle.step = "idle"
  BY TokensAssumption DEF Idle, Request, Kinds, Steps, TokensAssumption
<1>3. req[r].step \in {"refused", "burnt", "ok", "failed"} /\ req[r] # Idle
  BY <1>1, <1>2 DEF Answered, Refused
<1>4. req[r].kind \in {"login", "refresh", "logout"}
  BY <1>1, <1>3 DEF KindsKept, Request, Kinds
<1>5. /\ req' \in [Requests -> Request] /\ req'[r] = Idle
      /\ \A s \in Requests \ {r} : req'[s] = req[s]
  BY <1>1, <1>2 DEF WTypeOK, TypeOK
<1>6. /\ waits' \in [Requests -> Tabs \cup {NoTab}] /\ waits'[r] = NoTab
      /\ \A s \in Requests \ {r} : waits'[s] = waits[s]
  BY <1>1 DEF WTypeOK
<1>7. IF Handing(r) THEN Obey(r) = req[r].new ELSE Obey(r) \in {cookie, 0}
  BY <1>3, <1>4 DEF Obey, Handing, Refused
<1>8. ASSUME waits[r] # NoTab
      PROVE  /\ Store(r, waits[r]) \in Pages /\ Store(r, waits[r]) # "closed"
             /\ Store(r, waits[r]) = "app" => Handing(r) \/ req[r].step = "failed"
  <2>1. waits[r] \in Tabs /\ page[waits[r]] \in Pages /\ page[waits[r]] # "closed"
    BY <1>8 DEF WTypeOK, Awaited
  <2>2. CASE req[r].kind = "login" /\ req[r].step # "ok"
    <3>1. req[r].step = "failed"
      BY <1>3, <2>2 DEF KindsKept
    <3>2. Store(r, waits[r]) = page[waits[r]]
      BY <2>2 DEF Store
    <3>3. QED
      BY <2>1, <3>1, <3>2
  <2>3. CASE ~(req[r].kind = "login" /\ req[r].step # "ok")
    BY <1>4, <2>3 DEF Store, Handing, Pages
  <2>4. QED
    BY <2>2, <2>3
<1>9. CASE waits[r] = NoTab
  BY <1>1, <1>3, <1>5, <1>6, <1>9, WebAssumption DEF WTypeOK
<1>10. CASE waits[r] # NoTab
  <2>1. waits[r] \in Tabs
    BY <1>10 DEF WTypeOK
  <2>2. /\ page' \in [Tabs -> Pages] /\ page'[waits[r]] = Store(r, waits[r])
        /\ \A u \in Tabs : u # waits[r] => page'[u] = page[u]
    BY <1>1, <1>8, <1>10, <2>1 DEF WTypeOK
  <2>3. QED
    BY <1>1, <1>3, <1>5, <1>6, <1>7, <1>8, <1>10, <2>2
<1>11. QED
  BY <1>9, <1>10

-----------------------------------------------------------------------------
(* The browser's invariant, one part at a time.                            *)

\* The steps of the composition, by the lemma that tells what they change.
\* At the end those that lose something: they cost a fault.
LEMMA StepKinds ==
    ASSUME WIInv, [WNext]_vars
    PROVE  \/ \E t \in Tabs, r \in Requests, kind \in {"refresh", "login", "logout"} : Asks(t, r, kind)
           \/ \E r \in Requests :
                \/ (Miss(r) \/ LookUp(r) \/ RefuseAccount(r)) /\ UNCHANGED webVars
                \/ (Rotate(r) \/ Burn(r) \/ Logout(r)) /\ UNCHANGED webVars
                \/ (Login(r) \/ Replace(r)) /\ UNCHANGED webVars
                \/ Reply(r)
           \/ UNCHANGED <<made, family, revoked, req, webVars>>
           \/ /\ faults' = faults + 1 /\ UNCHANGED <<made, family, revoked, cookie, logins>>
              /\ \E r \in Requests :
                   \/ Drop(r)
                   \/ req[r] # Idle /\ Moves(r, "failed") /\ UNCHANGED <<page, waits>>
<1>1. CASE \E t \in Tabs : Load(t) \/ Unauthorized(t) \/ AskToLogIn(t) \/ AskToLogOut(t)
  BY <1>1, AskChanges DEF WIInv
<1>2. CASE \E r \in Requests : Server(r) \/ Reply(r)
  BY <1>2 DEF Server, Handle
<1>3. ASSUME NEW r \in Requests, Drop(r)
      PROVE  faults' = faults + 1 /\ UNCHANGED <<made, family, revoked, cookie, logins>>
  BY <1>3 DEF Drop, authVars, tokenVars
<1>4. ASSUME NEW r \in Requests, WFail(r)
      PROVE  /\ faults' = faults + 1 /\ UNCHANGED <<made, family, revoked, cookie, logins>>
             /\ req[r] # Idle /\ Moves(r, "failed") /\ UNCHANGED <<page, waits>>
  BY <1>4, GotoChanges DEF WFail, Fail, tokenVars, Moves, Steps, WIInv, IInv
<1>5. CASE Time \/ UNCHANGED vars
  BY <1>5 DEF Time, Expire, Sweep, vars, authVars, tokenVars, webVars
<1>6. QED
  BY <1>1, <1>2, <1>3, <1>4, <1>5 DEF WNext

LEMMA WTyped == WIInv /\ [WNext]_vars => WTypeOK' /\ IInv' /\ faults' >= faults
<1> SUFFICES ASSUME WIInv, [WNext]_vars
             PROVE  WTypeOK' /\ IInv' /\ faults' >= faults
  OBVIOUS
<1>1. IInv'
  BY StepOfTokens, NextHolds DEF WIInv
<1>2. TypeOK'
  BY <1>1 DEF IInv
<1>3. /\ cookie \in 0..MaxTokens /\ page \in [Tabs -> Pages] /\ waits \in [Requests -> Tabs \cup {NoTab}]
      /\ logins \in 0..MaxLogins /\ faults \in 0..MaxFaults /\ faults \in Nat /\ MaxFaults \in Nat
  BY WebAssumption DEF WIInv, WTypeOK, WebAssumption
<1>4. CASE \E t \in Tabs, r \in Requests, kind \in {"refresh", "login", "logout"} : Asks(t, r, kind)
  BY <1>1, <1>2, <1>3, <1>4 DEF Asks, WTypeOK
<1>5. CASE UNCHANGED webVars
  BY <1>1, <1>2, <1>3, <1>5 DEF webVars, WTypeOK
<1>6. ASSUME NEW r \in Requests, Reply(r)
      PROVE  WTypeOK' /\ faults' >= faults
  <2>1. req[r].new \in 0..MaxTokens
    BY DEF WIInv, WTypeOK, TypeOK, Request
  <2>2. cookie' \in 0..MaxTokens
    BY <1>3, <1>6, <2>1, ReplyChanges, TokensAssumption DEF WIInv, TokensAssumption
  <2>3. QED
    BY <1>2, <1>3, <1>6, <2>2, ReplyChanges DEF WIInv, WTypeOK
<1>7. ASSUME NEW r \in Requests, Drop(r) \/ WFail(r)
      PROVE  WTypeOK' /\ faults' >= faults
  <2>1. faults' = faults + 1 /\ faults < MaxFaults /\ UNCHANGED <<cookie, logins>>
    BY <1>7 DEF Drop, WFail
  <2>2. page' \in [Tabs -> Pages] /\ waits' \in [Requests -> Tabs \cup {NoTab}]
    BY <1>3, <1>7 DEF Drop, WFail, Pages
  <2>3. QED
    BY <1>2, <1>3, <2>1, <2>2 DEF WTypeOK
<1>8. QED
  <2>1. CASE \E t \in Tabs : Load(t) \/ Unauthorized(t) \/ AskToLogIn(t) \/ AskToLogOut(t)
    BY <1>1, <1>4, <2>1, AskChanges DEF WIInv
  <2>2. CASE Time \/ (\E r \in Requests : Server(r)) \/ UNCHANGED vars
    BY <1>1, <1>5, <2>2 DEF Time, Server, vars
  <2>3. QED
    BY <1>1, <1>6, <1>7, <2>1, <2>2 DEF WNext

LEMMA KindsStay == WIInv /\ [WNext]_vars => KindsKept'
<1> SUFFICES ASSUME WIInv, [WNext]_vars
             PROVE  KindsKept'
  OBVIOUS
<1> DEFINE Kind(r) == /\ req[r].new <= made
                      /\ req[r].kind = "none" => req[r] = Idle
                      /\ req[r].step \in {"missed", "reused", "refused", "burnt"} => req[r].kind = "refresh"
<1>1. cookie <= made /\ \A r \in Requests : Kind(r)
  BY DEF WIInv, KindsKept
<1>2. made \in Nat /\ cookie \in Nat /\ \A r \in Requests : req[r] \in Request /\ req[r].new \in Nat
  BY TokensAssumption DEF WIInv, WTypeOK, TypeOK, Request, TokensAssumption
<1>3. Idle.new = 0 /\ Idle.step = "idle" /\ Idle.kind = "none"
  BY DEF Idle
<1>4. SUFFICES cookie' <= made' /\ \A r \in Requests : Kind(r)'
  BY DEF KindsKept
<1>5. ASSUME NEW r \in Requests, NEW step \in Steps, Moves(r, step), UNCHANGED <<made, cookie>>,
             step \in {"missed", "reused", "refused", "burnt"} => req[r].kind = "refresh",
             req[r] # Idle
      PROVE  cookie' <= made' /\ \A s \in Requests : Kind(s)'
  BY <1>1, <1>5 DEF Moves
<1>6. CASE \E t \in Tabs, r \in Requests, kind \in {"refresh", "login", "logout"} : Asks(t, r, kind)
  <2>1. PICK t \in Tabs, r \in Requests, kind \in {"refresh", "login", "logout"} : Asks(t, r, kind)
    BY <1>6
  <2>2. cookie' <= made' /\ \A s \in Requests \ {r} : Kind(s)'
    BY <1>1, <2>1 DEF Asks
  <2>3. Kind(r)'
    BY <1>2, <2>1 DEF Asks
  <2>4. QED
    BY <2>2, <2>3
<1>7. ASSUME NEW r \in Requests, Miss(r) \/ LookUp(r) \/ RefuseAccount(r), UNCHANGED webVars
      PROVE  cookie' <= made' /\ \A s \in Requests : Kind(s)'
  <2>1. PICK step \in {"missed", "reused", "refused"} : Moves(r, step)
    BY <1>7, QuietChanges DEF WIInv, WTypeOK
  <2>2. req[r].kind = "refresh" /\ UNCHANGED made
    BY <1>7, QuietChanges DEF WIInv, WTypeOK
  <2>3. QED
    BY <1>3, <1>5, <1>7, <2>1, <2>2 DEF Steps, webVars
<1>8. ASSUME NEW r \in Requests, Rotate(r) \/ Burn(r) \/ Logout(r), UNCHANGED webVars
      PROVE  cookie' <= made' /\ \A s \in Requests : Kind(s)'
  <2>1. PICK step \in {"rotated", "burnt", "ok"} :
            Moves(r, step) /\ (step = "burnt" => req[r].kind = "refresh")
    BY <1>8, RevokingChanges DEF WIInv, WTypeOK
  <2>2. req[r].kind # "none" /\ UNCHANGED made
    BY <1>8, RevokingChanges DEF WIInv, WTypeOK
  <2>3. QED
    BY <1>3, <1>5, <1>8, <2>1, <2>2 DEF Steps, webVars
<1>9. ASSUME NEW r \in Requests, Login(r) \/ Replace(r), UNCHANGED webVars
      PROVE  cookie' <= made' /\ \A s \in Requests : Kind(s)'
  <2>1. /\ req[r].kind \in {"login", "refresh"}
        /\ \E f : Creates(r, f)
    BY <1>9, CreatingChanges DEF WIInv
  <2>2. \A s \in Requests \ {r} : Kind(s)'
    BY <1>1, <1>2, <2>1 DEF Creates
  <2>3. Kind(r)' /\ cookie' <= made'
    BY <1>1, <1>2, <1>9, <2>1 DEF Creates, webVars
  <2>4. QED
    BY <2>2, <2>3
<1>10. ASSUME NEW r \in Requests, Reply(r)
       PROVE  cookie' <= made' /\ \A s \in Requests : Kind(s)'
  <2>1. cookie' <= made'
    BY <1>1, <1>2, <1>10, ReplyChanges DEF WIInv
  <2>2. \A s \in Requests \ {r} : Kind(s)'
    BY <1>1, <1>10, ReplyChanges DEF WIInv
  <2>3. Kind(r)'
    BY <1>2, <1>3, <1>10, ReplyChanges DEF WIInv
  <2>4. QED
    BY <2>1, <2>2, <2>3
<1>11. ASSUME NEW r \in Requests, UNCHANGED <<made, cookie>>,
              Drop(r) \/ (req[r] # Idle /\ Moves(r, "failed"))
       PROVE  cookie' <= made' /\ \A s \in Requests : Kind(s)'
  <2>1. CASE Drop(r)
    BY <1>1, <1>11, <2>1 DEF Drop, authVars
  <2>2. CASE req[r] # Idle /\ Moves(r, "failed")
    BY <1>5, <1>11, <2>2 DEF Steps
  <2>3. QED
    BY <1>11, <2>1, <2>2
<1>12. CASE UNCHANGED <<made, family, revoked, req, webVars>>
  BY <1>1, <1>12 DEF webVars
<1>13. QED
  BY <1>6, <1>7, <1>8, <1>9, <1>10, <1>11, <1>12, StepKinds

LEMMA AwaitedStays == WIInv /\ [WNext]_vars => Awaited'
<1> SUFFICES ASSUME WIInv, [WNext]_vars
             PROVE  Awaited'
  OBVIOUS
<1>1. /\ waits \in [Requests -> Tabs \cup {NoTab}] /\ page \in [Tabs -> Pages] /\ faults \in Nat
      /\ faults' \in Nat
  BY WTyped, WebAssumption DEF WIInv, WTypeOK, WebAssumption
<1>2. /\ \A r \in Requests : waits[r] # NoTab => waits[r] \in Tabs /\ page[waits[r]] # "closed"
      /\ faults = 0 => \A r \in Requests : req[r] # Idle => waits[r] # NoTab /\ req[r].step # "failed"
  BY <1>1 DEF WIInv, Awaited
<1>3. Idle.step = "idle"
  BY DEF Idle
<1>4. ASSUME NEW r \in Requests, NEW step \in Steps \ {"failed"}, Moves(r, step), req[r] # Idle,
             UNCHANGED webVars
      PROVE  Awaited'
  BY <1>2, <1>4 DEF Moves, webVars, Awaited
<1>5. CASE \E t \in Tabs, r \in Requests, kind \in {"refresh", "login", "logout"} : Asks(t, r, kind)
  <2>1. PICK t \in Tabs, r \in Requests, kind \in {"refresh", "login", "logout"} : Asks(t, r, kind)
    BY <1>5
  <2>2. \A s \in Requests : waits'[s] # NoTab => page'[waits'[s]] # "closed"
    BY <1>1, <1>2, <2>1 DEF Asks
  <2>3. ASSUME faults' = 0, NEW s \in Requests, req'[s] # Idle
        PROVE  waits'[s] # NoTab /\ req'[s].step # "failed"
    <3>1. faults = 0
      BY <1>1, <2>1, <2>3 DEF Asks
    <3>2. CASE s = r
      BY <2>1, <3>2, WebAssumption DEF Asks, WebAssumption
    <3>3. CASE s # r
      BY <1>2, <2>1, <2>3, <3>1, <3>3 DEF Asks
    <3>4. QED
      BY <3>2, <3>3
  <2>4. QED
    BY <2>2, <2>3 DEF Awaited
<1>6. ASSUME NEW r \in Requests, Miss(r) \/ LookUp(r) \/ RefuseAccount(r), UNCHANGED webVars
      PROVE  Awaited'
  <2>1. PICK step \in {"missed", "reused", "refused"} : Moves(r, step)
    BY <1>6, QuietChanges DEF WIInv, WTypeOK
  <2>2. req[r].step \in {"sent", "missed", "rotated"}
    BY <1>6, QuietChanges DEF WIInv, WTypeOK
  <2>3. QED
    BY <1>3, <1>4, <1>6, <2>1, <2>2 DEF Steps
<1>7. ASSUME NEW r \in Requests, Rotate(r) \/ Burn(r) \/ Logout(r), UNCHANGED webVars
      PROVE  Awaited'
  <2>1. PICK step \in {"rotated", "burnt", "ok"} : Moves(r, step)
    BY <1>7, RevokingChanges DEF WIInv, WTypeOK
  <2>2. req[r].step \in {"sent", "reused"}
    BY <1>7, RevokingChanges DEF WIInv, WTypeOK
  <2>3. QED
    BY <1>3, <1>4, <1>7, <2>1, <2>2 DEF Steps
<1>8. ASSUME NEW r \in Requests, Login(r) \/ Replace(r), UNCHANGED webVars
      PROVE  Awaited'
  <2>1. /\ req[r].step \in {"sent", "rotated"} /\ req'[r].step = "ok"
        /\ \A s \in Requests \ {r} : req'[s] = req[s]
    BY <1>8, CreatingChanges DEF WIInv, Creates
  <2>2. QED
    BY <1>2, <1>3, <1>8, <2>1 DEF webVars, Awaited
<1>9. ASSUME NEW r \in Requests, Reply(r)
      PROVE  Awaited'
  <2>1. /\ req'[r] = Idle /\ waits'[r] = NoTab
        /\ \A s \in Requests \ {r} : req'[s] = req[s] /\ waits'[s] = waits[s]
        /\ \A u \in Tabs : u # waits[r] => page'[u] = page[u]
        /\ waits[r] # NoTab => page'[waits[r]] # "closed"
        /\ faults' = faults
    BY <1>9, ReplyChanges DEF WIInv
  <2>2. QED
    BY <1>2, <2>1 DEF Awaited
<1>10. ASSUME NEW r \in Requests, faults' = faults + 1,
              Drop(r) \/ UNCHANGED <<page, waits>>
       PROVE  Awaited'
  <2>1. \A s \in Requests : waits'[s] # NoTab => page'[waits'[s]] # "closed"
    BY <1>1, <1>2, <1>10 DEF Drop
  <2>2. faults' # 0
    BY <1>1, <1>10
  <2>3. QED
    BY <2>1, <2>2 DEF Awaited
<1>11. CASE UNCHANGED <<made, family, revoked, req, webVars>>
  BY <1>2, <1>11 DEF webVars, Awaited
<1>12. QED
  BY <1>5, <1>6, <1>7, <1>8, <1>9, <1>10, <1>11, StepKinds

\* What keeps undelivered tokens so: none is made or delivered, and the
\* browser sends only its cookie.
LEMMA UndeliveredKept ==
    ASSUME WIInv, UNCHANGED <<made, family>>, cookie' \in {cookie, 0},
           \A s \in Requests : Handing(s)' => Handing(s) /\ req'[s] = req[s],
           \A s \in Requests : req'[s].shown \in {req[s].shown, cookie, 0} /\ req'[s].new \in {req[s].new, 0}
    PROVE  Undelivered'
<1> SUFFICES ASSUME NEW r \in Requests, Handing(r)'
             PROVE  /\ req'[r].new \in 1..made'
                    /\ req'[r].new # cookie'
                    /\ \A s \in Requests : req'[s].shown # req'[r].new
                    /\ \A s \in Requests \ {r} : req'[s].new # req'[r].new
                    /\ IF req'[r].kind = "login"
                       THEN \A n \in 1..made' : family'[n] = family'[req'[r].new] => n = req'[r].new
                       ELSE req'[r].shown \in 1..made' /\ family'[req'[r].shown] = family'[req'[r].new]
  BY DEF Undelivered
<1>1. /\ req[r].new \in 1..made /\ req[r].new # cookie
      /\ \A s \in Requests : req[s].shown # req[r].new
      /\ \A s \in Requests \ {r} : req[s].new # req[r].new
      /\ IF req[r].kind = "login"
         THEN \A n \in 1..made : family[n] = family[req[r].new] => n = req[r].new
         ELSE req[r].shown \in 1..made /\ family[req[r].shown] = family[req[r].new]
  BY DEF WIInv, Undelivered
<1>2. req[r].new # 0
  BY <1>1
<1>3. req'[r] = req[r]
  OBVIOUS
<1>4. QED
  BY <1>1, <1>2, <1>3

LEMMA UndeliveredStays == WIInv /\ [WNext]_vars => Undelivered'
<1> SUFFICES ASSUME WIInv, [WNext]_vars
             PROVE  Undelivered'
  OBVIOUS
<1>1. /\ made \in Nat /\ MaxTokens \in Nat /\ cookie \in Nat /\ cookie <= made
      /\ \A s \in Requests : /\ req[s].shown \in Nat /\ req[s].shown <= made
                           /\ req[s].new \in Nat /\ req[s].new <= made
  BY TokensAssumption
     DEF WIInv, WTypeOK, TypeOK, IInv, RequestsKnown, KindsKept, Request, TokensAssumption
<1>2. ASSUME NEW r \in Requests, NEW step \in Steps, Moves(r, step), UNCHANGED <<made, family, cookie>>,
             step = "ok" => req[r].kind = "logout"
      PROVE  Undelivered'
  <2>1. \A s \in Requests : req'[s].shown = req[s].shown /\ req'[s].new = req[s].new
    BY <1>2 DEF Moves
  <2>2. ~Handing(r)'
    BY <1>2 DEF Moves, Handing
  <2>3. \A s \in Requests : Handing(s)' => Handing(s) /\ req'[s] = req[s]
    BY <1>2, <2>2 DEF Moves, Handing
  <2>4. QED
    BY <1>2, <2>1, <2>3, UndeliveredKept
<1>3. CASE \E t \in Tabs, r \in Requests, kind \in {"refresh", "login", "logout"} : Asks(t, r, kind)
  <2>1. PICK t \in Tabs, r \in Requests, kind \in {"refresh", "login", "logout"} : Asks(t, r, kind)
    BY <1>3
  <2>2. \A s \in Requests : Handing(s)' => Handing(s) /\ req'[s] = req[s]
    BY <2>1 DEF Asks, Handing
  <2>3. \A s \in Requests : req'[s].shown \in {req[s].shown, cookie, 0} /\ req'[s].new \in {req[s].new, 0}
    BY <2>1 DEF Asks
  <2>4. UNCHANGED <<made, family, cookie>>
    BY <2>1 DEF Asks
  <2>5. QED
    BY <2>2, <2>3, <2>4, UndeliveredKept
<1>4. ASSUME NEW r \in Requests, Miss(r) \/ LookUp(r) \/ RefuseAccount(r), UNCHANGED webVars
      PROVE  Undelivered'
  BY <1>2, <1>4, QuietChanges DEF WIInv, WTypeOK, Steps, webVars
<1>5. ASSUME NEW r \in Requests, Rotate(r) \/ Burn(r) \/ Logout(r), UNCHANGED webVars
      PROVE  Undelivered'
  BY <1>2, <1>5, RevokingChanges DEF WIInv, WTypeOK, Steps, webVars
<1>6. ASSUME NEW r \in Requests, NEW f, Creates(r, f), UNCHANGED webVars,
             \/ req[r].kind = "login" /\ f = made + 1
             \/ /\ req[r].kind = "refresh" /\ req[r].step = "rotated"
                /\ req[r].shown \in 1..made /\ f = family[req[r].shown]
      PROVE  Undelivered'
  <2>1. \A n \in 1..made : n \in Tokens /\ family'[n] = family[n] /\ family[n] # made + 1
    BY <1>1, <1>6 DEF Creates, WIInv, IInv, FamiliesNamed, Tokens
  <2>2. \A s \in Requests : req'[s].shown = req[s].shown
    BY <1>6 DEF Creates
  <2>3. cookie' = cookie /\ made' = made + 1
    BY <1>6 DEF webVars, Creates
  <2> SUFFICES ASSUME NEW s \in Requests, Handing(s)'
               PROVE  /\ req'[s].new \in 1..made'
                      /\ req'[s].new # cookie'
                      /\ \A q \in Requests : req'[q].shown # req'[s].new
                      /\ \A q \in Requests \ {s} : req'[q].new # req'[s].new
                      /\ IF req'[s].kind = "login"
                         THEN \A n \in 1..made' : family'[n] = family'[req'[s].new] => n = req'[s].new
                         ELSE req'[s].shown \in 1..made' /\ family'[req'[s].shown] = family'[req'[s].new]
    BY DEF Undelivered
  <2>4. CASE s = r
    <3>1. req'[r].new = made + 1 /\ req'[r].kind = req[r].kind /\ family'[made + 1] = f
      BY <1>6 DEF Creates
    <3>2. \A q \in Requests \ {r} : req'[q].new = req[q].new
      BY <1>6 DEF Creates
    <3>3. req'[r].kind = "login" => \A n \in 1..made' : family'[n] = family'[made + 1] => n = made + 1
      BY <1>1, <1>6, <2>1, <2>3, <3>1
    <3>4. req'[r].kind # "login" => req'[r].shown \in 1..made' /\ family'[req'[r].shown] = family'[made + 1]
      BY <1>1, <1>6, <2>1, <2>2, <2>3, <3>1
    <3>5. QED
      BY <1>1, <2>2, <2>3, <2>4, <3>1, <3>2, <3>3, <3>4
  <2>5. CASE s # r
    <3>1. req'[s] = req[s] /\ Handing(s)
      BY <1>6, <2>5 DEF Creates, Handing
    <3>2. /\ req[s].new \in 1..made /\ req[s].new # cookie
          /\ \A q \in Requests : req[q].shown # req[s].new
          /\ \A q \in Requests \ {s} : req[q].new # req[s].new
          /\ IF req[s].kind = "login"
             THEN \A n \in 1..made : family[n] = family[req[s].new] => n = req[s].new
             ELSE req[s].shown \in 1..made /\ family[req[s].shown] = family[req[s].new]
      BY <3>1 DEF WIInv, Undelivered
    <3>3. \A q \in Requests \ {s} : req'[q].new # req[s].new
      BY <1>1, <1>6, <3>2 DEF Creates
    <3>4. req[s].kind = "login" => \A n \in 1..made' : family'[n] = family'[req[s].new] => n = req[s].new
      <4>1. SUFFICES ASSUME req[s].kind = "login", family'[made + 1] = family'[req[s].new]
                     PROVE  FALSE
        BY <1>1, <2>1, <2>3, <3>2
      <4>2. f = family[req[s].new]
        BY <1>6, <2>1, <3>2, <4>1 DEF Creates
      <4>3. QED
        BY <1>6, <2>1, <3>2, <4>1, <4>2
    <3>5. QED
      BY <1>1, <2>1, <2>2, <2>3, <3>1, <3>2, <3>3, <3>4
  <2>6. QED
    BY <2>4, <2>5
<1>7. ASSUME NEW r \in Requests, Reply(r)
      PROVE  Undelivered'
  <2>1. /\ UNCHANGED <<made, family>>
        /\ req'[r] = Idle /\ \A s \in Requests \ {r} : req'[s] = req[s]
        /\ cookie' \in {cookie, 0} \/ (Handing(r) /\ cookie' = req[r].new)
    BY <1>7, ReplyChanges DEF WIInv
  <2>2. Idle.shown = 0 /\ Idle.new = 0 /\ Idle.step = "idle"
    BY DEF Idle
  <2>3. \A s \in Requests : Handing(s)' => s # r /\ Handing(s) /\ req'[s] = req[s]
    BY <2>1, <2>2 DEF Handing
  <2>4. \A s \in Requests : req'[s].shown \in {req[s].shown, cookie, 0} /\ req'[s].new \in {req[s].new, 0}
    BY <2>1, <2>2
  <2>5. CASE cookie' \in {cookie, 0}
    BY <2>1, <2>3, <2>4, <2>5, UndeliveredKept
  <2>6. CASE Handing(r) /\ cookie' = req[r].new
    <3> SUFFICES ASSUME NEW s \in Requests, Handing(s)'
                 PROVE  /\ req'[s].new \in 1..made'
                        /\ req'[s].new # cookie'
                        /\ \A q \in Requests : req'[q].shown # req'[s].new
                        /\ \A q \in Requests \ {s} : req'[q].new # req'[s].new
                        /\ IF req'[s].kind = "login"
                           THEN \A n \in 1..made' : family'[n] = family'[req'[s].new] => n = req'[s].new
                           ELSE req'[s].shown \in 1..made' /\ family'[req'[s].shown] = family'[req'[s].new]
      BY DEF Undelivered
    <3>1. s # r /\ Handing(s) /\ req'[s] = req[s]
      BY <2>3
    <3>2. /\ req[s].new \in 1..made
          /\ \A q \in Requests : req[q].shown # req[s].new
          /\ \A q \in Requests \ {s} : req[q].new # req[s].new
          /\ IF req[s].kind = "login"
             THEN \A n \in 1..made : family[n] = family[req[s].new] => n = req[s].new
             ELSE req[s].shown \in 1..made /\ family[req[s].shown] = family[req[s].new]
      BY <3>1 DEF WIInv, Undelivered
    <3>3. req[s].new # 0 /\ req[s].new # cookie'
      BY <2>6, <3>1, <3>2
    <3>4. QED
      BY <2>1, <2>2, <3>1, <3>2, <3>3
  <2>7. QED
    BY <2>1, <2>5, <2>6
<1>8. ASSUME NEW r \in Requests, UNCHANGED <<made, family, revoked, cookie>>,
             Drop(r) \/ Moves(r, "failed")
      PROVE  Undelivered'
  <2>1. CASE Drop(r)
    <3>1. req' = req
      BY <2>1 DEF Drop, authVars
    <3>2. QED
      BY <1>8, <3>1, UndeliveredKept DEF Handing
  <2>2. CASE Moves(r, "failed")
    BY <1>2, <1>8, <2>2 DEF Steps
  <2>3. QED
    BY <1>8, <2>1, <2>2
<1>9. CASE UNCHANGED <<made, family, revoked, req, webVars>>
  BY <1>9, UndeliveredKept DEF webVars, Handing
<1>10. QED
  <2>1. ASSUME NEW r \in Requests, Login(r) \/ Replace(r), UNCHANGED webVars
        PROVE  Undelivered'
    BY <1>6, <2>1, CreatingChanges DEF WIInv
  <2>2. QED
    BY <1>3, <1>4, <1>5, <1>7, <1>8, <1>9, <2>1, StepKinds

\* No holder is added, and no token comes to life.
LEMMA HandingKept ==
    ASSUME WIInv, UNCHANGED <<made, family>>, revoked \subseteq revoked',
           \A s \in Requests : Handing(s)' => Handing(s) /\ req'[s] = req[s],
           \A s \in Requests : Rotating(s)' => Rotating(s) /\ req'[s] = req[s]
    PROVE  HandingHolds'
<1> SUFFICES ASSUME NEW r \in Requests, Handing(r)'
             PROVE  /\ \A n \in 1..made' :
                        Unrevoked(n)' /\ family'[n] = family'[req'[r].new] => n = req'[r].new
                    /\ \A s \in Requests :
                        Rotating(s)' => family'[req'[s].shown] # family'[req'[r].new]
  BY DEF HandingHolds
<1>1. /\ Handing(r) /\ req'[r] = req[r]
      /\ \A n \in 1..made : Unrevoked(n) /\ family[n] = family[req[r].new] => n = req[r].new
      /\ \A s \in Requests : Rotating(s) => family[req[s].shown] # family[req[r].new]
  BY DEF WIInv, HandingHolds
<1>2. \A n \in 1..made : Unrevoked(n)' => Unrevoked(n)
  BY DEF Unrevoked
<1>3. QED
  BY <1>1, <1>2

LEMMA HandingStays == WIInv /\ [WNext]_vars => HandingHolds'
<1> SUFFICES ASSUME WIInv, [WNext]_vars
             PROVE  HandingHolds'
  OBVIOUS
<1>1. made \in Nat /\ MaxTokens \in Nat
  BY TokensAssumption DEF WIInv, WTypeOK, TypeOK, TokensAssumption
<1>2. \A s \in Requests : Rotating(s) => req[s].shown \in 1..made
  BY ShownExists DEF WIInv, IInv
<1>3. \A s \in Requests : Handing(s) => req[s].new \in 1..made
  BY DEF WIInv, Undelivered
<1>4. ASSUME NEW r \in Requests, NEW step \in Steps \ {"rotated"}, Moves(r, step), UNCHANGED <<made, family>>,
             revoked \subseteq revoked', step = "ok" => req[r].kind = "logout"
      PROVE  HandingHolds'
  <2>1. ~Handing(r)' /\ ~Rotating(r)'
    BY <1>4 DEF Moves, Handing, Rotating
  <2>2. \A s \in Requests : Handing(s)' => Handing(s) /\ req'[s] = req[s]
    BY <1>4, <2>1 DEF Moves, Handing
  <2>3. \A s \in Requests : Rotating(s)' => Rotating(s) /\ req'[s] = req[s]
    BY <1>4, <2>1 DEF Moves, Rotating
  <2>4. QED
    BY <1>4, <2>2, <2>3, HandingKept
<1>5. ASSUME NEW r \in Requests, req'[r].step \in {"sent", "idle"}, UNCHANGED <<made, family, revoked>>,
             \A s \in Requests \ {r} : req'[s] = req[s]
      PROVE  HandingHolds'
  <2>1. ~Handing(r)' /\ ~Rotating(r)'
    BY <1>5 DEF Handing, Rotating
  <2>2. \A s \in Requests : Handing(s)' => Handing(s) /\ req'[s] = req[s]
    BY <1>5, <2>1 DEF Handing
  <2>3. \A s \in Requests : Rotating(s)' => Rotating(s) /\ req'[s] = req[s]
    BY <1>5, <2>1 DEF Rotating
  <2>4. QED
    BY <1>5, <2>2, <2>3, HandingKept
<1>6. CASE \E t \in Tabs, r \in Requests, kind \in {"refresh", "login", "logout"} : Asks(t, r, kind)
  BY <1>5, <1>6 DEF Asks
<1>7. ASSUME NEW r \in Requests, Miss(r) \/ LookUp(r) \/ RefuseAccount(r)
      PROVE  HandingHolds'
  BY <1>4, <1>7, QuietChanges DEF WIInv, WTypeOK, Steps
<1>8. ASSUME NEW r \in Requests, Burn(r) \/ Logout(r)
      PROVE  HandingHolds'
  <2>1. PICK step \in {"burnt", "ok"} : Moves(r, step) /\ (step = "ok" => req[r].kind = "logout")
    BY <1>8, RevokingChanges DEF WIInv, WTypeOK, Rotate, Burn, Logout
  <2>2. UNCHANGED <<made, family>> /\ revoked \subseteq revoked'
    BY <1>8, RevokingChanges DEF WIInv, WTypeOK
  <2>3. QED
    BY <1>4, <2>1, <2>2 DEF Steps
<1>9. ASSUME NEW r \in Requests, Rotate(r)
      PROVE  HandingHolds'
  <2>1. /\ Moves(r, "rotated") /\ UNCHANGED <<made, family>>
        /\ revoked' = revoked \cup {req[r].shown}
    BY <1>9, GotoChanges DEF WIInv, WTypeOK, Rotate, Moves, Steps
  <2>2. Unrevoked(req[r].shown)
    BY <1>9 DEF Rotate, Usable
  <2> SUFFICES ASSUME NEW s \in Requests, Handing(s)'
               PROVE  /\ \A n \in 1..made' :
                          Unrevoked(n)' /\ family'[n] = family'[req'[s].new] => n = req'[s].new
                      /\ \A q \in Requests :
                          Rotating(q)' => family'[req'[q].shown] # family'[req'[s].new]
    BY DEF HandingHolds
  <2>3. s # r /\ Handing(s) /\ req'[s] = req[s]
    BY <2>1 DEF Moves, Handing
  <2>4. /\ \A n \in 1..made : Unrevoked(n) /\ family[n] = family[req[s].new] => n = req[s].new
        /\ \A q \in Requests : Rotating(q) => family[req[q].shown] # family[req[s].new]
        /\ req[r].shown # req[s].new
    BY <2>3 DEF WIInv, HandingHolds, Undelivered
  <2>5. family[req[r].shown] # family[req[s].new]
    BY <2>2, <2>4 DEF Unrevoked
  <2>6. \A q \in Requests \ {r} : Rotating(q)' => Rotating(q) /\ req'[q] = req[q]
    BY <2>1 DEF Moves, Rotating
  <2>7. \A n \in 1..made : Unrevoked(n)' => Unrevoked(n)
    BY <2>1 DEF Unrevoked
  <2>8. req'[r].shown = req[r].shown
    BY <2>1 DEF Moves
  <2>9. QED
    BY <2>1, <2>3, <2>4, <2>5, <2>6, <2>7, <2>8
<1>10. ASSUME NEW r \in Requests, Login(r) \/ Replace(r)
      PROVE  HandingHolds'
  <2>1. PICK f : /\ Creates(r, f)
                 /\ \/ req[r].kind = "login" /\ f = made + 1
                    \/ Rotating(r) /\ f = family[req[r].shown]
    BY <1>10, CreatingChanges DEF WIInv, Rotating
  <2>2. \A n \in 1..made : n \in Tokens /\ family'[n] = family[n] /\ family[n] # made + 1
    BY <1>1, <2>1 DEF Creates, WIInv, IInv, FamiliesNamed, Tokens
  <2>3. made' = made + 1 /\ family'[made + 1] = f /\ made + 1 \notin 1..made
    BY <1>1, <2>1 DEF Creates
  <2>4. \A n \in 1..made' : Unrevoked(n)' => n = made + 1 \/ (n \in 1..made /\ Unrevoked(n))
    BY <1>1, <2>1 DEF Creates, Unrevoked
  <2>5. \A s \in Requests \ {r} : req'[s] = req[s]
    BY <2>1 DEF Creates
  <2>6. \A s \in Requests : Rotating(s)' => s # r /\ Rotating(s) /\ req'[s] = req[s]
    BY <2>1 DEF Creates, Rotating
  <2>7. \A n \in 1..made : Unrevoked(n) => family[n] # f
    BY <2>1, <2>2 DEF WIInv, IInv, OneLivePerFamily
  <2>8. \A s \in Requests \ {r} : Rotating(s) => family[req[s].shown] # f
    <3>1. CASE f = made + 1
      BY <1>2, <2>2, <3>1
    <3>2. CASE Rotating(r) /\ f = family[req[r].shown]
      BY <3>2 DEF WIInv, IInv, OneLivePerFamily
    <3>3. QED
      BY <2>1, <3>1, <3>2
  <2> SUFFICES ASSUME NEW s \in Requests, Handing(s)'
               PROVE  /\ \A n \in 1..made' :
                          Unrevoked(n)' /\ family'[n] = family'[req'[s].new] => n = req'[s].new
                      /\ \A q \in Requests :
                          Rotating(q)' => family'[req'[q].shown] # family'[req'[s].new]
    BY DEF HandingHolds
  <2>9. CASE s = r
    <3>1. req'[r].new = made + 1
      BY <2>1 DEF Creates
    <3>2. \A n \in 1..made' : Unrevoked(n)' /\ family'[n] = family'[made + 1] => n = made + 1
      BY <2>2, <2>3, <2>4, <2>7
    <3>3. \A q \in Requests : Rotating(q)' => family'[req'[q].shown] # family'[made + 1]
      BY <1>2, <2>2, <2>3, <2>6, <2>8
    <3>4. QED
      BY <2>9, <3>1, <3>2, <3>3
  <2>10. CASE s # r
    <3>1. req'[s] = req[s] /\ Handing(s)
      BY <2>5, <2>10 DEF Handing
    <3>2. req'[s] = req[s] /\ Handing(s) /\ req[s].new \in 1..made
      BY <1>3, <3>1
    <3>3. /\ \A n \in 1..made : Unrevoked(n) /\ family[n] = family[req[s].new] => n = req[s].new
          /\ \A q \in Requests : Rotating(q) => family[req[q].shown] # family[req[s].new]
      BY <3>2 DEF WIInv, HandingHolds
    <3>4. f # family[req[s].new]
      BY <2>1, <2>2, <3>2, <3>3
    <3>5. family'[req'[s].new] = family[req[s].new]
      BY <2>2, <3>2
    <3>6. \A n \in 1..made' : Unrevoked(n)' /\ family'[n] = family'[req'[s].new] => n = req'[s].new
      BY <2>2, <2>3, <2>4, <3>2, <3>3, <3>4, <3>5
    <3>7. \A q \in Requests : Rotating(q)' => family'[req'[q].shown] # family'[req'[s].new]
      BY <1>2, <2>2, <2>6, <3>3, <3>5
    <3>8. QED
      BY <3>6, <3>7
  <2>11. QED
    BY <2>9, <2>10
<1>11. ASSUME NEW r \in Requests, Reply(r)
      PROVE  HandingHolds'
  <2>1. Idle.step = "idle"
    BY DEF Idle
  <2>2. QED
    BY <1>5, <1>11, <2>1, ReplyChanges DEF WIInv
<1>12. ASSUME NEW r \in Requests, UNCHANGED <<made, family, revoked, cookie>>,
              Drop(r) \/ Moves(r, "failed")
       PROVE  HandingHolds'
  <2>1. CASE Drop(r)
    <3>1. req' = req
      BY <2>1 DEF Drop, authVars
    <3>2. QED
      BY <1>12, <3>1, HandingKept DEF Handing, Rotating
  <2>2. CASE Moves(r, "failed")
    BY <1>4, <1>12, <2>2 DEF Steps
  <2>3. QED
    BY <1>12, <2>1, <2>2
<1>13. CASE UNCHANGED <<made, family, revoked, req, webVars>>
  BY <1>13, HandingKept DEF Handing, Rotating
<1>14. QED
  BY <1>6, <1>7, <1>8, <1>9, <1>10, <1>11, <1>12, <1>13, StepKinds

\* The cookie stays or is cleared, no token comes to life, and who hands one
\* out goes on doing so.
LEMMA CurrentKept ==
    ASSUME WIInv, UNCHANGED <<made, family>>, cookie' \in {cookie, 0}, revoked \subseteq revoked',
           faults' = faults,
           \A s \in Requests : Handing(s) => req'[s] = req[s]
    PROVE  CookieCurrent'
<1> SUFFICES ASSUME faults' = 0, cookie' # 0, NEW n \in 1..made', Unrevoked(n)', n # cookie',
                    family'[n] = family'[cookie']
             PROVE  \E r \in Requests : Handing(r)' /\ req'[r].kind = "refresh" /\ req'[r].new = n
  BY DEF CookieCurrent
<1>1. Unrevoked(n)
  BY DEF Unrevoked
<1>2. PICK r \in Requests : Handing(r) /\ req[r].kind = "refresh" /\ req[r].new = n
  BY <1>1 DEF WIInv, CookieCurrent
<1>3. req'[r] = req[r]
  BY <1>2
<1>4. QED
  BY <1>2, <1>3 DEF Handing

LEMMA CurrentStays == WIInv /\ [WNext]_vars => CookieCurrent'
<1> SUFFICES ASSUME WIInv, [WNext]_vars
             PROVE  CookieCurrent'
  OBVIOUS
<1>1. made \in Nat /\ MaxTokens \in Nat /\ cookie \in Nat /\ cookie <= made /\ faults \in Nat
  BY TokensAssumption, WebAssumption
     DEF WIInv, WTypeOK, TypeOK, KindsKept, TokensAssumption, WebAssumption
<1>2. ASSUME NEW r \in Requests, NEW step, Moves(r, step), ~Handing(r), UNCHANGED <<made, family>>,
             revoked \subseteq revoked', UNCHANGED webVars
      PROVE  CookieCurrent'
  <2>1. \A s \in Requests : Handing(s) => req'[s] = req[s]
    BY <1>2 DEF Moves
  <2>2. QED
    BY <1>2, <2>1, CurrentKept DEF webVars
<1>3. CASE \E t \in Tabs, r \in Requests, kind \in {"refresh", "login", "logout"} : Asks(t, r, kind)
  <2>1. PICK t \in Tabs, r \in Requests, kind \in {"refresh", "login", "logout"} : Asks(t, r, kind)
    BY <1>3
  <2>2. \A s \in Requests : Handing(s) => req'[s] = req[s]
    BY <2>1 DEF Asks, Handing, Idle
  <2>3. CASE faults' = faults
    BY <2>1, <2>2, <2>3, CurrentKept DEF Asks
  <2>4. CASE faults' # faults
    BY <1>1, <2>1, <2>4 DEF Asks, CookieCurrent
  <2>5. QED
    BY <2>3, <2>4
<1>4. ASSUME NEW r \in Requests, Miss(r) \/ LookUp(r) \/ RefuseAccount(r), UNCHANGED webVars
      PROVE  CookieCurrent'
  <2>1. PICK step : Moves(r, step)
    BY <1>4, QuietChanges DEF WIInv, WTypeOK
  <2>2. ~Handing(r) /\ UNCHANGED <<made, family, revoked>>
    BY <1>4, QuietChanges DEF WIInv, WTypeOK, Handing
  <2>3. QED
    BY <1>2, <1>4, <2>1, <2>2
<1>5. ASSUME NEW r \in Requests, Rotate(r) \/ Burn(r) \/ Logout(r), UNCHANGED webVars
      PROVE  CookieCurrent'
  <2>1. PICK step : Moves(r, step)
    BY <1>5, RevokingChanges DEF WIInv, WTypeOK
  <2>2. ~Handing(r) /\ UNCHANGED <<made, family>> /\ revoked \subseteq revoked'
    BY <1>5, RevokingChanges DEF WIInv, WTypeOK, Handing
  <2>3. QED
    BY <1>2, <1>5, <2>1, <2>2
<1>6. ASSUME NEW r \in Requests, Login(r) \/ Replace(r), UNCHANGED webVars
      PROVE  CookieCurrent'
  <2>1. PICK f : /\ Creates(r, f)
                 /\ ~Handing(r)
                 /\ \/ f = made + 1
                    \/ req[r].kind = "refresh"
    BY <1>6, CreatingChanges DEF WIInv, Handing
  <2>2. \A n \in 1..made : n \in Tokens /\ family'[n] = family[n] /\ family[n] # made + 1
    BY <1>1, <2>1 DEF Creates, WIInv, IInv, FamiliesNamed, Tokens
  <2> SUFFICES ASSUME faults' = 0, cookie' # 0, NEW n \in 1..made', Unrevoked(n)', n # cookie',
                      family'[n] = family'[cookie']
               PROVE  \E s \in Requests : Handing(s)' /\ req'[s].kind = "refresh" /\ req'[s].new = n
    BY DEF CookieCurrent
  <2>3. cookie' = cookie /\ cookie \in 1..made /\ family'[cookie] = family[cookie]
    BY <1>1, <1>6, <2>2 DEF webVars
  <2>4. CASE n = made + 1
    <3>1. f = family[cookie]
      BY <2>1, <2>3, <2>4 DEF Creates
    <3>2. req[r].kind = "refresh"
      BY <2>1, <2>2, <2>3, <3>1
    <3>3. QED
      BY <2>1, <2>4, <3>2 DEF Creates, Handing
  <2>5. CASE n # made + 1
    <3>1. n \in 1..made /\ Unrevoked(n) /\ family[n] = family[cookie] /\ faults = 0
      BY <1>1, <1>6, <2>1, <2>2, <2>3, <2>5 DEF Creates, Unrevoked, webVars
    <3>2. PICK s \in Requests : Handing(s) /\ req[s].kind = "refresh" /\ req[s].new = n
      BY <2>3, <3>1 DEF WIInv, CookieCurrent
    <3>3. req'[s] = req[s]
      BY <2>1, <3>2 DEF Creates
    <3>4. QED
      BY <3>2, <3>3 DEF Handing
  <2>6. QED
    BY <2>4, <2>5
<1>7. ASSUME NEW r \in Requests, Reply(r)
      PROVE  CookieCurrent'
  <2>1. /\ UNCHANGED <<made, family, revoked, faults>>
        /\ req[r] # Idle /\ \A s \in Requests \ {r} : req'[s] = req[s]
        /\ cookie' \in {cookie, 0} \/ (Handing(r) /\ cookie' = req[r].new)
        /\ Handing(r) /\ waits[r] # NoTab => cookie' = req[r].new
    BY <1>7, ReplyChanges DEF WIInv
  <2>2. CASE Handing(r)
    <3> SUFFICES ASSUME faults' = 0, NEW n \in 1..made', Unrevoked(n)', n # cookie',
                        family'[n] = family'[cookie']
                 PROVE  FALSE
      BY DEF CookieCurrent
    <3>1. waits[r] # NoTab
      BY <2>1 DEF WIInv, Awaited
    <3>2. Unrevoked(n) /\ cookie' = req[r].new
      BY <2>1, <2>2, <3>1 DEF Unrevoked
    <3>3. QED
      BY <2>1, <2>2, <3>2 DEF WIInv, HandingHolds
  <2>3. CASE ~Handing(r)
    BY <2>1, <2>3, CurrentKept
  <2>4. QED
    BY <2>2, <2>3
<1>8. CASE UNCHANGED <<made, family, revoked, req, webVars>>
  BY <1>8, CurrentKept DEF webVars
<1>9. CASE faults' = faults + 1
  BY <1>1, <1>9 DEF CookieCurrent
<1>10. QED
  BY <1>3, <1>4, <1>5, <1>6, <1>7, <1>8, <1>9, StepKinds

\* Nobody opens a tab that was open, and no fault is forgotten: what is alone
\* was alone.
LEMMA AloneBefore ==
    ASSUME WIInv, [WNext]_vars, NEW t \in Tabs, Alone(t)'
    PROVE  Alone(t) /\ faults' = faults
<1>1. faults \in Nat /\ faults' = 0
  BY WebAssumption DEF WIInv, WTypeOK, Alone, WebAssumption
<1>2. faults = 0
  BY <1>1, WTyped
<1>3. SUFFICES ASSUME NEW u \in Tabs \ {t}, page[u] # "closed"
               PROVE  page'[u] # "closed"
  BY <1>1, <1>2 DEF Alone
<1>4. CASE \E v \in Tabs, r \in Requests, kind \in {"refresh", "login", "logout"} : Asks(v, r, kind)
  BY <1>3, <1>4 DEF Asks
<1>5. ASSUME NEW r \in Requests, Reply(r)
      PROVE  page'[u] # "closed"
  <2>1. CASE u = waits[r]
    BY <1>5, <2>1, ReplyChanges, WebAssumption DEF WIInv, WebAssumption
  <2>2. CASE u # waits[r]
    BY <1>3, <1>5, <2>2, ReplyChanges DEF WIInv
  <2>3. QED
    BY <2>1, <2>2
<1>6. CASE UNCHANGED webVars
  BY <1>3, <1>6 DEF webVars
<1>7. CASE faults' = faults + 1
  BY <1>1, <1>2, <1>7
<1>8. QED
  BY <1>4, <1>5, <1>6, <1>7, StepKinds DEF webVars

\* Everything on its way is on its way to the single tab.
LEMMA SingleTabWaits ==
    ASSUME WIInv, NEW t \in Tabs, Alone(t), NEW r \in Requests, req[r] # Idle
    PROVE  waits[r] = t /\ page[t] # "closed" /\ req[r].step # "failed"
<1>1. waits[r] # NoTab /\ page[waits[r]] # "closed" /\ req[r].step # "failed"
  BY DEF WIInv, Awaited, Alone
<1>2. waits[r] \in Tabs
  BY <1>1 DEF WIInv, WTypeOK
<1>3. QED
  BY <1>1, <1>2 DEF Alone

\* The four parts of SingleTab.
OneRefresh ==
    \A r, s \in Requests : req[r].kind = "refresh" /\ req[s].kind = "refresh" => r = s
ShowsLast ==
    \A r \in Requests, n \in 1..made :
        /\ req[r].kind = "refresh" /\ req[r].step \in {"sent", "missed", "reused"}
        /\ req[r].shown # 0
        /\ Unrevoked(n) /\ family[n] = family[req[r].shown]
        => n = req[r].shown
HandsOutLive == \A r \in Requests : Handing(r) => Unrevoked(req[r].new)
AppRefreshable(t) ==
    page[t] = "app" =>
        \/ Unrevoked(cookie)
        \/ \E r \in Requests : req[r].kind \in {"refresh", "logout"}

LEMMA SingleTabParts ==
    SingleTab <=> \A t \in Tabs : Alone(t) => OneRefresh /\ ShowsLast /\ HandsOutLive /\ AppRefreshable(t)
BY DEF SingleTab, OneRefresh, ShowsLast, HandsOutLive, AppRefreshable

\* A step of a refresh towards its answer, which makes no token.
LEMMA SingleTabQuiet ==
    ASSUME WIInv, NEW t \in Tabs, OneRefresh, ShowsLast, HandsOutLive, AppRefreshable(t),
           NEW r \in Requests, Miss(r) \/ LookUp(r) \/ RefuseAccount(r), UNCHANGED webVars
    PROVE  OneRefresh' /\ ShowsLast' /\ HandsOutLive' /\ AppRefreshable(t)'
<1>1. PICK step \in {"missed", "reused", "refused"} :
          Moves(r, step) /\ (step # "refused" => req[r].step # "rotated")
  BY QuietChanges DEF WIInv, WTypeOK
<1>2. /\ UNCHANGED <<made, family, revoked>>
      /\ req[r].kind = "refresh" /\ req[r].step \in {"sent", "missed", "rotated"}
  BY QuietChanges DEF WIInv, WTypeOK
<1>3. OneRefresh'
  BY <1>1 DEF Moves, OneRefresh
<1>4. ShowsLast'
  BY <1>1, <1>2 DEF Moves, ShowsLast, Unrevoked
<1>5. HandsOutLive'
  BY <1>1, <1>2 DEF Moves, HandsOutLive, Handing, Unrevoked
<1>6. AppRefreshable(t)'
  BY <1>1, <1>2 DEF Moves, AppRefreshable, Unrevoked, webVars
<1>7. QED
  BY <1>3, <1>4, <1>5, <1>6

\* What is revoked is the token shown, or a family that is over: never one
\* that is being handed out.
LEMMA SingleTabRevoking ==
    ASSUME WIInv, NEW t \in Tabs, OneRefresh, ShowsLast, HandsOutLive, AppRefreshable(t),
           NEW r \in Requests, Rotate(r) \/ Burn(r) \/ Logout(r), UNCHANGED webVars
    PROVE  OneRefresh' /\ ShowsLast' /\ HandsOutLive' /\ AppRefreshable(t)'
<1>1. /\ UNCHANGED <<made, family>> /\ revoked \subseteq revoked'
      /\ req[r].kind \in {"refresh", "logout"}
  BY RevokingChanges DEF WIInv, WTypeOK
<1>2. PICK step \in {"rotated", "burnt", "ok"} : Moves(r, step) /\ (step = "ok" => req[r].kind = "logout")
  BY RevokingChanges DEF WIInv, WTypeOK
<1>3. OneRefresh'
  BY <1>2 DEF Moves, OneRefresh
<1>4. ShowsLast'
  <2>1. \A n \in 1..made : Unrevoked(n)' => Unrevoked(n)
    BY <1>1 DEF Unrevoked
  <2>2. QED
    BY <1>1, <1>2, <2>1 DEF Moves, ShowsLast
<1>5. HandsOutLive'
  <2> SUFFICES ASSUME NEW s \in Requests, Handing(s)'
               PROVE  req'[s].new \in 1..made' /\ req'[s].new \notin revoked'
    BY DEF HandsOutLive, Unrevoked
  <2>1. s # r /\ Handing(s) /\ req'[s] = req[s]
    BY <1>2 DEF Moves, Handing
  <2>2. /\ Unrevoked(req[s].new) /\ req[s].new \in 1..made
        /\ req[r].shown # req[s].new
    BY <2>1 DEF HandsOutLive, WIInv, Undelivered
  <2>3. CASE Rotate(r) \/ Logout(r)
    <3>1. revoked' \subseteq revoked \cup {req[r].shown}
      BY <2>3 DEF Rotate, Logout
    <3>2. QED
      BY <1>1, <2>1, <2>2, <3>1 DEF Unrevoked
  <2>4. CASE Burn(r)
    <3>1. /\ revoked' = revoked \cup {n \in 1..made : family[n] = family[req[r].shown]}
          /\ req[r].kind = "refresh" /\ req[r].step = "reused"
      BY <2>4, RevokingChanges DEF WIInv, WTypeOK, KindsKept, Burn
    <3>2. req[s].kind = "login"
      BY <2>1, <3>1 DEF Handing, OneRefresh
    <3>3. req[r].shown \in 1..made
      BY <3>1, ShownExists DEF WIInv, IInv
    <3>4. family[req[r].shown] # family[req[s].new]
      BY <2>1, <2>2, <3>2, <3>3 DEF WIInv, Undelivered
    <3>5. QED
      BY <1>1, <2>1, <2>2, <3>1, <3>4 DEF Unrevoked
  <2>5. QED
    BY <2>3, <2>4
<1>6. AppRefreshable(t)'
  <2>1. req'[r].kind \in {"refresh", "logout"}
    BY <1>1, <1>2 DEF Moves
  <2>2. QED
    BY <2>1 DEF AppRefreshable
<1>7. QED
  BY <1>3, <1>4, <1>5, <1>6

\* A token is made in a family of its own, or by the only refresh.
LEMMA SingleTabCreating ==
    ASSUME WIInv, NEW t \in Tabs, OneRefresh, ShowsLast, HandsOutLive, AppRefreshable(t),
           NEW r \in Requests, Login(r) \/ Replace(r), UNCHANGED webVars
    PROVE  OneRefresh' /\ ShowsLast' /\ HandsOutLive' /\ AppRefreshable(t)'
<1>1. PICK f : /\ Creates(r, f)
               /\ (req[r].kind = "login" /\ f = made + 1) \/ req[r].kind = "refresh"
  BY CreatingChanges DEF WIInv
<1>2. made \in Nat /\ MaxTokens \in Nat /\ revoked \subseteq 1..made
  BY TokensAssumption DEF WIInv, WTypeOK, TypeOK, TokensAssumption
<1>3. \A s \in Requests : req[s].shown \in Nat /\ req[s].shown <= made
  BY TokensAssumption DEF WIInv, WTypeOK, TypeOK, IInv, RequestsKnown, Request, TokensAssumption
<1>4. \A n \in 1..made : n \in Tokens /\ n # made + 1 /\ family'[n] = family[n] /\ family[n] # made + 1
  BY <1>1, <1>2 DEF Creates, WIInv, IInv, FamiliesNamed, Tokens
<1>5. /\ made' = made + 1 /\ family'[made + 1] = f /\ revoked' = revoked
      /\ req'[r].kind = req[r].kind /\ req'[r].step = "ok" /\ req'[r].new = made + 1
      /\ \A s \in Requests \ {r} : req'[s] = req[s]
  BY <1>1 DEF Creates
<1>6. OneRefresh'
  BY <1>5 DEF OneRefresh
<1>7. ShowsLast'
  <2> SUFFICES ASSUME NEW s \in Requests, NEW n \in 1..made',
                      req'[s].kind = "refresh", req'[s].step \in {"sent", "missed", "reused"},
                      req'[s].shown # 0,
                      Unrevoked(n)', family'[n] = family'[req'[s].shown]
               PROVE  n = req'[s].shown
    BY DEF ShowsLast
  <2>1. s # r /\ req'[s] = req[s] /\ req[s].shown \in 1..made
    BY <1>2, <1>3, <1>5
  <2>2. req[r].kind = "login" /\ f = made + 1
    BY <1>1, <2>1 DEF OneRefresh
  <2>3. n # made + 1
    BY <1>4, <1>5, <2>1, <2>2
  <2>4. n \in 1..made /\ Unrevoked(n) /\ family[n] = family[req[s].shown]
    BY <1>2, <1>4, <1>5, <2>1, <2>3 DEF Unrevoked
  <2>5. QED
    BY <2>1, <2>4 DEF ShowsLast
<1>8. HandsOutLive'
  <2> SUFFICES ASSUME NEW s \in Requests, Handing(s)'
               PROVE  req'[s].new \in 1..made' /\ req'[s].new \notin revoked'
    BY DEF HandsOutLive, Unrevoked
  <2>1. CASE s = r
    BY <1>2, <1>5, <2>1 DEF Unrevoked
  <2>2. CASE s # r
    <3>1. Handing(s) /\ req'[s] = req[s]
      BY <1>5, <2>2 DEF Handing
    <3>2. QED
      BY <1>2, <1>5, <3>1 DEF HandsOutLive, Unrevoked
  <2>3. QED
    BY <2>1, <2>2
<1>9. AppRefreshable(t)'
  <2>1. \A s \in Requests : req'[s].kind = req[s].kind
    BY <1>5
  <2>2. Unrevoked(cookie) => Unrevoked(cookie)'
    BY <1>2, <1>5 DEF Unrevoked, webVars
  <2>3. QED
    BY <2>1, <2>2 DEF AppRefreshable, webVars
<1>10. QED
  BY <1>6, <1>7, <1>8, <1>9

\* A refresh is sent only when there is none, and shows the cookie.
LEMMA SingleTabAsks ==
    ASSUME WIInv, NEW t \in Tabs, OneRefresh, ShowsLast, HandsOutLive, AppRefreshable(t),
           Alone(t), Alone(t)',
           NEW u \in Tabs, NEW r \in Requests, NEW kind \in {"refresh", "login", "logout"}, Asks(u, r, kind)
    PROVE  OneRefresh' /\ ShowsLast' /\ HandsOutLive' /\ AppRefreshable(t)'
<1>1. /\ req[r] = Idle /\ req'[r].kind = kind /\ req'[r].step = "sent" /\ req'[r].shown = cookie
      /\ \A s \in Requests \ {r} : req'[s] = req[s]
      /\ UNCHANGED <<made, family, revoked, cookie>>
  BY DEF Asks
<1>2. u = t
  BY DEF Asks, Alone
<1>3. Idle.kind = "none" /\ Idle.step = "idle"
  BY DEF Idle
<1>4. kind = "refresh" => \A s \in Requests : req[s].kind # "refresh"
  <2> SUFFICES ASSUME kind = "refresh", NEW s \in Requests, req[s].kind = "refresh"
               PROVE  FALSE
    OBVIOUS
  <2>1. waits[s] = t /\ page[t] # "closed"
    BY <1>3, SingleTabWaits
  <2>2. InFlight(t) = {}
    BY <1>2, <2>1 DEF Asks, Alone
  <2>3. QED
    BY <2>1, <2>2 DEF InFlight
<1>5. OneRefresh'
  BY <1>1, <1>4 DEF OneRefresh
<1>6. ShowsLast'
  <2> SUFFICES ASSUME NEW s \in Requests, NEW n \in 1..made',
                      req'[s].kind = "refresh", req'[s].step \in {"sent", "missed", "reused"},
                      req'[s].shown # 0,
                      Unrevoked(n)', family'[n] = family'[req'[s].shown]
               PROVE  n = req'[s].shown
    BY DEF ShowsLast
  <2>1. Unrevoked(n) /\ n \in 1..made
    BY <1>1 DEF Unrevoked
  <2>2. CASE s = r
    <3>1. faults = 0
      BY DEF Alone
    <3>2. \A q \in Requests : req[q].kind # "refresh"
      BY <1>1, <1>4, <2>2
    <3>3. cookie # 0 /\ family[n] = family[cookie]
      BY <1>1, <2>2
    <3>4. QED
      BY <1>1, <2>1, <2>2, <3>1, <3>2, <3>3 DEF WIInv, CookieCurrent
  <2>3. CASE s # r
    BY <1>1, <2>1, <2>3 DEF ShowsLast
  <2>4. QED
    BY <2>2, <2>3
<1>7. HandsOutLive'
  BY <1>1 DEF HandsOutLive, Handing, Unrevoked
<1>8. AppRefreshable(t)'
  <2> SUFFICES ASSUME page'[t] = "app"
               PROVE  \/ Unrevoked(cookie)'
                      \/ \E s \in Requests : req'[s].kind \in {"refresh", "logout"}
    BY DEF AppRefreshable
  <2>1. page[t] = "app"
    BY DEF Asks
  <2>2. CASE Unrevoked(cookie)
    BY <1>1, <2>2 DEF Unrevoked
  <2>3. CASE \E s \in Requests : req[s].kind \in {"refresh", "logout"}
    BY <1>1, <1>3, <2>3
  <2>4. QED
    BY <2>1, <2>2, <2>3 DEF AppRefreshable
<1>9. QED
  BY <1>5, <1>6, <1>7, <1>8

\* The tab shows the app after an answer only if that brought a live cookie.
LEMMA SingleTabReplies ==
    ASSUME WIInv, NEW t \in Tabs, OneRefresh, ShowsLast, HandsOutLive, AppRefreshable(t), Alone(t),
           NEW r \in Requests, Reply(r)
    PROVE  OneRefresh' /\ ShowsLast' /\ HandsOutLive' /\ AppRefreshable(t)'
<1>1. /\ req[r] # Idle /\ req'[r] = Idle /\ \A s \in Requests \ {r} : req'[s] = req[s]
      /\ UNCHANGED <<made, family, revoked>>
  BY ReplyChanges DEF WIInv
<1>2. Idle.kind = "none" /\ Idle.step = "idle"
  BY DEF Idle
<1>3. OneRefresh'
  BY <1>1, <1>2 DEF OneRefresh
<1>4. ShowsLast'
  BY <1>1, <1>2 DEF ShowsLast, Unrevoked
<1>5. HandsOutLive'
  BY <1>1, <1>2 DEF HandsOutLive, Handing, Unrevoked
<1>6. AppRefreshable(t)'
  <2>1. waits[r] = t /\ t # NoTab /\ req[r].step # "failed"
    BY <1>1, SingleTabWaits, WebAssumption DEF WebAssumption
  <2>2. page'[t] = "app" => Handing(r) /\ cookie' = req[r].new
    BY <2>1, ReplyChanges DEF WIInv
  <2>3. Handing(r) => Unrevoked(req[r].new)
    BY DEF HandsOutLive
  <2>4. QED
    BY <1>1, <2>2, <2>3 DEF AppRefreshable, Unrevoked
<1>7. QED
  BY <1>3, <1>4, <1>5, <1>6

LEMMA SingleTabStays == WIInv /\ [WNext]_vars => SingleTab'
<1> SUFFICES ASSUME WIInv, [WNext]_vars, NEW t \in Tabs, Alone(t)'
             PROVE  OneRefresh' /\ ShowsLast' /\ HandsOutLive' /\ AppRefreshable(t)'
  BY DEF SingleTab, OneRefresh, ShowsLast, HandsOutLive, AppRefreshable
<1>1. Alone(t) /\ faults' = faults /\ faults \in Nat
  BY AloneBefore, WebAssumption DEF WIInv, WTypeOK, WebAssumption
<1>2. OneRefresh /\ ShowsLast /\ HandsOutLive /\ AppRefreshable(t)
  BY <1>1, SingleTabParts DEF WIInv
<1>3. CASE \E u \in Tabs, r \in Requests, kind \in {"refresh", "login", "logout"} : Asks(u, r, kind)
  BY <1>1, <1>2, <1>3, SingleTabAsks
<1>4. CASE UNCHANGED <<made, family, revoked, req, webVars>>
  BY <1>2, <1>4
     DEF OneRefresh, ShowsLast, HandsOutLive, AppRefreshable, Handing, Unrevoked, webVars
<1>5. CASE faults' = faults + 1
  BY <1>1, <1>5
<1>6. QED
  BY <1>1, <1>2, <1>3, <1>4, <1>5, StepKinds,
     SingleTabQuiet, SingleTabRevoking, SingleTabCreating, SingleTabReplies

LEMMA WebHolds == WSpec => []WIInv
<1>1. WInit => WIInv
  <2> SUFFICES ASSUME WInit
               PROVE  WIInv
    OBVIOUS
  <2>1. IInv /\ TypeOK
    BY InitHolds DEF WInit, IInv
  <2>2. WTypeOK
    BY <2>1, TokensAssumption, WebAssumption
       DEF WInit, WTypeOK, Pages, TokensAssumption, WebAssumption
  <2>3. Idle.kind = "none" /\ Idle.step = "idle" /\ Idle.new = 0 /\ Idle.shown = 0
    BY DEF Idle
  <2>4. cookie = 0 /\ made = 0 /\ \A r \in Requests : req[r] = Idle /\ waits[r] = NoTab
    BY DEF WInit, Init
  <2>5. \A r \in Requests : /\ req[r].kind = "none" /\ req[r].step = "idle"
                          /\ req[r].new = 0
    BY <2>3, <2>4
  <2>6. KindsKept
    <3>1. cookie <= made
      BY <2>4
    <3>2. ASSUME NEW r \in Requests
          PROVE  req[r].new <= made
      BY <2>4, <2>5, <3>1
    <3>3. QED
      BY <2>4, <2>5, <3>1, <3>2 DEF KindsKept
  <2>7. Awaited
    BY <2>4 DEF Awaited
  <2>8. \A r \in Requests : ~Handing(r)
    BY <2>5 DEF Handing
  <2>9. Undelivered /\ HandingHolds
    BY <2>8 DEF Undelivered, HandingHolds
  <2>10. CookieCurrent
    BY <2>4 DEF CookieCurrent
  <2>11. SingleTab
    BY <2>5, <2>8 DEF SingleTab, WInit, Pages
  <2>12. QED
    BY <2>1, <2>2, <2>6, <2>7, <2>9, <2>10, <2>11 DEF WIInv
<1>2. WIInv /\ [WNext]_vars => WIInv'
  BY WTyped, KindsStay, AwaitedStays, UndeliveredStays, HandingStays, CurrentStays, SingleTabStays
     DEF WIInv
<1>3. QED
  BY <1>1, <1>2, PTL DEF WSpec

-----------------------------------------------------------------------------
(* The theorems.                                                           *)

\* Cookies, pages, requests and tokens keep their types, whatever is lost.
THEOREM WebTyped == WSpec => []WTypeOK
<1>1. WIInv => WTypeOK
  BY DEF WIInv
<1>2. QED
  BY <1>1, WebHolds, PTL

\* The tabs of a browser never give a session a second holder (auth.ts:211-245).
THEOREM WebOneLive == WSpec => []OneLivePerFamily
<1>1. WIInv => OneLivePerFamily
  BY DEF WIInv, IInv
<1>2. QED
  BY <1>1, WebHolds, PTL

\* A single tab to which nothing is lost never presents a token of its own
\* again while the session goes on (http.ts:25-31, singleFlight.ts:7-16).
THEOREM SingleFlightSafe == WSpec => []NoSelfReuse
<1>1. WIInv => NoSelfReuse
  <2> SUFFICES ASSUME WIInv, NEW r \in Requests, req[r].step = "reused", Alone(waits[r]),
                      Open(family[req[r].shown])
               PROVE  FALSE
    BY DEF NoSelfReuse
  <2>1. req[r] # Idle /\ req[r].kind = "refresh"
    BY DEF Idle, WIInv, KindsKept
  <2>2. waits[r] \in Tabs
    BY <2>1 DEF WIInv, WTypeOK, Awaited, Alone
  <2>3. /\ \A s \in Requests : req[s].kind = "refresh" => s = r
        /\ \A n \in 1..made : Unrevoked(n) /\ family[n] = family[req[r].shown] /\ req[r].shown # 0
                                => n = req[r].shown
    BY <2>1, <2>2 DEF WIInv, SingleTab
  <2>4. req[r].shown \in 1..made /\ req[r].shown \in revoked
    BY ShownExists DEF WIInv, IInv
  <2>5. ~\E s \in Requests : Rotating(s)
    BY <2>3 DEF Rotating
  <2>6. ~\E n \in Tokens : Usable(n) /\ family[n] = family[req[r].shown]
    BY <2>3, <2>4 DEF Usable, Unrevoked
  <2>7. QED
    BY <2>5, <2>6 DEF Open
<1>2. QED
  BY <1>1, WebHolds, PTL

\* What the single tab shows and what the browser's cookie is worth agree
\* (http.ts:36, auth.ts:200-252).
THEOREM AppHasSession == WSpec => []SignedInCanRefresh
<1>1. WIInv => SignedInCanRefresh
  <2> SUFFICES ASSUME WIInv, NEW t \in Tabs, Alone(t), page[t] = "app",
                      \A r \in Requests : waits[r] # t
               PROVE  Unrevoked(cookie)
    BY DEF SignedInCanRefresh
  <2>1. \A r \in Requests : req[r] = Idle
    BY SingleTabWaits
  <2>2. Idle.kind = "none"
    BY DEF Idle
  <2>3. \A r \in Requests : req[r].kind \notin {"refresh", "logout"}
    BY <2>1, <2>2
  <2>4. QED
    BY <2>3 DEF WIInv, SingleTab
<1>2. QED
  BY <1>1, WebHolds, PTL

\* A logout with the current cookie, while no refresh of the session is
\* unanswered, leaves nothing of it (auth.ts:255-268).
THEOREM LogoutIsFinal == WSpec => LogoutEnds
<1> DEFINE LogoutDone ==
             \A r \in Requests :
                LET f == family[req[r].shown]
                IN  /\ Logout(r)
                    /\ faults = 0
                    /\ req[r].shown # 0
                    /\ req[r].shown = cookie
                    /\ \A s \in Requests :
                         req[s].kind = "refresh" /\ req[s].shown # 0 => family[req[s].shown] # f
                    => ~Open(f)'
<1>1. WIInv /\ [WNext]_vars => [LogoutDone]_vars
  <2> SUFFICES ASSUME WIInv, NEW r \in Requests,
                      Logout(r), faults = 0, req[r].shown # 0, req[r].shown = cookie,
                      \A s \in Requests :
                         req[s].kind = "refresh" /\ req[s].shown # 0 => family[req[s].shown] # family[req[r].shown]
               PROVE  ~(\/ \E n \in Tokens : Usable(n)' /\ family'[n] = family'[req'[r].shown]
                        \/ \E s \in Requests :
                              Rotating(s)' /\ family'[req'[s].shown] = family'[req'[r].shown])
    BY DEF Open
  <2>1. /\ UNCHANGED <<made, family>>
        /\ revoked' = revoked \cup ({req[r].shown} \cap 1..made)
        /\ Moves(r, "ok")
    BY RevokingChanges DEF WIInv, WTypeOK, Logout, Rotate, Burn
  <2>2. cookie \in 1..made
    BY TokensAssumption DEF WIInv, WTypeOK, TypeOK, KindsKept, TokensAssumption
  <2>3. ASSUME NEW n \in Tokens, Usable(n)', family'[n] = family'[req'[r].shown]
        PROVE  FALSE
    <3>1. n \in 1..made /\ Unrevoked(n) /\ n # cookie /\ family[n] = family[cookie]
      BY <2>1, <2>2, <2>3 DEF Usable, Unrevoked, Moves
    <3>2. PICK s \in Requests : Handing(s) /\ req[s].kind = "refresh" /\ req[s].new = n
      BY <2>2, <3>1 DEF WIInv, CookieCurrent
    <3>3. req[s].shown \in 1..made /\ family[req[s].shown] = family[n]
      BY <3>2 DEF WIInv, Undelivered
    <3>4. QED
      BY <3>1, <3>2, <3>3
  <2>4. ASSUME NEW s \in Requests, Rotating(s)', family'[req'[s].shown] = family'[req'[r].shown]
        PROVE  FALSE
    <3>1. Rotating(s) /\ req'[s] = req[s]
      BY <2>1, <2>4 DEF Rotating, Moves
    <3>2. req[s].shown \in 1..made
      BY <3>1, ShownExists DEF WIInv, IInv
    <3>3. QED
      BY <2>1, <2>4, <3>1, <3>2 DEF Rotating, Moves
  <2>5. QED
    BY <2>3, <2>4
<1>2. WSpec => [][LogoutDone]_vars
  BY <1>1, WebHolds, PTL DEF WSpec
<1>3. QED
  BY <1>2 DEF LogoutEnds

-----------------------------------------------------------------------------
(* The tokens implement SessionContract.                                   *)

Session == [f \in Tokens |-> SessionOf(f)]

\* A family with a holder has begun.
LEMMA OpenNamed ==
    ASSUME IInv, NEW f \in Tokens, Open(f)
    PROVE  f \in 1..made /\ family[f] = f
<1>1. made \in Nat /\ MaxTokens \in Nat
  BY TokensAssumption DEF IInv, TypeOK, TokensAssumption
<1>2. PICK n \in 1..made : family[n] = f
  <2>1. CASE \E n \in Tokens : Usable(n) /\ family[n] = f
    BY <2>1 DEF Usable, Unrevoked
  <2>2. CASE \E r \in Requests : Rotating(r) /\ family[req[r].shown] = f
    BY <2>2, ShownExists DEF IInv
  <2>3. QED
    BY <2>1, <2>2 DEF Open
<1>3. f \in 1..made
  BY <1>1, <1>2 DEF IInv, FamiliesNamed, Tokens
<1>4. QED
  BY <1>2, <1>3 DEF IInv, FamiliesNamed

\* No family but g loses its holder, none gains one, and no token is made:
\* the session of g ends, or nothing happens.
LEMMA EndsOrStays ==
    ASSUME IInv, NEW g, UNCHANGED family,
           \A f \in Tokens : Open(f)' => Open(f),
           \A f \in Tokens \ {g} : Open(f) => Open(f)'
    PROVE  (\E f \in Tokens : Contract!End(f)) \/ UNCHANGED Session
<1>1. CASE g \in Tokens /\ Open(g) /\ ~Open(g)'
  <2>1. SessionOf(g) = "open" /\ SessionOf(g)' = "ended"
    BY <1>1, OpenNamed DEF SessionOf
  <2>2. \A f \in Tokens \ {g} : SessionOf(f)' = SessionOf(f)
    BY DEF SessionOf
  <2>3. Contract!End(g)
    BY <1>1, <2>1, <2>2 DEF Contract!End
  <2>4. QED
    BY <1>1, <2>3
<1>2. CASE ~(g \in Tokens /\ Open(g) /\ ~Open(g)')
  <2>1. \A f \in Tokens : SessionOf(f)' = SessionOf(f)
    BY <1>2 DEF SessionOf
  <2>2. QED
    BY <2>1 DEF Session
<1>3. QED
  BY <1>1, <1>2

\* Every step of the tokens begins one session, ends one, or leaves them all.
LEMMA SessionSteps == IInv /\ [Next]_authVars => [Contract!SNext]_Session
<1> SUFFICES ASSUME IInv, [Next]_authVars
             PROVE  Contract!SNext \/ UNCHANGED Session
  BY DEF Contract!SNext
<1>1. made \in Nat /\ MaxTokens \in Nat /\ made <= MaxTokens /\ aged \in Nat /\ aged <= made
  BY TokensAssumption DEF IInv, TypeOK, TokensAssumption
<1>2. ASSUME NEW r \in Requests, ~Rotating(r), ~Rotating(r)', UNCHANGED <<made, family, revoked, aged>>,
             \A s \in Requests \ {r} : req'[s] = req[s]
      PROVE  UNCHANGED Session
  <2>1. \A s \in Requests : Rotating(s)' <=> Rotating(s)
    BY <1>2 DEF Rotating
  <2>2. \A s \in Requests : Rotating(s) => req'[s] = req[s]
    BY <1>2
  <2>3. \A f \in Tokens : Open(f)' <=> Open(f)
    BY <1>2, <2>1, <2>2 DEF Open, Usable, Unrevoked
  <2>4. \A f \in Tokens : SessionOf(f)' = SessionOf(f)
    BY <1>2, <2>3 DEF SessionOf
  <2>5. QED
    BY <2>4 DEF Session
<1>3. ASSUME NEW r \in Requests, NEW kind \in Kinds, NEW n \in 0..made, Send(r, kind, n)
      PROVE  UNCHANGED Session
  <2>1. /\ req[r] = Idle /\ req'[r].step = "sent" /\ \A s \in Requests \ {r} : req'[s] = req[s]
        /\ UNCHANGED <<made, family, revoked, aged>>
    BY <1>3, SendChanges DEF Send, tokenVars, IInv
  <2>2. ~Rotating(r) /\ ~Rotating(r)'
    BY <2>1 DEF Rotating, Idle
  <2>3. QED
    BY <1>2, <2>1, <2>2
<1>4. ASSUME NEW r \in Requests, Miss(r) \/ LookUp(r)
      PROVE  UNCHANGED Session
  <2>1. PICK step \in {"missed", "reused", "refused"} : Goto(r, step)
    BY <1>4 DEF Miss, LookUp
  <2>2. req'[r].step = step /\ \A s \in Requests \ {r} : req'[s] = req[s]
    BY <2>1, GotoChanges DEF IInv, Steps
  <2>3. ~Rotating(r) /\ ~Rotating(r)' /\ UNCHANGED <<made, family, revoked, aged>>
    BY <1>4, <2>1, <2>2 DEF Miss, LookUp, Rotating, tokenVars
  <2>4. QED
    BY <1>2, <2>2, <2>3
<1>5. ASSUME NEW r \in Requests, Finish(r)
      PROVE  UNCHANGED Session
  <2>1. /\ req'[r] = Idle /\ \A s \in Requests \ {r} : req'[s] = req[s]
        /\ UNCHANGED <<made, family, revoked, aged>>
    BY <1>5 DEF Finish, tokenVars, IInv, TypeOK
  <2>2. ~Rotating(r) /\ ~Rotating(r)'
    BY <1>5, <2>1 DEF Finish, Answered, Refused, Rotating, Idle
  <2>3. QED
    BY <1>2, <2>1, <2>2
<1>6. ASSUME NEW r \in Requests, NEW step \in Steps \ {"rotated"}, Goto(r, step),
             UNCHANGED <<made, family, aged>>, revoked \subseteq revoked',
             \A n \in 1..made : n \in revoked' \ revoked => family[n] = family[req[r].shown]
      PROVE  (\E f \in Tokens : Contract!End(f)) \/ UNCHANGED Session
  <2>1. /\ req'[r].step = step /\ \A s \in Requests \ {r} : req'[s] = req[s]
    BY <1>6, GotoChanges DEF IInv
  <2>2. \A s \in Requests : Rotating(s)' => Rotating(s) /\ req'[s] = req[s]
    BY <1>6, <2>1 DEF Rotating
  <2>3. \A s \in Requests \ {r} : Rotating(s) => Rotating(s)' /\ req'[s] = req[s]
    BY <2>1 DEF Rotating
  <2>4. \A f \in Tokens : Open(f)' => Open(f)
    BY <1>6, <2>2 DEF Open, Usable, Unrevoked
  <2>5. \A f \in Tokens \ {family[req[r].shown]} : Open(f) => Open(f)'
    BY <1>6, <2>3 DEF Open, Usable, Unrevoked
  <2>6. QED
    BY <1>6, <2>4, <2>5, EndsOrStays
<1>7. ASSUME NEW r \in Requests, Burn(r) \/ RefuseAccount(r) \/ Logout(r) \/ Fail(r)
      PROVE  (\E f \in Tokens : Contract!End(f)) \/ UNCHANGED Session
  BY <1>6, <1>7 DEF Burn, RefuseAccount, Logout, Fail, Steps, tokenVars
<1>8. ASSUME NEW r \in Requests, Rotate(r)
      PROVE  UNCHANGED Session
  <2>1. /\ req'[r].kind = "refresh" /\ req'[r].step = "rotated" /\ req'[r].shown = req[r].shown
        /\ \A s \in Requests \ {r} : req'[s] = req[s]
        /\ UNCHANGED <<made, family, aged>> /\ revoked' = revoked \cup {req[r].shown}
        /\ Usable(req[r].shown) /\ ~Rotating(r)
    BY <1>8, GotoChanges DEF Rotate, Rotating, IInv, Steps
  <2>2. Rotating(r)' /\ \A s \in Requests \ {r} : (Rotating(s)' <=> Rotating(s)) /\ req'[s] = req[s]
    BY <2>1 DEF Rotating
  <2>3. req[r].shown \in Tokens
    <3>1. req[r].shown \in 1..made
      BY <2>1 DEF Usable, Unrevoked
    <3>2. \A n \in 1..made : n \in 1..MaxTokens
      BY <1>1
    <3>3. QED
      BY <3>1, <3>2 DEF Tokens
  <2>4. \A n \in Tokens : Usable(n)' <=> Usable(n) /\ n # req[r].shown
    BY <2>1 DEF Usable, Unrevoked
  <2>5. \A f \in Tokens : Open(f)' <=> Open(f)
    BY <2>1, <2>2, <2>3, <2>4 DEF Open
  <2>6. \A f \in Tokens : SessionOf(f)' = SessionOf(f)
    BY <2>1, <2>5 DEF SessionOf
  <2>7. QED
    BY <2>6 DEF Session
<1>9. ASSUME NEW r \in Requests, NEW f \in Tokens, Creates(r, f), UNCHANGED aged,
             Rotating(r) => f = family[req[r].shown]
      PROVE  Open(f)' /\ \A g \in Tokens \ {f} : Open(g)' <=> Open(g)
  <2>1. /\ made + 1 \in Tokens /\ made' = made + 1 /\ family'[made + 1] = f
        /\ \A n \in Tokens \ {made + 1} : family'[n] = family[n]
        /\ revoked' = revoked /\ revoked \subseteq 1..made
    BY <1>9 DEF Creates, IInv, TypeOK
  <2>2. PICK m \in Tokens : m = made + 1
    BY <2>1
  <2>3. Usable(m)' /\ ~Usable(m) /\ \A n \in Tokens \ {m} : Usable(n)' <=> Usable(n)
    BY <1>1, <1>9, <2>1, <2>2 DEF Usable, Unrevoked
  <2>4. \A s \in Requests : Rotating(s)' <=> s # r /\ Rotating(s)
    BY <1>9 DEF Creates, Rotating
  <2>5. \A s \in Requests : Rotating(s) => req[s].shown \in Tokens \ {made + 1}
    BY <1>1, ShownExists DEF IInv
  <2>6. \A s \in Requests : Rotating(s)' => family'[req'[s].shown] = family[req[s].shown]
    BY <1>9, <2>1, <2>4, <2>5 DEF Creates
  <2>7. Open(f)'
    BY <2>1, <2>2, <2>3 DEF Open
  <2>8. ASSUME NEW g \in Tokens \ {f}
        PROVE  Open(g)' <=> Open(g)
    <3>1. (\E n \in Tokens : Usable(n)' /\ family'[n] = g) <=> (\E n \in Tokens : Usable(n) /\ family[n] = g)
      BY <2>1, <2>2, <2>3
    <3>2. (\E s \in Requests : Rotating(s)' /\ family'[req'[s].shown] = g)
            <=> (\E s \in Requests : Rotating(s) /\ family[req[s].shown] = g)
      BY <1>9, <2>4, <2>6
    <3>3. QED
      BY <3>1, <3>2 DEF Open
  <2>9. QED
    BY <2>7, <2>8
<1>10. ASSUME NEW r \in Requests, Login(r)
       PROVE  \E f \in Tokens : Contract!Begin(f)
  <2>1. Creates(r, made + 1) /\ ~Rotating(r) /\ UNCHANGED aged
    BY <1>10, CreatingChanges DEF Login, Create, Rotating
  <2>2. PICK m \in Tokens : m = made + 1
    BY <2>1 DEF Creates
  <2>3. \A n \in Tokens \ {m} : family'[n] = family[n]
    BY <2>1, <2>2 DEF Creates
  <2>4. Open(m)' /\ \A g \in Tokens \ {m} : Open(g)' <=> Open(g)
    BY <1>9, <2>1, <2>2
  <2>5. ~Open(m) /\ family[m] # m
    BY <1>1, <2>2, OpenNamed DEF IInv, FamiliesNamed
  <2>6. /\ SessionOf(m) = "none" /\ SessionOf(m)' = "open"
        /\ \A g \in Tokens \ {m} : SessionOf(g)' = SessionOf(g)
    BY <2>3, <2>4, <2>5 DEF SessionOf
  <2>7. Contract!Begin(m)
    BY <2>6 DEF Contract!Begin
  <2>8. QED
    BY <2>7
<1>11. ASSUME NEW r \in Requests, Replace(r)
       PROVE  UNCHANGED Session
  <2>1. Rotating(r) /\ req[r].shown \in 1..made /\ UNCHANGED aged
    BY <1>11, ShownExists DEF Replace, Create, IInv
  <2>2. PICK f \in Tokens : f \in 1..made /\ f = family[req[r].shown]
    <3>1. /\ req[r].shown \in Tokens
          /\ \A n \in Tokens : IF n <= made THEN family[n] \in 1..n ELSE family[n] = 0
      BY <2>1, ShownExists DEF IInv, FamiliesNamed
    <3>2. family[req[r].shown] \in 1..made
      BY <1>1, <2>1, <3>1
    <3>3. QED
      BY <1>1, <3>2 DEF Tokens
  <2>3. Creates(r, f)
    BY <1>11, <2>1, <2>2, CreatingChanges DEF Rotating
  <2>4. Open(f)' /\ Open(f) /\ \A g \in Tokens \ {f} : Open(g)' <=> Open(g)
    BY <1>9, <2>1, <2>2, <2>3 DEF Open
  <2>5. /\ made + 1 \in Tokens /\ family'[made + 1] = f /\ f # made + 1
        /\ \A g \in Tokens \ {made + 1} : family'[g] = family[g]
    <3>1. made + 1 \in Tokens /\ family'[made + 1] = f
      BY <2>3 DEF Creates
    <3>2. \A g \in Tokens \ {made + 1} : family'[g] = family[g]
      BY <2>3 DEF Creates
    <3>3. f # made + 1
      BY <1>1, <2>2
    <3>4. QED
      BY <3>1, <3>2, <3>3
  <2>6. family[made + 1] # made + 1
    BY <1>1, <2>5 DEF IInv, FamiliesNamed
  <2>7. \A g \in Tokens : SessionOf(g)' = SessionOf(g)
    BY <2>4, <2>5, <2>6 DEF SessionOf
  <2>8. QED
    BY <2>7 DEF Session
<1>12. CASE Expire
  <2>1. aged' = aged + 1 /\ UNCHANGED <<made, family, revoked, req>>
    BY <1>12 DEF Expire
  <2>2. \A n \in Tokens : Usable(n)' <=> Usable(n) /\ n # aged + 1
    BY <1>1, <2>1 DEF Usable, Unrevoked
  <2>3. \A s \in Requests : (Rotating(s)' <=> Rotating(s)) /\ req'[s] = req[s]
    BY <2>1 DEF Rotating
  <2>4. \A f \in Tokens : Open(f)' => Open(f)
    BY <2>1, <2>2, <2>3 DEF Open
  <2>5. \A f \in Tokens \ {family[aged + 1]} : Open(f) => Open(f)'
    BY <2>1, <2>2, <2>3 DEF Open
  <2>6. QED
    BY <2>1, <2>4, <2>5, EndsOrStays DEF Contract!SNext
<1>13. CASE Sweep \/ UNCHANGED authVars
  <2>1. UNCHANGED <<made, family, revoked, aged, req>>
    BY <1>13 DEF Sweep, authVars, tokenVars
  <2>2. \A f \in Tokens : SessionOf(f)' = SessionOf(f)
    BY <2>1 DEF SessionOf, Open, Usable, Unrevoked, Rotating
  <2>3. QED
    BY <2>2 DEF Session
<1>14. QED
  BY <1>3, <1>4, <1>5, <1>7, <1>8, <1>10, <1>11, <1>12, <1>13
     DEF Next, Handle, Kinds, Contract!SNext

\* The API's tokens implement the contract: a session begins once, with a
\* login, and ends once; rotation hands it on unnoticed (auth.ts:60-75,
\* 196-268).
THEOREM TokensImplement == Spec => ImplementsSession
<1>1. Init => Contract!SInit
  <2> SUFFICES ASSUME Init, NEW f \in Tokens
               PROVE  SessionOf(f) = "none"
    BY DEF Contract!SInit
  <2>1. IInv /\ made = 0 /\ family[f] = 0 /\ f # 0
    BY InitHolds DEF Init, Tokens
  <2>2. ~Open(f)
    BY <2>1, OpenNamed
  <2>3. QED
    BY <2>1, <2>2 DEF SessionOf
<1>2. Session = [f \in Tokens |-> SessionOf(f)]
  BY DEF Session
<1>3. IInv /\ [Next]_authVars => [Contract!SNext]_([f \in Tokens |-> SessionOf(f)])
  BY SessionSteps DEF Session
<1>4. QED
  BY <1>1, <1>3, InitHolds, NextHolds, PTL DEF Spec, ImplementsSession, Contract!SSpec

\* So do they below the tabs of a browser.
THEOREM WebImplements == WSpec => ImplementsSession
<1>1. WInit => Init
  BY DEF WInit
<1>2. WIInv /\ [WNext]_vars => [Next]_authVars
  BY StepOfTokens DEF WIInv
<1>3. WSpec => Spec
  BY <1>1, <1>2, WebHolds, PTL DEF WSpec, Spec
<1>4. QED
  BY <1>3, TokensImplement
=============================================================================

----------------------------- MODULE WebSession -----------------------------
(***************************************************************************)
(* The browser's side of a session, composed with RefreshTokens: the tabs  *)
(* of one browser (apps/web/src/lib: http.ts, singleFlight.ts,             *)
(* authStore.ts, authApi.ts; context/AuthContext.tsx; App.tsx) and the     *)
(* refresh cookie they share.                                              *)
(*                                                                         *)
(* A browser attaches the cookie when a request leaves and obeys the       *)
(* Set-Cookie of a response when it arrives; requests overtake each other  *)
(* at will.  A request whose page is gone goes on at the API, and its      *)
(* response is not looked at.                                              *)
(***************************************************************************)
EXTENDS RefreshTokens, FiniteSets

CONSTANTS
    Tabs,
    NoTab,         \* no tab waits for this request any more
    MaxLogins,     \* bound on the logins sent
    MaxFaults      \* bound on lost answers, failed handlers and page loads

ASSUME WebAssumption ==
    /\ NoTab \notin Tabs
    /\ MaxLogins \in Nat
    /\ MaxFaults \in Nat

VARIABLES
    cookie,        \* the token in the browser's refresh cookie, 0 for none
    page,          \* [Tabs -> what App renders from the tab's authStore]
    waits,         \* [Requests -> the tab that awaits the response]
    logins,        \* logins sent so far
    faults         \* faults so far

webVars == <<cookie, page, waits, logins, faults>>
vars    == <<authVars, webVars>>

\* "loading" while bootstrapping, "app" with a user and an access token,
\* "gate" without; "closed" is a tab not opened yet.
Pages == {"closed", "loading", "gate", "app"}

WTypeOK ==
    /\ TypeOK
    /\ cookie \in 0..MaxTokens
    /\ page \in [Tabs -> Pages]
    /\ waits \in [Requests -> Tabs \cup {NoTab}]
    /\ logins \in 0..MaxLogins
    /\ faults \in 0..MaxFaults

WInit ==
    /\ Init
    /\ cookie = 0
    /\ page = [t \in Tabs |-> "closed"]
    /\ waits = [r \in Requests |-> NoTab]
    /\ logins = 0
    /\ faults = 0

-----------------------------------------------------------------------------
\* Requests that have still to create a token: tokens are kept for them.
Creating(r) == req[r].kind \in {"login", "refresh"} /\ ~Answered(r)
Room == made + Cardinality({r \in Requests : Creating(r)}) < MaxTokens

\* Tab t sends a request with the browser's cookie.
Ask(t, kind) ==
    \E r \in Requests :
        /\ Send(r, kind, cookie)
        /\ waits' = [waits EXCEPT ![r] = t]

InFlight(t) == {r \in Requests : waits[r] = t /\ req[r].kind = "refresh"}

\* Mutant: every 401 calls /refresh by itself.
AskToRefreshAgain(t) == Room /\ Ask(t, "refresh")

\* refreshSession: whoever calls it while it is in flight shares the call.
AskToRefresh(t) ==
    /\ InFlight(t) = {}
    /\ Room
    /\ Ask(t, "refresh")

\* The page is loaded, in a new tab or over an old page, and bootstraps.  The
\* old page's requests are on their own.
Load(t) ==
    /\ Room
    /\ IF page[t] = "closed" THEN UNCHANGED faults
       ELSE faults < MaxFaults /\ faults' = faults + 1
    /\ page' = [page EXCEPT ![t] = "loading"]
    /\ \E r \in Requests :
        /\ Send(r, "refresh", cookie)
        /\ waits' = [s \in Requests |->
              IF s = r THEN t ELSE IF waits[s] = t THEN NoTab ELSE waits[s]]
    /\ UNCHANGED <<cookie, logins>>

\* A call is answered 401: one of the app, because the access token is too
\* old, or a login with the wrong password, which the interceptor treats the
\* same.  The call itself and its second attempt touch none of this state.
Unauthorized(t) ==
    /\ page[t] \in {"gate", "app"}
    /\ AskToRefresh(t)
    /\ UNCHANGED <<cookie, page, logins, faults>>

\* A login with the right password.  The demo button and the form do not
\* wait for each other.
AskToLogIn(t) ==
    /\ page[t] = "gate"
    /\ logins < MaxLogins
    /\ Room
    /\ logins' = logins + 1
    /\ Ask(t, "login")
    /\ UNCHANGED <<cookie, page, faults>>

AskToLogOut(t) ==
    /\ page[t] = "app"
    /\ ~\E r \in Requests : waits[r] = t /\ req[r].kind = "logout"
    /\ Ask(t, "logout")
    /\ UNCHANGED <<cookie, page, logins, faults>>

-----------------------------------------------------------------------------
\* Mutant: the answer to a refresh sets no cookie.
ObeyAllButRefresh(r) ==
    CASE req[r].step = "ok" /\ req[r].kind = "login" -> req[r].new
      [] req[r].step = "ok" /\ req[r].kind = "logout" -> 0
      [] Refused(r) /\ req[r].shown # 0 -> 0
      [] OTHER -> cookie

\* The cookie after the answer to r: set by a login or a refresh, cleared by
\* a logout or a refused refresh; "Missing refresh token" and errors leave it.
Obey(r) ==
    CASE req[r].step = "ok" /\ req[r].kind # "logout" -> req[r].new
      [] req[r].step = "ok" /\ req[r].kind = "logout" -> 0
      [] Refused(r) /\ req[r].shown # 0 -> 0
      [] OTHER -> cookie

\* setSession and clearSession: the page after the answer to r.
Store(r, t) ==
    CASE req[r].kind = "logout" -> "gate"
      [] req[r].kind \in {"login", "refresh"} /\ req[r].step = "ok" -> "app"
      [] req[r].kind = "refresh" /\ req[r].step # "ok" -> "gate"
      [] OTHER -> page[t]

\* The answer to r arrives, or the error that stands for it.
Reply(r) ==
    /\ Finish(r)
    /\ IF waits[r] = NoTab THEN UNCHANGED <<cookie, page>>
       ELSE /\ cookie' = Obey(r)
            /\ page' = [page EXCEPT ![waits[r]] = Store(r, waits[r])]
    /\ waits' = [waits EXCEPT ![r] = NoTab]
    /\ UNCHANGED <<logins, faults>>

\* The connection is lost: the client sees an error, the handler goes on.
Drop(r) ==
    /\ waits[r] # NoTab
    /\ faults < MaxFaults
    /\ faults' = faults + 1
    /\ page' = [page EXCEPT ![waits[r]] =
          IF req[r].kind \in {"refresh", "logout"} THEN "gate" ELSE @]
    /\ waits' = [waits EXCEPT ![r] = NoTab]
    /\ UNCHANGED <<authVars, cookie, logins>>

WFail(r) ==
    /\ faults < MaxFaults
    /\ Fail(r)
    /\ faults' = faults + 1
    /\ UNCHANGED <<cookie, page, waits, logins>>

Server(r) == (Handle(r) \/ RefuseAccount(r)) /\ UNCHANGED webVars
Time      == (Expire \/ Sweep) /\ UNCHANGED webVars

WNext ==
    \/ \E t \in Tabs : Load(t) \/ Unauthorized(t) \/ AskToLogIn(t) \/ AskToLogOut(t)
    \/ \E r \in Requests : Server(r) \/ Reply(r) \/ Drop(r) \/ WFail(r)
    \/ Time

WSpec == WInit /\ [][WNext]_vars

-----------------------------------------------------------------------------
(* Properties.                                                             *)

\* Nothing but tab t has happened yet.
Alone(t) == faults = 0 /\ \A u \in Tabs \ {t} : page[u] = "closed"

\* While nothing is lost, a single tab never presents a token of its own
\* again while the session goes on: however many calls are refused at once,
\* and whatever it logs in and out of, the API burns nothing that is in use
\* (http.ts:25-31, singleFlight.ts:7-16).
NoSelfReuse ==
    \A r \in Requests :
        req[r].step = "reused" /\ Alone(waits[r]) => ~Open(family[req[r].shown])

\* The memory of a tab and the browser's cookie agree: a single tab that
\* shows the app and awaits nothing can refresh its session, if that has not
\* expired (http.ts:36, auth.ts:200-252).
SignedInCanRefresh ==
    \A t \in Tabs :
        /\ Alone(t)
        /\ page[t] = "app"
        /\ \A r \in Requests : waits[r] # t
        => Unrevoked(cookie)

\* A logout that presents the browser's current token, while no refresh of
\* its session is unanswered and nothing was lost before, ends the session,
\* whatever the tabs did to get there (auth.ts:255-268).
LogoutEnds ==
    [][\A r \in Requests :
        LET f == family[req[r].shown]
        IN  /\ Logout(r)
            /\ faults = 0
            /\ req[r].shown # 0
            /\ req[r].shown = cookie
            /\ \A s \in Requests :
                 req[s].kind = "refresh" /\ req[s].shown # 0 => family[req[s].shown] # f
            => ~Open(f)']_vars

-----------------------------------------------------------------------------
(* What the properties rest on.                                            *)

\* r's answer, which has not arrived, hands out a token.
Handing(r) == req[r].kind \in {"login", "refresh"} /\ req[r].step = "ok"

\* The browser holds, and is handed, tokens that exist; only a refresh misses,
\* burns or is refused.
KindsKept ==
    /\ cookie <= made
    /\ \A r \in Requests :
        /\ req[r].new <= made
        /\ req[r].kind = "none" => req[r] = Idle
        /\ req[r].step \in {"missed", "reused", "refused", "burnt"} => req[r].kind = "refresh"

\* A request is awaited by a tab that was opened, and as long as nothing was
\* lost every request is awaited.
Awaited ==
    /\ \A r \in Requests : waits[r] # NoTab => page[waits[r]] # "closed"
    /\ faults = 0 =>
        \A r \in Requests : req[r] # Idle => waits[r] # NoTab /\ req[r].step # "failed"

\* A token that is not delivered is on its way once and presented by nobody;
\* it is the first of its family or follows the token that was shown for it.
Undelivered ==
    \A r \in Requests :
        Handing(r) =>
            /\ req[r].new \in 1..made
            /\ req[r].new # cookie
            /\ \A s \in Requests : req[s].shown # req[r].new
            /\ \A s \in Requests \ {r} : req[s].new # req[r].new
            /\ IF req[r].kind = "login"
               THEN \A n \in 1..made : family[n] = family[req[r].new] => n = req[r].new
               ELSE req[r].shown \in 1..made /\ family[req[r].shown] = family[req[r].new]

\* While it is not delivered no other token of its family lives or is being
\* made.
HandingHolds ==
    \A r \in Requests :
        Handing(r) =>
            /\ \A n \in 1..made :
                Unrevoked(n) /\ family[n] = family[req[r].new] => n = req[r].new
            /\ \A s \in Requests : Rotating(s) => family[req[s].shown] # family[req[r].new]

\* As long as nothing was lost, the live token of the cookie's family is the
\* cookie or on its way to become it.
CookieCurrent ==
    faults = 0 /\ cookie # 0 =>
        \A n \in 1..made :
            Unrevoked(n) /\ n # cookie /\ family[n] = family[cookie] =>
                \E r \in Requests : Handing(r) /\ req[r].kind = "refresh" /\ req[r].new = n

\* What single flight gives a single tab: one refresh at a time, which shows
\* the only token of its family that may live; tokens that are delivered
\* alive; and a cookie that lives, unless an answer is to come that takes the
\* tab out of the app or renews the cookie.
SingleTab ==
    \A t \in Tabs :
        Alone(t) =>
            /\ \A r, s \in Requests :
                req[r].kind = "refresh" /\ req[s].kind = "refresh" => r = s
            /\ \A r \in Requests, n \in 1..made :
                /\ req[r].kind = "refresh" /\ req[r].step \in {"sent", "missed", "reused"}
                /\ req[r].shown # 0
                /\ Unrevoked(n) /\ family[n] = family[req[r].shown]
                => n = req[r].shown
            /\ \A r \in Requests : Handing(r) => Unrevoked(req[r].new)
            /\ page[t] = "app" =>
                \/ Unrevoked(cookie)
                \/ \E r \in Requests : req[r].kind \in {"refresh", "logout"}

\* The tokens of RefreshTokens, and where the browser stands with them.
WIInv ==
    /\ WTypeOK /\ IInv /\ KindsKept /\ Awaited
    /\ Undelivered /\ HandingHolds /\ CookieCurrent /\ SingleTab
=============================================================================

--------------------------- MODULE SessionContract ---------------------------
(***************************************************************************)
(* What the refresh tokens promise: a session, which is what the code      *)
(* calls a family, is begun by one login, lasts, and ends once.  An ended  *)
(* session is never taken up again.                                        *)
(***************************************************************************)
CONSTANT Sessions

VARIABLE session   \* [Sessions -> "none", "open" or "ended"]

SInit == session = [s \in Sessions |-> "none"]

Begin(s) == session[s] = "none" /\ session' = [session EXCEPT ![s] = "open"]
End(s)   == session[s] = "open" /\ session' = [session EXCEPT ![s] = "ended"]

SNext == \E s \in Sessions : Begin(s) \/ End(s)

SSpec == SInit /\ [][SNext]_session
=============================================================================

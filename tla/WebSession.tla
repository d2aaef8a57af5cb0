----------------------------- MODULE WebSession -----------------------------
(***************************************************************************)
(* The web interface in front of Accounts: a page that makes its calls in  *)
(* parallel, and apiRequest of lib/api.ts, which answers a 401 by          *)
(* redeeming the refresh cookie once and replaying the call.  The refresh  *)
(* of call q is request q of Accounts.                                     *)
(***************************************************************************)
EXTENDS Accounts

VARIABLES
  jar,    \* the session whose cookies the browser holds
  stale,  \* sessions whose access token is past its exp
  call    \* the calls of the page

webVars == <<jar, stale, call>>

CallStates == {"idle", "unauthorized", "refreshing", "replay", "answered", "refused"}

InitWeb ==
  /\ Init
  /\ jar = First /\ stale = {}
  /\ call = [q \in Requests |-> "idle"]

CallGoes(q, to) == call' = [call EXCEPT ![q] = to]

\* The guard in front of every controller, on the cookies a call carries.
Authorized(jti) == jti \notin stale /\ \E s \in sessions : s.jti = jti /\ SameEpoch(s, user)

\* fetch, with the cookies of that moment.
PageCall(q) ==
  /\ call[q] = "idle"
  /\ CallGoes(q, IF Authorized(jar) THEN "answered" ELSE "unauthorized")
  /\ UNCHANGED <<vars, jar, stale>>

\* tryRefreshSession: every call that got a 401 sends a refresh of its own.
TryRefresh(q) ==
  /\ call[q] = "unauthorized"
  /\ PresentRefresh(q) /\ req'[q].from = jar
  /\ CallGoes(q, "refreshing")
  /\ UNCHANGED <<jar, stale>>

ServerRefreshes(q) ==
  /\ call[q] = "refreshing"
  /\ ReadForRefresh(q) \/ RedeemJti(q) \/ PunishReuse(q) \/ IssueTokens(q)
  /\ UNCHANGED webVars

\* The answer sets the cookies of the new session, or it is a 401 again.
RefreshAnswered(q) ==
  /\ call[q] = "refreshing" /\ req[q].pc = "over"
  /\ IF \E s \in sessions : s.jti = q
     THEN jar' = q /\ CallGoes(q, "replay")
     ELSE CallGoes(q, "refused") /\ UNCHANGED jar
  /\ UNCHANGED <<vars, stale>>

\* The call is made once more, and whatever comes back is handed to the page.
Replay(q) ==
  /\ call[q] = "replay"
  /\ CallGoes(q, IF Authorized(jar) THEN "answered" ELSE "refused")
  /\ UNCHANGED <<vars, jar, stale>>

\* No exchange takes as long as the token it fetched lives.
AccessTokenExpires ==
  /\ \A q \in Requests : call[q] \notin {"refreshing", "replay"}
  /\ stale' = stale \cup {jar}
  /\ UNCHANGED <<vars, jar, call>>

NextWeb ==
  \/ \E q \in Requests : PageCall(q) \/ TryRefresh(q) \/ ServerRefreshes(q)
                         \/ RefreshAnswered(q) \/ Replay(q)
  \/ AccessTokenExpires

SpecWeb == InitWeb /\ [][NextWeb]_<<vars, webVars>>

Waiting(q) == call[q] \in {"unauthorized", "refreshing", "replay"}

\* A page that makes its next call when it has the answer to the last.
OneCall == \A p, q \in Requests : Waiting(p) /\ Waiting(q) => p = q

-----------------------------------------------------------------------------
\* A call of a signed-in page is never refused because the access token ran out in the
\* meantime: the interface will "transparently refresh once and replay the request"
\* (lib/api.ts:953-954).
ExpiryIsTransparent == \A q \in Requests : call[q] # "refused"
=============================================================================

-------------------------- MODULE WebSessionProofs --------------------------
(* Proofs about WebSession.  The panel behind the page is Accounts, so what *)
(* is proved there holds here; and the refresh is invisible to the user of  *)
(* a page that makes one call at a time.                                    *)
EXTENDS WebSession, AccountsProofs

\* Every step of page and panel is a step of Accounts or leaves it alone.
LEMMA PanelSteps ==
  ASSUME [NextWeb]_<<vars, webVars>>
  PROVE  [Next]_vars
<1>1. ASSUME NEW q \in Requests, PageCall(q) \/ RefreshAnswered(q) \/ Replay(q)
      PROVE  UNCHANGED vars
  BY <1>1 DEF PageCall, RefreshAnswered, Replay, vars
<1>2. ASSUME NEW q \in Requests, TryRefresh(q) \/ ServerRefreshes(q)
      PROVE  Next
  BY <1>2 DEF TryRefresh, ServerRefreshes, Next, RefreshStep, SignInStep
<1>3. AccessTokenExpires \/ UNCHANGED <<vars, webVars>> => UNCHANGED vars
  BY DEF AccessTokenExpires, vars
<1> QED BY <1>1, <1>2, <1>3 DEF NextWeb

\* The interface in front of the panel takes none of its promises away (apiRequest and
\* tryRefreshSession only call its endpoints).
THEOREM PanelBehindThePage == SpecWeb => Spec /\ SessionsComeAndEnd
<1>1. InitWeb => Init
  BY DEF InitWeb
<1> QED BY <1>1, PanelSteps, SessionsImplement, PTL DEF SpecWeb, Spec

-----------------------------------------------------------------------------
(* One call at a time.  The page never presents a refresh token that was    *)
(* redeemed, so the panel never punishes, and its epoch stands still; the   *)
(* cookies are those of the last session issued.                            *)

Issued(t) == \E s \in sessions : s.jti = t

WebTypes == stale \subseteq Tokens /\ call \in [Requests -> CallStates]

EpochStands == user.tv = 0 /\ \A s \in sessions : s.tv = 0

KnownTokens == Issued(jar) /\ \A t \in stale \cup marks : Issued(t)

\* Where the handler of a refresh is, by what its call waits for.
CallSound(q) ==
  /\ call[q] \in {"idle", "unauthorized"} => req[q].pc = "idle"
  /\ call[q] = "refreshing" =>
       \/ req[q].pc \in {"presented", "matched", "issue"} /\ req[q].kind = "refresh" /\ req[q].from = jar
       \/ req[q].pc = "over" /\ Issued(q) /\ q \notin stale \cup marks
  /\ call[q] = "replay" => jar = q /\ q \notin stale
  /\ call[q] # "refused"

\* The cookie the browser holds is redeemed only by the call that is about to replace it.
Unredeemed ==
  jar \in marks => \E q \in Requests : call[q] = "refreshing" /\ req[q].pc \in {"issue", "over"}

WebInv ==
  /\ WebTypes /\ EpochStands /\ KnownTokens /\ Unredeemed
  /\ \A q \in Requests : CallSound(q)

LEMMA WebInit == InitWeb => WebInv
<1> SUFFICES ASSUME InitWeb PROVE WebInv
  OBVIOUS
<1>1. user.tv = 0 /\ sessions = {SignedIn(First, 0, user)}
  BY DEF InitWeb, Init
<1>2. SignedIn(First, 0, user).tv = 0 /\ SignedIn(First, 0, user).jti = First
  BY DEF SignedIn
<1>3. EpochStands /\ Issued(First)
  BY <1>1, <1>2 DEF EpochStands, Issued
<1>4. jar = First /\ stale = {} /\ marks = {} /\ call = [q \in Requests |-> "idle"]
  BY DEF InitWeb, Init
<1>5. \A q \in Requests : req[q].pc = "idle"
  BY DEF InitWeb, Init, NoLocals
<1> QED BY <1>3, <1>4, <1>5 DEF WebInv, WebTypes, CallStates, KnownTokens, Unredeemed, CallSound

\* A step of the page itself.
LEMMA PageStep ==
  ASSUME TypeOK, WebInv, NEW q \in Requests, UNCHANGED <<vars, stale>>,
         NEW to \in CallStates, CallGoes(q, to), CallSound(q)', Issued(jar)',
         jar' = jar \/ (jar' \notin marks /\ \A p \in Requests : Waiting(p) => p = q),
         call[q] # "refreshing" \/ jar \notin marks \/ jar' # jar
  PROVE  WebInv'
<1>1. UNCHANGED <<user, sessions, marks, req, stale>>
  BY DEF vars, redisVars
<1>2. call' \in [Requests -> CallStates] /\ \A p \in Requests : call'[p] = IF p = q THEN to ELSE call[p]
  BY DEF CallGoes, WebInv, WebTypes
<1>3. WebTypes' /\ EpochStands' /\ KnownTokens'
  BY <1>1, <1>2 DEF WebInv, WebTypes, EpochStands, KnownTokens, Issued
<1>4. Unredeemed'
  BY <1>1, <1>2 DEF WebInv, Unredeemed
<1>5. ASSUME NEW p \in Requests PROVE CallSound(p)'
  <2>1. CASE p = q
    BY <2>1
  <2>2. CASE p # q
    <3>1. call'[p] = call[p] /\ CallSound(p)
      BY <1>2, <2>2 DEF WebInv
    <3>2. jar' # jar => ~Waiting(p)
      BY <2>2
    <3> QED BY <1>1, <3>1, <3>2 DEF CallSound, Issued, Waiting
  <2> QED BY <2>1, <2>2
<1> QED BY <1>3, <1>4, <1>5 DEF WebInv

LEMMA PageCalls ==
  ASSUME TypeOK, WebInv, NEW q \in Requests, PageCall(q)
  PROVE  WebInv'
<1> DEFINE to == IF Authorized(jar) THEN "answered" ELSE "unauthorized"
<1>1. UNCHANGED <<vars, jar, stale>> /\ call[q] = "idle" /\ CallGoes(q, to) /\ to \in CallStates
  BY DEF PageCall, CallStates
<1>2. call'[q] = to
  BY <1>1 DEF CallGoes, WebInv, WebTypes
<1>3. UNCHANGED <<sessions, req>> /\ req[q].pc = "idle"
  BY <1>1 DEF vars, WebInv, CallSound
<1>4. CallSound(q)' /\ Issued(jar)'
  BY <1>1, <1>2, <1>3 DEF CallSound, WebInv, KnownTokens, Issued
<1> HIDE DEF to
<1> QED BY <1>1, <1>4, PageStep

LEMMA Replays ==
  ASSUME TypeOK, WebInv, NEW q \in Requests, Replay(q)
  PROVE  WebInv'
<1>1. UNCHANGED <<vars, jar, stale>> /\ call[q] = "replay"
  BY DEF Replay
<1>2. Issued(jar) /\ jar \notin stale
  BY <1>1 DEF WebInv, KnownTokens, CallSound
<1>3. Authorized(jar)
  BY <1>2 DEF WebInv, EpochStands, Authorized, SameEpoch, Issued
<1>4. CallGoes(q, "answered") /\ "answered" \in CallStates
  BY <1>3 DEF Replay, CallStates
<1>5. call'[q] = "answered"
  BY <1>4 DEF CallGoes, WebInv, WebTypes
<1>6. CallSound(q)' /\ Issued(jar)'
  BY <1>1, <1>2, <1>5 DEF CallSound, Issued, vars
<1> QED BY <1>1, <1>4, <1>6, PageStep

\* The answer to a refresh brings the cookies of a new session.
LEMMA Answers ==
  ASSUME TypeOK, WebInv, OneCall, NEW q \in Requests, RefreshAnswered(q)
  PROVE  WebInv'
<1>1. UNCHANGED <<vars, stale>> /\ call[q] = "refreshing" /\ req[q].pc = "over"
  BY DEF RefreshAnswered
<1>2. Issued(q) /\ q \notin stale \cup marks
  BY <1>1 DEF WebInv, CallSound
<1>3. jar' = q /\ CallGoes(q, "replay") /\ "replay" \in CallStates
  BY <1>2 DEF RefreshAnswered, Issued, CallStates
<1>4. call'[q] = "replay"
  BY <1>3 DEF CallGoes, WebInv, WebTypes
<1>5. CallSound(q)' /\ Issued(jar)'
  BY <1>1, <1>2, <1>3, <1>4 DEF CallSound, Issued, vars
<1>6. \A p \in Requests : Waiting(p) => p = q
  BY <1>1 DEF OneCall, Waiting
<1>7. jar # q \/ jar \notin marks
  BY <1>2
<1> QED BY <1>1, <1>2, <1>3, <1>5, <1>6, <1>7, PageStep

LEMMA Expires ==
  ASSUME TypeOK, WebInv, AccessTokenExpires
  PROVE  WebInv'
<1>1. stale' = stale \cup {jar} /\ UNCHANGED <<vars, jar, call>>
      /\ \A q \in Requests : call[q] \notin {"refreshing", "replay"}
  BY DEF AccessTokenExpires
<1>2. UNCHANGED <<user, sessions, marks, req>>
  BY <1>1 DEF vars, redisVars
<1>3. jar \in Tokens
  BY DEF WebInv, KnownTokens, Issued, TypeOK, Session
<1>4. WebTypes' /\ EpochStands' /\ KnownTokens' /\ Unredeemed'
  BY <1>1, <1>2, <1>3 DEF WebInv, WebTypes, EpochStands, KnownTokens, Issued, Unredeemed
<1>5. ASSUME NEW q \in Requests PROVE CallSound(q)'
  BY <1>1, <1>2 DEF WebInv, CallSound
<1> QED BY <1>4, <1>5 DEF WebInv

\* A step of the panel for the one call that waits for it; what it leaves for the others.
LEMMA HandlerStep ==
  ASSUME TypeOK, WebInv, OneCall, NEW q \in Requests, Waiting(q), UNCHANGED <<user, jar, stale>>,
         \A p \in Requests : p # q => req'[p] = req[p] /\ call'[p] = call[p],
         call' \in [Requests -> CallStates], sessions \subseteq sessions',
         \A s \in sessions' : s.tv = 0, \A t \in marks' : Issued(t),
         CallSound(q)', Unredeemed'
  PROVE  WebInv'
<1>1. WebTypes' /\ EpochStands' /\ KnownTokens'
  BY DEF WebInv, WebTypes, EpochStands, KnownTokens, Issued
<1>2. ASSUME NEW p \in Requests, p # q PROVE CallSound(p)'
  <2>1. ~Waiting(p) /\ CallSound(p)
    BY <1>2 DEF OneCall, WebInv
  <2> QED BY <1>2, <2>1 DEF CallSound, Waiting
<1> QED BY <1>1, <1>2 DEF WebInv

\* What At leaves of a request that goes on.
LEMMA StillThere ==
  ASSUME NEW r \in Request, NEW pc \in Pcs, pc # "over"
  PROVE  /\ At(r, pc).pc = pc /\ At(r, pc).kind = r.kind /\ At(r, pc).from = r.from
         /\ \A row \in User : LET n == At([r EXCEPT !.row = row], pc)
                              IN  n.pc = pc /\ n.kind = r.kind /\ n.from = r.from
BY DEF At, Request

LEMMA Presents ==
  ASSUME TypeOK, WebInv, OneCall, NEW q \in Requests, TryRefresh(q)
  PROVE  WebInv'
<1>1. call[q] = "unauthorized" /\ req[q].pc = "idle" /\ CallGoes(q, "refreshing")
      /\ UNCHANGED <<user, sessions, marks, jar, stale>> /\ req'[q].from = jar
  BY DEF TryRefresh, PresentRefresh, redisVars
<1>2. PICK s \in sessions :
        req' = [req EXCEPT ![q] = [@ EXCEPT !.kind = "refresh", !.pc = "presented", !.from = s.jti]]
  BY DEF TryRefresh, PresentRefresh
<1>3. req'[q].kind = "refresh" /\ req'[q].pc = "presented" /\ \A p \in Requests : p # q => req'[p] = req[p]
  BY <1>2 DEF TypeOK, Request
<1>4. /\ call' \in [Requests -> CallStates] /\ call'[q] = "refreshing"
      /\ \A p \in Requests : p # q => call'[p] = call[p]
  BY <1>1 DEF CallGoes, WebInv, WebTypes, CallStates
<1>5. CallSound(q)'
  BY <1>1, <1>3, <1>4 DEF CallSound
<1>6. Waiting(q) /\ Unredeemed'
  BY <1>1 DEF WebInv, Unredeemed, OneCall, Waiting
<1>7. (\A n \in sessions' : n.tv = 0) /\ \A t \in marks' : Issued(t)
  BY <1>1 DEF WebInv, EpochStands, KnownTokens
<1> QED BY <1>1, <1>3, <1>4, <1>5, <1>6, <1>7, HandlerStep

LEMMA Matches ==
  ASSUME TypeOK, Sound, WebInv, OneCall, NEW q \in Requests, call[q] = "refreshing", ReadForRefresh(q),
         UNCHANGED webVars
  PROVE  WebInv'
<1>1. req[q].pc = "presented" /\ UNCHANGED <<user, sessions, marks, jar, stale, call>>
  BY DEF ReadForRefresh, redisVars, webVars
<1>2. req[q].kind = "refresh" /\ req[q].from = jar /\ req[q] \in Request /\ user \in User
  BY <1>1 DEF WebInv, CallSound, TypeOK
<1>3. Parent(q).tv = 0
  BY <1>2, ParentFound DEF WebInv, EpochStands
<1>4. Read(q, "matched")
  BY <1>3 DEF ReadForRefresh, SameEpoch, WebInv, EpochStands
<1>5. /\ req'[q].pc = "matched" /\ req'[q].kind = "refresh" /\ req'[q].from = jar
      /\ \A p \in Requests : p # q => req'[p] = req[p]
  BY <1>2, <1>4, StillThere DEF Read, TypeOK, Pcs
<1>6. CallSound(q)' /\ Waiting(q)
  BY <1>1, <1>5 DEF CallSound, Waiting
<1>7. Unredeemed'
  BY <1>1, <1>5 DEF WebInv, Unredeemed
<1>8. (\A s \in sessions' : s.tv = 0) /\ (\A t \in marks' : Issued(t)) /\ call' \in [Requests -> CallStates]
  BY <1>1 DEF WebInv, EpochStands, KnownTokens, WebTypes
<1> QED BY <1>1, <1>5, <1>6, <1>7, <1>8, HandlerStep

\* The jti is redeemed for the first time, or Redis cannot be asked; either way the
\* handler goes on to issue a session.
LEMMA Redeems ==
  ASSUME "redis_resend" \notin Env, TypeOK, WebInv, OneCall, NEW q \in Requests, call[q] = "refreshing",
         RedeemJti(q), UNCHANGED webVars
  PROVE  WebInv'
<1>1. req[q].pc = "matched" /\ UNCHANGED <<user, sessions, jar, stale, call>>
  BY DEF RedeemJti, webVars
<1>2. req[q].kind = "refresh" /\ req[q].from = jar /\ req[q] \in Request
  BY <1>1 DEF WebInv, CallSound, TypeOK
<1>3. FirstUse(jar)
  BY <1>1 DEF WebInv, Unredeemed, OneCall, Waiting, FirstUse
<1>4. marks' \subseteq marks \cup {jar}
  BY <1>2 DEF RedeemJti, RedisFails, redisVars
<1>5. Goto(q, "issue") \/ req' = [req EXCEPT ![q] = [@ EXCEPT !.pc = "issue", !.marked = TRUE]]
  BY <1>2, <1>3 DEF RedeemJti
<1>6. /\ req'[q].pc = "issue" /\ req'[q].kind = "refresh" /\ req'[q].from = jar
      /\ \A p \in Requests : p # q => req'[p] = req[p]
  <2>1. CASE Goto(q, "issue")
    BY <1>2, <2>1, StillThere DEF Goto, TypeOK, Pcs
  <2>2. CASE req' = [req EXCEPT ![q] = [@ EXCEPT !.pc = "issue", !.marked = TRUE]]
    BY <1>2, <2>2 DEF TypeOK, Request
  <2> QED BY <1>5, <2>1, <2>2
<1>7. CallSound(q)' /\ Waiting(q)
  BY <1>1, <1>6 DEF CallSound, Waiting
<1>8. Unredeemed'
  BY <1>1, <1>6 DEF Unredeemed
<1>9. (\A s \in sessions' : s.tv = 0) /\ (\A t \in marks' : Issued(t)) /\ call' \in [Requests -> CallStates]
  BY <1>1, <1>4 DEF WebInv, EpochStands, KnownTokens, WebTypes
<1> QED BY <1>1, <1>6, <1>7, <1>8, <1>9, HandlerStep

LEMMA Issues ==
  ASSUME TypeOK, Sound, WebInv, OneCall, NEW q \in Requests, call[q] = "refreshing", IssueTokens(q),
         UNCHANGED webVars
  PROVE  WebInv'
<1>1. req[q].pc = "issue" /\ UNCHANGED <<user, marks, jar, stale, call>> /\ Goto(q, "over")
  BY DEF IssueTokens, redisVars, webVars
<1>2. req[q].kind = "refresh" /\ Parent(q) \in sessions /\ Parent(q).tv = 0 /\ Parent(q) \in Session
  BY <1>1, ParentFound DEF WebInv, CallSound, EpochStands, TypeOK
<1>3. PICK n : /\ sessions' = sessions \cup {n}
               /\ n = [Parent(q) EXCEPT !.jti = q, !.tv = IssuedEpoch(q), !.from = req[q].from,
                                        !.marked = req[q].marked, !.line = @ \cup {req[q].from}]
  BY <1>2 DEF IssueTokens
<1>4. IssuedEpoch(q) = 0
  BY <1>1, <1>2, ParentFound DEF Sound, LocalsSound, FromSound, IssuedEpoch
<1>5. n.jti = q /\ n.tv = 0
  <2> DEFINE s == Parent(q)
  <2> HIDE DEF s
  <2> QED BY <1>2, <1>3, <1>4 DEF s, Session
<1>6. q \notin stale \cup marks
  BY <1>1 DEF WebInv, KnownTokens, Issued, Sound, SessionsSound
<1>7. req'[q].pc = "over" /\ \A p \in Requests : p # q => req'[p] = req[p]
  BY <1>1 DEF Goto, At, NoLocals, TypeOK
<1>8. CallSound(q)' /\ Waiting(q)
  BY <1>1, <1>3, <1>5, <1>6, <1>7 DEF CallSound, Waiting, Issued
<1>9. Unredeemed'
  BY <1>1, <1>7 DEF Unredeemed
<1>10. (\A s \in sessions' : s.tv = 0) /\ (\A t \in marks' : Issued(t)) /\ call' \in [Requests -> CallStates]
  BY <1>1, <1>3, <1>5 DEF WebInv, EpochStands, KnownTokens, WebTypes
<1> QED BY <1>1, <1>3, <1>7, <1>8, <1>9, <1>10, HandlerStep

LEMMA WebStep ==
  ASSUME "redis_resend" \notin Env, TypeOK, Sound, WebInv, OneCall, [NextWeb]_<<vars, webVars>>
  PROVE  WebInv'
<1>1. CASE UNCHANGED <<vars, webVars>>
  <2>1. UNCHANGED <<user, sessions, marks, req, jar, stale, call>>
    BY <1>1 DEF vars, redisVars, webVars
  <2> QED BY <2>1 DEF WebInv, WebTypes, EpochStands, KnownTokens, Unredeemed, CallSound, Issued
<1>2. ASSUME NEW q \in Requests, ServerRefreshes(q)
      PROVE  WebInv'
  <2>1. call[q] = "refreshing" /\ UNCHANGED webVars
    BY <1>2 DEF ServerRefreshes
  <2>2. ~PunishReuse(q)
    BY <2>1 DEF PunishReuse, WebInv, CallSound
  <2> QED BY <1>2, <2>1, <2>2, Matches, Redeems, Issues DEF ServerRefreshes
<1> QED BY <1>1, <1>2, PageCalls, Presents, Answers, Replays, Expires DEF NextWeb

\* A page that makes one call at a time never notices that its access token ran out: the
\* refresh always yields a session, and the replay is let in (apiRequest,
\* tryRefreshSession, consumeRefreshJti), unless Redis runs a SET twice.
THEOREM OneCallIsTransparent ==
  ASSUME "redis_resend" \notin Env
  PROVE  SpecWeb /\ []OneCall => []ExpiryIsTransparent
<1>1. InitWeb => TypeOK /\ Sound /\ WebInv
  BY AccountsInit, SoundInit, WebInit DEF InitWeb
<1>2. TypeOK /\ Sound /\ WebInv /\ OneCall /\ [NextWeb]_<<vars, webVars>> => TypeOK' /\ Sound' /\ WebInv'
  BY PanelSteps, AccountsNext, WebStep
<1>3. WebInv => ExpiryIsTransparent
  BY DEF WebInv, CallSound, ExpiryIsTransparent
<1> QED BY <1>1, <1>2, <1>3, PTL DEF SpecWeb
=============================================================================

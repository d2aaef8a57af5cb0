--------------------------- MODULE AccountsProofs ---------------------------
(* Proofs about Accounts, for every set of requests, every limit and every  *)
(* fault: which sessions the panel accepts.                                 *)
EXTENDS Accounts, TLAPS, FiniteSetTheorems

-----------------------------------------------------------------------------
(* Types.                                                                   *)

LEMMA LocalsTyped ==
  /\ NoRow \in User
  /\ \A pc \in Pcs : NoLocals(pc) \in Request
  /\ \A r \in Request, pc \in Pcs : At(r, pc) \in Request
  /\ \A r \in Request, row \in User : [r EXCEPT !.row = row] \in Request
BY DEF NoRow, User, Tokens, NoLocals, Request, AllKinds, SettingsKinds, Pcs, At

\* What the first step of each handler, and the redemption of a jti, make of a request.
LEMMA LocalsUpdated ==
  ASSUME NEW r \in Request, NEW pc \in Pcs
  PROVE  /\ \A kind \in AllKinds, pw \in Tokens, totp \in {"none", "good", "bad"} :
              [r EXCEPT !.kind = kind, !.pc = pc, !.pw = pw, !.totp = totp] \in Request
         /\ \A kind \in AllKinds, row \in User : [r EXCEPT !.kind = kind, !.row = row, !.pc = pc] \in Request
         /\ \A kind \in AllKinds, from \in Tokens : [r EXCEPT !.kind = kind, !.pc = pc, !.from = from] \in Request
         /\ [r EXCEPT !.pc = pc, !.marked = TRUE] \in Request
         /\ \A kind \in AllKinds, pw \in Tokens : [r EXCEPT !.kind = kind, !.pw = pw, !.pc = pc] \in Request
         /\ \A kind \in AllKinds, email \in Emails : [r EXCEPT !.kind = kind, !.pc = pc, !.email = email] \in Request
<1>1. ASSUME NEW kind \in AllKinds, NEW pw \in Tokens, NEW totp \in {"none", "good", "bad"}
      PROVE  [r EXCEPT !.kind = kind, !.pc = pc, !.pw = pw, !.totp = totp] \in Request
  BY DEF Request
<1>2. ASSUME NEW kind \in AllKinds, NEW row \in User
      PROVE  [r EXCEPT !.kind = kind, !.row = row, !.pc = pc] \in Request
  BY DEF Request
<1>3. ASSUME NEW kind \in AllKinds, NEW from \in Tokens
      PROVE  [r EXCEPT !.kind = kind, !.pc = pc, !.from = from] \in Request
  BY DEF Request
<1>4. [r EXCEPT !.pc = pc, !.marked = TRUE] \in Request
  BY DEF Request
<1>5. ASSUME NEW kind \in AllKinds, NEW pw \in Tokens
      PROVE  [r EXCEPT !.kind = kind, !.pw = pw, !.pc = pc] \in Request
  BY DEF Request
<1>6. ASSUME NEW kind \in AllKinds, NEW email \in Emails
      PROVE  [r EXCEPT !.kind = kind, !.pc = pc, !.email = email] \in Request
  BY DEF Request
<1> QED BY <1>1, <1>2, <1>3, <1>4, <1>5, <1>6

\* The writes of the users row.
LEMMA UserUpdated ==
  ASSUME NEW u \in User, NEW pw \in Tokens, NEW totp \in BOOLEAN
  PROVE  /\ [u EXCEPT !.totp = TRUE, !.onboarded = TRUE] \in User
         /\ [u EXCEPT !.pw = pw, !.tv = u.tv + 1] \in User
         /\ [u EXCEPT !.totp = totp] \in User
<1>1. [u EXCEPT !.totp = TRUE, !.onboarded = TRUE] \in User
  BY DEF User
<1>2. [u EXCEPT !.pw = pw, !.tv = u.tv + 1] \in User
  <2>1. u.tv + 1 \in Nat
    BY DEF User
  <2>2. ASSUME NEW n \in Nat PROVE [u EXCEPT !.pw = pw, !.tv = n] \in User
    BY DEF User
  <2> QED BY <2>1, <2>2
<1>3. [u EXCEPT !.totp = totp] \in User
  BY DEF User
<1> QED BY <1>1, <1>2, <1>3

LEMMA FailuresTyped ==
  ASSUME NEW l \in [count : Nat, timed : BOOLEAN, locked : BOOLEAN], NEW b \in BOOLEAN
  PROVE  /\ [l EXCEPT !.timed = b] \in [count : Nat, timed : BOOLEAN, locked : BOOLEAN]
         /\ [l EXCEPT !.locked = b] \in [count : Nat, timed : BOOLEAN, locked : BOOLEAN]
         /\ [l EXCEPT !.count = 0, !.timed = b] \in [count : Nat, timed : BOOLEAN, locked : BOOLEAN]
OBVIOUS

LEMMA StartTyped ==
  ASSUME req \in [Requests -> Request], NEW q \in Requests, NEW r \in Request,
         req' = [req EXCEPT ![q] = r]
  PROVE  req' \in [Requests -> Request]
OBVIOUS

LEMMA GotoTyped ==
  ASSUME req \in [Requests -> Request], NEW q \in Requests, NEW pc \in Pcs, Goto(q, pc)
  PROVE  req' \in [Requests -> Request]
BY LocalsTyped DEF Goto

LEMMA ReadTyped ==
  ASSUME req \in [Requests -> Request], user \in User, NEW q \in Requests, NEW pc \in Pcs, Read(q, pc)
  PROVE  req' \in [Requests -> Request]
<1>1. At([req[q] EXCEPT !.row = user], pc) \in Request
  BY LocalsTyped
<1> QED BY <1>1 DEF Read

LEMMA AccountsInit == Init => TypeOK
<1> SUFFICES ASSUME Init PROVE TypeOK
  OBVIOUS
<1>1. user \in User /\ req \in [Requests -> Request]
  BY LocalsTyped DEF Init, User, Tokens, Pcs
<1>2. sessions \subseteq Session
  BY <1>1 DEF Init, SignedIn, Session, User, Tokens
<1> QED BY <1>1, <1>2 DEF Init, TypeOK, NoFailures

LEMMA SignInTyped ==
  ASSUME TypeOK, NEW q \in Requests, SignInStep(q), ~IssueTokens(q)
  PROVE  TypeOK'
<1>1. CASE AskLogin(q)
  <2>1. PICK pw \in {user.pw, Wrong(q)}, totp \in {"none", "good", "bad"} :
          req' = [req EXCEPT ![q] = [@ EXCEPT !.kind = "login", !.pc = "asked", !.pw = pw, !.totp = totp]]
    BY <1>1 DEF AskLogin
  <2>2. "login" \in AllKinds /\ "asked" \in Pcs /\ pw \in Tokens /\ req[q] \in Request
    BY DEF AllKinds, Pcs, TypeOK, User, Tokens, Wrong
  <2>3. [req[q] EXCEPT !.kind = "login", !.pc = "asked", !.pw = pw, !.totp = totp] \in Request
    BY <2>2, LocalsUpdated
  <2>4. req' \in [Requests -> Request]
    BY <2>1, <2>3, StartTyped DEF TypeOK
  <2> QED BY <1>1, <2>4 DEF AskLogin, TypeOK, redisVars, inviteVars
<1>2. CASE AssertNotLocked(q)
  <2>1. req' \in [Requests -> Request]
    BY <1>2, GotoTyped DEF AssertNotLocked, TypeOK, Pcs
  <2> QED BY <1>2, <2>1 DEF AssertNotLocked, TypeOK, RedisFails, redisVars, inviteVars
<1>3. CASE ReadForLogin(q)
  <2>1. LoginOutcome(q, user) \in Pcs
    BY DEF LoginOutcome, Pcs
  <2>2. req' \in [Requests -> Request]
    BY <1>3, <2>1, ReadTyped DEF ReadForLogin, TypeOK
  <2> QED BY <1>3, <2>2 DEF ReadForLogin, TypeOK, redisVars, inviteVars
<1>4. CASE CountFailure(q)
  <2>1. AfterCount(lockout.count + 1) \in Pcs
    BY DEF AfterCount, Pcs
  <2>2. req' \in [Requests -> Request]
    BY <1>4, <2>1, GotoTyped DEF CountFailure, TypeOK, Pcs
  <2> QED BY <1>4, <2>2 DEF CountFailure, TypeOK, RedisFails, redisVars, inviteVars
<1>5. CASE StartWindow(q) \/ TripLock(q) \/ ResetCount(q) \/ ClearFailures(q)
  <2>1. req' \in [Requests -> Request]
    BY <1>5, GotoTyped DEF StartWindow, TripLock, ResetCount, ClearFailures, TypeOK, Pcs
  <2>2. lockout' \in [count : Nat, timed : BOOLEAN, locked : BOOLEAN]
    <3>1. (lockout.count > 0) \in BOOLEAN
      OBVIOUS
    <3>2. CASE RedisFails
      BY <3>2 DEF RedisFails, TypeOK, redisVars
    <3>3. CASE lockout' = [lockout EXCEPT !.timed = lockout.count > 0]
      BY <3>1, <3>3, FailuresTyped DEF TypeOK
    <3>4. CASE lockout' = [lockout EXCEPT !.locked = TRUE]
      BY <3>4, FailuresTyped DEF TypeOK
    <3>5. CASE lockout' = [lockout EXCEPT !.count = 0, !.timed = FALSE]
      BY <3>5, FailuresTyped DEF TypeOK
    <3>6. CASE lockout' = NoFailures
      BY <3>6 DEF NoFailures
    <3> QED BY <1>5, <3>2, <3>3, <3>4, <3>5, <3>6 DEF StartWindow, TripLock, ResetCount, ClearFailures
  <2> QED BY <1>5, <2>1, <2>2 DEF StartWindow, TripLock, ResetCount, ClearFailures, TypeOK,
                                  RedisFails, redisVars, inviteVars
<1>6. CASE ReadForSso(q)
  <2>1. "sso" \in AllKinds /\ "issue" \in Pcs /\ user \in User /\ req[q] \in Request
    BY DEF AllKinds, Pcs, TypeOK
  <2>2. [req[q] EXCEPT !.kind = "sso", !.row = user, !.pc = "issue"] \in Request
    BY <2>1, LocalsUpdated
  <2>3. req' \in [Requests -> Request]
    BY <1>6, <2>2, StartTyped DEF ReadForSso, TypeOK
  <2> QED BY <1>6, <2>3 DEF ReadForSso, TypeOK, redisVars, inviteVars
<1> QED BY <1>1, <1>2, <1>3, <1>4, <1>5, <1>6 DEF SignInStep

LEMMA RefreshTyped ==
  ASSUME TypeOK, NEW q \in Requests, RefreshStep(q)
  PROVE  TypeOK'
<1>1. CASE PresentRefresh(q)
  <2>1. PICK s \in sessions :
          req' = [req EXCEPT ![q] = [@ EXCEPT !.kind = "refresh", !.pc = "presented", !.from = s.jti]]
    BY <1>1 DEF PresentRefresh
  <2>2. "refresh" \in AllKinds /\ "presented" \in Pcs /\ s.jti \in Tokens /\ req[q] \in Request
    BY DEF AllKinds, Pcs, TypeOK, Session
  <2>3. [req[q] EXCEPT !.kind = "refresh", !.pc = "presented", !.from = s.jti] \in Request
    BY <2>2, LocalsUpdated
  <2>4. req' \in [Requests -> Request]
    BY <2>1, <2>3, StartTyped DEF TypeOK
  <2> QED BY <1>1, <2>4 DEF PresentRefresh, TypeOK, redisVars, inviteVars
<1>2. CASE ReadForRefresh(q)
  <2>1. req' \in [Requests -> Request]
    BY <1>2, ReadTyped DEF ReadForRefresh, TypeOK, Pcs
  <2> QED BY <1>2, <2>1 DEF ReadForRefresh, TypeOK, redisVars, inviteVars
<1>3. CASE RedeemJti(q)
  <2>1. req' \in [Requests -> Request]
    <3>1. CASE req' = [req EXCEPT ![q] = [@ EXCEPT !.pc = "issue", !.marked = TRUE]]
      <4>1. "issue" \in Pcs /\ req[q] \in Request
        BY DEF Pcs, TypeOK
      <4>2. [req[q] EXCEPT !.pc = "issue", !.marked = TRUE] \in Request
        BY <4>1, LocalsUpdated
      <4> QED BY <3>1, <4>2, StartTyped DEF TypeOK
    <3>2. CASE Goto(q, "issue") \/ Goto(q, "punish")
      BY <3>2, GotoTyped DEF TypeOK, Pcs
    <3> QED BY <1>3, <3>1, <3>2 DEF RedeemJti
  <2>2. marks' \subseteq Tokens
    BY <1>3 DEF RedeemJti, TypeOK, Request, RedisFails, redisVars
  <2> QED BY <1>3, <2>1, <2>2 DEF RedeemJti, TypeOK, RedisFails, redisVars, inviteVars
<1>4. CASE PunishReuse(q)
  <2>1. req' \in [Requests -> Request]
    BY <1>4, GotoTyped DEF PunishReuse, TypeOK, Pcs
  <2>2. user' \in User /\ reused' \subseteq Tokens
    BY <1>4 DEF PunishReuse, TypeOK, User, Request
  <2> QED BY <1>4, <2>1, <2>2 DEF PunishReuse, TypeOK, redisVars, inviteVars
<1> QED BY <1>1, <1>2, <1>3, <1>4 DEF RefreshStep

LEMMA SettingsTyped ==
  ASSUME TypeOK, NEW q \in Requests, SettingsStep(q)
  PROVE  TypeOK'
<1>1. CASE PassGuard(q)
  <2>1. PICK kind \in SettingsKinds, pw \in {user.pw, Wrong(q)} :
          req' = [req EXCEPT ![q] = [@ EXCEPT !.kind = kind, !.pw = pw,
                                              !.pc = IF kind = "logout" THEN "bump" ELSE "guarded"]]
    BY <1>1 DEF PassGuard
  <2> DEFINE pc == IF kind = "logout" THEN "bump" ELSE "guarded"
  <2>2. pw \in Tokens /\ kind \in AllKinds /\ pc \in Pcs /\ req[q] \in Request
    BY DEF TypeOK, AllKinds, User, Tokens, Wrong, Pcs
  <2>3. [req[q] EXCEPT !.kind = kind, !.pw = pw, !.pc = pc] \in Request
    BY <2>2, LocalsUpdated
  <2>4. req' \in [Requests -> Request]
    BY <2>1, <2>3, StartTyped DEF TypeOK
  <2> QED BY <1>1, <2>4 DEF PassGuard, TypeOK, redisVars, inviteVars
<1>2. CASE ReadForSettings(q)
  <2>1. req' \in [Requests -> Request]
    BY <1>2, ReadTyped DEF ReadForSettings, TypeOK, Pcs
  <2> QED BY <1>2, <2>1 DEF ReadForSettings, TypeOK, redisVars, inviteVars
<1>3. CASE WriteSettings(q)
  <2>1. req' \in [Requests -> Request]
    BY <1>3, GotoTyped DEF WriteSettings, AfterTotpOff, TypeOK, Pcs
  <2>2. user' \in User
    <3>1. user \in User /\ q \in Tokens
      BY DEF TypeOK, Tokens
    <3>2. CASE user' = PasswordWritten(q)
      BY <3>1, <3>2, UserUpdated DEF PasswordWritten
    <3>3. CASE \E on \in BOOLEAN : user' = [user EXCEPT !.totp = on]
      BY <3>1, <3>3, UserUpdated
    <3>4. CASE user' = [user EXCEPT !.totp = TRUE, !.onboarded = TRUE]
      BY <3>1, <3>4, UserUpdated
    <3> QED BY <1>3, <3>2, <3>3, <3>4 DEF WriteSettings
  <2> QED BY <1>3, <2>1, <2>2 DEF WriteSettings, TypeOK, redisVars, inviteVars
<1>4. CASE BumpTokenVersion(q)
  <2>1. req' \in [Requests -> Request]
    BY <1>4, GotoTyped DEF BumpTokenVersion, TypeOK, Pcs
  <2> QED BY <1>4, <2>1 DEF BumpTokenVersion, TypeOK, User, redisVars, inviteVars
<1> QED BY <1>1, <1>2, <1>3, <1>4 DEF SettingsStep

LEMMA RegisterTyped ==
  ASSUME TypeOK, NEW q \in Requests, RegisterStep(q)
  PROVE  TypeOK'
<1>1. CASE AskRegister(q)
  <2>1. PICK email \in Emails :
          req' = [req EXCEPT ![q] = [@ EXCEPT !.kind = "register", !.pc = "registering", !.email = email]]
    BY <1>1 DEF AskRegister
  <2>2. "register" \in AllKinds /\ "registering" \in Pcs /\ req[q] \in Request
    BY DEF AllKinds, Pcs, TypeOK
  <2>3. [req[q] EXCEPT !.kind = "register", !.pc = "registering", !.email = email] \in Request
    BY <2>2, LocalsUpdated
  <2>4. req' \in [Requests -> Request]
    BY <2>1, <2>3, StartTyped DEF TypeOK
  <2> QED BY <1>1, <2>4 DEF AskRegister, TypeOK, redisVars, inviteVars
<1>2. CASE FindByEmail(q) \/ ConsumeInvite(q) \/ RestoreInvite(q) \/ CreateUser(q)
  <2>1. req' \in [Requests -> Request]
    BY <1>2, GotoTyped DEF FindByEmail, ConsumeInvite, RestoreInvite, CreateUser, TypeOK, Pcs
  <2>2. invite' \in [used : BOOLEAN, valid : BOOLEAN, exists : BOOLEAN, email : Emails \cup {AnyEmail}]
    BY <1>2 DEF FindByEmail, ConsumeInvite, RestoreInvite, CreateUser, TypeOK, inviteVars
  <2>3. accounts' \subseteq [by : Requests, email : Emails \cup {AnyEmail}]
    BY <1>2 DEF FindByEmail, ConsumeInvite, RestoreInvite, CreateUser, TypeOK, Request, inviteVars
  <2> QED BY <1>2, <2>1, <2>2, <2>3 DEF FindByEmail, ConsumeInvite, RestoreInvite, CreateUser, TypeOK, redisVars
<1> QED BY <1>1, <1>2 DEF RegisterStep

-----------------------------------------------------------------------------
(* Sessions.  A session is accepted only while the epoch it was signed with *)
(* is the one of the row, and the epoch moves whenever a password changes or *)
(* a reuse is punished.  So it is enough to follow what a handler took from  *)
(* the row: as long as its epoch is current, so is its password, and so is   *)
(* the session it is refreshing.                                            *)

RefreshPcs == {"presented", "matched", "punish", "issue"}

\* The row a handler goes on with, and the session a refresh presented.
RowSound(r) ==
  r.pc \in {"verified", "matched", "punish", "issue"} =>
    r.row.tv <= user.tv /\ (r.row.tv = user.tv => r.row.pw = user.pw)

KindSound(r) ==
  /\ r.kind = "refresh" => r.pc \in RefreshPcs
  /\ r.pc \in {"presented", "matched", "punish"} => r.kind = "refresh"

FromSound(r) ==
  r.kind = "refresh" =>
    \E s \in sessions : s.jti = r.from /\ (r.pc \in {"matched", "issue"} => s.tv = r.row.tv)

LocalsSound == \A q \in Requests : RowSound(req[q]) /\ KindSound(req[q]) /\ FromSound(req[q])

SessionsSound ==
  \A s \in sessions : /\ s.tv <= user.tv
                      /\ s.tv = user.tv => s.pw = user.pw /\ ({s.jti} \cup s.line) \cap reused = {}
                      /\ s.jti \in Requests => req[s.jti].pc = "over"

JtisUnique == \A s, t \in sessions : s.jti = t.jti => s = t

ReusedIssued == \A t \in reused : \E s \in sessions : s.jti = t

Sound == LocalsSound /\ SessionsSound /\ JtisUnique /\ ReusedIssued

\* A request that only goes on to another statement.
LEMMA Moves ==
  ASSUME TypeOK, Sound, NEW q \in Requests, NEW r, req' = [req EXCEPT ![q] = r], req[q].pc # "over",
         user'.tv = user.tv, user'.pw = user.pw, UNCHANGED <<sessions, reused>>,
         RowSound(r), KindSound(r), FromSound(r)
  PROVE  Sound'
<1>1. LocalsSound'
  <2> SUFFICES ASSUME NEW p \in Requests
               PROVE  (RowSound(req[p]) /\ KindSound(req[p]) /\ FromSound(req[p]))'
    BY DEF LocalsSound
  <2>1. CASE p = q
    <3>1. req'[p] = r
      BY <2>1 DEF TypeOK
    <3> QED BY <3>1 DEF RowSound, KindSound, FromSound, TypeOK
  <2>2. CASE p # q
    <3>1. req'[p] = req[p]
      BY <2>2 DEF TypeOK
    <3> QED BY <3>1 DEF Sound, LocalsSound, RowSound, KindSound, FromSound, TypeOK
  <2> QED BY <2>1, <2>2
<1>2. SessionsSound'
  BY DEF Sound, SessionsSound, TypeOK
<1> QED BY <1>1, <1>2 DEF Sound, JtisUnique, ReusedIssued

\* The epoch moves: nothing that was read or issued before it is accepted any more.
LEMMA Bumped ==
  ASSUME TypeOK, Sound, NEW q \in Requests, Goto(q, "over"), user'.tv = user.tv + 1,
         UNCHANGED sessions, \A t \in reused' : \E s \in sessions : s.jti = t
  PROVE  Sound'
<1>1. user.tv \in Nat /\ \A s \in sessions : s.tv \in Nat
  BY DEF TypeOK, User, Session
<1>2. LocalsSound'
  <2> SUFFICES ASSUME NEW p \in Requests
               PROVE  (RowSound(req[p]) /\ KindSound(req[p]) /\ FromSound(req[p]))'
    BY DEF LocalsSound
  <2>1. CASE p = q
    <3>1. req'[p] = NoLocals("over")
      BY <2>1 DEF TypeOK, Goto, At
    <3> QED BY <3>1 DEF RowSound, KindSound, FromSound, NoLocals
  <2>2. CASE p # q
    <3>1. req'[p] = req[p]
      BY <2>2 DEF TypeOK, Goto
    <3>2. req[p].row.tv \in Nat
      BY DEF TypeOK, Request, User
    <3> QED BY <1>1, <3>1, <3>2 DEF Sound, LocalsSound, RowSound, KindSound, FromSound
  <2> QED BY <2>1, <2>2
<1>3. \A p \in Requests : req[p].pc = "over" => req'[p].pc = "over"
  BY DEF Goto, At, NoLocals, TypeOK
<1>4. SessionsSound'
  BY <1>1, <1>3 DEF Sound, SessionsSound
<1> QED BY <1>2, <1>4 DEF Sound, JtisUnique, ReusedIssued

\* The session a refresh presented is the only one of its jti.
LEMMA ParentFound ==
  ASSUME Sound, NEW q \in Requests, req[q].kind = "refresh"
  PROVE  /\ Parent(q) \in sessions /\ Parent(q).jti = req[q].from
         /\ \A s \in sessions : s.jti = req[q].from => s = Parent(q)
BY DEF Sound, LocalsSound, FromSound, JtisUnique, Parent

LEMMA GotoSound ==
  ASSUME TypeOK, Sound, NEW q \in Requests, NEW pc \in Pcs, Goto(q, pc), req[q].pc # "over",
         \/ pc = "over"
         \/ req[q].pc \notin RefreshPcs /\ pc \notin RefreshPcs \cup {"verified"}
         \/ pc = "issue" /\ req[q].pc \in {"verified", "matched"}
         \/ pc = "punish" /\ req[q].pc = "matched",
         user'.tv = user.tv, user'.pw = user.pw, UNCHANGED <<sessions, reused>>
  PROVE  Sound'
<1> DEFINE r == At(req[q], pc)
<1>1. RowSound(req[q]) /\ KindSound(req[q]) /\ FromSound(req[q])
  BY DEF Sound, LocalsSound
<1>2. CASE pc = "over"
  <2>1. r = NoLocals("over")
    BY <1>2 DEF At
  <2>2. RowSound(r) /\ KindSound(r) /\ FromSound(r)
    BY <2>1 DEF RowSound, KindSound, FromSound, NoLocals
  <2> QED BY <2>2, Moves DEF Goto
<1>3. CASE pc # "over"
  <2>1. /\ r.pc = pc /\ r.kind = req[q].kind /\ r.row = req[q].row /\ r.from = req[q].from
    BY <1>3 DEF At, TypeOK, Request
  <2>2. RowSound(r) /\ KindSound(r) /\ FromSound(r)
    BY <1>1, <1>3, <2>1 DEF RowSound, KindSound, FromSound, RefreshPcs
  <2> QED BY <2>2, Moves DEF Goto
<1> QED BY <1>2, <1>3

LEMMA SoundInit == Init => Sound
<1> SUFFICES ASSUME Init PROVE Sound
  OBVIOUS
<1>1. LocalsSound
  BY DEF Init, LocalsSound, RowSound, KindSound, FromSound, NoLocals
<1>2. SessionsSound
  BY FirstAssumption DEF Init, SessionsSound, SignedIn
<1> QED BY <1>1, <1>2 DEF Init, Sound, JtisUnique, ReusedIssued

LEMMA SignInSound ==
  ASSUME TypeOK, Sound, NEW q \in Requests, SignInStep(q), ~IssueTokens(q)
  PROVE  Sound'
<1>1. CASE AskLogin(q)
  <2>1. PICK pw \in {user.pw, Wrong(q)}, totp \in {"none", "good", "bad"} :
          req' = [req EXCEPT ![q] = [@ EXCEPT !.kind = "login", !.pc = "asked", !.pw = pw, !.totp = totp]]
    BY <1>1 DEF AskLogin
  <2> DEFINE r == [req[q] EXCEPT !.kind = "login", !.pc = "asked", !.pw = pw, !.totp = totp]
  <2>2. r.kind = "login" /\ r.pc = "asked"
    BY DEF TypeOK, Request
  <2>3. RowSound(r) /\ KindSound(r) /\ FromSound(r)
    BY <2>2 DEF RowSound, KindSound, FromSound
  <2> QED BY <1>1, <2>1, <2>3, Moves DEF AskLogin
<1>2. CASE AssertNotLocked(q)
  BY <1>2, GotoSound DEF AssertNotLocked, Pcs, RefreshPcs
<1>3. CASE ReadForLogin(q)
  <2> DEFINE pc == LoginOutcome(q, user)
             r == At([req[q] EXCEPT !.row = user], pc)
  <2>1. pc \in {"failed", "over", "verified"}
    BY DEF LoginOutcome
  <2>2. RowSound(r) /\ KindSound(r) /\ FromSound(r)
    <3>1. CASE pc = "over"
      <4>1. r = NoLocals("over")
        BY <3>1 DEF At
      <4> QED BY <4>1 DEF RowSound, KindSound, FromSound, NoLocals
    <3>2. CASE pc # "over"
      <4>1. r.pc = pc /\ r.kind = req[q].kind /\ r.row = user
        BY <3>2 DEF At, TypeOK, Request
      <4>2. req[q].kind # "refresh"
        BY <1>3 DEF Sound, LocalsSound, KindSound, RefreshPcs, ReadForLogin
      <4>3. user.tv \in Nat
        BY DEF TypeOK, User
      <4> HIDE DEF r, pc
      <4> QED BY <2>1, <4>1, <4>2, <4>3 DEF RowSound, KindSound, FromSound
    <3> QED BY <3>1, <3>2
  <2>3. req' = [req EXCEPT ![q] = r]
    BY <1>3 DEF ReadForLogin, Read
  <2> QED BY <1>3, <2>2, <2>3, Moves DEF ReadForLogin
<1>4. CASE CountFailure(q)
  <2>1. AfterCount(lockout.count + 1) \in {"window", "trip", "over"}
    BY DEF AfterCount
  <2> QED BY <1>4, <2>1, GotoSound DEF CountFailure, Pcs, RefreshPcs
<1>5. CASE StartWindow(q) \/ TripLock(q) \/ ResetCount(q) \/ ClearFailures(q)
  BY <1>5, GotoSound DEF StartWindow, TripLock, ResetCount, ClearFailures, Pcs, RefreshPcs
<1>6. CASE ReadForSso(q)
  <2> DEFINE r == [req[q] EXCEPT !.kind = "sso", !.row = user, !.pc = "issue"]
  <2>1. r.kind = "sso" /\ r.pc = "issue" /\ r.row = user
    BY DEF TypeOK, Request
  <2>2. user.tv \in Nat
    BY DEF TypeOK, User
  <2>3. RowSound(r) /\ KindSound(r) /\ FromSound(r)
    BY <2>1, <2>2 DEF RowSound, KindSound, FromSound
  <2>4. req' = [req EXCEPT ![q] = r]
    BY <1>6 DEF ReadForSso
  <2> QED BY <1>6, <2>3, <2>4, Moves DEF ReadForSso
<1> QED BY <1>1, <1>2, <1>3, <1>4, <1>5, <1>6 DEF SignInStep

LEMMA RefreshSound ==
  ASSUME TypeOK, Sound, NEW q \in Requests, RefreshStep(q)
  PROVE  Sound'
<1>1. CASE PresentRefresh(q)
  <2>1. PICK s \in sessions :
          req' = [req EXCEPT ![q] = [@ EXCEPT !.kind = "refresh", !.pc = "presented", !.from = s.jti]]
    BY <1>1 DEF PresentRefresh
  <2> DEFINE r == [req[q] EXCEPT !.kind = "refresh", !.pc = "presented", !.from = s.jti]
  <2>2. r.kind = "refresh" /\ r.pc = "presented" /\ r.from = s.jti
    BY DEF TypeOK, Request
  <2>3. RowSound(r) /\ KindSound(r) /\ FromSound(r)
    BY <2>2 DEF RowSound, KindSound, FromSound, RefreshPcs
  <2> QED BY <1>1, <2>1, <2>3, Moves DEF PresentRefresh
<1>2. CASE ReadForRefresh(q)
  <2> DEFINE pc == IF SameEpoch(Parent(q), user) THEN "matched" ELSE "over"
             r == At([req[q] EXCEPT !.row = user], pc)
  <2>1. req[q].kind = "refresh"
    BY <1>2 DEF Sound, LocalsSound, KindSound, ReadForRefresh
  <2>2. RowSound(r) /\ KindSound(r) /\ FromSound(r)
    <3>1. CASE pc = "over"
      <4>1. r = NoLocals("over")
        BY <3>1 DEF At
      <4> QED BY <4>1 DEF RowSound, KindSound, FromSound, NoLocals
    <3>2. CASE pc # "over"
      <4>1. r.pc = "matched" /\ r.kind = req[q].kind /\ r.row = user /\ r.from = req[q].from
        BY <3>2 DEF At, TypeOK, Request
      <4>2. Parent(q) \in sessions /\ Parent(q).jti = r.from /\ Parent(q).tv = r.row.tv
        BY <2>1, <3>2, <4>1, ParentFound DEF SameEpoch
      <4>3. user.tv \in Nat
        BY DEF TypeOK, User
      <4> HIDE DEF r, pc
      <4> QED BY <2>1, <4>1, <4>2, <4>3 DEF RowSound, KindSound, FromSound, RefreshPcs
    <3> QED BY <3>1, <3>2
  <2>3. req' = [req EXCEPT ![q] = r]
    BY <1>2 DEF ReadForRefresh, Read
  <2> QED BY <1>2, <2>2, <2>3, Moves DEF ReadForRefresh
<1>3. CASE RedeemJti(q)
  <2>1. CASE Goto(q, "punish") \/ Goto(q, "issue")
    BY <1>3, <2>1, GotoSound DEF RedeemJti, Pcs
  <2>2. CASE req' = [req EXCEPT ![q] = [@ EXCEPT !.pc = "issue", !.marked = TRUE]]
    <3> DEFINE r == [req[q] EXCEPT !.pc = "issue", !.marked = TRUE]
    <3>1. r.pc = "issue" /\ r.kind = req[q].kind /\ r.row = req[q].row /\ r.from = req[q].from
      BY DEF TypeOK, Request
    <3>2. RowSound(req[q]) /\ KindSound(req[q]) /\ FromSound(req[q]) /\ req[q].pc = "matched"
      BY <1>3 DEF RedeemJti, Sound, LocalsSound
    <3>3. RowSound(r) /\ KindSound(r) /\ FromSound(r)
      BY <3>1, <3>2 DEF RowSound, KindSound, FromSound, RefreshPcs
    <3> QED BY <1>3, <2>2, <3>3, Moves DEF RedeemJti
  <2> QED BY <1>3, <2>1, <2>2 DEF RedeemJti
<1>4. CASE PunishReuse(q)
  <2>1. \E s \in sessions : s.jti = req[q].from
    BY <1>4 DEF PunishReuse, Sound, LocalsSound, KindSound, FromSound
  <2>2. user'.tv = user.tv + 1
    BY <1>4 DEF PunishReuse, TypeOK, User
  <2>3. \A t \in reused' : \E s \in sessions : s.jti = t
    BY <1>4, <2>1 DEF PunishReuse, Sound, ReusedIssued
  <2> QED BY <1>4, <2>2, <2>3, Bumped DEF PunishReuse
<1> QED BY <1>1, <1>2, <1>3, <1>4 DEF RefreshStep

LEMMA SettingsSound ==
  ASSUME TypeOK, Sound, NEW q \in Requests, SettingsStep(q)
  PROVE  Sound'
<1>1. \A t \in reused : \E s \in sessions : s.jti = t
  BY DEF Sound, ReusedIssued
<1>2. CASE PassGuard(q)
  <2>1. PICK kind \in SettingsKinds, pw \in {user.pw, Wrong(q)} :
          req' = [req EXCEPT ![q] = [@ EXCEPT !.kind = kind, !.pw = pw,
                                              !.pc = IF kind = "logout" THEN "bump" ELSE "guarded"]]
    BY <1>2 DEF PassGuard
  <2> DEFINE pc == IF kind = "logout" THEN "bump" ELSE "guarded"
             r == [req[q] EXCEPT !.kind = kind, !.pw = pw, !.pc = pc]
  <2>2. r.kind # "refresh" /\ r.pc \in {"bump", "guarded"}
    BY DEF TypeOK, Request, SettingsKinds
  <2>3. RowSound(r) /\ KindSound(r) /\ FromSound(r)
    BY <2>2 DEF RowSound, KindSound, FromSound
  <2> QED BY <1>2, <2>1, <2>3, Moves DEF PassGuard
<1>3. CASE ReadForSettings(q)
  <2> DEFINE pc == IF MayWrite(q, user) THEN "write" ELSE "over"
             r == At([req[q] EXCEPT !.row = user], pc)
  <2>1. r = NoLocals("over") \/ (r.pc = "write" /\ r.kind = req[q].kind)
    BY DEF At, TypeOK, Request
  <2>2. req[q].kind # "refresh"
    BY <1>3 DEF Sound, LocalsSound, KindSound, RefreshPcs, ReadForSettings
  <2>3. RowSound(r) /\ KindSound(r) /\ FromSound(r)
    <3> HIDE DEF r, pc
    <3> QED BY <2>1, <2>2 DEF RowSound, KindSound, FromSound, NoLocals
  <2>4. req' = [req EXCEPT ![q] = r]
    BY <1>3 DEF ReadForSettings, Read
  <2> QED BY <1>3, <2>3, <2>4, Moves DEF ReadForSettings
<1>4. CASE WriteSettings(q)
  <2>1. CASE user' = PasswordWritten(q) /\ Goto(q, "over")
    <3>1. user'.tv = user.tv + 1
      BY <2>1 DEF PasswordWritten, TypeOK, User
    <3> QED BY <1>1, <1>4, <2>1, <3>1, Bumped DEF WriteSettings
  <2>2. CASE user'.tv = user.tv /\ user'.pw = user.pw /\ (Goto(q, "over") \/ Goto(q, "bump"))
    BY <1>4, <2>2, GotoSound DEF WriteSettings, Pcs, RefreshPcs
  <2>3. Goto(q, IF req[q].kind = "disable" THEN "bump" ELSE "over")
    BY <1>4 DEF WriteSettings, AfterTotpOff
  <2>4. CASE req[q].kind # "change"
    <3>1. user'.tv = user.tv /\ user'.pw = user.pw
      BY <1>4, <2>4 DEF WriteSettings, TypeOK, User
    <3> QED BY <2>2, <2>3, <3>1
  <2>5. CASE req[q].kind = "change"
    BY <1>4, <2>1, <2>3, <2>5 DEF WriteSettings
  <2> QED BY <2>4, <2>5
<1>5. CASE BumpTokenVersion(q)
  <2>1. user'.tv = user.tv + 1
    BY <1>5 DEF BumpTokenVersion, TypeOK, User
  <2> QED BY <1>1, <1>5, <2>1, Bumped DEF BumpTokenVersion
<1> QED BY <1>2, <1>3, <1>4, <1>5 DEF SettingsStep

LEMMA RegisterSound ==
  ASSUME TypeOK, Sound, NEW q \in Requests, RegisterStep(q)
  PROVE  Sound'
<1>1. CASE AskRegister(q)
  <2>1. PICK email \in Emails :
          req' = [req EXCEPT ![q] = [@ EXCEPT !.kind = "register", !.pc = "registering", !.email = email]]
    BY <1>1 DEF AskRegister
  <2> DEFINE r == [req[q] EXCEPT !.kind = "register", !.pc = "registering", !.email = email]
  <2>2. r.kind = "register" /\ r.pc = "registering"
    BY DEF TypeOK, Request
  <2>3. RowSound(r) /\ KindSound(r) /\ FromSound(r)
    BY <2>2 DEF RowSound, KindSound, FromSound
  <2> QED BY <1>1, <2>1, <2>3, Moves DEF AskRegister
<1>2. CASE FindByEmail(q) \/ ConsumeInvite(q) \/ RestoreInvite(q) \/ CreateUser(q)
  BY <1>2, GotoSound DEF FindByEmail, ConsumeInvite, RestoreInvite, CreateUser, Pcs, RefreshPcs
<1> QED BY <1>1, <1>2 DEF RegisterStep

\* The session that is issued belongs to the row its request read, and to the chain of
\* the session it was refreshed from.
LEMMA IssueSound ==
  ASSUME TypeOK, Sound, NEW q \in Requests, IssueTokens(q)
  PROVE  TypeOK' /\ Sound'
<1>1. PICK n : /\ sessions' = sessions \cup {n}
               /\ n = IF req[q].kind = "refresh"
                      THEN [Parent(q) EXCEPT !.jti = q, !.tv = IssuedEpoch(q), !.from = req[q].from,
                                             !.marked = req[q].marked, !.line = @ \cup {req[q].from}]
                      ELSE SignedIn(q, IssuedEpoch(q), req[q].row)
  BY DEF IssueTokens
<1>2. req[q] \in Request /\ req[q].row \in User /\ req[q].from \in Tokens /\ q \in Tokens /\ req[q].pc = "issue"
  BY DEF IssueTokens, TypeOK, Request, Tokens
<1>3. RowSound(req[q]) /\ req[q].row.tv <= user.tv
  BY <1>2 DEF Sound, LocalsSound, RowSound
<1>4. q \notin reused /\ \A s \in sessions : s.jti # q
  BY <1>2 DEF Sound, SessionsSound, ReusedIssued
<1>5. /\ n \in Session /\ n.jti = q /\ n.tv = req[q].row.tv
      /\ n.tv = user.tv => n.pw = user.pw /\ ({n.jti} \cup n.line) \cap reused = {}
  <2>1. CASE req[q].kind = "refresh"
    <3> DEFINE s == Parent(q)
    <3>1. s \in sessions /\ s.jti = req[q].from /\ s.tv = req[q].row.tv
      BY <1>2, <2>1, ParentFound DEF Sound, LocalsSound, FromSound
    <3>2. s \in Session
      BY <3>1 DEF TypeOK
    <3>3. s.tv = user.tv => s.pw = user.pw /\ ({s.jti} \cup s.line) \cap reused = {}
      BY <3>1 DEF Sound, SessionsSound
    <3> HIDE DEF s
    <3>4. n = [s EXCEPT !.jti = q, !.tv = req[q].row.tv, !.from = req[q].from,
                        !.marked = req[q].marked, !.line = s.line \cup {req[q].from}]
      BY <1>1, <2>1 DEF s, IssuedEpoch
    <3>5. n = [jti |-> q, tv |-> req[q].row.tv, from |-> req[q].from, marked |-> req[q].marked,
               line |-> s.line \cup {req[q].from}, pw |-> s.pw, totp |-> s.totp]
      BY <3>2, <3>4 DEF Session
    <3>6. /\ n.jti = q /\ n.tv = req[q].row.tv /\ n.pw = s.pw
          /\ n.line = s.line \cup {s.jti}
      BY <3>1, <3>5
    <3>7. n \in Session
      BY <1>2, <3>2, <3>5 DEF Session, Request, User
    <3> QED BY <1>4, <3>1, <3>3, <3>6, <3>7
  <2>2. CASE req[q].kind # "refresh"
    <3>1. n = [jti |-> q, tv |-> req[q].row.tv, from |-> q, marked |-> FALSE, line |-> {},
               pw |-> req[q].row.pw, totp |-> req[q].row.totp]
      BY <1>1, <2>2 DEF SignedIn, IssuedEpoch
    <3>2. n \in Session
      BY <1>2, <3>1 DEF Session, User
    <3> QED BY <1>2, <1>3, <1>4, <3>1, <3>2 DEF RowSound
  <2> QED BY <2>1, <2>2
<1>6. Goto(q, "over") /\ UNCHANGED <<user, reused>>
  BY DEF IssueTokens
<1>7. TypeOK'
  <2>1. req' \in [Requests -> Request]
    BY <1>6, GotoTyped DEF TypeOK, Pcs
  <2> QED BY <1>1, <1>5, <2>1 DEF IssueTokens, TypeOK, redisVars, inviteVars
<1>8. \A p \in Requests : req'[p] = IF p = q THEN NoLocals("over") ELSE req[p]
  BY <1>6 DEF Goto, At, TypeOK
<1>9. LocalsSound'
  <2> SUFFICES ASSUME NEW p \in Requests
               PROVE  (RowSound(req[p]) /\ KindSound(req[p]) /\ FromSound(req[p]))'
    BY DEF LocalsSound
  <2>1. CASE p = q
    <3>1. req'[p] = NoLocals("over")
      BY <1>8, <2>1
    <3> QED BY <3>1 DEF RowSound, KindSound, FromSound, NoLocals
  <2>2. CASE p # q
    <3>1. req'[p] = req[p]
      BY <1>8, <2>2
    <3>2. RowSound(req[p])'
      BY <1>6, <3>1 DEF Sound, LocalsSound, RowSound
    <3>3. KindSound(req[p])'
      BY <3>1 DEF Sound, LocalsSound, KindSound
    <3>4. FromSound(req[p])'
      BY <1>1, <3>1 DEF Sound, LocalsSound, FromSound
    <3> QED BY <3>2, <3>3, <3>4
  <2> QED BY <2>1, <2>2
<1>10. SessionsSound'
  <2> SUFFICES ASSUME NEW s \in sessions'
               PROVE  /\ s.tv <= user.tv
                      /\ s.tv = user.tv => s.pw = user.pw /\ ({s.jti} \cup s.line) \cap reused = {}
                      /\ s.jti \in Requests => req'[s.jti].pc = "over"
    BY <1>6 DEF SessionsSound
  <2>1. CASE s = n
    <3>1. req'[q].pc = "over"
      BY <1>8 DEF NoLocals
    <3> QED BY <1>3, <1>5, <2>1, <3>1
  <2>2. CASE s \in sessions
    BY <1>4, <1>8, <2>2 DEF Sound, SessionsSound
  <2> QED BY <1>1, <2>1, <2>2
<1>11. JtisUnique' /\ ReusedIssued'
  BY <1>1, <1>4, <1>5, <1>6 DEF Sound, JtisUnique, ReusedIssued
<1> QED BY <1>7, <1>9, <1>10, <1>11 DEF Sound

LEMMA FaultsSound ==
  ASSUME TypeOK, Sound, TimePasses \/ \E q \in Requests : RequestDies(q)
  PROVE  TypeOK' /\ Sound'
<1>1. ASSUME NEW q \in Requests, RequestDies(q) PROVE TypeOK' /\ Sound'
  <2>1. req' \in [Requests -> Request]
    BY <1>1, GotoTyped DEF RequestDies, TypeOK, Pcs
  <2>2. TypeOK'
    BY <1>1, <2>1 DEF RequestDies, TypeOK, redisVars, inviteVars
  <2>3. Sound'
    BY <1>1, GotoSound DEF RequestDies, Pcs
  <2> QED BY <2>2, <2>3
<1>2. CASE TimePasses
  <2>1. UNCHANGED <<user, sessions, req, reused>>
    BY <1>2 DEF TimePasses, FailuresExpire, RefreshTokenExpires, MarkExpires, InviteEnds
  <2>2. Sound'
    BY <2>1 DEF Sound, LocalsSound, RowSound, KindSound, FromSound, SessionsSound, JtisUnique, ReusedIssued
  <2>3. lockout' \in [count : Nat, timed : BOOLEAN, locked : BOOLEAN]
    <3>1. CASE lockout' = [lockout EXCEPT !.count = 0, !.timed = FALSE]
      BY <3>1, FailuresTyped DEF TypeOK
    <3>2. CASE lockout' = [lockout EXCEPT !.locked = FALSE]
      BY <3>2, FailuresTyped DEF TypeOK
    <3>3. CASE UNCHANGED lockout
      BY <3>3 DEF TypeOK
    <3> QED BY <1>2, <3>1, <3>2, <3>3
            DEF TimePasses, FailuresExpire, RefreshTokenExpires, MarkExpires, InviteEnds, redisVars
  <2>4. marks' \subseteq Tokens /\ dead' \subseteq Tokens
    BY <1>2 DEF TimePasses, FailuresExpire, RefreshTokenExpires, MarkExpires, InviteEnds, redisVars,
                TypeOK, Session
  <2>5. /\ invite' \in [used : BOOLEAN, valid : BOOLEAN, exists : BOOLEAN, email : Emails \cup {AnyEmail}]
        /\ UNCHANGED accounts
    BY <1>2 DEF TimePasses, FailuresExpire, RefreshTokenExpires, MarkExpires, InviteEnds, inviteVars, TypeOK
  <2> QED BY <2>1, <2>2, <2>3, <2>4, <2>5 DEF TypeOK
<1> QED BY <1>1, <1>2

LEMMA AccountsNext == TypeOK /\ Sound /\ [Next]_vars => TypeOK' /\ Sound'
<1> SUFFICES ASSUME TypeOK, Sound, [Next]_vars PROVE TypeOK' /\ Sound'
  OBVIOUS
<1>1. CASE UNCHANGED vars
  BY <1>1 DEF vars, redisVars, inviteVars, TypeOK, Sound, LocalsSound, RowSound, KindSound, FromSound,
              SessionsSound, JtisUnique, ReusedIssued
<1>2. ASSUME NEW q \in Requests, SignInStep(q) PROVE TypeOK' /\ Sound'
  BY <1>2, SignInTyped, SignInSound, IssueSound
<1>3. ASSUME NEW q \in Requests, RefreshStep(q) \/ SettingsStep(q) \/ RegisterStep(q)
      PROVE  TypeOK' /\ Sound'
  BY <1>3, RefreshTyped, RefreshSound, SettingsTyped, SettingsSound, RegisterTyped, RegisterSound
<1> QED BY <1>1, <1>2, <1>3, FaultsSound DEF Next

\* The rows, the requests and the sessions keep their types.
THEOREM AccountTypes == Spec => []TypeOK
<1>1. Init => TypeOK /\ Sound
  BY AccountsInit, SoundInit
<1> QED BY <1>1, AccountsNext, PTL DEF Spec

\* After a password change no session of an earlier password is accepted, whatever was in
\* progress (changePassword, updatePassword, issueTokens).
THEOREM PasswordEndsSessions == Spec => []SessionsFollowPassword
<1>1. Init => TypeOK /\ Sound
  BY AccountsInit, SoundInit
<1>2. Sound => SessionsFollowPassword
  BY DEF Sound, SessionsSound, SessionsFollowPassword, Accepted
<1> QED BY <1>1, <1>2, AccountsNext, PTL DEF Spec

\* After a punished reuse no session of that chain is accepted, whatever was in progress
\* (refresh, consumeRefreshJti, bumpTokenVersion).
THEOREM ReuseEndsSessions == Spec => []ReuseEndsChain
<1>1. Init => TypeOK /\ Sound
  BY AccountsInit, SoundInit
<1>2. Sound => ReuseEndsChain
  BY DEF Sound, SessionsSound, ReuseEndsChain, Accepted
<1> QED BY <1>1, <1>2, AccountsNext, PTL DEF Spec

-----------------------------------------------------------------------------
(* The refinement of SessionRegistry.  What it tells of an account changes  *)
(* only when the epoch moves or a session is issued.                        *)

LEMMA ValidIs ==
  \A e : e \in ValidSessions <=>
    \E s \in sessions : s.tv = user.tv /\ e = [jti |-> s.jti, pw |-> s.pw, line |-> s.line]
BY DEF ValidSessions, Accepted

LEMMA RegistryStays ==
  ASSUME user'.tv = user.tv, user'.pw = user.pw, UNCHANGED sessions
  PROVE  UNCHANGED Reg!regVars
<1>1. UNCHANGED ValidSessions
  BY DEF ValidSessions, Accepted
<1> QED BY <1>1 DEF Reg!regVars

\* The epoch moves, with the password or without.
LEMMA RegistryEnds ==
  ASSUME TypeOK, Sound, user'.tv = user.tv + 1, user'.pw \in Tokens, UNCHANGED sessions
  PROVE  [Reg!RegistryNext]_Reg!regVars
<1>1. \A s \in sessions : s.tv # user'.tv
  <2> SUFFICES ASSUME NEW s \in sessions PROVE s.tv # user'.tv
    OBVIOUS
  <2>1. user.tv \in Nat /\ s.tv \in Nat /\ s.tv <= user.tv
    BY DEF TypeOK, User, Session, Sound, SessionsSound
  <2> QED BY <2>1
<1>2. ValidSessions' = {}
  BY <1>1 DEF ValidSessions, Accepted
<1> QED BY <1>2 DEF Reg!RegistryNext, Reg!ChangePassword

LEMMA RegistryIssues ==
  ASSUME TypeOK, Sound, NEW q \in Requests, IssueTokens(q)
  PROVE  [Reg!RegistryNext]_Reg!regVars
<1>1. PICK n : /\ sessions' = sessions \cup {n}
               /\ n = IF req[q].kind = "refresh"
                      THEN [Parent(q) EXCEPT !.jti = q, !.tv = IssuedEpoch(q), !.from = req[q].from,
                                             !.marked = req[q].marked, !.line = @ \cup {req[q].from}]
                      ELSE SignedIn(q, IssuedEpoch(q), req[q].row)
  BY DEF IssueTokens
<1>2. req[q].pc = "issue" /\ UNCHANGED user
  BY DEF IssueTokens
<1>3. req[q].row.tv = user.tv => req[q].row.pw = user.pw
  BY <1>2 DEF Sound, LocalsSound, RowSound
<1> DEFINE ent == [jti |-> n.jti, pw |-> n.pw, line |-> n.line]
           issued == {s.jti : s \in sessions}
<1>4. n.jti = q /\ n.tv = req[q].row.tv
  <2>1. CASE req[q].kind = "refresh"
    <3>1. Parent(q) \in Session
      BY <2>1, ParentFound DEF TypeOK
    <3> QED BY <1>1, <2>1, <3>1 DEF Session, IssuedEpoch
  <2>2. CASE req[q].kind # "refresh"
    BY <1>1, <2>2 DEF SignedIn, IssuedEpoch
  <2> QED BY <2>1, <2>2
<1>5. q \in Tokens \ issued /\ {s.jti : s \in sessions'} = issued \cup {q}
  <2>1. \A s \in sessions : s.jti # q
    BY <1>2 DEF Sound, SessionsSound
  <2> QED BY <1>1, <1>4, <2>1 DEF Tokens
<1>6. ValidSessions' = IF n.tv = user.tv THEN ValidSessions \cup {ent} ELSE ValidSessions
  BY <1>1, <1>2 DEF ValidSessions, Accepted
<1>7. Reg!Issue(q)
  BY <1>2, <1>5 DEF Reg!Issue
<1>8. CASE n.tv # user.tv
  <2>1. Reg!StillBorn(q)
    BY <1>6, <1>7, <1>8 DEF Reg!StillBorn
  <2> QED BY <1>5, <2>1 DEF Reg!RegistryNext
<1>9. CASE n.tv = user.tv /\ req[q].kind = "refresh"
  <2> DEFINE s == Parent(q)
             old == [jti |-> s.jti, pw |-> s.pw, line |-> s.line]
  <2>1. s \in sessions /\ s.jti = req[q].from /\ s.tv = user.tv /\ s \in Session
    BY <1>2, <1>4, <1>9, ParentFound DEF Sound, LocalsSound, FromSound, TypeOK
  <2>2. old \in ValidSessions
    BY <2>1, ValidIs
  <2>3. n = [s EXCEPT !.jti = q, !.tv = IssuedEpoch(q), !.from = req[q].from,
                      !.marked = req[q].marked, !.line = @ \cup {req[q].from}]
    BY <1>1, <1>9
  <2>4. n.pw = s.pw /\ n.line = s.line \cup {s.jti}
    <3> HIDE DEF s
    <3> QED BY <2>1, <2>3 DEF Session
  <2> HIDE DEF s
  <2>5. ent = Reg!Entry(q, old.pw, old.line \cup {old.jti})
    BY <1>4, <2>4 DEF Reg!Entry
  <2>6. Reg!Refresh(q)
    BY <1>6, <1>7, <1>9, <2>2, <2>5 DEF Reg!Refresh
  <2> QED BY <1>5, <2>6 DEF Reg!RegistryNext
<1>10. CASE n.tv = user.tv /\ req[q].kind # "refresh"
  <2>1. n.pw = user.pw /\ n.line = {}
    BY <1>1, <1>3, <1>4, <1>10 DEF SignedIn
  <2>2. ent = Reg!Entry(q, user.pw, {})
    BY <1>4, <2>1 DEF Reg!Entry
  <2>3. Reg!SignIn(q)
    BY <1>6, <1>7, <1>10, <2>2 DEF Reg!SignIn
  <2> QED BY <1>5, <2>3 DEF Reg!RegistryNext
<1> QED BY <1>8, <1>9, <1>10

LEMMA RegistryStep ==
  ASSUME TypeOK, Sound, [Next]_vars
  PROVE  [Reg!RegistryNext]_Reg!regVars
<1>1. CASE UNCHANGED <<user, sessions>>
  BY <1>1, RegistryStays
<1>2. ASSUME NEW q \in Requests, SignInStep(q)
      PROVE  IssueTokens(q) \/ UNCHANGED <<user, sessions>>
  BY <1>2 DEF SignInStep, AskLogin, AssertNotLocked, ReadForLogin, CountFailure, StartWindow, TripLock,
              ResetCount, ClearFailures, ReadForSso
<1>3. ASSUME NEW q \in Requests, RefreshStep(q)
      PROVE  PunishReuse(q) \/ UNCHANGED <<user, sessions>>
  BY <1>3 DEF RefreshStep, PresentRefresh, ReadForRefresh, RedeemJti
<1>4. ASSUME NEW q \in Requests, PunishReuse(q) \/ BumpTokenVersion(q)
      PROVE  [Reg!RegistryNext]_Reg!regVars
  <2>1. user'.tv = user.tv + 1 /\ user'.pw \in Tokens /\ UNCHANGED sessions
    BY <1>4 DEF PunishReuse, BumpTokenVersion, TypeOK, User
  <2> QED BY <2>1, RegistryEnds
<1>5. ASSUME NEW q \in Requests, WriteSettings(q)
      PROVE  [Reg!RegistryNext]_Reg!regVars
  <2>1. UNCHANGED sessions /\ user \in User /\ q \in Tokens
    BY <1>5 DEF WriteSettings, TypeOK, Tokens
  <2>2. CASE user' = PasswordWritten(q)
    <3>1. user'.tv = user.tv + 1 /\ user'.pw = q
      BY <2>1, <2>2 DEF PasswordWritten, User
    <3> QED BY <2>1, <3>1, RegistryEnds
  <2>3. CASE user' = [user EXCEPT !.totp = TRUE, !.onboarded = TRUE] \/ \E on \in BOOLEAN : user' = [user EXCEPT !.totp = on]
    <3>1. user'.tv = user.tv /\ user'.pw = user.pw
      BY <2>1, <2>3 DEF User
    <3> QED BY <2>1, <3>1, RegistryStays
  <2> QED BY <1>5, <2>2, <2>3 DEF WriteSettings
<1>6. ASSUME NEW q \in Requests, SettingsStep(q)
      PROVE  WriteSettings(q) \/ BumpTokenVersion(q) \/ UNCHANGED <<user, sessions>>
  BY <1>6 DEF SettingsStep, PassGuard, ReadForSettings
<1>7. ASSUME NEW q \in Requests, RegisterStep(q) \/ RequestDies(q)
      PROVE  UNCHANGED <<user, sessions>>
  BY <1>7 DEF RegisterStep, AskRegister, FindByEmail, ConsumeInvite, RestoreInvite, CreateUser, RequestDies
<1>8. TimePasses \/ UNCHANGED vars => UNCHANGED <<user, sessions>>
  BY DEF TimePasses, FailuresExpire, RefreshTokenExpires, MarkExpires, InviteEnds, vars
<1> QED BY <1>1, <1>2, <1>3, <1>4, <1>5, <1>6, <1>7, <1>8, RegistryIssues DEF Next

\* Every step of the handlers is a step of SessionRegistry or a stutter (issueTokens,
\* updatePassword, bumpTokenVersion, refresh), for any number of requests and every fault.
THEOREM SessionsImplement == Spec => SessionsComeAndEnd
<1>1. Init => TypeOK /\ Sound
  BY AccountsInit, SoundInit
<1>2. Init => Reg!RegistryInit
  <2> SUFFICES ASSUME Init PROVE Reg!RegistryInit
    OBVIOUS
  <2>1. user.tv = 0 /\ user.pw = First /\ sessions = {SignedIn(First, 0, user)}
    BY DEF Init
  <2>2. SignedIn(First, 0, user).jti = First /\ SignedIn(First, 0, user).tv = 0
        /\ SignedIn(First, 0, user).pw = First /\ SignedIn(First, 0, user).line = {}
    BY <2>1 DEF SignedIn
  <2>3. {s.jti : s \in sessions} = {First}
    BY <2>1, <2>2
  <2>4. ValidSessions = {Reg!Entry(First, user.pw, {})}
    BY <2>1, <2>2 DEF ValidSessions, Accepted, Reg!Entry
  <2> QED BY <2>1, <2>3, <2>4 DEF Reg!RegistryInit, Tokens
<1> QED BY <1>1, <1>2, AccountsNext, RegistryStep, PTL DEF Spec, SessionsComeAndEnd, Reg!Registry

-----------------------------------------------------------------------------
(* Failed attempts.  Who leaves the count untimed, or full, is still on the *)
(* way to what times or clears it.                                          *)

RequestStep(q) ==
  SignInStep(q) \/ RefreshStep(q) \/ SettingsStep(q) \/ RegisterStep(q) \/ RequestDies(q)

LEMMA OneMoves ==
  ASSUME TypeOK, NEW q \in Requests, RequestStep(q)
  PROVE  \A p \in Requests \ {q} : req'[p] = req[p]
<1>1. CASE SignInStep(q)
  BY <1>1 DEF SignInStep, AskLogin, AssertNotLocked, ReadForLogin, CountFailure, StartWindow, TripLock,
     ResetCount, ClearFailures, ReadForSso, IssueTokens, Goto, Read, TypeOK
<1>2. CASE RefreshStep(q)
  BY <1>2 DEF RefreshStep, PresentRefresh, ReadForRefresh, RedeemJti, PunishReuse, Goto, Read, TypeOK
<1>3. CASE SettingsStep(q)
  BY <1>3 DEF SettingsStep, PassGuard, ReadForSettings, WriteSettings, BumpTokenVersion, Goto, Read, TypeOK
<1>4. CASE RegisterStep(q) \/ RequestDies(q)
  BY <1>4 DEF RegisterStep, AskRegister, FindByEmail, ConsumeInvite, RestoreInvite, CreateUser,
     RequestDies, Goto, TypeOK
<1> QED BY <1>1, <1>2, <1>3, <1>4 DEF RequestStep

CountPcs == {"window", "trip", "reset"}

Timed ==
  /\ lockout.count > 0 => lockout.timed \/ \E q \in Requests : req[q].pc \in CountPcs
  /\ lockout.count >= MaxFailures => \E q \in Requests : req[q].pc \in {"trip", "reset"}

LEMMA CountMoves ==
  ASSUME TypeOK, Timed, NEW q \in Requests, CountFailure(q) \/ StartWindow(q) \/ TripLock(q)
            \/ ResetCount(q) \/ ClearFailures(q), "redis_error" \notin Env
  PROVE  Timed'
<1>1. \A p \in Requests \ {q} : req'[p] = req[p]
  BY OneMoves DEF RequestStep, SignInStep
<1>2. lockout.count \in Nat /\ MaxFailures \in Nat /\ MaxFailures > 1 /\ ~RedisFails
  BY MaxFailuresAssumption DEF TypeOK, RedisFails
<1>3. CASE CountFailure(q)
  <2>1. lockout' = [lockout EXCEPT !.count = @ + 1] /\ Goto(q, AfterCount(lockout.count + 1))
    BY <1>2, <1>3 DEF CountFailure
  <2>2. lockout'.count = lockout.count + 1 /\ lockout'.timed = lockout.timed
    BY <2>1 DEF TypeOK
  <2>3. req'[q].pc = AfterCount(lockout.count + 1)
    BY <2>1 DEF Goto, At, NoLocals, TypeOK, Request
  <2>4. CASE lockout.count = 0
    <3>1. lockout.count + 1 = 1
      BY <2>4
    <3>2. req'[q].pc = "window" /\ lockout'.count = 1
      BY <1>2, <2>2, <2>3, <3>1 DEF AfterCount
    <3> QED BY <1>2, <3>2 DEF Timed, CountPcs
  <2>5. CASE lockout.count > 0 /\ lockout'.count >= MaxFailures
    <3>1. req'[q].pc = "trip"
      BY <1>2, <2>2, <2>3, <2>5 DEF AfterCount
    <3> QED BY <3>1 DEF Timed, CountPcs
  <2>6. CASE lockout.count > 0 /\ ~(lockout'.count >= MaxFailures)
    <3>1. req[q].pc = "failed"
      BY <1>3 DEF CountFailure
    <3>2. lockout.timed \/ \E p \in Requests \ {q} : req[p].pc \in CountPcs
      BY <2>6, <3>1 DEF Timed, CountPcs
    <3> QED BY <1>1, <2>2, <2>6, <3>2 DEF Timed
  <2> QED BY <1>2, <2>4, <2>5, <2>6
<1>4. CASE StartWindow(q)
  <2>1. lockout' = [lockout EXCEPT !.timed = lockout.count > 0] /\ req[q].pc = "window"
    BY <1>2, <1>4 DEF StartWindow
  <2>2. lockout'.count = lockout.count /\ lockout'.timed = (lockout.count > 0)
    BY <2>1 DEF TypeOK
  <2> QED BY <1>1, <2>1, <2>2 DEF Timed
<1>5. CASE TripLock(q)
  <2>1. lockout' = [lockout EXCEPT !.locked = TRUE] /\ Goto(q, "reset")
    BY <1>2, <1>5 DEF TripLock
  <2>2. lockout'.count = lockout.count /\ lockout'.timed = lockout.timed /\ req'[q].pc = "reset"
    BY <2>1 DEF Goto, At, TypeOK, Request
  <2> QED BY <2>2 DEF Timed, CountPcs
<1>6. CASE ResetCount(q) \/ ClearFailures(q)
  <2>1. lockout'.count = 0
    <3>1. CASE lockout' = NoFailures
      BY <3>1 DEF NoFailures
    <3>2. CASE lockout' = [lockout EXCEPT !.count = 0, !.timed = FALSE]
      BY <3>2 DEF TypeOK
    <3> QED BY <1>2, <1>6, <3>1, <3>2 DEF ResetCount, ClearFailures
  <2> QED BY <1>2, <2>1 DEF Timed
<1> QED BY <1>3, <1>4, <1>5, <1>6

LEMMA TimedStep ==
  ASSUME TypeOK, Timed, [Next]_vars, "redis_error" \notin Env, "request_dies" \notin Env
  PROVE  Timed'
<1>1. ASSUME NEW q \in Requests, RequestStep(q), ~(CountFailure(q) \/ StartWindow(q) \/ TripLock(q)
                \/ ResetCount(q) \/ ClearFailures(q))
      PROVE  Timed'
  <2>1. UNCHANGED lockout /\ req[q].pc \notin CountPcs
    <3>1. CASE SignInStep(q)
      BY <1>1, <3>1 DEF SignInStep, AskLogin, AssertNotLocked, ReadForLogin, ReadForSso, IssueTokens,
         RedisFails, redisVars, CountPcs
    <3>2. CASE RefreshStep(q)
      BY <3>2 DEF RefreshStep, PresentRefresh, ReadForRefresh, RedeemJti, PunishReuse, RedisFails,
         redisVars, CountPcs
    <3>3. CASE SettingsStep(q)
      BY <3>3 DEF SettingsStep, PassGuard, ReadForSettings, WriteSettings, BumpTokenVersion,
         redisVars, CountPcs
    <3>4. CASE RegisterStep(q)
      BY <3>4 DEF RegisterStep, AskRegister, FindByEmail, ConsumeInvite, RestoreInvite, CreateUser,
         redisVars, CountPcs
    <3> QED BY <1>1, <3>1, <3>2, <3>3, <3>4 DEF RequestStep, RequestDies
  <2>2. \A p \in Requests \ {q} : req'[p] = req[p]
    BY <1>1, OneMoves
  <2> QED BY <2>1, <2>2 DEF Timed, CountPcs
<1>2. CASE FailuresExpire
  <2>1. UNCHANGED req /\ (lockout'.count = 0 \/ (lockout'.count = lockout.count /\ lockout'.timed = lockout.timed))
    BY <1>2 DEF FailuresExpire, TypeOK
  <2> QED BY <2>1, MaxFailuresAssumption DEF Timed
<1>3. CASE RefreshTokenExpires \/ MarkExpires \/ InviteEnds \/ UNCHANGED vars
  <2>1. UNCHANGED <<req, lockout>>
    BY <1>3 DEF RefreshTokenExpires, MarkExpires, InviteEnds, vars, redisVars
  <2> QED BY <2>1 DEF Timed
<1> QED BY <1>1, <1>2, <1>3, CountMoves DEF Next, RequestStep, TimePasses

\* As long as Redis answers and no handler dies between two of its commands, a count of failed
\* attempts is timed or about to be, and a full one is about to trip the lock, however many
\* attempts fail at once (recordFailure, clearFailures).
THEOREM FailuresEnd ==
  ASSUME "redis_error" \notin Env, "request_dies" \notin Env
  PROVE  Spec => []FailuresAreTimed
<1>1. Init => Timed
  BY MaxFailuresAssumption DEF Init, Timed, NoFailures
<1>2. TypeOK /\ Timed => FailuresAreTimed
  BY MaxFailuresAssumption DEF TypeOK, Timed, FailuresAreTimed, CountPcs
<1> QED BY <1>1, <1>2, TimedStep, AccountTypes, PTL DEF Spec

-----------------------------------------------------------------------------
(* The invite.  While it exists it is free, or in the hands of one request, *)
(* or behind one account.                                                   *)

InviteHolders == {q \in Requests : req[q].pc \in {"mismatch", "consumed"}}

Spent ==
  invite.exists =>
    IF invite.used
    THEN \/ (\E q \in Requests : InviteHolders = {q}) /\ accounts = {}
         \/ InviteHolders = {} /\ \E a : accounts = {a}
    ELSE InviteHolders = {} /\ accounts = {}

LEMMA InviteStays ==
  ASSUME Spent, InviteHolders' = InviteHolders, UNCHANGED accounts, invite'.exists => invite.exists,
         invite'.used = invite.used
  PROVE  Spent'
BY DEF Spent

LEMMA Lands ==
  ASSUME TypeOK, NEW q \in Requests, NEW pc
  PROVE  Goto(q, pc) \/ Read(q, pc) => req'[q].pc = pc
<1>1. ASSUME NEW r \in Request PROVE At(r, pc).pc = pc
  BY DEF At, NoLocals, Request
<1>2. req[q] \in Request /\ [req[q] EXCEPT !.row = user] \in Request
  BY LocalsTyped DEF TypeOK
<1>3. Goto(q, pc) \/ Read(q, pc) =>
        req'[q] = At(req[q], pc) \/ req'[q] = At([req[q] EXCEPT !.row = user], pc)
  BY DEF Goto, Read, TypeOK
<1> QED BY <1>1, <1>2, <1>3

\* No step but those of register leads into or out of the statements between the two updates.
LEMMA InviteApart ==
  ASSUME TypeOK, NEW q \in Requests, SignInStep(q) \/ RefreshStep(q) \/ SettingsStep(q)
  PROVE  /\ UNCHANGED inviteVars
         /\ req[q].pc \notin {"mismatch", "consumed"} /\ req'[q].pc \notin {"mismatch", "consumed"}
<1>1. CASE AskLogin(q) \/ ReadForSso(q)
  <2>1. req'[q].pc \in {"asked", "issue"}
    <3>1. CASE AskLogin(q)
      <4>1. PICK pw \in {user.pw, Wrong(q)}, totp \in {"none", "good", "bad"} :
              req' = [req EXCEPT ![q] = [@ EXCEPT !.kind = "login", !.pc = "asked", !.pw = pw, !.totp = totp]]
        BY <3>1 DEF AskLogin
      <4> QED BY <4>1 DEF TypeOK, Request
    <3>2. CASE ReadForSso(q)
      BY <3>2 DEF ReadForSso, TypeOK, Request
    <3> QED BY <1>1, <3>1, <3>2
  <2> QED BY <1>1, <2>1 DEF AskLogin, ReadForSso
<1>2. CASE ReadForLogin(q)
  <2>1. LoginOutcome(q, user) \in {"failed", "over", "verified"}
    BY DEF LoginOutcome
  <2> QED BY <1>2, <2>1, Lands DEF ReadForLogin
<1>3. CASE CountFailure(q)
  <2>1. AfterCount(lockout.count + 1) \in {"window", "trip", "over"}
    BY DEF AfterCount
  <2> QED BY <1>3, <2>1, Lands DEF CountFailure
<1>4. CASE AssertNotLocked(q) \/ StartWindow(q) \/ TripLock(q) \/ ResetCount(q) \/ ClearFailures(q)
           \/ IssueTokens(q)
  BY <1>4, Lands DEF AssertNotLocked, StartWindow, TripLock, ResetCount, ClearFailures, IssueTokens
<1>5. CASE PresentRefresh(q)
  BY <1>5 DEF PresentRefresh, TypeOK, Request
<1>6. CASE ReadForRefresh(q) \/ PunishReuse(q)
  BY <1>6, Lands DEF ReadForRefresh, PunishReuse
<1>7. CASE RedeemJti(q)
  <2>1. CASE req' = [req EXCEPT ![q] = [@ EXCEPT !.pc = "issue", !.marked = TRUE]]
    BY <1>7, <2>1 DEF RedeemJti, TypeOK, Request
  <2>2. CASE Goto(q, "punish") \/ Goto(q, "issue")
    BY <1>7, <2>2, Lands DEF RedeemJti
  <2> QED BY <1>7, <2>1, <2>2 DEF RedeemJti
<1>8. CASE PassGuard(q)
  BY <1>8 DEF PassGuard, TypeOK, Request
<1>9. CASE ReadForSettings(q) \/ WriteSettings(q) \/ BumpTokenVersion(q)
  BY <1>9, Lands DEF ReadForSettings, WriteSettings, AfterTotpOff, BumpTokenVersion
<1> QED BY <1>1, <1>2, <1>3, <1>4, <1>5, <1>6, <1>7, <1>8, <1>9 DEF SignInStep, RefreshStep, SettingsStep

LEMMA InviteMoves ==
  ASSUME TypeOK, Spent, NEW q \in Requests, ConsumeInvite(q) \/ RestoreInvite(q) \/ CreateUser(q)
  PROVE  Spent'
<1>1. \A p \in Requests \ {q} : req'[p] = req[p]
  BY OneMoves DEF RequestStep, RegisterStep
<1>2. CASE ConsumeInvite(q)
  <2>1. req[q].pc = "free"
    BY <1>2 DEF ConsumeInvite
  <2>2. CASE Consumable
    <3>1. invite.exists /\ ~invite.used /\ invite'.used /\ UNCHANGED accounts
      BY <1>2, <2>2 DEF ConsumeInvite, Consumable, TypeOK
    <3>2. req'[q].pc \in {"mismatch", "consumed"}
      BY <1>2, <2>2 DEF ConsumeInvite, Goto, At, TypeOK, Request
    <3>3. InviteHolders = {} /\ accounts = {}
      BY <3>1 DEF Spent
    <3>4. InviteHolders' = {q}
      BY <1>1, <3>2, <3>3 DEF InviteHolders
    <3> QED BY <3>1, <3>3, <3>4 DEF Spent
  <2>3. CASE ~Consumable
    <3>1. req'[q].pc = "over" /\ UNCHANGED <<invite, accounts>>
      BY <1>2, <2>3 DEF ConsumeInvite, Goto, At, NoLocals, TypeOK
    <3>2. InviteHolders' = InviteHolders
      BY <1>1, <2>1, <3>1 DEF InviteHolders
    <3> QED BY <3>1, <3>2, InviteStays
  <2> QED BY <2>2, <2>3
<1>3. CASE RestoreInvite(q) \/ CreateUser(q)
  <2>1. req[q].pc \in {"mismatch", "consumed"} /\ req'[q].pc = "over"
    BY <1>3 DEF RestoreInvite, CreateUser, Goto, At, NoLocals, TypeOK
  <2>2. q \in InviteHolders /\ InviteHolders' = InviteHolders \ {q}
    BY <1>1, <2>1 DEF InviteHolders
  <2>3. CASE ~invite.exists
    <3>1. ~invite'.exists
      BY <1>3, <2>3 DEF RestoreInvite, CreateUser
    <3> QED BY <3>1 DEF Spent
  <2>4. CASE invite.exists
    <3>1. invite.used /\ InviteHolders' = {} /\ accounts = {}
      BY <2>2, <2>4 DEF Spent
    <3>2. CASE RestoreInvite(q)
      <4>1. ~invite'.used /\ accounts' = {}
        BY <2>4, <3>1, <3>2 DEF RestoreInvite, TypeOK
      <4> QED BY <3>1, <4>1 DEF Spent
    <3>3. CASE CreateUser(q)
      <4>1. invite'.used /\ \E a : accounts' = {a}
        BY <3>1, <3>3 DEF CreateUser, Taken
      <4> QED BY <3>1, <4>1 DEF Spent
    <3> QED BY <1>3, <3>2, <3>3
  <2> QED BY <2>3, <2>4
<1> QED BY <1>2, <1>3

LEMMA SpentStep ==
  ASSUME TypeOK, Spent, [Next]_vars, "request_dies" \notin Env
  PROVE  Spent'
<1>1. ASSUME NEW q \in Requests, RequestStep(q), ~(ConsumeInvite(q) \/ RestoreInvite(q) \/ CreateUser(q))
      PROVE  Spent'
  <2>1. UNCHANGED inviteVars /\ req[q].pc \notin {"mismatch", "consumed"}
                             /\ req'[q].pc \notin {"mismatch", "consumed"}
    <3>1. CASE AskRegister(q)
      BY <3>1 DEF AskRegister, TypeOK, Request
    <3>2. CASE FindByEmail(q)
      BY <3>2, Lands DEF FindByEmail
    <3> QED BY <1>1, <3>1, <3>2, InviteApart DEF RequestStep, RegisterStep, RequestDies
  <2>2. \A p \in Requests \ {q} : req'[p] = req[p]
    BY <1>1, OneMoves
  <2>3. InviteHolders' = InviteHolders
    BY <2>1, <2>2 DEF InviteHolders
  <2> QED BY <2>1, <2>3, InviteStays DEF inviteVars
<1>2. CASE TimePasses \/ UNCHANGED vars
  <2>1. UNCHANGED <<req, accounts>> /\ (invite'.exists => invite.exists) /\ invite'.used = invite.used
    BY <1>2 DEF TimePasses, FailuresExpire, RefreshTokenExpires, MarkExpires, InviteEnds, vars, inviteVars, TypeOK
  <2>2. InviteHolders' = InviteHolders
    BY <2>1 DEF InviteHolders
  <2> QED BY <2>1, <2>2, InviteStays
<1> QED BY <1>1, <1>2, InviteMoves DEF Next, RequestStep

\* As long as no handler dies between its statements, an invite is worth one account to one
\* of the people who try it at once, and is free again when it was not meant for that one
\* (consume, restore, register).
THEOREM InviteNotLost ==
  ASSUME "request_dies" \notin Env
  PROVE  Spec => []InviteAccounted
<1>1. Init => Spent
  <2> SUFFICES ASSUME Init PROVE Spent
    OBVIOUS
  <2>1. \A q \in Requests : req[q].pc = "idle"
    BY DEF Init, NoLocals
  <2>2. InviteHolders = {} /\ ~invite.used /\ accounts = {}
    BY <2>1 DEF Init, InviteHolders
  <2> QED BY <2>2 DEF Spent
<1>2. TypeOK /\ Spent => InviteAccounted
  <2> SUFFICES ASSUME TypeOK, Spent, invite.exists
               PROVE  Cardinality(InviteHolders) + Cardinality(accounts) = (IF invite.used THEN 1 ELSE 0)
    BY DEF InviteAccounted, InviteHolders
  <2>1. CASE ~invite.used
    BY <2>1, FS_EmptySet DEF Spent
  <2>2. CASE invite.used
    <3>1. Cardinality({}) = 0
      BY FS_EmptySet
    <3>2. CASE InviteHolders = {} /\ \E a : accounts = {a}
      <4>1. Cardinality(accounts) = 1
        BY <3>2, FS_Singleton, Zenon
      <4> QED BY <2>2, <3>1, <3>2, <4>1
    <3>3. CASE (\E q \in Requests : InviteHolders = {q}) /\ accounts = {}
      <4>1. Cardinality(InviteHolders) = 1
        BY <3>3, FS_Singleton, Zenon
      <4> QED BY <2>2, <3>1, <3>3, <4>1
    <3> QED BY <2>2, <3>2, <3>3 DEF Spent
  <2> QED BY <2>1, <2>2
<1> QED BY <1>1, <1>2, SpentStep, AccountTypes, PTL DEF Spec

-----------------------------------------------------------------------------
(* Redemption.  The mark of a token that was redeemed is in Redis, or has   *)
(* expired at a time when nobody can redeem the token any more.             *)

Redeemed(t) ==
  \/ t \in marks
  \/ t \in dead /\ \A q \in Requests : req[q].from = t => req[q].pc \notin {"presented", "matched"}

Once ==
  /\ \A q \in Requests : req[q].marked => req[q].pc = "issue" /\ Redeemed(req[q].from)
  /\ \A p, q \in Requests : req[p].marked /\ req[q].marked /\ req[p].from = req[q].from => p = q
  /\ \A s \in sessions : s.marked =>
       Redeemed(s.from) /\ \A q \in Requests : req[q].marked => req[q].from # s.from
  /\ RedeemedOnce

\* A request that has not redeemed goes on, to redeem only what it could redeem before or
\* what has not expired.
LEMMA OnceMoves ==
  ASSUME TypeOK, Once, NEW q \in Requests, NEW r, req' = [req EXCEPT ![q] = r], ~r.marked,
         \/ r.pc \notin {"presented", "matched"}
         \/ r.from \notin dead
         \/ r.from = req[q].from /\ req[q].pc \in {"presented", "matched"},
         UNCHANGED <<sessions, marks, dead>>
  PROVE  Once'
<1>1. req'[q] = r /\ \A p \in Requests \ {q} : req'[p] = req[p]
  BY DEF TypeOK
<1>2. ASSUME NEW t, Redeemed(t) PROVE Redeemed(t)'
  BY <1>1, <1>2 DEF Redeemed
<1>3. \A p \in Requests : req'[p].marked => req'[p] = req[p] /\ req[p].marked
  BY <1>1
<1> QED BY <1>2, <1>3 DEF Once, RedeemedOnce

LEMMA OnceGoto ==
  ASSUME TypeOK, Once, NEW q \in Requests, NEW pc, Goto(q, pc) \/ Read(q, pc),
         pc \notin {"presented", "matched"} \/ req[q].pc \in {"presented", "matched"},
         pc = "over" \/ req[q].pc # "issue", UNCHANGED <<sessions, marks, dead>>
  PROVE  Once'
<1>1. PICK row \in User : req' = [req EXCEPT ![q] = At([req[q] EXCEPT !.row = row], pc)]
  <2>1. req[q].row \in User /\ [req[q] EXCEPT !.row = req[q].row] = req[q]
    BY DEF TypeOK, Request
  <2> QED BY <2>1 DEF Goto, Read, TypeOK
<1> DEFINE r == At([req[q] EXCEPT !.row = row], pc)
<1>2. ~r.marked /\ r.pc = pc /\ (pc # "over" => r.from = req[q].from)
  <2>1. CASE pc = "over"
    BY <2>1 DEF At, NoLocals
  <2>2. CASE pc # "over"
    <3>1. ~req[q].marked
      BY <2>2 DEF Once
    <3> QED BY <2>2, <3>1 DEF At, TypeOK, Request
  <2> QED BY <2>1, <2>2
<1> HIDE DEF r
<1> QED BY <1>1, <1>2, OnceMoves DEF r

LEMMA OnceSignIn ==
  ASSUME TypeOK, Once, NEW q \in Requests, SignInStep(q), ~IssueTokens(q)
  PROVE  Once'
<1>1. CASE AskLogin(q)
  <2>1. PICK pw \in {user.pw, Wrong(q)}, totp \in {"none", "good", "bad"} :
          req' = [req EXCEPT ![q] = [@ EXCEPT !.kind = "login", !.pc = "asked", !.pw = pw, !.totp = totp]]
    BY <1>1 DEF AskLogin
  <2> DEFINE r == [req[q] EXCEPT !.kind = "login", !.pc = "asked", !.pw = pw, !.totp = totp]
  <2>2. ~r.marked /\ r.pc = "asked"
    BY <1>1 DEF AskLogin, Once, TypeOK, Request
  <2> QED BY <1>1, <2>1, <2>2, OnceMoves DEF AskLogin, redisVars
<1>2. CASE ReadForSso(q)
  <2> DEFINE r == [req[q] EXCEPT !.kind = "sso", !.row = user, !.pc = "issue"]
  <2>1. ~r.marked /\ r.pc = "issue"
    BY <1>2 DEF ReadForSso, Once, TypeOK, Request
  <2>2. req' = [req EXCEPT ![q] = r]
    BY <1>2 DEF ReadForSso
  <2> QED BY <1>2, <2>1, <2>2, OnceMoves DEF ReadForSso, redisVars
<1>3. CASE ReadForLogin(q)
  <2>1. LoginOutcome(q, user) \in {"failed", "over", "verified"}
    BY DEF LoginOutcome
  <2> QED BY <1>3, <2>1, OnceGoto DEF ReadForLogin, redisVars
<1>4. CASE CountFailure(q)
  <2>1. AfterCount(lockout.count + 1) \in {"window", "trip", "over"}
    BY DEF AfterCount
  <2> QED BY <1>4, <2>1, OnceGoto DEF CountFailure, RedisFails, redisVars
<1>5. CASE AssertNotLocked(q) \/ StartWindow(q) \/ TripLock(q) \/ ResetCount(q) \/ ClearFailures(q)
  BY <1>5, OnceGoto DEF AssertNotLocked, StartWindow, TripLock, ResetCount, ClearFailures, RedisFails, redisVars
<1> QED BY <1>1, <1>2, <1>3, <1>4, <1>5 DEF SignInStep

LEMMA OnceRefresh ==
  ASSUME TypeOK, Once, NEW q \in Requests, RefreshStep(q)
  PROVE  Once'
<1>1. CASE PresentRefresh(q)
  <2>1. PICK s \in sessions :
          /\ s.jti \notin dead
          /\ req' = [req EXCEPT ![q] = [@ EXCEPT !.kind = "refresh", !.pc = "presented", !.from = s.jti]]
    BY <1>1 DEF PresentRefresh
  <2> DEFINE r == [req[q] EXCEPT !.kind = "refresh", !.pc = "presented", !.from = s.jti]
  <2>2. ~r.marked /\ r.from = s.jti
    BY <1>1 DEF PresentRefresh, Once, TypeOK, Request
  <2> QED BY <1>1, <2>1, <2>2, OnceMoves DEF PresentRefresh, redisVars
<1>2. CASE ReadForRefresh(q) \/ PunishReuse(q)
  BY <1>2, OnceGoto DEF ReadForRefresh, PunishReuse, redisVars
<1>3. CASE RedeemJti(q) /\ RedisFails
  <2>1. Goto(q, "issue") \/ Goto(q, "punish") \/ req[q].from \notin marks
    BY <1>3 DEF RedeemJti, FirstUse
  <2>2. UNCHANGED <<sessions, marks, dead>> /\ req[q].pc = "matched"
    BY <1>3 DEF RedeemJti, RedisFails, redisVars
  <2>3. Goto(q, "issue") \/ Goto(q, "punish")
    BY <1>3, <2>1, <2>2 DEF RedeemJti
  <2> QED BY <2>2, <2>3, OnceGoto
<1>4. CASE RedeemJti(q) /\ marks' = marks \cup {req[q].from}
  <2> DEFINE t == req[q].from
  <2>1. UNCHANGED <<sessions, dead>> /\ req[q].pc = "matched" /\ ~req[q].marked
    BY <1>4 DEF RedeemJti, Once
  <2>2. \A p \in Requests \ {q} : req'[p] = req[p]
    BY <1>4, OneMoves DEF RequestStep, RefreshStep
  <2>3. req'[q].pc \notin {"presented", "matched"}
    <3>1. CASE req' = [req EXCEPT ![q] = [@ EXCEPT !.pc = "issue", !.marked = TRUE]]
      BY <3>1 DEF TypeOK, Request
    <3>2. CASE Goto(q, "punish") \/ Goto(q, "issue")
      BY <3>2, Lands
    <3> QED BY <1>4, <3>1, <3>2 DEF RedeemJti
  <2>4. ASSUME NEW u, Redeemed(u) \/ u = t PROVE Redeemed(u)'
    BY <1>4, <2>1, <2>2, <2>3, <2>4 DEF Redeemed
  <2>5. CASE ~req'[q].marked
    <3>1. \A p \in Requests : req'[p].marked => req'[p] = req[p] /\ req[p].marked
      BY <2>2, <2>5
    <3> QED BY <2>1, <2>4, <3>1 DEF Once, RedeemedOnce
  <2>6. CASE req'[q].marked
    <3>1. FirstUse(t) /\ req' = [req EXCEPT ![q] = [@ EXCEPT !.pc = "issue", !.marked = TRUE]]
      <4>1. ~(Goto(q, "punish") \/ Goto(q, "issue"))
        BY <2>1, <2>6 DEF Goto, At, TypeOK, Request
      <4> QED BY <1>4, <4>1 DEF RedeemJti
    <3>2. req'[q].pc = "issue" /\ req'[q].from = t
      BY <3>1 DEF TypeOK, Request
    <3>3. ~Redeemed(t)
      BY <2>1, <3>1 DEF Redeemed, FirstUse
    <3>4. /\ \A p \in Requests \ {q} : req'[p].marked => req'[p].from # t
          /\ \A s \in sessions : s.marked => s.from # t
      BY <2>2, <3>3 DEF Once
    <3> QED BY <2>1, <2>2, <2>4, <3>2, <3>4 DEF Once, RedeemedOnce
  <2> QED BY <2>5, <2>6
<1> QED BY <1>1, <1>2, <1>3, <1>4 DEF RefreshStep, RedeemJti

LEMMA OnceOthers ==
  ASSUME TypeOK, Once, NEW q \in Requests, SettingsStep(q) \/ RegisterStep(q) \/ RequestDies(q)
  PROVE  Once'
<1>1. CASE PassGuard(q)
  <2>1. PICK kind \in SettingsKinds, pw \in {user.pw, Wrong(q)} :
          req' = [req EXCEPT ![q] = [@ EXCEPT !.kind = kind, !.pw = pw,
                                              !.pc = IF kind = "logout" THEN "bump" ELSE "guarded"]]
    BY <1>1 DEF PassGuard
  <2> DEFINE r == [req[q] EXCEPT !.kind = kind, !.pw = pw,
                                 !.pc = IF kind = "logout" THEN "bump" ELSE "guarded"]
  <2>2. ~r.marked /\ r.pc \notin {"presented", "matched"}
    BY <1>1 DEF PassGuard, Once, TypeOK, Request
  <2> QED BY <1>1, <2>1, <2>2, OnceMoves DEF PassGuard, redisVars
<1>2. CASE AskRegister(q)
  <2>1. PICK email \in Emails :
          req' = [req EXCEPT ![q] = [@ EXCEPT !.kind = "register", !.pc = "registering", !.email = email]]
    BY <1>2 DEF AskRegister
  <2> DEFINE r == [req[q] EXCEPT !.kind = "register", !.pc = "registering", !.email = email]
  <2>2. ~r.marked /\ r.pc = "registering"
    BY <1>2 DEF AskRegister, Once, TypeOK, Request
  <2> QED BY <1>2, <2>1, <2>2, OnceMoves DEF AskRegister, redisVars
<1>3. CASE ReadForSettings(q) \/ WriteSettings(q) \/ BumpTokenVersion(q)
  BY <1>3, OnceGoto DEF ReadForSettings, WriteSettings, AfterTotpOff, BumpTokenVersion, redisVars
<1>4. CASE FindByEmail(q) \/ ConsumeInvite(q) \/ RestoreInvite(q) \/ CreateUser(q) \/ RequestDies(q)
  BY <1>4, OnceGoto DEF FindByEmail, ConsumeInvite, RestoreInvite, CreateUser, RequestDies, redisVars
<1> QED BY <1>1, <1>2, <1>3, <1>4 DEF SettingsStep, RegisterStep

LEMMA OnceIssue ==
  ASSUME TypeOK, Sound, Once, NEW q \in Requests, IssueTokens(q)
  PROVE  Once'
<1>1. PICK n : /\ sessions' = sessions \cup {n}
               /\ n.marked => req[q].marked /\ n.from = req[q].from
  <2>1. CASE req[q].kind = "refresh"
    <3> DEFINE s == Parent(q)
    <3>1. s \in Session
      BY <2>1, ParentFound DEF TypeOK
    <3> HIDE DEF s
    <3> DEFINE n == [s EXCEPT !.jti = q, !.tv = IssuedEpoch(q), !.from = req[q].from,
                              !.marked = req[q].marked, !.line = s.line \cup {req[q].from}]
    <3>2. sessions' = sessions \cup {n}
      BY <2>1 DEF IssueTokens, s
    <3>3. n.marked = req[q].marked /\ n.from = req[q].from
      BY <3>1 DEF Session
    <3> QED BY <3>2, <3>3
  <2>2. CASE req[q].kind # "refresh"
    <3> DEFINE n == SignedIn(q, IssuedEpoch(q), req[q].row)
    <3>1. sessions' = sessions \cup {n}
      BY <2>2 DEF IssueTokens
    <3>2. ~n.marked
      BY DEF SignedIn
    <3> QED BY <3>1, <3>2
  <2> QED BY <2>1, <2>2
<1>2. \A p \in Requests : req'[p] = IF p = q THEN NoLocals("over") ELSE req[p]
  BY DEF IssueTokens, Goto, At, TypeOK
<1>3. UNCHANGED <<marks, dead>> /\ ~NoLocals("over").marked /\ NoLocals("over").pc = "over"
  BY DEF IssueTokens, redisVars, NoLocals
<1>4. ASSUME NEW t, Redeemed(t) PROVE Redeemed(t)'
  BY <1>2, <1>3, <1>4 DEF Redeemed
<1>5. \A p \in Requests : req'[p].marked => p # q /\ req'[p] = req[p]
  BY <1>2, <1>3
<1>6. n.marked => /\ Redeemed(n.from)
                  /\ \A p \in Requests : req'[p].marked => req'[p].from # n.from
                  /\ \A s \in sessions : s.marked => s.from # n.from
  BY <1>1, <1>5 DEF Once
<1> QED BY <1>1, <1>4, <1>5, <1>6 DEF Once, RedeemedOnce

LEMMA OnceStep == ASSUME TypeOK, Sound, Once, [Next]_vars PROVE Once'
<1>1. CASE MarkExpires
  <2>1. PICK t \in marks \cap dead :
          /\ \A q \in Requests : req[q].from = t => req[q].pc \notin {"presented", "matched"}
          /\ marks' = marks \ {t}
    BY <1>1 DEF MarkExpires
  <2>2. UNCHANGED <<req, sessions, dead>>
    BY <1>1 DEF MarkExpires
  <2>3. ASSUME NEW u, Redeemed(u) PROVE Redeemed(u)'
    BY <2>1, <2>2, <2>3 DEF Redeemed
  <2> QED BY <2>2, <2>3 DEF Once, RedeemedOnce
<1>2. CASE FailuresExpire \/ RefreshTokenExpires \/ InviteEnds \/ UNCHANGED vars
  <2>1. UNCHANGED <<req, sessions, marks>> /\ dead \subseteq dead'
    BY <1>2 DEF FailuresExpire, RefreshTokenExpires, InviteEnds, vars, redisVars
  <2>2. ASSUME NEW u, Redeemed(u) PROVE Redeemed(u)'
    BY <2>1, <2>2 DEF Redeemed
  <2> QED BY <2>1, <2>2 DEF Once, RedeemedOnce
<1> QED BY <1>1, <1>2, OnceSignIn, OnceRefresh, OnceOthers, OnceIssue DEF Next, TimePasses, SignInStep

\* Of all the requests that redeem one refresh token Redis tells one that it came first, and
\* goes on to tell the others until the token is past its exp (consumeRefreshJti, refresh).
THEOREM RefreshOnce == Spec => []RedeemedOnce
<1>1. Init => TypeOK /\ Sound /\ Once
  <2>1. Init => Once
    BY DEF Init, Once, RedeemedOnce, SignedIn, NoLocals
  <2> QED BY <2>1, AccountsInit, SoundInit
<1>2. Once => RedeemedOnce
  BY DEF Once
<1> QED BY <1>1, <1>2, AccountsNext, OnceStep, PTL DEF Spec

-----------------------------------------------------------------------------
(* Two-factor sign-in.  Who switches it off still owes the row its bump.    *)

Ending == user.totp \/ \E q \in Requests : req[q].kind = "disable" /\ req[q].pc = "bump"

HoldsRow == {"verified", "matched", "issue"}

FactorKept ==
  /\ \A s \in sessions : s.tv = user.tv /\ s.totp => Ending
  /\ \A q \in Requests : req[q].pc \in HoldsRow /\ req[q].row.tv = user.tv /\ req[q].row.totp => Ending

LEMMA FactorMoves ==
  ASSUME TypeOK, FactorKept, NEW q \in Requests, NEW r, req' = [req EXCEPT ![q] = r],
         r.pc \in HoldsRow => r.row = user \/ (r.row = req[q].row /\ req[q].pc \in HoldsRow),
         req[q].pc # "bump", UNCHANGED <<user, sessions>>
  PROVE  FactorKept'
<1>1. req'[q] = r /\ \A p \in Requests \ {q} : req'[p] = req[p]
  BY DEF TypeOK
<1>2. Ending => Ending'
  BY <1>1 DEF Ending
<1>3. ASSUME NEW p \in Requests, req'[p].pc \in HoldsRow, req'[p].row.tv = user.tv, req'[p].row.totp
      PROVE  Ending'
  <2>1. CASE p # q
    BY <1>1, <1>2, <1>3, <2>1 DEF FactorKept
  <2>2. CASE p = q /\ r.row = user
    BY <1>1, <1>3, <2>2 DEF Ending
  <2>3. CASE p = q /\ r.row = req[q].row /\ req[q].pc \in HoldsRow
    BY <1>1, <1>2, <1>3, <2>3 DEF FactorKept
  <2> QED BY <1>1, <1>3, <2>1, <2>2, <2>3
<1> QED BY <1>2, <1>3 DEF FactorKept

LEMMA FactorGoto ==
  ASSUME TypeOK, FactorKept, NEW q \in Requests, NEW pc, Goto(q, pc) \/ Read(q, pc),
         pc \in HoldsRow => Read(q, pc) \/ req[q].pc \in HoldsRow,
         req[q].pc # "bump", UNCHANGED <<user, sessions>>
  PROVE  FactorKept'
<1>1. CASE Goto(q, pc)
  <2> DEFINE r == At(req[q], pc)
  <2>1. r.pc = pc /\ (pc # "over" => r.row = req[q].row)
    BY DEF At, NoLocals, TypeOK, Request
  <2>2. req' = [req EXCEPT ![q] = r]
    BY <1>1 DEF Goto
  <2>3. pc \in HoldsRow => pc # "over"
    BY DEF HoldsRow
  <2>4. Read(q, pc) => (pc \in HoldsRow => r.row = user)
    <3> SUFFICES ASSUME Read(q, pc), pc # "over" PROVE r.row = user
      BY <2>3
    <3>1. req'[q] = At([req[q] EXCEPT !.row = user], pc)
      BY DEF Read, TypeOK
    <3>2. req'[q].row = user
      BY <3>1 DEF At, TypeOK, Request
    <3> QED BY <2>2, <3>2 DEF TypeOK
  <2> HIDE DEF r
  <2> QED BY <2>1, <2>2, <2>3, <2>4, FactorMoves
<1>2. CASE Read(q, pc)
  <2> DEFINE r == At([req[q] EXCEPT !.row = user], pc)
  <2>1. r.pc = pc /\ (pc # "over" => r.row = user)
    BY DEF At, NoLocals, TypeOK, Request
  <2>2. req' = [req EXCEPT ![q] = r]
    BY <1>2 DEF Read
  <2>3. pc \in HoldsRow => pc # "over"
    BY DEF HoldsRow
  <2> HIDE DEF r
  <2> QED BY <2>1, <2>2, <2>3, FactorMoves
<1> QED BY <1>1, <1>2

\* The epoch moves, and nothing from before it counts.
LEMMA FactorBumped ==
  ASSUME TypeOK, Sound, NEW q \in Requests, Goto(q, "over"), user'.tv = user.tv + 1, UNCHANGED sessions
  PROVE  FactorKept'
<1>1. user.tv \in Nat /\ (\A s \in sessions : s.tv \in Nat) /\ \A p \in Requests : req[p].row.tv \in Nat
  BY DEF TypeOK, User, Session, Request
<1>2. req'[q].pc = "over" /\ \A p \in Requests \ {q} : req'[p] = req[p]
  BY DEF Goto, At, NoLocals, TypeOK
<1>3. \A s \in sessions : s.tv # user'.tv
  BY <1>1 DEF Sound, SessionsSound
<1>4. \A p \in Requests : req'[p].pc \in HoldsRow => req'[p].row.tv # user'.tv
  BY <1>1, <1>2 DEF Sound, LocalsSound, RowSound, HoldsRow
<1> QED BY <1>3, <1>4 DEF FactorKept

LEMMA FactorSignIn ==
  ASSUME TypeOK, FactorKept, NEW q \in Requests, SignInStep(q), ~IssueTokens(q)
  PROVE  FactorKept'
<1>1. CASE AskLogin(q)
  <2>1. PICK pw \in {user.pw, Wrong(q)}, totp \in {"none", "good", "bad"} :
          req' = [req EXCEPT ![q] = [@ EXCEPT !.kind = "login", !.pc = "asked", !.pw = pw, !.totp = totp]]
    BY <1>1 DEF AskLogin
  <2> DEFINE r == [req[q] EXCEPT !.kind = "login", !.pc = "asked", !.pw = pw, !.totp = totp]
  <2>2. r.pc = "asked"
    BY DEF TypeOK, Request
  <2> QED BY <1>1, <2>1, <2>2, FactorMoves DEF AskLogin, HoldsRow
<1>2. CASE ReadForSso(q)
  <2> DEFINE r == [req[q] EXCEPT !.kind = "sso", !.row = user, !.pc = "issue"]
  <2>1. r.row = user
    BY DEF TypeOK, Request
  <2>2. req' = [req EXCEPT ![q] = r]
    BY <1>2 DEF ReadForSso
  <2> QED BY <1>2, <2>1, <2>2, FactorMoves DEF ReadForSso
<1>3. CASE ReadForLogin(q)
  BY <1>3, FactorGoto DEF ReadForLogin
<1>4. CASE CountFailure(q)
  <2>1. AfterCount(lockout.count + 1) \in {"window", "trip", "over"}
    BY DEF AfterCount
  <2> QED BY <1>4, <2>1, FactorGoto DEF CountFailure, HoldsRow
<1>5. CASE AssertNotLocked(q) \/ StartWindow(q) \/ TripLock(q) \/ ResetCount(q) \/ ClearFailures(q)
  BY <1>5, FactorGoto DEF AssertNotLocked, StartWindow, TripLock, ResetCount, ClearFailures, HoldsRow
<1> QED BY <1>1, <1>2, <1>3, <1>4, <1>5 DEF SignInStep

LEMMA FactorRefresh ==
  ASSUME TypeOK, Sound, FactorKept, NEW q \in Requests, RefreshStep(q)
  PROVE  FactorKept'
<1>1. CASE PresentRefresh(q)
  <2>1. PICK s \in sessions :
          req' = [req EXCEPT ![q] = [@ EXCEPT !.kind = "refresh", !.pc = "presented", !.from = s.jti]]
    BY <1>1 DEF PresentRefresh
  <2> DEFINE r == [req[q] EXCEPT !.kind = "refresh", !.pc = "presented", !.from = s.jti]
  <2>2. r.pc = "presented"
    BY DEF TypeOK, Request
  <2> QED BY <1>1, <2>1, <2>2, FactorMoves DEF PresentRefresh, HoldsRow
<1>2. CASE ReadForRefresh(q)
  BY <1>2, FactorGoto DEF ReadForRefresh
<1>3. CASE RedeemJti(q)
  <2>1. CASE Goto(q, "punish") \/ Goto(q, "issue")
    BY <1>3, <2>1, FactorGoto DEF RedeemJti, HoldsRow
  <2>2. CASE req' = [req EXCEPT ![q] = [@ EXCEPT !.pc = "issue", !.marked = TRUE]]
    <3> DEFINE r == [req[q] EXCEPT !.pc = "issue", !.marked = TRUE]
    <3>1. r.row = req[q].row
      BY DEF TypeOK, Request
    <3> QED BY <1>3, <2>2, <3>1, FactorMoves DEF RedeemJti, HoldsRow
  <2> QED BY <1>3, <2>1, <2>2 DEF RedeemJti
<1>4. CASE PunishReuse(q)
  <2>1. user'.tv = user.tv + 1
    BY <1>4 DEF PunishReuse, TypeOK, User
  <2> QED BY <1>4, <2>1, FactorBumped DEF PunishReuse
<1> QED BY <1>1, <1>2, <1>3, <1>4 DEF RefreshStep

LEMMA FactorSettings ==
  ASSUME TypeOK, Sound, FactorKept, NEW q \in Requests, SettingsStep(q)
  PROVE  FactorKept'
<1>1. CASE PassGuard(q)
  <2>1. PICK kind \in SettingsKinds, pw \in {user.pw, Wrong(q)} :
          req' = [req EXCEPT ![q] = [@ EXCEPT !.kind = kind, !.pw = pw,
                                              !.pc = IF kind = "logout" THEN "bump" ELSE "guarded"]]
    BY <1>1 DEF PassGuard
  <2> DEFINE r == [req[q] EXCEPT !.kind = kind, !.pw = pw,
                                 !.pc = IF kind = "logout" THEN "bump" ELSE "guarded"]
  <2>2. r.pc \in {"bump", "guarded"}
    BY DEF TypeOK, Request
  <2> QED BY <1>1, <2>1, <2>2, FactorMoves DEF PassGuard, HoldsRow
<1>2. CASE ReadForSettings(q)
  BY <1>2, FactorGoto DEF ReadForSettings, HoldsRow
<1>3. CASE WriteSettings(q) /\ req[q].kind = "change"
  <2>1. user' = PasswordWritten(q) /\ Goto(q, "over")
    BY <1>3 DEF WriteSettings
  <2>2. user'.tv = user.tv + 1
    BY <2>1 DEF PasswordWritten, TypeOK, User
  <2> QED BY <1>3, <2>1, <2>2, FactorBumped DEF WriteSettings
<1>4. CASE WriteSettings(q) /\ req[q].kind # "change"
  <2>1. Ending' /\ user'.tv = user.tv /\ UNCHANGED sessions
    <3>1. CASE req[q].kind = "disable"
      <4>1. req'[q].kind = "disable" /\ req'[q].pc = "bump"
        BY <1>4, <3>1 DEF WriteSettings, AfterTotpOff, Goto, At, TypeOK, Request
      <4>2. user' = [user EXCEPT !.totp = FALSE]
        BY <1>4, <3>1 DEF WriteSettings
      <4> QED BY <1>4, <4>1, <4>2 DEF WriteSettings, Ending, TypeOK, User
    <3>2. CASE req[q].kind # "disable"
      BY <1>4, <3>2 DEF WriteSettings, Ending, TypeOK, User
    <3> QED BY <3>1, <3>2
  <2> QED BY <2>1 DEF FactorKept
<1>5. CASE BumpTokenVersion(q)
  <2>1. user'.tv = user.tv + 1
    BY <1>5 DEF BumpTokenVersion, TypeOK, User
  <2> QED BY <1>5, <2>1, FactorBumped DEF BumpTokenVersion
<1> QED BY <1>1, <1>2, <1>3, <1>4, <1>5 DEF SettingsStep

LEMMA FactorRegister ==
  ASSUME TypeOK, FactorKept, NEW q \in Requests, RegisterStep(q)
  PROVE  FactorKept'
<1>1. CASE AskRegister(q)
  <2>1. PICK email \in Emails :
          req' = [req EXCEPT ![q] = [@ EXCEPT !.kind = "register", !.pc = "registering", !.email = email]]
    BY <1>1 DEF AskRegister
  <2> DEFINE r == [req[q] EXCEPT !.kind = "register", !.pc = "registering", !.email = email]
  <2>2. r.pc = "registering"
    BY DEF TypeOK, Request
  <2> QED BY <1>1, <2>1, <2>2, FactorMoves DEF AskRegister, HoldsRow
<1>2. CASE FindByEmail(q) \/ ConsumeInvite(q) \/ RestoreInvite(q) \/ CreateUser(q)
  BY <1>2, FactorGoto DEF FindByEmail, ConsumeInvite, RestoreInvite, CreateUser, HoldsRow
<1> QED BY <1>1, <1>2 DEF RegisterStep

LEMMA FactorIssue ==
  ASSUME TypeOK, Sound, FactorKept, NEW q \in Requests, IssueTokens(q)
  PROVE  FactorKept'
<1>1. req[q].pc = "issue" /\ req[q] \in Request
  BY DEF IssueTokens, TypeOK
<1>2. PICK n : sessions' = sessions \cup {n} /\ (n.tv = user.tv /\ n.totp => Ending)
  <2>1. CASE req[q].kind = "refresh"
    <3> DEFINE s == Parent(q)
    <3>1. s \in sessions /\ s.tv = req[q].row.tv
      BY <1>1, <2>1, ParentFound DEF Sound, LocalsSound, FromSound
    <3>2. s \in Session
      BY <3>1 DEF TypeOK
    <3> HIDE DEF s
    <3> DEFINE n == [s EXCEPT !.jti = q, !.tv = IssuedEpoch(q), !.from = req[q].from,
                              !.marked = req[q].marked, !.line = s.line \cup {req[q].from}]
    <3>3. sessions' = sessions \cup {n}
      BY <2>1 DEF IssueTokens, s
    <3>4. n.tv = s.tv /\ n.totp = s.totp
      BY <3>1, <3>2 DEF Session, IssuedEpoch
    <3> QED BY <3>1, <3>3, <3>4 DEF FactorKept
  <2>2. CASE req[q].kind # "refresh"
    <3> DEFINE n == SignedIn(q, IssuedEpoch(q), req[q].row)
    <3>1. sessions' = sessions \cup {n}
      BY <2>2 DEF IssueTokens
    <3>2. n.tv = req[q].row.tv /\ n.totp = req[q].row.totp
      BY DEF SignedIn, IssuedEpoch
    <3> QED BY <1>1, <3>1, <3>2 DEF FactorKept, HoldsRow
  <2> QED BY <2>1, <2>2
<1>3. req'[q].pc = "over" /\ \A p \in Requests \ {q} : req'[p] = req[p]
  BY DEF IssueTokens, Goto, At, NoLocals, TypeOK
<1>4. UNCHANGED user /\ (Ending => Ending')
  BY <1>1, <1>3 DEF IssueTokens, Ending
<1> QED BY <1>2, <1>3, <1>4 DEF FactorKept, HoldsRow

LEMMA FactorStep ==
  ASSUME TypeOK, Sound, FactorKept, [Next]_vars, "request_dies" \notin Env
  PROVE  FactorKept'
<1>1. CASE TimePasses \/ UNCHANGED vars
  <2>1. UNCHANGED <<user, req, sessions>>
    BY <1>1 DEF TimePasses, FailuresExpire, RefreshTokenExpires, MarkExpires, InviteEnds, vars
  <2> QED BY <2>1 DEF FactorKept, Ending
<1> QED BY <1>1, FactorSignIn, FactorRefresh, FactorSettings, FactorRegister, FactorIssue
        DEF Next, SignInStep, RequestDies

\* As long as the handler of disable2fa lives to run its second statement, no session that
\* began with two-factor sign-in is accepted once it is off, the sessions that are being
\* issued or refreshed meanwhile included (disable2fa, issueTokens, refresh).
THEOREM DisableEnds ==
  ASSUME "request_dies" \notin Env
  PROVE  Spec => []DisableEndsSessions
<1>1. Init => TypeOK /\ Sound /\ FactorKept
  <2>1. Init => FactorKept
    BY DEF Init, FactorKept, Ending, SignedIn, NoLocals, HoldsRow
  <2> QED BY <2>1, AccountsInit, SoundInit
<1>2. FactorKept => DisableEndsSessions
  BY DEF FactorKept, Ending, DisableEndsSessions, Accepted
<1> QED BY <1>1, <1>2, AccountsNext, FactorStep, PTL DEF Spec

-----------------------------------------------------------------------------
(* What SessionRegistry is worth, proved from it alone: the two promises    *)
(* that the handlers keep because they implement it.                        *)

LetIn(t) == \E s \in ValidSessions : s.jti = t

IssuedNames == {s.jti : s \in sessions}

ValidAreCurrent == \A s \in ValidSessions : s.pw = user.pw /\ s.jti \in IssuedNames

EndedStayEnded == \A t \in IssuedNames : ~LetIn(t) => ~LetIn(t)'

LEMMA RegistryKeeps ==
  ASSUME ValidAreCurrent, [Reg!RegistryNext]_Reg!regVars
  PROVE  ValidAreCurrent' /\ EndedStayEnded
<1> DEFINE V == ValidSessions
<1>1. ASSUME NEW n \in Tokens, Reg!SignIn(n) \/ Reg!Refresh(n) \/ Reg!StillBorn(n)
      PROVE  /\ user.pw' = user.pw /\ IssuedNames' = IssuedNames \cup {n} /\ n \notin IssuedNames
             /\ \A s \in V' : s \in V \/ (s.pw = user.pw /\ s.jti = n)
  <2>1. /\ user.pw' = user.pw /\ n \notin IssuedNames /\ IssuedNames' = IssuedNames \cup {n}
    BY <1>1 DEF Reg!SignIn, Reg!Refresh, Reg!StillBorn, Reg!Issue, IssuedNames
  <2>2. CASE Reg!SignIn(n)
    BY <2>1, <2>2 DEF Reg!SignIn, Reg!Entry
  <2>3. CASE Reg!Refresh(n)
    <3>1. PICK s \in V : V' = V \cup {Reg!Entry(n, s.pw, s.line \cup {s.jti})}
      BY <2>3 DEF Reg!Refresh
    <3> QED BY <2>1, <3>1 DEF Reg!Entry, ValidAreCurrent
  <2> QED BY <1>1, <2>1, <2>2, <2>3 DEF Reg!StillBorn
<1>2. CASE Reg!EndAll \/ Reg!ChangePassword
  BY <1>2 DEF Reg!EndAll, Reg!ChangePassword, ValidAreCurrent, EndedStayEnded, LetIn
<1>3. CASE UNCHANGED Reg!regVars
  BY <1>3 DEF Reg!regVars, ValidAreCurrent, EndedStayEnded, LetIn, IssuedNames
<1>4. ASSUME NEW n \in Tokens, Reg!SignIn(n) \/ Reg!Refresh(n) \/ Reg!StillBorn(n)
      PROVE  ValidAreCurrent' /\ EndedStayEnded
  <2> HIDE DEF V
  <2>1. ValidAreCurrent'
    BY <1>1, <1>4 DEF ValidAreCurrent, V
  <2>2. EndedStayEnded
    BY <1>1, <1>4 DEF EndedStayEnded, LetIn, V
  <2> QED BY <2>1, <2>2
<1> QED BY <1>2, <1>3, <1>4 DEF Reg!RegistryNext

\* Whatever implements SessionRegistry lets in only sessions of the current password, and a
\* session that was ended or left out is never let in again (tokenVersion in users.service.ts).
THEOREM RegistryPromises == SessionsComeAndEnd => []ValidAreCurrent /\ [][EndedStayEnded]_Reg!regVars
<1>1. Reg!RegistryInit => ValidAreCurrent
  BY DEF Reg!RegistryInit, Reg!Entry, ValidAreCurrent, IssuedNames
<1>2. ValidAreCurrent /\ [Reg!RegistryNext]_Reg!regVars => ValidAreCurrent' /\ [EndedStayEnded]_Reg!regVars
  BY RegistryKeeps
<1> QED BY <1>1, <1>2, PTL DEF SessionsComeAndEnd, Reg!Registry

\* The same of the accounts of the panel: a password change, a reset, a reuse end sessions for good.
THEOREM EndedForGood == Spec => [][EndedStayEnded]_Reg!regVars
BY SessionsImplement, RegistryPromises, PTL
=============================================================================

------------------------------ MODULE Accounts ------------------------------
(***************************************************************************)
(* Sign-in and sessions of one account, and one invite: the handlers of    *)
(* auth.service.ts with the statements of users.service.ts and             *)
(* invites.service.ts they await, jwt.strategy.ts in front of them, and    *)
(* the keys they keep in Redis.                                            *)
(*                                                                         *)
(* A handler reads the users row once, awaits bcrypt, Redis or another     *)
(* statement, and goes on with the row it read.  One step is one awaited   *)
(* statement.  A request is handled once, so it also names the session it  *)
(* issues (its jti) and the password it sets.                              *)
(***************************************************************************)
EXTENDS Naturals, FiniteSets

CONSTANTS
  Requests,      \* requests that concern the account or the invite
  First,         \* names the session and the password of the initial state
  Kinds,         \* which handlers the requests of this instance call
  Emails,        \* addresses people register with
  AnyEmail,      \* an invite that is bound to no address
  MaxFailures,   \* MAX_FAILED_ATTEMPTS
  Env            \* what faults may do in this instance

SettingsKinds == {"onboard", "change", "enable", "disable", "logout"}
AllKinds == SettingsKinds \cup {"login", "sso", "refresh", "register"}

EnvEvents ==
  {"redis_error",    \* a Redis command is answered with an error
   "redis_resend",   \* ioredis sends a command again whose reply was lost with the connection
   "request_dies",   \* the panel dies, or a statement of the database throws
   "api_token"}      \* the user has a personal token, which passes the guard as a session does

ASSUME FirstAssumption == First \notin Requests
ASSUME AnyEmailAssumption == AnyEmail \notin Emails
ASSUME MaxFailuresAssumption == MaxFailures \in Nat /\ MaxFailures > 1
ASSUME KindsAssumption == Kinds \subseteq AllKinds
ASSUME EnvAssumption == Env \subseteq EnvEvents

VARIABLES
  user,      \* the users row
  sessions,  \* the token pairs issued so far
  marks,     \* auth:refresh:jti:<jti> keys
  dead,      \* sessions whose refresh token is past its exp
  lockout,   \* auth:lockout:count:<email> and auth:lockout:until:<email>
  req,       \* the requests
  invite,    \* the invites row
  accounts,  \* users rows created by register
  reused     \* history: sessions whose reuse was punished

redisVars  == <<marks, lockout>>
inviteVars == <<invite, accounts>>
vars == <<user, sessions, dead, req, reused, redisVars, inviteVars>>

-----------------------------------------------------------------------------
Tokens == Requests \cup {First}

\* totpSecret is a flag: on or NULL.
User == [tv : Nat, pw : Tokens, totp : BOOLEAN, onboarded : BOOLEAN]

\* What a token pair says (jti, tv), and its history: the session it was refreshed from
\* (itself after a sign-in) and whether Redis recorded that redemption, the line of its
\* ancestors, and the password and second factor of the row its chain began with.
Session == [jti : Tokens, tv : Nat, from : Tokens, marked : BOOLEAN, line : SUBSET Tokens,
            pw : Tokens, totp : BOOLEAN]

SignedIn(q, tv, row) ==
  [jti |-> q, tv |-> tv, from |-> q, marked |-> FALSE, line |-> {}, pw |-> row.pw, totp |-> row.totp]

Pcs == {"idle", "over",
        "asked", "allowed", "failed", "window", "trip", "reset", "verified",  \* login
        "presented", "matched", "punish",                                     \* refresh
        "guarded", "write", "bump",                                           \* the settings
        "registering", "free", "mismatch", "consumed",                        \* register
        "issue"}

\* row: the users row the handler read; pw, totp: the input; from: the session presented.
Request == [kind : AllKinds \cup {"none"}, pc : Pcs, row : User, pw : Tokens, totp : {"none", "good", "bad"},
            from : Tokens, marked : BOOLEAN, email : Emails \cup {AnyEmail}]

TypeOK ==
  /\ user \in User
  /\ sessions \subseteq Session
  /\ marks \subseteq Tokens /\ dead \subseteq Tokens /\ reused \subseteq Tokens
  /\ lockout \in [count : Nat, timed : BOOLEAN, locked : BOOLEAN]
  /\ req \in [Requests -> Request]
  /\ invite \in [used : BOOLEAN, valid : BOOLEAN, exists : BOOLEAN, email : Emails \cup {AnyEmail}]
  /\ accounts \subseteq [by : Requests, email : Emails \cup {AnyEmail}]

NoRow == [tv |-> 0, pw |-> First, totp |-> FALSE, onboarded |-> FALSE]

\* A request that has not started, or is over.
NoLocals(pc) == [kind |-> "none", pc |-> pc, row |-> NoRow, pw |-> First, totp |-> "none",
                 from |-> First, marked |-> FALSE, email |-> AnyEmail]

NoFailures == [count |-> 0, timed |-> FALSE, locked |-> FALSE]

Init ==
  /\ user \in [tv : {0}, pw : {First}, totp : BOOLEAN, onboarded : BOOLEAN]
  /\ user.totp => user.onboarded
  /\ sessions = {SignedIn(First, 0, user)}
  /\ marks = {} /\ dead = {} /\ reused = {}
  /\ lockout = NoFailures
  /\ req = [q \in Requests |-> NoLocals("idle")]
  /\ invite \in [used : {FALSE}, valid : {TRUE}, exists : {TRUE}, email : Emails \cup {AnyEmail}]
  /\ accounts = {}

At(r, pc) == IF pc = "over" THEN NoLocals("over") ELSE [r EXCEPT !.pc = pc]

Goto(q, pc) == req' = [req EXCEPT ![q] = At(@, pc)]

\* The handler reads the users row and decides by it.
Read(q, pc) == req' = [req EXCEPT ![q] = At([@ EXCEPT !.row = user], pc)]

\* What is typed for a password is the one of that moment, or one nobody has set.
Wrong(q) == q

\* A Redis command fails, its exception is caught and logged, and the handler goes on.
RedisFails == "redis_error" \in Env /\ UNCHANGED redisVars

-----------------------------------------------------------------------------
(* login, and sessions for users an identity provider vouches for.         *)

AskLogin(q) ==
  /\ req[q].pc = "idle" /\ "login" \in Kinds
  /\ \E pw \in {user.pw, Wrong(q)}, totp \in {"none", "good", "bad"} :
       req' = [req EXCEPT ![q] = [@ EXCEPT !.kind = "login", !.pc = "asked", !.pw = pw, !.totp = totp]]
  /\ UNCHANGED <<user, sessions, dead, reused, redisVars, inviteVars>>

\* assertNotLocked: an error lets the attempt pass.
AssertNotLocked(q) ==
  /\ req[q].pc = "asked"
  /\ \/ Goto(q, IF lockout.locked THEN "over" ELSE "allowed") /\ UNCHANGED redisVars
     \/ Goto(q, "allowed") /\ RedisFails
  /\ UNCHANGED <<user, sessions, dead, reused, inviteVars>>

PasswordMatches(q, row) == req[q].pw = row.pw

\* The outcome of the password and of the TOTP code, by the row that was read.  A missing
\* code is refused without being counted.
LoginOutcome(q, row) ==
  CASE ~PasswordMatches(q, row)                -> "failed"
    [] row.totp /\ req[q].totp = "none"        -> "over"
    [] row.totp /\ req[q].totp = "bad"         -> "failed"
    [] OTHER                                   -> "verified"

\* findByEmail, then bcrypt and otplib on what it returned.
ReadForLogin(q) ==
  /\ req[q].pc = "allowed"
  /\ Read(q, LoginOutcome(q, user))
  /\ UNCHANGED <<user, sessions, dead, reused, redisVars, inviteVars>>

\* Mutant: the lock trips one failure late.
AfterCountTripsLate(count) == CASE count = 1 -> "window" [] count > MaxFailures -> "trip" [] OTHER -> "over"

\* recordFailure: INCR, then PEXPIRE for the first failure, SET and DEL for the last.
AfterCount(count) == CASE count = 1 -> "window" [] count >= MaxFailures -> "trip" [] OTHER -> "over"

CountFailure(q) ==
  /\ req[q].pc = "failed"
  /\ \/ /\ lockout' = [lockout EXCEPT !.count = @ + 1]
        /\ Goto(q, AfterCount(lockout.count + 1))
        /\ UNCHANGED marks
     \/ Goto(q, "over") /\ RedisFails
  /\ UNCHANGED <<user, sessions, dead, reused, inviteVars>>

StartWindow(q) ==
  /\ req[q].pc = "window"
  /\ Goto(q, "over")
  /\ \/ lockout' = [lockout EXCEPT !.timed = lockout.count > 0] /\ UNCHANGED marks
     \/ RedisFails
  /\ UNCHANGED <<user, sessions, dead, reused, inviteVars>>

TripLock(q) ==
  /\ req[q].pc = "trip"
  /\ \/ lockout' = [lockout EXCEPT !.locked = TRUE] /\ Goto(q, "reset") /\ UNCHANGED marks
     \/ Goto(q, "over") /\ RedisFails
  /\ UNCHANGED <<user, sessions, dead, reused, inviteVars>>

ResetCount(q) ==
  /\ req[q].pc = "reset"
  /\ Goto(q, "over")
  /\ \/ lockout' = [lockout EXCEPT !.count = 0, !.timed = FALSE] /\ UNCHANGED marks
     \/ RedisFails
  /\ UNCHANGED <<user, sessions, dead, reused, inviteVars>>

ClearFailures(q) ==
  /\ req[q].pc = "verified"
  /\ Goto(q, "issue")
  /\ \/ lockout' = NoFailures /\ UNCHANGED marks
     \/ RedisFails
  /\ UNCHANGED <<user, sessions, dead, reused, inviteVars>>

\* The TTL of the counter, or of the lock, runs out.
FailuresExpire ==
  /\ \/ lockout.timed /\ lockout' = [lockout EXCEPT !.count = 0, !.timed = FALSE]
     \/ lockout.locked /\ lockout' = [lockout EXCEPT !.locked = FALSE]
  /\ UNCHANGED <<user, sessions, dead, req, reused, marks, inviteVars>>

\* handleCallback of the SSO service: findByEmail, then issueSessionFor.
ReadForSso(q) ==
  /\ req[q].pc = "idle" /\ "sso" \in Kinds
  /\ req' = [req EXCEPT ![q] = [@ EXCEPT !.kind = "sso", !.row = user, !.pc = "issue"]]
  /\ UNCHANGED <<user, sessions, dead, reused, redisVars, inviteVars>>

\* Mutant: the row is read again, and the session is valid whatever happened meanwhile.
IssuedEpochNow(q) == user.tv

\* The token version of the row the handler read.
IssuedEpoch(q) == req[q].row.tv

\* The session a refresh presented.
Parent(q) == CHOOSE s \in sessions : s.jti = req[q].from

IssueTokens(q) ==
  /\ req[q].pc = "issue"
  /\ sessions' = sessions \cup
       {IF req[q].kind = "refresh"
        THEN [Parent(q) EXCEPT !.jti = q, !.tv = IssuedEpoch(q), !.from = req[q].from,
                               !.marked = req[q].marked, !.line = @ \cup {req[q].from}]
        ELSE SignedIn(q, IssuedEpoch(q), req[q].row)}
  /\ Goto(q, "over")
  /\ UNCHANGED <<user, dead, reused, redisVars, inviteVars>>

-----------------------------------------------------------------------------
(* refresh.                                                                *)

\* verifyAsync: a signed refresh token that is not past its exp.
PresentRefresh(q) ==
  /\ req[q].pc = "idle" /\ "refresh" \in Kinds
  /\ \E s \in sessions :
       /\ s.jti \notin dead
       /\ req' = [req EXCEPT ![q] = [@ EXCEPT !.kind = "refresh", !.pc = "presented", !.from = s.jti]]
  /\ UNCHANGED <<user, sessions, dead, reused, redisVars, inviteVars>>

\* Mutant: the epoch of the token is not compared.
SameEpochAlways(s, row) == TRUE

SameEpoch(s, row) == s.tv = row.tv

\* findById: a token of an earlier epoch is refused.
ReadForRefresh(q) ==
  /\ req[q].pc = "presented"
  /\ Read(q, IF SameEpoch(Parent(q), user) THEN "matched" ELSE "over")
  /\ UNCHANGED <<user, sessions, dead, reused, redisVars, inviteVars>>

\* Mutant: SET without NX.
FirstUseAlways(jti) == TRUE

\* What SET ... NX reports.
FirstUse(jti) == jti \notin marks

\* consumeRefreshJti: 'ok', 'reuse', or 'skip' when Redis cannot be asked.
RedeemJti(q) ==
  LET jti == req[q].from IN
  /\ req[q].pc = "matched"
  /\ \/ /\ marks' = marks \cup {jti}
        /\ \/ FirstUse(jti) /\ req' = [req EXCEPT ![q] = [@ EXCEPT !.pc = "issue", !.marked = TRUE]]
           \/ ~FirstUse(jti) /\ Goto(q, "punish")
           \/ "redis_resend" \in Env /\ Goto(q, "punish")
        /\ UNCHANGED lockout
     \/ Goto(q, "issue") /\ RedisFails
  /\ UNCHANGED <<user, sessions, dead, reused, inviteVars>>

PunishReuse(q) ==
  /\ req[q].pc = "punish"
  /\ user' = [user EXCEPT !.tv = @ + 1]
  /\ reused' = reused \cup {req[q].from}
  /\ Goto(q, "over")
  /\ UNCHANGED <<sessions, dead, redisVars, inviteVars>>

RefreshTokenExpires ==
  /\ \E s \in sessions : s.jti \notin dead /\ dead' = dead \cup {s.jti}
  /\ UNCHANGED <<user, sessions, req, reused, redisVars, inviteVars>>

\* The TTL of a mark is the rest of its token's life; no request takes longer than
\* that to reach its SET once it has verified the token.
MarkExpires ==
  /\ \E t \in marks \cap dead :
       /\ \A q \in Requests : req[q].from = t => req[q].pc \notin {"presented", "matched"}
       /\ marks' = marks \ {t}
  /\ UNCHANGED <<user, sessions, dead, req, reused, lockout, inviteVars>>

-----------------------------------------------------------------------------
(* The settings of a signed-in user.                                       *)

\* JwtStrategy.validate, on a row of its own.
PassGuard(q) ==
  /\ req[q].pc = "idle"
  /\ "api_token" \in Env \/ \E s \in sessions : SameEpoch(s, user)
  /\ \E kind \in SettingsKinds \cap Kinds, pw \in {user.pw, Wrong(q)} :
       req' = [req EXCEPT ![q] = [@ EXCEPT !.kind = kind, !.pw = pw,
                                           !.pc = IF kind = "logout" THEN "bump" ELSE "guarded"]]
  /\ UNCHANGED <<user, sessions, dead, reused, redisVars, inviteVars>>

MayWrite(q, row) ==
  \/ req[q].kind = "onboard" /\ ~row.onboarded
  \/ req[q].kind = "change" /\ PasswordMatches(q, row)
  \/ req[q].kind = "enable" /\ ~row.totp
  \/ req[q].kind = "disable" /\ row.totp /\ PasswordMatches(q, row)

ReadForSettings(q) ==
  /\ req[q].pc = "guarded"
  /\ Read(q, IF MayWrite(q, user) THEN "write" ELSE "over")
  /\ UNCHANGED <<user, sessions, dead, reused, redisVars, inviteVars>>

\* Mutant: the epoch is overwritten.
PasswordWrittenAsText(q) == [user EXCEPT !.pw = q, !.tv = q]

\* updatePassword: one UPDATE of both columns.
PasswordWritten(q) == [user EXCEPT !.pw = q, !.tv = @ + 1]

\* Mutant: sessions survive the end of two-factor sign-in.
AfterTotpOffOver == "over"

\* disable2fa goes on to bumpTokenVersion.
AfterTotpOff == "bump"

WriteSettings(q) ==
  /\ req[q].pc = "write"
  /\ \/ req[q].kind = "onboard" /\ user' = [user EXCEPT !.totp = TRUE, !.onboarded = TRUE]
     \/ req[q].kind = "change" /\ user' = PasswordWritten(q)
     \/ req[q].kind = "enable" /\ user' = [user EXCEPT !.totp = TRUE]
     \/ req[q].kind = "disable" /\ user' = [user EXCEPT !.totp = FALSE]
  /\ Goto(q, IF req[q].kind = "disable" THEN AfterTotpOff ELSE "over")
  /\ UNCHANGED <<sessions, dead, reused, redisVars, inviteVars>>

\* logout, and the second statement of disable2fa.
BumpTokenVersion(q) ==
  /\ req[q].pc = "bump"
  /\ user' = [user EXCEPT !.tv = @ + 1]
  /\ Goto(q, "over")
  /\ UNCHANGED <<sessions, dead, reused, redisVars, inviteVars>>

-----------------------------------------------------------------------------
(* register, with an invite.                                               *)

AskRegister(q) ==
  /\ req[q].pc = "idle" /\ "register" \in Kinds
  /\ \E email \in Emails :
       req' = [req EXCEPT ![q] = [@ EXCEPT !.kind = "register", !.pc = "registering", !.email = email]]
  /\ UNCHANGED <<user, sessions, dead, reused, redisVars, inviteVars>>

Taken(email) == \E a \in accounts : a.email = email

FindByEmail(q) ==
  /\ req[q].pc = "registering"
  /\ Goto(q, IF Taken(req[q].email) THEN "over" ELSE "free")
  /\ UNCHANGED <<user, sessions, dead, reused, redisVars, inviteVars>>

\* Mutant: the row is updated whether or not it was used.
ConsumableAgain == invite.exists /\ invite.valid

\* The WHERE of the UPDATE.
Consumable == invite.exists /\ invite.valid /\ ~invite.used

ConsumeInvite(q) ==
  /\ req[q].pc = "free"
  /\ IF Consumable
     THEN /\ invite' = [invite EXCEPT !.used = TRUE]
          /\ Goto(q, IF invite.email \in {AnyEmail, req[q].email} THEN "consumed" ELSE "mismatch")
     ELSE Goto(q, "over") /\ UNCHANGED invite
  /\ UNCHANGED <<user, sessions, dead, reused, redisVars, accounts>>

RestoreInvite(q) ==
  /\ req[q].pc = "mismatch"
  /\ invite' = IF invite.exists THEN [invite EXCEPT !.used = FALSE] ELSE invite
  /\ Goto(q, "over")
  /\ UNCHANGED <<user, sessions, dead, reused, redisVars, accounts>>

\* The INSERT; emails are unique.
CreateUser(q) ==
  /\ req[q].pc = "consumed"
  /\ accounts' = IF Taken(req[q].email) THEN accounts
                 ELSE accounts \cup {[by |-> q, email |-> req[q].email]}
  /\ Goto(q, "over")
  /\ UNCHANGED <<user, sessions, dead, reused, redisVars, invite>>

\* An administrator deletes the invite, or its time is up.
InviteEnds ==
  /\ \/ invite.exists /\ invite' = [invite EXCEPT !.exists = FALSE]
     \/ invite.valid /\ invite' = [invite EXCEPT !.valid = FALSE]
  /\ UNCHANGED <<user, sessions, dead, req, reused, redisVars, accounts>>

-----------------------------------------------------------------------------
RequestDies(q) ==
  /\ "request_dies" \in Env
  /\ req[q].pc \notin {"idle", "over"}
  /\ Goto(q, "over")
  /\ UNCHANGED <<user, sessions, dead, reused, redisVars, inviteVars>>

SignInStep(q) ==
  \/ AskLogin(q) \/ AssertNotLocked(q) \/ ReadForLogin(q) \/ CountFailure(q) \/ StartWindow(q)
  \/ TripLock(q) \/ ResetCount(q) \/ ClearFailures(q) \/ ReadForSso(q) \/ IssueTokens(q)

RefreshStep(q) == PresentRefresh(q) \/ ReadForRefresh(q) \/ RedeemJti(q) \/ PunishReuse(q)

SettingsStep(q) ==
  PassGuard(q) \/ ReadForSettings(q) \/ WriteSettings(q) \/ BumpTokenVersion(q)

RegisterStep(q) ==
  AskRegister(q) \/ FindByEmail(q) \/ ConsumeInvite(q) \/ RestoreInvite(q) \/ CreateUser(q)

TimePasses == FailuresExpire \/ RefreshTokenExpires \/ MarkExpires \/ InviteEnds

Next ==
  \/ \E q \in Requests : SignInStep(q) \/ RefreshStep(q) \/ SettingsStep(q) \/ RegisterStep(q)
                         \/ RequestDies(q)
  \/ TimePasses

Spec == Init /\ [][Next]_vars

-----------------------------------------------------------------------------
(* Properties.                                                             *)

Accepted(s) == s.tv = user.tv

\* A password change ends the sessions of every earlier password, the ones that are being
\* issued or refreshed at that moment included (users.service.ts:101-104).
SessionsFollowPassword == \A s \in sessions : Accepted(s) => s.pw = user.pw

\* Once a refresh token was presented twice, no session of its chain is accepted any
\* more: reuse "kills every session for the account" (auth.service.ts:343-345).
ReuseEndsChain == \A s \in sessions : Accepted(s) => ({s.jti} \cup s.line) \cap reused = {}

\* A refresh token yields one session, however many requests redeem it at once, unless
\* Redis could not be asked (auth.service.ts:369-374).
RedeemedOnce ==
  \A s, t \in sessions : s.marked /\ t.marked /\ s.from = t.from => s = t

\* The sessions the guard lets in, by what SessionRegistry tells of one.
ValidSessions == {[jti |-> s.jti, pw |-> s.pw, line |-> s.line] : s \in {t \in sessions : Accepted(t)}}

Reg == INSTANCE SessionRegistry WITH
         Names <- Tokens, password <- user.pw,
         issued <- {s.jti : s \in sessions}, valid <- ValidSessions

\* The handlers implement SessionRegistry: a session is accepted because of the current
\* password or of a session that still is, and sessions only end all together.  A
\* token "minted before the account's session epoch was bumped" (auth.service.ts:340-341)
\* lets nobody in again, however long a handler held the row it read.
SessionsComeAndEnd == Reg!Registry

\* Two-factor sign-in that was switched off leaves no session behind that began with it
\* (auth.service.ts:299-300), once the handler is done.
DisableEndsSessions ==
  (\E s \in sessions : Accepted(s) /\ s.totp) =>
    user.totp \/ \E q \in Requests : req[q].kind = "disable" /\ req[q].pc = "bump"

\* A counter of failed attempts ends with its window, or as soon as the request that
\* began it is done (auth.service.ts:104-107); a full one trips the lock.
FailuresAreTimed ==
  lockout.count > 0 =>
    \/ lockout.timed /\ lockout.count < MaxFailures
    \/ \E q \in Requests : req[q].pc \in {"window", "trip", "reset"}

\* An invite is used up by exactly one account or is in the hands of one request: it is
\* never spent twice, nor lost to somebody it was not meant for (invites.service.ts:76-82).
InviteAccounted ==
  invite.exists =>
    Cardinality({q \in Requests : req[q].pc \in {"mismatch", "consumed"}}) + Cardinality(accounts)
      = (IF invite.used THEN 1 ELSE 0)
=============================================================================

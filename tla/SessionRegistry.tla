-------------------------- MODULE SessionRegistry --------------------------
(***************************************************************************)
(* What an account promises about its sessions, without requests, epochs   *)
(* or Redis: a session comes in with the password of that moment or from a *)
(* session that is still valid, a session that was left out never comes    *)
(* back, and sessions end all together.                                    *)
(***************************************************************************)
CONSTANT Names

VARIABLES
  password,
  issued,   \* names of the sessions ever handed out
  valid     \* the sessions whose holder is let in

regVars == <<password, issued, valid>>

Entry(n, pw, line) == [jti |-> n, pw |-> pw, line |-> line]

RegistryInit ==
  /\ password \in Names
  /\ \E n \in Names : issued = {n} /\ valid = {Entry(n, password, {})}

Issue(n) == n \in Names \ issued /\ issued' = issued \cup {n} /\ UNCHANGED password

SignIn(n) == Issue(n) /\ valid' = valid \cup {Entry(n, password, {})}

Refresh(n) ==
  /\ Issue(n)
  /\ \E s \in valid : valid' = valid \cup {Entry(n, s.pw, s.line \cup {s.jti})}

\* The session was overtaken by the end of all sessions before it was handed out.
StillBorn(n) == Issue(n) /\ UNCHANGED valid

EndAll == valid' = {} /\ UNCHANGED <<password, issued>>

ChangePassword == password' \in Names /\ valid' = {} /\ UNCHANGED issued

RegistryNext ==
  \/ \E n \in Names : SignIn(n) \/ Refresh(n) \/ StillBorn(n)
  \/ EndAll \/ ChangePassword

Registry == RegistryInit /\ [][RegistryNext]_regVars
=============================================================================

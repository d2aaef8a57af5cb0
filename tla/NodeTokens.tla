----------------------------- MODULE NodeTokens -----------------------------
(***************************************************************************)
(* The shared secret of the panel and the agent of one remote node: its    *)
(* provisioning by a one-time join token, its rotation by an operator or   *)
(* by the scheduler, and the heartbeats that retire the previous secret    *)
(* (nodes.service.ts, daemon-token-rotation.scheduler.ts on the panel;     *)
(* tokenState of api/server.go, enroll.go and main.go on the agent).       *)
(*                                                                         *)
(* The panel's handlers read the nodes row, await the agent or nothing,    *)
(* and then write columns of the row: read and write are separate steps.   *)
(* The agent's state changes under one mutex, so a request is one step     *)
(* there, but for the rewriting of state.json.                             *)
(***************************************************************************)
EXTENDS Naturals

CONSTANTS
  Rotations,     \* calls of rotateDaemonToken
  Enrollments,   \* enroll requests
  JoinTokens,    \* join tokens issued for the node
  NoRequest,     \* no enroll request
  MaxSecret,     \* bound: secrets 1 .. MaxSecret are generated
  MaxTime,       \* bound of the clock, in days
  Interval,      \* DAEMON_TOKEN_ROTATION_DAYS
  MaxRestarts,   \* bound: restarts of the agent
  InitialAgents, \* whether the agent is enrolled at the start
  Env            \* what faults may do in this instance

EnvEvents ==
  {"lost",        \* a message between panel and agent is lost
   "late_push",   \* a push the panel gave up on still reaches the agent
   "disk_error",  \* state.json cannot be written
   "torn_write"}  \* the agent dies while it rewrites state.json

ASSUME NoRequestAssumption == NoRequest \notin Enrollments
ASSUME NumbersAssumption ==
  MaxSecret \in Nat \ {0} /\ MaxTime \in Nat /\ Interval \in Nat \ {0} /\ MaxRestarts \in Nat
ASSUME EnvAssumption == Env \subseteq EnvEvents
ASSUME InitialAssumption == InitialAgents \subseteq {"new", "up"}

VARIABLES
  row,         \* columns of the nodes row
  agent,       \* tokenState of the agent process, and whether it is enrolled
  disk,        \* state.json of the agent
  rot,         \* the rotations in progress
  stray,       \* pushes the panel gave up on that may still arrive
  beat,        \* the heartbeat in progress
  enr,         \* the enroll requests
  used,        \* join tokens with usedAt set
  expired,     \* join tokens past expiresAt
  issued,      \* how many secrets were generated
  clock,       \* days since createdAt
  restarts     \* restarts of the agent so far

agentVars  == <<agent, disk, restarts>>
rotVars    == <<rot, stray>>
enrollVars == <<enr, used, expired>>
timeVars   == <<clock>>
panelVars  == <<row, beat, issued, rotVars, enrollVars, timeVars>>
vars       == <<panelVars, agentVars>>

-----------------------------------------------------------------------------
NoSecret == 0                      \* NULL, or the empty string of the agent
Secrets  == 1..MaxSecret
Maybe    == Secrets \cup {NoSecret}

\* rotatedAt 0 is NULL: the baseline rotatedAt ?? createdAt is then createdAt, day 0.
Row      == [cur : Secrets, prev : Maybe, rotatedAt : 0..MaxTime,
             status : {"ONLINE", "OFFLINE"}, pinned : BOOLEAN]
Agent    == [pc : {"new", "enrolling", "up"}, cur : Maybe, next : Maybe,
             waits : Enrollments \cup {NoRequest}, saving : BOOLEAN]
File     == [cur : Maybe, next : Maybe]     \* cur 0: absent or unreadable
NoFile   == [cur |-> NoSecret, next |-> NoSecret]
Rotation == [pc : {"idle", "due"}, old : {NoSecret}, new : {NoSecret}]
            \cup [pc : {"sent", "acked"}, old : Secrets, new : Secrets]
NoRotation == [pc |-> "idle", old |-> NoSecret, new |-> NoSecret]
Push     == [old : Secrets, new : Secrets]
Beat     == [pc : {"idle", "sent", "read"}, tok : Maybe, retire : BOOLEAN]
Enroll   == [pc : {"idle", "sent", "read", "provisioned", "marked", "over"},
             join : JoinTokens, tok : Maybe]

TypeOK ==
  /\ row \in Row
  /\ agent \in Agent
  /\ disk \in File
  /\ rot \in [Rotations -> Rotation]
  /\ stray \subseteq Push
  /\ beat \in Beat
  /\ enr \in [Enrollments -> Enroll]
  /\ used \subseteq JoinTokens /\ expired \subseteq JoinTokens
  /\ issued \in Secrets
  /\ clock \in 0..MaxTime
  /\ restarts \in 0..MaxRestarts

\* createRemote stored a placeholder secret; an enrolled agent holds the one in the row.
Init ==
  /\ issued = 1
  /\ \E pc \in InitialAgents :
       LET known == IF pc = "up" THEN 1 ELSE NoSecret IN
       /\ agent = [pc |-> pc, cur |-> known, next |-> NoSecret, waits |-> NoRequest, saving |-> FALSE]
       /\ disk = [cur |-> known, next |-> NoSecret]
       /\ row = [cur |-> 1, prev |-> NoSecret, rotatedAt |-> 0,
                 status |-> IF pc = "up" THEN "ONLINE" ELSE "OFFLINE", pinned |-> pc = "up"]
  /\ rot = [r \in Rotations |-> NoRotation]
  /\ stray = {}
  /\ beat = [pc |-> "idle", tok |-> NoSecret, retire |-> FALSE]
  /\ enr \in [Enrollments -> {[pc |-> "idle", join |-> j, tok |-> NoSecret] : j \in JoinTokens}]
  /\ used = {} /\ expired = {}
  /\ clock = 0 /\ restarts = 0

-----------------------------------------------------------------------------
(* The agent: authentication, staging, promotion, persistence.             *)

\* The agent serves requests: it is enrolled and nobody holds its mutex.
Serving == agent.pc = "up" /\ ~agent.saving

\* authenticate: the current secret, and the staged one during a rotation.
Authenticates(t) == t # NoSecret /\ t \in {agent.cur, agent.next}

\* observe: a request authenticated by the staged secret promotes it.
Observed(t) == IF t = agent.next THEN [agent EXCEPT !.cur = t, !.next = NoSecret] ELSE agent

\* Mutant: the new secret replaces the current one at once.
StagedAtOnce(a, t) == [a EXCEPT !.cur = t, !.next = NoSecret]

\* setNext: the staged secret is replaced, the current one is kept.
Staged(a, t) == IF t = a.cur THEN a ELSE [a EXCEPT !.next = t]

\* Mutant: the two secrets are saved in the wrong fields.
StateFileSwapped(a) == [cur |-> a.next, next |-> a.cur]

\* SaveState: what main.go's persist callback writes to state.json.
StateFile(a) == [cur |-> a.cur, next |-> a.next]

\* persist, under the mutex.  An error is ignored; a torn write is a file that is
\* truncated first and filled later.
Persist(a) ==
  IF a = agent THEN UNCHANGED <<agent, disk>>
  ELSE \/ agent' = a /\ disk' = StateFile(a)
       \/ "disk_error" \in Env /\ agent' = a /\ UNCHANGED disk
       \/ "torn_write" \in Env /\ agent' = [a EXCEPT !.saving = TRUE] /\ disk' = NoFile

SaveCompletes ==
  /\ agent.saving
  /\ disk' = StateFile(agent)
  /\ agent' = [agent EXCEPT !.saving = FALSE]
  /\ UNCHANGED <<panelVars, restarts>>

\* Any request of the panel (metrics, deploys, the UI): it presents the secret of
\* the row, and the agent learns from it that the panel switched over.
PanelRequest ==
  /\ Serving
  /\ Authenticates(row.cur)
  /\ Persist(Observed(row.cur))
  /\ UNCHANGED <<panelVars, restarts>>

\* Mutant: the staged secret is not loaded again.
LoadedWithoutNext(f) == [cur |-> f.cur, next |-> NoSecret]

\* LoadState and Configure: both secrets of state.json.
Loaded(f) == f

\* systemd starts the agent again; without a readable state.json it must enroll.
AgentRestarts ==
  /\ restarts < MaxRestarts
  /\ restarts' = restarts + 1
  /\ agent' = [pc     |-> IF disk.cur = NoSecret THEN "new" ELSE "up",
               cur    |-> Loaded(disk).cur, next |-> Loaded(disk).next,
               waits  |-> NoRequest, saving |-> FALSE]
  /\ UNCHANGED <<panelVars, disk>>

-----------------------------------------------------------------------------
(* rotateDaemonToken: read the row, push, persist the switch.              *)

\* isDueForDaemonTokenRotation, on the rows the scheduler listed.
Due ==
  /\ row.status = "ONLINE"
  /\ row.prev = NoSecret
  /\ clock - row.rotatedAt >= Interval

SchedulerPicks(r) ==
  /\ rot[r].pc = "idle"
  /\ Due
  /\ rot' = [rot EXCEPT ![r].pc = "due"]
  /\ UNCHANGED <<row, stray, beat, issued, agentVars, enrollVars, timeVars>>

\* An operator's POST, or the scheduler's call: read the row, generate, send.
StartRotation(r) ==
  /\ rot[r].pc \in {"idle", "due"}
  /\ issued < MaxSecret
  /\ issued' = issued + 1
  /\ rot' = [rot EXCEPT ![r] = [pc |-> "sent", old |-> row.cur, new |-> issued + 1]]
  /\ UNCHANGED <<row, stray, beat, agentVars, enrollVars, timeVars>>

\* The middleware authenticates and observes, then handleRotate stages.
Receive(old, new) ==
  /\ Serving
  /\ Authenticates(old)
  /\ Persist(Staged(Observed(old), new))

\* The agent stages the secret, and its answer arrives or is lost.
PushArrives(r) ==
  /\ rot[r].pc = "sent"
  /\ Receive(rot[r].old, rot[r].new)
  /\ \/ rot' = [rot EXCEPT ![r].pc = "acked"]
     \/ "lost" \in Env /\ rot' = [rot EXCEPT ![r] = NoRotation]
  /\ UNCHANGED <<row, stray, beat, issued, restarts, enrollVars, timeVars>>

\* The agent answers 401, is unreachable, or the panel stops waiting.
PushFails(r) ==
  /\ rot[r].pc = "sent"
  /\ ~Serving \/ ~Authenticates(rot[r].old) \/ Env \cap {"lost", "late_push"} # {}
  /\ rot' = [rot EXCEPT ![r] = NoRotation]
  /\ \/ UNCHANGED stray
     \/ "late_push" \in Env /\ stray' = stray \cup {[old |-> rot[r].old, new |-> rot[r].new]}
  /\ UNCHANGED <<row, beat, issued, agentVars, enrollVars, timeVars>>

StrayArrives(m) ==
  /\ Receive(m.old, m.new)
  /\ stray' = stray \ {m}
  /\ UNCHANGED <<row, rot, beat, issued, restarts, enrollVars, timeVars>>

PersistSwitch(r) ==
  /\ rot[r].pc = "acked"
  /\ row' = [row EXCEPT !.cur = rot[r].new, !.prev = rot[r].old, !.rotatedAt = clock]
  /\ rot' = [rot EXCEPT ![r] = NoRotation]
  /\ UNCHANGED <<stray, beat, issued, clock, agentVars, enrollVars>>

\* The UPDATE throws, or the panel dies: the staged secret stays unused.
SwitchFails(r) ==
  /\ rot[r].pc = "acked"
  /\ rot' = [rot EXCEPT ![r] = NoRotation]
  /\ UNCHANGED <<row, stray, beat, issued, agentVars, enrollVars, timeVars>>

-----------------------------------------------------------------------------
(* Heartbeats.                                                             *)

SendBeat ==
  /\ Serving
  /\ beat.pc = "idle"
  /\ beat' = [pc |-> "sent", tok |-> agent.cur, retire |-> FALSE]
  /\ UNCHANGED <<row, issued, agentVars, rotVars, enrollVars, timeVars>>

\* heartbeat() reads the row and decides by it; an unknown secret is refused.
ReadBeat ==
  /\ beat.pc = "sent"
  /\ beat' = IF beat.tok \in {row.cur, row.prev}
             THEN [beat EXCEPT !.pc = "read",
                               !.retire = beat.tok = row.cur /\ row.prev # NoSecret]
             ELSE [beat EXCEPT !.pc = "idle"]
  /\ UNCHANGED <<row, issued, agentVars, rotVars, enrollVars, timeVars>>

BeatLost ==
  /\ "lost" \in Env
  /\ beat.pc = "sent"
  /\ beat' = [beat EXCEPT !.pc = "idle"]
  /\ UNCHANGED <<row, issued, agentVars, rotVars, enrollVars, timeVars>>

\* Mutants: the wrong column is cleared; the previous secret is never retired.
BeatRowClearsCurrent == IF beat.retire THEN [row EXCEPT !.cur = NoSecret] ELSE row
BeatRowKeepsPrev == [row EXCEPT !.status = "ONLINE"]

\* The columns the heartbeat writes; prev and rotatedAt only if it retires.
BeatRow == IF beat.retire
           THEN [row EXCEPT !.status = "ONLINE", !.prev = NoSecret, !.rotatedAt = 0]
           ELSE [row EXCEPT !.status = "ONLINE"]

WriteBeat ==
  /\ beat.pc = "read"
  /\ row' = BeatRow
  /\ beat' = [beat EXCEPT !.pc = "idle"]
  /\ UNCHANGED <<issued, agentVars, rotVars, enrollVars, timeVars>>

\* No heartbeat was written for HEARTBEAT_TIMEOUT_MS.
MarkStaleOffline ==
  /\ row.status = "ONLINE" /\ row.pinned
  /\ "lost" \in Env \/ agent.pc # "up"
  /\ row' = [row EXCEPT !.status = "OFFLINE"]
  /\ UNCHANGED <<beat, issued, agentVars, rotVars, enrollVars, timeVars>>

-----------------------------------------------------------------------------
(* Enrollment.                                                             *)

\* The agent posts its join token and waits up to its client's timeout.
SendEnroll(e) ==
  /\ agent.pc = "new"
  /\ enr[e].pc = "idle"
  /\ enr' = [enr EXCEPT ![e].pc = "sent"]
  /\ agent' = [agent EXCEPT !.pc = "enrolling", !.waits = e]
  /\ UNCHANGED <<row, disk, beat, used, expired, issued, restarts, rotVars, timeVars>>

\* The SELECT of an unused, unexpired join token.
ReadEnroll(e) ==
  /\ enr[e].pc = "sent"
  /\ enr' = [enr EXCEPT ![e].pc = IF enr[e].join \in used \cup expired THEN "over" ELSE "read"]
  /\ UNCHANGED <<row, beat, used, expired, issued, agentVars, rotVars, timeVars>>

\* The UPDATE of the node.  daemonTokenPrev is left as it is.
ProvisionNode(e) ==
  /\ enr[e].pc = "read"
  /\ issued < MaxSecret
  /\ issued' = issued + 1
  /\ row' = [row EXCEPT !.cur = issued + 1, !.status = "ONLINE", !.pinned = TRUE]
  /\ enr' = [enr EXCEPT ![e].pc = "provisioned", ![e].tok = issued + 1]
  /\ UNCHANGED <<beat, used, expired, agentVars, rotVars, timeVars>>

MarkUsed(e) ==
  /\ enr[e].pc = "provisioned"
  /\ used' = used \cup {enr[e].join}
  /\ enr' = [enr EXCEPT ![e].pc = "marked"]
  /\ UNCHANGED <<row, beat, expired, issued, agentVars, rotVars, timeVars>>

\* The agent stores what it got and starts to serve.
Enrolled(e) ==
  /\ enr[e].pc = "marked"
  /\ agent.waits = e
  /\ agent' = [pc |-> "up", cur |-> enr[e].tok, next |-> NoSecret, waits |-> NoRequest, saving |-> FALSE]
  /\ disk' = [cur |-> enr[e].tok, next |-> NoSecret]
  /\ enr' = [enr EXCEPT ![e].pc = "over"]
  /\ UNCHANGED <<row, beat, used, expired, issued, restarts, rotVars, timeVars>>

\* The request is refused, fails or times out, or its result cannot be saved: the process exits and starts again.
EnrollFails ==
  /\ agent.pc = "enrolling"
  /\ \/ enr[agent.waits].pc = "over"
     \/ Env \cap {"lost", "disk_error"} # {}
  /\ agent' = [agent EXCEPT !.pc = "new", !.waits = NoRequest]
  /\ UNCHANGED <<panelVars, disk, restarts>>

JoinExpires(j) ==
  /\ j \notin expired
  /\ expired' = expired \cup {j}
  /\ UNCHANGED <<row, beat, enr, used, issued, agentVars, rotVars, timeVars>>

DayPasses ==
  /\ clock < MaxTime
  /\ clock' = clock + 1
  /\ UNCHANGED <<row, beat, issued, agentVars, rotVars, enrollVars>>

-----------------------------------------------------------------------------
RotationStep(r) == PushArrives(r) \/ PushFails(r) \/ PersistSwitch(r) \/ SwitchFails(r)

EnrollStep(e) == ReadEnroll(e) \/ ProvisionNode(e) \/ MarkUsed(e) \/ Enrolled(e)

Next ==
  \/ \E r \in Rotations : SchedulerPicks(r) \/ StartRotation(r) \/ RotationStep(r)
  \/ \E e \in Enrollments : SendEnroll(e) \/ EnrollStep(e)
  \/ \E m \in stray : StrayArrives(m)
  \/ SaveCompletes \/ PanelRequest \/ AgentRestarts \/ EnrollFails
  \/ SendBeat \/ ReadBeat \/ BeatLost \/ WriteBeat \/ MarkStaleOffline
  \/ \E j \in JoinTokens : JoinExpires(j)
  \/ DayPasses

Spec == Init /\ [][Next]_vars

\* The heartbeat loop ticks, a message that is sent again and again arrives, and
\* the panel keeps talking to its nodes.  Operators and faults owe nothing.
FairSpec ==
  /\ Spec
  /\ WF_vars(SendBeat) /\ SF_vars(ReadBeat) /\ WF_vars(WriteBeat)
  /\ SF_vars(PanelRequest) /\ WF_vars(SaveCompletes)

-----------------------------------------------------------------------------
(* Properties.                                                             *)

\* Panel and agent never lose each other: whatever is lost or restarted, an
\* enrolled agent accepts the secret the panel will present, "so nothing locks
\* out" (agent.client.ts:824-828).
PanelAccepted == agent.pc = "up" => Authenticates(row.cur)

\* A restart takes the identity of an enrolled agent only in the middle of a write of
\* state.json, whatever failed before: the file is there so that it "keeps accepting both"
\* secrets (main.go:51-52).
StaysEnrolled == [][agent.pc = "up" /\ ~agent.saving => agent'.pc = "up"]_vars

\* A rotation ends: the previous secret is retired once the agent was heard.
RotationConverges == row.prev # NoSecret ~> row.prev = NoSecret

\* The rotation implements the rollover of a shared secret.
Accepted == IF agent.pc = "up" THEN {agent.cur, agent.next} \ {NoSecret} ELSE {}

Roll == INSTANCE KeyRollover WITH presented <- row.cur, accepted <- Accepted

RollsOver == Roll!Rollover
=============================================================================

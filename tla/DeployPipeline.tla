--------------------------- MODULE DeployPipeline ---------------------------
(***************************************************************************)
(* The deploy pipeline of one service: the request handlers that accept a  *)
(* deploy or a rollback (services.service.ts), the Redis lock and the      *)
(* BullMQ queue between them and the worker (deploy.worker.ts), and the    *)
(* agent handlers that own the containers and images of the service on its *)
(* node (services/agent/internal/api/server.go).                           *)
(*                                                                         *)
(* One step is one awaited call of the code: a database write, a Redis     *)
(* command or a request to the agent.  Everything else of the panel, of    *)
(* the node and of the users may happen between two of them.               *)
(***************************************************************************)
EXTENDS Naturals, FiniteSets

CONSTANTS
  Deployments,  \* ids of the deployment rows; one job each
  Refs,         \* image references a service of kind "image" may be set to
  NoDep,        \* no deployment, no image
  Kinds,        \* the values of services.deployKind the service may have
  WorkerSlots,  \* concurrency of the BullMQ worker
  MaxStalls,    \* maxStalledCount of BullMQ: redeliveries of a stalled job
  MaxRestarts,  \* bound: panel crashes in a behaviour
  Env,          \* what users and faults may do in this instance
  InitialRows   \* the settings the service may start with

EnvEvents ==
  {"agent_unreached",  \* a request does not reach the agent, or the agent refuses it
   "reply_lost",       \* the agent acted and its reply is lost
   "db_error",         \* a read or write of the database, or queue.add, throws; not twice in a job
   "lock_overrun",     \* a deploy outlives DEPLOY_LOCK_TTL_MS
   "ack_lost",         \* the panel dies, or Redis drops, around an acknowledgement or a DEL
   "power", "remove", "edit"}  \* users stop, start, delete or edit the service

Settings == [zeroDowntime : BOOLEAN, host : BOOLEAN, volumes : BOOLEAN]

ASSUME KindsAssumption == Kinds \subseteq {"git", "image", "compose"}
ASSUME NoDepAssumption == NoDep \notin Deployments \cup Refs
ASSUME BoundsAssumption == WorkerSlots \in Nat /\ MaxStalls \in Nat /\ MaxRestarts \in Nat
ASSUME EnvAssumption == Env \subseteq EnvEvents
ASSUME SettingsAssumption == InitialRows \subseteq Settings

VARIABLES
  lock,      \* deploy:lock:<service> in Redis; the value names who set it, the code stores '1'
  job,       \* per deployment: the request, the queued job and the worker's local state
  dep,       \* the deployments rows
  svc,       \* the services row, with its domain and its volumes
  inst,      \* the containers of the service on the node
  images,    \* the image tags of the service on the node
  removal,   \* progress of a DELETE of the service
  restarts   \* how often the panel crashed so far

vars == <<lock, job, dep, svc, inst, images, removal, restarts>>

-----------------------------------------------------------------------------
Colors == {"plain", "blue", "green"}        \* "plain" is activeColor null, container svc-<id>
Tags   == Deployments \cup Refs             \* the tag svc-<id>:<d> is named by its deployment
NoTag  == NoDep

RequestPcs == {"locked", "inserted"}
TryPcs     == {"loaded", "building", "built", "ran", "healthy", "promoted", "recorded"}
WorkerPcs  == TryPcs \cup {"success", "failing", "final", "returning"}
Pcs        == {"idle", "queued", "over"} \cup RequestPcs \cup WorkerPcs

Instance == [tag : Tags \cup {NoTag}, good : BOOLEAN, up : BOOLEAN, vol : BOOLEAN]
Absent   == [tag |-> NoTag, good |-> FALSE, up |-> FALSE, vol |-> FALSE]

Row == [status : {"NONE", "QUEUED", "BUILDING", "DEPLOYING", "SUCCESS", "FAILED"},
        tag    : Tags \cup {NoTag}]
NoRow == [status |-> "NONE", tag |-> NoTag]

Job == [pc : Pcs, rollback : Tags \cup {NoTag}, tag : Tags \cup {NoTag},
        color : Colors, vol : BOOLEAN, stalls : Nat]
NewJob == [pc |-> "idle", rollback |-> NoTag, tag |-> NoTag,
           color |-> "plain", vol |-> FALSE, stalls |-> 0]

Service == [present : BOOLEAN, kind : Kinds,
            status  : {"CREATED", "BUILDING", "RUNNING", "STOPPED", "ERROR"},
            color   : Colors, image : Tags \cup {NoTag}, ref : Tags \cup {NoTag},
            cfg     : Settings]

TypeOK ==
  /\ lock \in Deployments \cup {NoDep}
  /\ job \in [Deployments -> Job]
  /\ dep \in [Deployments -> Row]
  /\ svc \in Service
  /\ inst \in [Colors -> Instance]
  /\ images \subseteq Tags \cup {NoTag}
  /\ removal \in {"idle", "purged"}
  /\ restarts \in 0..MaxRestarts

Init ==
  /\ lock = NoDep
  /\ job = [d \in Deployments |-> NewJob]
  /\ dep = [d \in Deployments |-> NoRow]
  /\ \E k \in Kinds, s \in InitialRows, r \in Refs \cup {NoTag} :
       /\ k = "image" <=> r # NoTag
       /\ svc = [present |-> TRUE, kind |-> k, status |-> "CREATED", color |-> "plain",
                 image |-> NoTag, ref |-> r, cfg |-> s]
  /\ inst = [c \in Colors |-> Absent]
  /\ images = {}
  /\ removal = "idle"
  /\ restarts = 0

-----------------------------------------------------------------------------
(* Helpers of the worker and of the agent.                                 *)

\* The rows of a deleted service are gone with it: an UPDATE then matches no row.
SetDeploy(d, status, tag) ==
  dep' = IF dep[d].status = "NONE" THEN dep
         ELSE [dep EXCEPT ![d] = [status |-> status, tag |-> tag]]

SetStatus(status) == svc' = IF svc.present THEN [svc EXCEPT !.status = status] ELSE svc

Goto(d, pc) == job' = [job EXCEPT ![d].pc = pc]

\* Mutants: without the legacy default; always the same color.
OtherColorNoDefault(c) == CASE c = "blue" -> "green" [] c = "green" -> "blue" [] OTHER -> "none"
OtherColorAlwaysBlue(c) == "blue"

OtherColor(c) == IF c = "blue" THEN "green" ELSE "blue"

\* Mutant: the volumes are not looked at.
BlueGreenIgnoringVolumes == svc.cfg.zeroDowntime /\ svc.cfg.host

\* A blue-green switchover needs the flag, a domain and no persistent volume.
BlueGreen == svc.cfg.zeroDowntime /\ svc.cfg.host /\ ~svc.cfg.volumes

ImageOnNode(d) == svc.kind = "git" => job[d].tag \in images

Started(d, good) == [tag |-> job[d].tag, good |-> good, up |-> TRUE, vol |-> job[d].vol]

\* handlePromote: every container of the service but the kept one is removed.
KeepOnly(c) == [k \in Colors |-> IF k = c THEN inst[k] ELSE Absent]

\* The container that power, logs and stats act on: a running one first.
ResolveContainer(c) ==
  LET order == <<"plain", "blue", "green">>
      up    == {i \in 1..3 : inst[order[i]].up}
      any   == {i \in 1..3 : inst[order[i]].tag # NoTag}
      pick  == IF up # {} THEN up ELSE any
  IN  \E i \in pick : order[i] = c /\ \A j \in pick : i <= j

Active == {d \in Deployments : job[d].pc \in WorkerPcs}

-----------------------------------------------------------------------------
(* deploy() and rollback(): get, SET NX, INSERT, queue.add.                *)

\* Mutant: SET without NX.
LockSetRegardless == TRUE

\* acquireDeployLock: SET NX succeeds on an absent key only.
LockFree == lock = NoDep

RequestDeploy(d) ==
  /\ job[d].pc = "idle"
  /\ svc.present
  /\ LockFree
  /\ lock' = d
  /\ \E t \in {NoTag} \cup {dep[s].tag : s \in {r \in Deployments : dep[r].status = "SUCCESS"}} :
       job' = [job EXCEPT ![d] = [NewJob EXCEPT !.pc = "locked", !.rollback = t]]
  /\ UNCHANGED <<dep, svc, inst, images, removal, restarts>>

InsertDeployment(d) ==
  /\ job[d].pc = "locked"
  /\ svc.present
  /\ dep' = [dep EXCEPT ![d] = [status |-> "QUEUED", tag |-> job[d].rollback]]
  /\ Goto(d, "inserted")
  /\ UNCHANGED <<lock, svc, inst, images, removal, restarts>>

EnqueueJob(d) ==
  /\ job[d].pc = "inserted"
  /\ Goto(d, "queued")
  /\ UNCHANGED <<lock, dep, svc, inst, images, removal, restarts>>

\* The INSERT or queue.add throws: the handler deletes the lock and rethrows.
RequestFails(d) ==
  /\ \/ job[d].pc = "locked" /\ (~svc.present \/ "db_error" \in Env)
     \/ job[d].pc = "inserted" /\ "db_error" \in Env
  /\ Goto(d, "over")
  /\ \/ lock' = NoDep
     \/ "ack_lost" \in Env /\ UNCHANGED lock
  /\ UNCHANGED <<dep, svc, inst, images, removal, restarts>>

\* queue.add took effect but its reply was lost: the job is queued without its lock.
EnqueueReplyLost(d) ==
  /\ "ack_lost" \in Env
  /\ job[d].pc = "inserted"
  /\ Goto(d, "queued")
  /\ lock' = NoDep
  /\ UNCHANGED <<dep, svc, inst, images, removal, restarts>>

-----------------------------------------------------------------------------
(* process(): the reads before the try block.                              *)

\* deployGit and deployImage: the image this job runs.
ImageTag(d) ==
  CASE svc.kind = "image"                             -> svc.ref
    [] svc.kind = "git" /\ job[d].rollback # NoTag    -> job[d].rollback
    [] OTHER                                      -> d

\* zeroDowntimeDeploy takes the color that the services row does not name.
TargetColor == IF svc.kind = "git" /\ BlueGreen THEN OtherColor(svc.color) ELSE "plain"

\* A compose file brings its own volumes.
MountsVolumes == svc.kind # "compose" /\ svc.cfg.volumes

\* The worker reads the service, its domain, its environment and its volumes;
\* the color and the mounts of the whole deploy are those of this snapshot.
TakeJob(d) ==
  /\ job[d].pc = "queued"
  /\ Cardinality(Active) < WorkerSlots
  /\ svc.present
  /\ job' = [job EXCEPT ![d].pc = "loaded", ![d].tag = ImageTag(d),
                        ![d].color = TargetColor, ![d].vol = MountsVolumes]
  /\ UNCHANGED <<lock, dep, svc, inst, images, removal, restarts>>

\* A read before the try block throws (the service is gone, its node, template or
\* credential is unusable): no row is written and the lock is left to its TTL.
TakeJobThrows(d) ==
  /\ job[d].pc = "queued"
  /\ Cardinality(Active) < WorkerSlots
  /\ ~svc.present \/ "db_error" \in Env
  /\ Goto(d, "over")
  /\ UNCHANGED <<lock, dep, svc, inst, images, removal, restarts>>

-----------------------------------------------------------------------------
(* deployGit, deployImage, deployCompose, up to the running instance.      *)

\* An existing image is used: a git rollback, or an image to pull.
ReuseImage(d) ==
  /\ job[d].pc = "loaded"
  /\ svc.kind = "image" \/ (svc.kind = "git" /\ job[d].rollback # NoTag)
  /\ SetDeploy(d, "DEPLOYING", job[d].tag)
  /\ SetStatus("BUILDING")
  /\ Goto(d, "built")
  /\ UNCHANGED <<lock, inst, images, removal, restarts>>

BeginBuild(d) ==
  /\ job[d].pc = "loaded"
  /\ svc.kind = "compose" \/ (svc.kind = "git" /\ job[d].rollback = NoTag)
  /\ SetDeploy(d, "BUILDING", dep[d].tag)
  /\ SetStatus("BUILDING")
  /\ Goto(d, "building")
  /\ UNCHANGED <<lock, inst, images, removal, restarts>>

BuildSucceeds(d) ==
  /\ job[d].pc = "building" /\ svc.kind = "git"
  /\ images' = images \cup {job[d].tag}
  /\ SetDeploy(d, "DEPLOYING", job[d].tag)
  /\ Goto(d, "built")
  /\ UNCHANGED <<lock, svc, inst, removal, restarts>>

\* The clone or the build fails, times out, or the agent answers an error.  A
\* compose project may fail after some of its containers were replaced.
BuildFails(d) ==
  /\ job[d].pc = "building"
  /\ \/ UNCHANGED inst
     \/ svc.kind = "compose" /\ inst' = [inst EXCEPT !["plain"] = Started(d, FALSE)]
  /\ Goto(d, "failing")
  /\ UNCHANGED <<lock, dep, svc, images, removal, restarts>>

\* docker compose up: builds and starts the project in one agent call.
ComposeUp(d) ==
  /\ job[d].pc = "building" /\ svc.kind = "compose"
  /\ \E good \in BOOLEAN : inst' = [inst EXCEPT !["plain"] = Started(d, good)]
  /\ SetDeploy(d, "DEPLOYING", job[d].tag)
  /\ Goto(d, "promoted")
  /\ UNCHANGED <<lock, svc, images, removal, restarts>>

\* agent.run: the agent removes the container of that name and starts the new one.
RunSucceeds(d) ==
  /\ job[d].pc = "built"
  /\ ImageOnNode(d)
  /\ \E good \in BOOLEAN : inst' = [inst EXCEPT ![job[d].color] = Started(d, good)]
  /\ Goto(d, IF svc.kind = "image" THEN "promoted" ELSE "ran")
  /\ UNCHANGED <<lock, dep, svc, images, removal, restarts>>

\* docker run fails, and the old container of that name is already gone; or the
\* pull of an image fails, before anything was removed.
RunFails(d) ==
  /\ job[d].pc = "built"
  /\ \/ inst' = [inst EXCEPT ![job[d].color] = Absent]
     \/ svc.kind = "image" /\ UNCHANGED inst
  /\ Goto(d, "failing")
  /\ UNCHANGED <<lock, dep, svc, images, removal, restarts>>

\* The agent ran the container and the panel never learns of it.
RunReplyLost(d) ==
  /\ "reply_lost" \in Env
  /\ job[d].pc = "built"
  /\ ImageOnNode(d)
  /\ \E good \in BOOLEAN : inst' = [inst EXCEPT ![job[d].color] = Started(d, good)]
  /\ Goto(d, "failing")
  /\ UNCHANGED <<lock, dep, svc, images, removal, restarts>>

-----------------------------------------------------------------------------
(* Health gate, switchover and in-place cleanup.                           *)

\* An HTTP probe of a container is answered with a success code.
Healthy(c) == inst[c].good /\ inst[c].up

HealthPasses(d) ==
  /\ job[d].pc = "ran" /\ job[d].color # "plain"
  /\ Healthy(job[d].color)
  /\ Goto(d, "healthy")
  /\ UNCHANGED <<lock, dep, svc, inst, images, removal, restarts>>

\* The deadline passes; removing the new color is best-effort.
HealthTimesOut(d) ==
  /\ job[d].pc = "ran" /\ job[d].color # "plain"
  /\ \/ inst' = [inst EXCEPT ![job[d].color] = Absent]
     \/ "agent_unreached" \in Env /\ UNCHANGED inst
  /\ Goto(d, "failing")
  /\ UNCHANGED <<lock, dep, svc, images, removal, restarts>>

\* agent.promote answers: only the new color is left.
SwitchOver(d) ==
  /\ job[d].pc = "healthy"
  /\ inst' = KeepOnly(job[d].color)
  /\ Goto(d, "promoted")
  /\ UNCHANGED <<lock, dep, svc, images, removal, restarts>>

\* The agent retired the old color, and the worker sees a failed request.
SwitchOverReplyLost(d) ==
  /\ "reply_lost" \in Env
  /\ job[d].pc = "healthy"
  /\ inst' = KeepOnly(job[d].color)
  /\ Goto(d, "failing")
  /\ UNCHANGED <<lock, dep, svc, images, removal, restarts>>

\* An in-place deploy retires leftover colors; a failure of that call is swallowed.
RetireColors(d) ==
  /\ job[d].pc = "ran" /\ job[d].color = "plain"
  /\ \/ inst' = KeepOnly("plain")
     \/ "agent_unreached" \in Env /\ UNCHANGED inst
  /\ Goto(d, "promoted")
  /\ UNCHANGED <<lock, dep, svc, images, removal, restarts>>

RecordRunning(d) ==
  /\ job[d].pc = "promoted"
  /\ svc' = IF svc.present
            THEN [svc EXCEPT !.status = "RUNNING", !.color = job[d].color, !.image = job[d].tag]
            ELSE svc
  /\ Goto(d, "recorded")
  /\ UNCHANGED <<lock, dep, inst, images, removal, restarts>>

RecordSuccess(d) ==
  /\ job[d].pc = "recorded"
  /\ SetDeploy(d, "SUCCESS", dep[d].tag)
  /\ Goto(d, IF svc.kind = "git" THEN "success" ELSE "final")
  /\ UNCHANGED <<lock, svc, inst, images, removal, restarts>>

\* Mutant: keepImage is not compared.
CollectedAll(keep) == {}

\* handleGC: what is left of the tags of the service.
Collected(keep) == images \cap {keep}

\* agent.gc: every other tag of the service is force-removed; errors are logged.
CollectGarbage(d) ==
  /\ job[d].pc = "success"
  /\ \/ images' = Collected(job[d].tag)
     \/ "agent_unreached" \in Env /\ UNCHANGED images
  /\ Goto(d, "final")
  /\ UNCHANGED <<lock, dep, svc, inst, removal, restarts>>

-----------------------------------------------------------------------------
(* Failure paths, the finally block and the acknowledgement of the job.    *)

\* A request that does not reach the agent, or a rejected write, throws in the try block.
StepThrows(d) ==
  /\ \/ "agent_unreached" \in Env /\ job[d].pc \in {"building", "built", "healthy"}
     \/ "db_error" \in Env /\ job[d].pc \in TryPcs
  /\ Goto(d, "failing")
  /\ UNCHANGED <<lock, dep, svc, inst, images, removal, restarts>>

\* Mutant: the catch block updates the service only.
RecordFailureOnService(d) ==
  /\ job[d].pc = "failing"
  /\ SetStatus("ERROR")
  /\ Goto(d, "final")
  /\ UNCHANGED <<lock, dep, inst, images, removal, restarts>>

RecordFailure(d) ==
  /\ job[d].pc = "failing"
  /\ SetStatus("ERROR")
  /\ SetDeploy(d, "FAILED", dep[d].tag)
  /\ Goto(d, "final")
  /\ UNCHANGED <<lock, inst, images, removal, restarts>>

\* The finally block deletes the key whoever holds it; an error of Redis is swallowed.
ReleaseLock(d) ==
  /\ job[d].pc = "final"
  /\ \/ lock' = NoDep
     \/ "ack_lost" \in Env /\ UNCHANGED lock
  /\ Goto(d, "returning")
  /\ UNCHANGED <<dep, svc, inst, images, removal, restarts>>

AckJob(d) ==
  /\ job[d].pc = "returning"
  /\ Goto(d, "over")
  /\ UNCHANGED <<lock, dep, svc, inst, images, removal, restarts>>

-----------------------------------------------------------------------------
(* Redis, the panel process and the users.                                 *)

\* Nobody will release the key any more: its request or job is over.
Leaked == lock # NoDep /\ job[lock].pc \in {"returning", "over"}

\* Mutant: the key is set without PX.
LockNeverExpires == FALSE /\ UNCHANGED vars

LockExpires ==
  /\ lock # NoDep
  /\ Leaked \/ "lock_overrun" \in Env
  /\ lock' = NoDep
  /\ UNCHANGED <<job, dep, svc, inst, images, removal, restarts>>

\* The panel dies: its handlers are gone, its jobs stall and BullMQ queues each
\* again, unless it stalled too often before.
PanelRestarts ==
  /\ restarts < MaxRestarts
  /\ "ack_lost" \in Env \/ \A d \in Deployments : job[d].pc # "returning"
  /\ restarts' = restarts + 1
  /\ job' = [d \in Deployments |->
       CASE job[d].pc \in RequestPcs -> [job[d] EXCEPT !.pc = "over"]
         [] job[d].pc \in WorkerPcs ->
              [job[d] EXCEPT !.pc = IF job[d].stalls < MaxStalls THEN "queued" ELSE "over",
                             !.stalls = @ + 1]
         [] OTHER -> job[d]]
  /\ removal' = "idle"
  /\ UNCHANGED <<lock, dep, svc, inst, images>>

\* power(): the agent acts on the container it resolves; its {ok: false} for a
\* missing container is not looked at.
Power(on) ==
  /\ "power" \in Env /\ svc.present
  /\ \/ \E c \in Colors : ResolveContainer(c) /\ inst' = [inst EXCEPT ![c].up = on]
     \/ (\A c \in Colors : ~ResolveContainer(c)) /\ UNCHANGED inst
  /\ svc' = [svc EXCEPT !.status = IF on THEN "RUNNING" ELSE "STOPPED"]
  /\ UNCHANGED <<lock, job, dep, images, removal, restarts>>

\* remove(): the agent drops containers and images, best-effort, then the row goes.
RemoveFromNode ==
  /\ "remove" \in Env /\ svc.present /\ removal = "idle"
  /\ \/ inst' = [c \in Colors |-> Absent] /\ images' = {}
     \/ "agent_unreached" \in Env /\ inst' = [c \in Colors |-> Absent] /\ UNCHANGED images
     \/ "agent_unreached" \in Env /\ UNCHANGED <<inst, images>>
  /\ removal' = "purged"
  /\ UNCHANGED <<lock, job, dep, svc, restarts>>

RemoveRow ==
  /\ removal = "purged"
  /\ svc' = [svc EXCEPT !.present = FALSE]
  /\ dep' = [d \in Deployments |-> NoRow]
  /\ removal' = "idle"
  /\ UNCHANGED <<lock, job, inst, images, restarts>>

\* PATCH of the service, its domain and its volumes.  Zero-downtime cannot be
\* switched on over volumes, but a volume can be added while it is on.
EditSettings ==
  /\ "edit" \in Env /\ svc.present
  /\ \/ \E z \in BOOLEAN : /\ z => ~svc.cfg.volumes
                           /\ svc' = [svc EXCEPT !.cfg.zeroDowntime = z]
     \/ svc' = [svc EXCEPT !.cfg.host = TRUE]
     \/ \E v \in BOOLEAN : svc' = [svc EXCEPT !.cfg.volumes = v]
     \/ \E r \in Refs : svc.kind = "image" /\ svc' = [svc EXCEPT !.ref = r]
  /\ UNCHANGED <<lock, job, dep, inst, images, removal, restarts>>

-----------------------------------------------------------------------------
RequestStep(d) == InsertDeployment(d) \/ EnqueueJob(d) \/ RequestFails(d) \/ EnqueueReplyLost(d)

WorkerStep(d) ==
  \/ TakeJob(d) \/ TakeJobThrows(d)
  \/ ReuseImage(d) \/ BeginBuild(d) \/ BuildSucceeds(d) \/ BuildFails(d) \/ ComposeUp(d)
  \/ RunSucceeds(d) \/ RunFails(d) \/ RunReplyLost(d)
  \/ HealthPasses(d) \/ HealthTimesOut(d)
  \/ SwitchOver(d) \/ SwitchOverReplyLost(d) \/ RetireColors(d)
  \/ RecordRunning(d) \/ RecordSuccess(d) \/ CollectGarbage(d)
  \/ StepThrows(d) \/ RecordFailure(d) \/ ReleaseLock(d) \/ AckJob(d)

UserStep == (\E on \in BOOLEAN : Power(on)) \/ RemoveFromNode \/ RemoveRow \/ EditSettings

Next ==
  \/ \E d \in Deployments : RequestDeploy(d) \/ RequestStep(d) \/ WorkerStep(d)
  \/ LockExpires \/ PanelRestarts \/ UserStep

Spec == Init /\ [][Next]_vars

\* What the runtime schedules: request handlers and the worker run on, Redis
\* expires keys.  Users and crashes owe nothing.
FairSpec ==
  /\ Spec
  /\ \A d \in Deployments : WF_vars(RequestStep(d)) /\ WF_vars(WorkerStep(d))
  /\ WF_vars(LockExpires)

-----------------------------------------------------------------------------
(* Properties.                                                             *)

\* From SET NX to the DEL of the finally block a deployment owns the lock.
Holding == RequestPcs \cup {"queued"} \cup (WorkerPcs \ {"returning"})

\* Two deployments of one service are never in progress at once, whatever
\* requests, retries of stalled jobs and expiries interleave: what
\* acquireDeployLock is for (services.service.ts:60-64).
OneDeployAtATime ==
  \A d, e \in Deployments : job[d].pc \in Holding /\ job[e].pc \in Holding => d = e

\* The deployment that holds the lock has written its release into the services row.
Shown == svc.present /\ lock # NoDep /\ job[lock].pc \in {"recorded", "success"}

Statuses == [d \in Deployments |-> dep[d].status]

Turns == INSTANCE SerialDeploys WITH
           Releases <- Colors \X (Tags \cup {NoTag}), Nobody <- NoDep,
           turn <- lock, status <- Statuses,
           release <- <<svc.color, svc.image>>, shown <- Shown

\* The pipeline implements SerialDeploys: whatever requests, workers, crashes, deletions
\* and edits interleave, deployments take turns, a row is only changed by the deployment
\* it belongs to in its own turn, and it says SUCCESS only when the release in the
\* services row is its own (deploy.worker.ts:430-445).
DeploysTakeTurns == Turns!Serial

\* The color in the services row names the container that runs the recorded
\* image, except between a switchover and the write that records it.  The next
\* deploy picks its target color from that row alone (deploy.worker.ts:476).
ActiveColorLive ==
  svc.present /\ removal = "idle" /\ svc.color # "plain" /\ (\A d \in Deployments : job[d].pc # "promoted")
    => inst[svc.color].tag = svc.image

\* Two containers of a service never mount its volumes at the same time, however
\* volumes and the zero-downtime flag are edited between deploys
\* (services.service.ts:201-203).
VolumeExclusive == \A b, c \in Colors : inst[b].vol /\ inst[c].vol => b = c

\* The image of the recorded release is still on the node: garbage collection of
\* one deploy never takes the image another one recorded.
CurrentImageKept ==
  svc.kind = "git" /\ svc.present /\ removal = "idle" /\ svc.image # NoTag => svc.image \in images

Serving == \E c \in Colors : Healthy(c)

\* Before a blue-green deploy started its own container every container counts
\* as old, afterwards every other one.
OldServing(d) ==
  \E c \in Colors : Healthy(c) /\ (job[d].pc \in {"loaded", "building", "built"} \/ c # job[d].color)

\* No step of a blue-green deploy takes the service off the air: if an old
\* instance serves before the step, an instance serves after it
\* (deploy.worker.ts:457-461: on failure "the old one is left serving").
OldLeftServing ==
  [][\A d \in Deployments :
       job[d].color # "plain" /\ job[d] # job'[d] /\ OldServing(d) => Serving']_vars

\* A lock that is held is released or expires, whoever crashed: no service is
\* wedged permanently (deploy.constants.ts:16).
LockEventuallyReleased == \A d \in Deployments : lock = d ~> lock # d

\* A deployment whose job a worker has started ends as SUCCESS or FAILED, unless
\* its service is deleted or a panel crash made the job run again, and that second
\* run failed before the try block (deploy.worker.ts:174-184).
StartedDeployEnds ==
  \A d \in Deployments :
    job[d].pc = "loaded" ~>
      \/ dep[d].status \in {"NONE", "SUCCESS", "FAILED"}
      \/ job[d].pc = "over" /\ job[d].stalls > 0
=============================================================================

------------------------ MODULE DeployPipelineProofs ------------------------
(* Proofs about DeployPipeline, for every set of deployments, every bound   *)
(* and every choice of what users and faults may do.                        *)
EXTENDS DeployPipeline, TLAPS

USE DEF NoTag

-----------------------------------------------------------------------------
(* Types.                                                                   *)

LEMMA ConstantsTyped ==
  /\ Absent \in Instance /\ NoRow \in Row /\ NewJob \in Job
  /\ Deployments \subseteq Tags
  /\ RequestPcs \subseteq Pcs /\ TryPcs \subseteq Pcs /\ WorkerPcs \subseteq Pcs
BY DEF Absent, Instance, NoRow, Row, NewJob, Job, Tags, Pcs, RequestPcs, TryPcs, WorkerPcs, Colors

\* A step that only moves the program counter of a deployment keeps job typed.
LEMMA GotoTyped ==
  ASSUME NEW d \in Deployments, NEW pc \in Pcs, job \in [Deployments -> Job], Goto(d, pc)
  PROVE  job' \in [Deployments -> Job]
BY DEF Goto, Job

LEMMA SetDeployTyped ==
  ASSUME NEW d \in Deployments, NEW t \in Tags \cup {NoTag},
         NEW s \in {"NONE", "QUEUED", "BUILDING", "DEPLOYING", "SUCCESS", "FAILED"},
         dep \in [Deployments -> Row], SetDeploy(d, s, t)
  PROVE  dep' \in [Deployments -> Row]
BY DEF SetDeploy, Row

LEMMA SetStatusTyped ==
  ASSUME NEW s \in {"CREATED", "BUILDING", "RUNNING", "STOPPED", "ERROR"},
         svc \in Service, SetStatus(s)
  PROVE  svc' \in Service
BY DEF SetStatus, Service

LEMMA StartedTyped ==
  ASSUME TypeOK, NEW d \in Deployments, NEW good \in BOOLEAN
  PROVE  Started(d, good) \in Instance
BY DEF TypeOK, Started, Instance, Job

\* A container is started under some name of the service.
LEMMA StartTyped ==
  ASSUME TypeOK, NEW d \in Deployments, NEW c,
         \E good \in BOOLEAN : inst' = [inst EXCEPT ![c] = Started(d, good)]
  PROVE  inst' \in [Colors -> Instance]
<1>1. PICK good \in BOOLEAN : inst' = [inst EXCEPT ![c] = Started(d, good)]
  OBVIOUS
<1>2. inst \in [Colors -> Instance] /\ Started(d, good) \in Instance
  BY StartedTyped DEF TypeOK
<1> QED BY <1>1, <1>2

LEMMA PipelineInit == Init => TypeOK
BY ConstantsTyped, BoundsAssumption, SettingsAssumption
   DEF Init, TypeOK, Service, Colors, Tags

LEMMA RequestTyped ==
  ASSUME TypeOK, NEW d \in Deployments, RequestDeploy(d) \/ RequestStep(d)
  PROVE  TypeOK'
<1>1. CASE RequestDeploy(d)
  <2>1. PICK t \in Tags \cup {NoTag} :
          job' = [job EXCEPT ![d] = [NewJob EXCEPT !.pc = "locked", !.rollback = t]]
    BY <1>1 DEF RequestDeploy, TypeOK, Row
  <2>2. [NewJob EXCEPT !.pc = "locked", !.rollback = t] \in Job
    BY ConstantsTyped DEF Job, Pcs, RequestPcs
  <2>3. job' \in [Deployments -> Job]
    BY <2>1, <2>2 DEF TypeOK
  <2> QED BY <1>1, <2>3 DEF RequestDeploy, TypeOK
<1>2. CASE InsertDeployment(d)
  <2>1. job' \in [Deployments -> Job]
    BY <1>2, GotoTyped DEF InsertDeployment, TypeOK, Pcs, RequestPcs
  <2>2. dep' \in [Deployments -> Row]
    BY <1>2 DEF InsertDeployment, TypeOK, Row, Job
  <2> QED BY <1>2, <2>1, <2>2 DEF InsertDeployment, TypeOK
<1>3. CASE EnqueueJob(d)
  BY <1>3, GotoTyped DEF EnqueueJob, TypeOK, Pcs
<1>4. CASE RequestFails(d)
  BY <1>4, GotoTyped DEF RequestFails, TypeOK, Pcs
<1>5. CASE EnqueueReplyLost(d)
  BY <1>5, GotoTyped DEF EnqueueReplyLost, TypeOK, Pcs
<1> QED BY <1>1, <1>2, <1>3, <1>4, <1>5 DEF RequestStep

LEMMA TakeJobTyped ==
  ASSUME TypeOK, NEW d \in Deployments, TakeJob(d) \/ TakeJobThrows(d)
  PROVE  TypeOK'
<1>1. CASE TakeJob(d)
  <2>1. ImageTag(d) \in Tags \cup {NoTag}
    BY DEF TypeOK, ImageTag, Job, Service, Tags
  <2>2. TargetColor \in Colors
    BY DEF TargetColor, OtherColor, Colors
  <2>3. MountsVolumes \in BOOLEAN
    BY DEF TypeOK, Service, Settings, MountsVolumes
  <2>4. job' \in [Deployments -> Job]
    <3> DEFINE j == [job[d] EXCEPT !.pc = "loaded", !.tag = ImageTag(d),
                                   !.color = TargetColor, !.vol = MountsVolumes]
    <3>1. j \in Job
      BY <2>1, <2>2, <2>3 DEF TypeOK, Job, Pcs, WorkerPcs, TryPcs
    <3>2. job' = [job EXCEPT ![d] = j]
      BY <1>1 DEF TakeJob, TypeOK, Job
    <3> QED BY <3>1, <3>2 DEF TypeOK
  <2> QED BY <1>1, <2>4 DEF TakeJob, TypeOK
<1>2. CASE TakeJobThrows(d)
  BY <1>2, GotoTyped DEF TakeJobThrows, TypeOK, Pcs
<1> QED BY <1>1, <1>2

LEMMA BuildTyped ==
  ASSUME TypeOK, NEW d \in Deployments,
         \/ ReuseImage(d) \/ BeginBuild(d) \/ BuildSucceeds(d) \/ BuildFails(d) \/ ComposeUp(d)
  PROVE  TypeOK'
<1> USE DEF TypeOK
<1>0. /\ job[d].tag \in Tags \cup {NoTag} /\ dep[d].tag \in Tags \cup {NoTag}
      /\ \A pc \in {"built", "building", "promoted", "failing"} : pc \in Pcs
  BY DEF Job, Row, Pcs, WorkerPcs, TryPcs
<1>1. CASE ReuseImage(d)
  BY <1>0, <1>1, GotoTyped, SetDeployTyped, SetStatusTyped DEF ReuseImage
<1>2. CASE BeginBuild(d)
  BY <1>0, <1>2, GotoTyped, SetDeployTyped, SetStatusTyped DEF BeginBuild
<1>3. CASE BuildSucceeds(d)
  <2>1. job' \in [Deployments -> Job] /\ dep' \in [Deployments -> Row]
    BY <1>0, <1>3, GotoTyped, SetDeployTyped DEF BuildSucceeds
  <2>2. images' \subseteq Tags \cup {NoTag}
    BY <1>0, <1>3 DEF BuildSucceeds
  <2> QED BY <1>3, <2>1, <2>2 DEF BuildSucceeds
<1>4. CASE BuildFails(d)
  <2>1. inst' \in [Colors -> Instance]
    <3>1. CASE inst' = inst
      BY <3>1
    <3>2. CASE inst' = [inst EXCEPT !["plain"] = Started(d, FALSE)]
      BY <3>2, StartTyped
    <3> QED BY <1>4, <3>1, <3>2 DEF BuildFails
  <2> QED BY <1>0, <1>4, <2>1, GotoTyped DEF BuildFails
<1>5. CASE ComposeUp(d)
  <2>1. job' \in [Deployments -> Job] /\ dep' \in [Deployments -> Row]
    BY <1>0, <1>5, GotoTyped, SetDeployTyped DEF ComposeUp
  <2>2. inst' \in [Colors -> Instance]
    BY <1>5, StartTyped DEF ComposeUp
  <2> QED BY <1>5, <2>1, <2>2 DEF ComposeUp
<1> QED BY <1>1, <1>2, <1>3, <1>4, <1>5

LEMMA RunTyped ==
  ASSUME TypeOK, NEW d \in Deployments,
         \/ RunSucceeds(d) \/ RunFails(d) \/ RunReplyLost(d)
         \/ HealthPasses(d) \/ HealthTimesOut(d)
         \/ SwitchOver(d) \/ SwitchOverReplyLost(d) \/ RetireColors(d)
  PROVE  TypeOK'
<1> USE DEF TypeOK
<1>0. \A pc \in {"ran", "healthy", "promoted", "failing"} : pc \in Pcs
  BY DEF Pcs, WorkerPcs, TryPcs
<1>1. job' \in [Deployments -> Job]
  <2>1. \E pc \in {"ran", "healthy", "promoted", "failing"} : Goto(d, pc)
    BY DEF RunSucceeds, RunFails, RunReplyLost, HealthPasses, HealthTimesOut,
           SwitchOver, SwitchOverReplyLost, RetireColors
  <2> QED BY <1>0, <2>1, GotoTyped
<1>2. inst' \in [Colors -> Instance]
  <2>1. CASE RunSucceeds(d) \/ RunReplyLost(d)
    BY <2>1, StartTyped DEF RunSucceeds, RunReplyLost
  <2>2. CASE RunFails(d) \/ HealthTimesOut(d) \/ HealthPasses(d)
    BY <2>2, ConstantsTyped DEF RunFails, HealthTimesOut, HealthPasses
  <2>3. CASE SwitchOver(d) \/ SwitchOverReplyLost(d) \/ RetireColors(d)
    BY <2>3, ConstantsTyped DEF SwitchOver, SwitchOverReplyLost, RetireColors, KeepOnly
  <2> QED BY <2>1, <2>2, <2>3
<1> QED
  BY <1>1, <1>2 DEF RunSucceeds, RunFails, RunReplyLost, HealthPasses, HealthTimesOut,
     SwitchOver, SwitchOverReplyLost, RetireColors

LEMMA FinishTyped ==
  ASSUME TypeOK, NEW d \in Deployments,
         \/ RecordRunning(d) \/ RecordSuccess(d) \/ CollectGarbage(d) \/ StepThrows(d)
         \/ RecordFailure(d) \/ ReleaseLock(d) \/ AckJob(d)
  PROVE  TypeOK'
<1> USE DEF TypeOK
<1>0. /\ \A pc \in {"recorded", "success", "final", "failing", "returning", "over"} : pc \in Pcs
      /\ dep[d].tag \in Tags \cup {NoTag}
  BY DEF Pcs, WorkerPcs, TryPcs, Row
<1>1. CASE RecordRunning(d)
  <2>1. svc' \in Service
    BY <1>1 DEF RecordRunning, Service, Job
  <2> QED BY <1>0, <1>1, <2>1, GotoTyped DEF RecordRunning
<1>2. CASE RecordSuccess(d)
  BY <1>0, <1>2, GotoTyped, SetDeployTyped DEF RecordSuccess
<1>3. CASE CollectGarbage(d)
  BY <1>0, <1>3, GotoTyped DEF CollectGarbage, Collected
<1>4. CASE StepThrows(d)
  BY <1>0, <1>4, GotoTyped DEF StepThrows
<1>5. CASE RecordFailure(d)
  BY <1>0, <1>5, GotoTyped, SetDeployTyped, SetStatusTyped DEF RecordFailure
<1>6. CASE ReleaseLock(d)
  BY <1>0, <1>6, GotoTyped DEF ReleaseLock
<1>7. CASE AckJob(d)
  BY <1>0, <1>7, GotoTyped DEF AckJob
<1> QED BY <1>1, <1>2, <1>3, <1>4, <1>5, <1>6, <1>7

LEMMA PoweredTyped ==
  ASSUME inst \in [Colors -> Instance], NEW c \in Colors, NEW on \in BOOLEAN
  PROVE  [inst EXCEPT ![c].up = on] \in [Colors -> Instance]
BY DEF Instance

LEMMA EnvironmentTyped ==
  ASSUME TypeOK, LockExpires \/ PanelRestarts \/ UserStep
  PROVE  TypeOK'
<1> USE DEF TypeOK
<1>1. CASE LockExpires
  BY <1>1 DEF LockExpires
<1>2. CASE PanelRestarts
  <2>1. job' \in [Deployments -> Job]
    <3> SUFFICES ASSUME NEW d \in Deployments PROVE job'[d] \in Job
      BY <1>2 DEF PanelRestarts
    <3>1. job[d] \in Job /\ job[d].stalls + 1 \in Nat
      BY DEF Job
    <3>2. /\ [job[d] EXCEPT !.pc = "over"] \in Job
          /\ [job[d] EXCEPT !.pc = IF job[d].stalls < MaxStalls THEN "queued" ELSE "over",
                            !.stalls = @ + 1] \in Job
      BY <3>1 DEF Job, Pcs
    <3> QED BY <1>2, <3>1, <3>2 DEF PanelRestarts
  <2>2. restarts' \in 0..MaxRestarts
    <3>1. restarts \in 0..MaxRestarts /\ restarts < MaxRestarts /\ restarts' = restarts + 1
      BY <1>2 DEF PanelRestarts
    <3> QED BY <3>1, BoundsAssumption
  <2> QED BY <1>2, <2>1, <2>2 DEF PanelRestarts
<1>3. ASSUME NEW on \in BOOLEAN, Power(on) PROVE TypeOK'
  <2>1. inst' \in [Colors -> Instance] /\ svc' \in Service
    BY <1>3, PoweredTyped DEF Power, Service
  <2> QED BY <1>3, <2>1 DEF Power
<1>5. CASE RemoveFromNode
  BY <1>5, ConstantsTyped DEF RemoveFromNode
<1>6. CASE RemoveRow
  BY <1>6, ConstantsTyped DEF RemoveRow, Service
<1>7. CASE EditSettings
  <2>1. svc' \in Service
    <3>1. svc \in Service /\ svc.cfg \in Settings
      BY DEF Service
    <3>2. \/ \E c \in Settings : svc' = [svc EXCEPT !.cfg = c]
          \/ \E r \in Refs : svc' = [svc EXCEPT !.ref = r]
      BY <1>7, <3>1 DEF EditSettings, Service, Settings
    <3> QED BY <3>1, <3>2 DEF Service, Tags
  <2> QED BY <1>7, <2>1 DEF EditSettings
<1> QED BY <1>1, <1>2, <1>3, <1>5, <1>6, <1>7 DEF UserStep

LEMMA NextTyped == TypeOK /\ [Next]_vars => TypeOK'
<1> SUFFICES ASSUME TypeOK, [Next]_vars PROVE TypeOK'
  OBVIOUS
<1>1. CASE UNCHANGED vars
  BY <1>1 DEF vars, TypeOK
<1>2. ASSUME NEW d \in Deployments, RequestDeploy(d) \/ RequestStep(d) PROVE TypeOK'
  BY <1>2, RequestTyped
<1>3. ASSUME NEW d \in Deployments, WorkerStep(d) PROVE TypeOK'
  BY <1>3, TakeJobTyped, BuildTyped, RunTyped, FinishTyped DEF WorkerStep
<1>4. CASE LockExpires \/ PanelRestarts \/ UserStep
  BY <1>4, EnvironmentTyped
<1> QED BY <1>1, <1>2, <1>3, <1>4 DEF Next

\* The state of the pipeline keeps its types, whatever users and faults do.
THEOREM PipelineTypes == Spec => []TypeOK
<1>1. Init => TypeOK
  BY PipelineInit
<1>2. TypeOK /\ [Next]_vars => TypeOK'
  BY NextTyped
<1> QED BY <1>1, <1>2, PTL DEF Spec
-----------------------------------------------------------------------------
(* One deployment at a time.                                                *)

\* Whoever is between SET NX and DEL is named by the key, as long as the key
\* does not expire under it and BullMQ does not run its job again unlocked.
HolderOwnsLock == \A d \in Deployments : job[d].pc \in Holding => lock = d

LEMMA HoldingPcs ==
  /\ Holding = {"locked", "inserted", "queued", "loaded", "building", "built", "ran", "healthy",
                "promoted", "recorded", "success", "failing", "final"}
  /\ WorkerPcs \ {"returning"} \subseteq Holding
BY DEF Holding, RequestPcs, WorkerPcs, TryPcs

\* A step of a holder that leaves the key alone keeps the invariant.
LEMMA HolderMoves ==
  ASSUME TypeOK, HolderOwnsLock, NEW d \in Deployments, NEW pc \in Pcs,
         job[d].pc \in Holding, Goto(d, pc), lock' = lock
  PROVE  HolderOwnsLock'
BY DEF TypeOK, HolderOwnsLock, Goto, Job

\* A holder that deletes the key and is over leaves no holder.
LEMMA HolderReleases ==
  ASSUME TypeOK, HolderOwnsLock, NEW d \in Deployments, NEW pc \in Pcs \ Holding,
         job[d].pc \in Holding, Goto(d, pc)
  PROVE  HolderOwnsLock'
BY DEF TypeOK, HolderOwnsLock, Goto, Job

LEMMA RequestOwns ==
  ASSUME TypeOK, HolderOwnsLock, "ack_lost" \notin Env,
         NEW d \in Deployments, RequestDeploy(d) \/ RequestStep(d)
  PROVE  HolderOwnsLock'
<1>1. CASE RequestDeploy(d)
  <2>1. \A e \in Deployments : job[e].pc \notin Holding
    BY <1>1, NoDepAssumption DEF RequestDeploy, LockFree, HolderOwnsLock
  <2>2. \A e \in Deployments \ {d} : job'[e] = job[e]
    BY <1>1 DEF RequestDeploy, TypeOK
  <2> QED BY <1>1, <2>1, <2>2 DEF RequestDeploy, HolderOwnsLock
<1>2. CASE InsertDeployment(d) \/ EnqueueJob(d)
  BY <1>2, HoldingPcs, ConstantsTyped, HolderMoves DEF InsertDeployment, EnqueueJob, Pcs, RequestPcs
<1>3. CASE RequestFails(d)
  BY <1>3, HoldingPcs, HolderReleases DEF RequestFails, Pcs
<1> QED BY <1>1, <1>2, <1>3 DEF RequestStep, EnqueueReplyLost

LEMMA WorkerOwns ==
  ASSUME TypeOK, HolderOwnsLock, NEW d \in Deployments, WorkerStep(d)
  PROVE  HolderOwnsLock'
<1>1. CASE TakeJob(d)
  <2>1. /\ \A e \in Deployments \ {d} : job'[e] = job[e]
        /\ lock = d /\ lock' = lock
    BY <1>1, HoldingPcs DEF TakeJob, TypeOK, HolderOwnsLock
  <2> QED BY <2>1 DEF HolderOwnsLock
<1>2. CASE ReleaseLock(d)
  BY <1>2, HoldingPcs, HolderReleases DEF ReleaseLock, Pcs, WorkerPcs
<1>3. CASE AckJob(d)
  BY <1>3, HoldingPcs DEF AckJob, Goto, TypeOK, HolderOwnsLock, Job
<1>4. CASE ~(TakeJob(d) \/ ReleaseLock(d) \/ AckJob(d))
  <2>1. /\ lock' = lock
        /\ job[d].pc \in {"queued"} \cup TryPcs \cup {"success", "failing"}
        /\ \E pc \in TryPcs \cup {"success", "failing", "final", "over"} : Goto(d, pc)
    BY <1>4 DEF WorkerStep, TakeJobThrows, ReuseImage, BeginBuild, BuildSucceeds, BuildFails,
       ComposeUp, RunSucceeds, RunFails, RunReplyLost, HealthPasses, HealthTimesOut, SwitchOver,
       SwitchOverReplyLost, RetireColors, RecordRunning, RecordSuccess, CollectGarbage,
       StepThrows, RecordFailure, TryPcs
  <2> QED BY <2>1, HoldingPcs, HolderMoves DEF Pcs, WorkerPcs, TryPcs
<1> QED BY <1>1, <1>2, <1>3, <1>4

LEMMA EnvironmentOwns ==
  ASSUME TypeOK, HolderOwnsLock, "ack_lost" \notin Env, "lock_overrun" \notin Env,
         LockExpires \/ PanelRestarts \/ UserStep
  PROVE  HolderOwnsLock'
<1>1. CASE LockExpires
  BY <1>1, HoldingPcs DEF LockExpires, Leaked, HolderOwnsLock, TypeOK
<1>2. CASE PanelRestarts
  <2>1. ASSUME NEW d \in Deployments, job'[d].pc \in Holding PROVE job[d].pc \in Holding
    <3>1. job[d].pc # "returning"
      BY <1>2 DEF PanelRestarts
    <3>2. CASE job[d].pc \in RequestPcs
      BY <3>2 DEF Holding
    <3>3. CASE job[d].pc \in WorkerPcs
      BY <3>1, <3>3 DEF Holding
    <3>4. CASE job[d].pc \notin RequestPcs \cup WorkerPcs
      BY <1>2, <2>1, <3>4 DEF PanelRestarts
    <3> QED BY <3>2, <3>3, <3>4
  <2> QED BY <1>2, <2>1 DEF PanelRestarts, HolderOwnsLock
<1>3. CASE UserStep
  BY <1>3 DEF UserStep, Power, RemoveFromNode, RemoveRow, EditSettings, HolderOwnsLock
<1> QED BY <1>1, <1>2, <1>3

LEMMA HolderInit == Init => HolderOwnsLock
BY HoldingPcs DEF Init, HolderOwnsLock, NewJob

LEMMA HolderStep ==
  ASSUME "ack_lost" \notin Env, "lock_overrun" \notin Env, TypeOK, HolderOwnsLock, [Next]_vars
  PROVE  HolderOwnsLock'
<1>1. CASE UNCHANGED vars
  BY <1>1 DEF vars, HolderOwnsLock
<1>2. ASSUME NEW d \in Deployments, RequestDeploy(d) \/ RequestStep(d) PROVE HolderOwnsLock'
  BY <1>2, RequestOwns
<1>3. ASSUME NEW d \in Deployments, WorkerStep(d) PROVE HolderOwnsLock'
  BY <1>3, WorkerOwns
<1>4. CASE LockExpires \/ PanelRestarts \/ UserStep
  BY <1>4, EnvironmentOwns
<1> QED BY <1>1, <1>2, <1>3, <1>4 DEF Next

\* As long as no deploy outlives the TTL of its key and no acknowledgement of a
\* job is lost, two deployments of a service are never in progress together,
\* whatever else fails: what the SET NX of acquireDeployLock is for.
THEOREM DeploysExclude ==
  ASSUME "ack_lost" \notin Env, "lock_overrun" \notin Env
  PROVE  Spec => []OneDeployAtATime
<1>1. Init => HolderOwnsLock
  BY HolderInit
<1>2. TypeOK /\ HolderOwnsLock /\ [Next]_vars => HolderOwnsLock'
  BY HolderStep
<1>3. HolderOwnsLock => OneDeployAtATime
  BY DEF HolderOwnsLock, OneDeployAtATime
<1> QED BY <1>1, <1>2, <1>3, PipelineTypes, PTL DEF Spec

-----------------------------------------------------------------------------
(* Volumes.                                                                 *)

\* Only the uncolored container ever mounts volumes: the worker picks the color
\* and the mounts of a deploy from one reading of the volumes.
VolumesStayPlain ==
  /\ \A c \in Colors : inst[c].vol => c = "plain"
  /\ \A d \in Deployments : job[d].vol => job[d].color = "plain"

LEMMA VolumesStep ==
  ASSUME TypeOK, VolumesStayPlain, NEW d \in Deployments,
         RequestDeploy(d) \/ RequestStep(d) \/ WorkerStep(d)
  PROVE  VolumesStayPlain'
<1> DEFINE Same == \A e \in Deployments : job'[e].vol = job[e].vol /\ job'[e].color = job[e].color
<1>1. CASE RequestDeploy(d)
  <2>1. /\ \A e \in Deployments \ {d} : job'[e] = job[e]
        /\ job'[d].vol = FALSE /\ inst' = inst
    <3>1. PICK t : job' = [job EXCEPT ![d] = [NewJob EXCEPT !.pc = "locked", !.rollback = t]]
      BY <1>1 DEF RequestDeploy
    <3> QED BY <1>1, <3>1 DEF RequestDeploy, TypeOK, NewJob
  <2> QED BY <2>1 DEF VolumesStayPlain
<1>2. CASE TakeJob(d)
  <2>1. /\ \A e \in Deployments \ {d} : job'[e] = job[e]
        /\ job'[d].vol = MountsVolumes /\ job'[d].color = TargetColor /\ inst' = inst
    BY <1>2 DEF TakeJob, TypeOK, Job
  <2>2. MountsVolumes => TargetColor = "plain"
    BY DEF TargetColor, BlueGreen, MountsVolumes
  <2> QED BY <2>1, <2>2 DEF VolumesStayPlain
<1>3. ASSUME NEW pc \in Pcs, Goto(d, pc) PROVE Same
  BY <1>3 DEF Goto, TypeOK, Job
<1>4. CASE RequestStep(d)
  BY <1>3, <1>4 DEF RequestStep, InsertDeployment, EnqueueJob, RequestFails, EnqueueReplyLost,
     Pcs, RequestPcs, VolumesStayPlain
<1>5. CASE WorkerStep(d) /\ ~TakeJob(d)
  <2>1. \E pc \in Pcs : Goto(d, pc)
    BY <1>5 DEF WorkerStep, TakeJobThrows, ReuseImage, BeginBuild, BuildSucceeds, BuildFails,
       ComposeUp, RunSucceeds, RunFails, RunReplyLost, HealthPasses, HealthTimesOut, SwitchOver,
       SwitchOverReplyLost, RetireColors, RecordRunning, RecordSuccess, CollectGarbage,
       StepThrows, RecordFailure, ReleaseLock, AckJob, Pcs, WorkerPcs, TryPcs
  <2>2. ASSUME NEW c \in Colors, inst'[c].vol PROVE c = "plain"
    <3>1. CASE inst' = inst
      BY <2>2, <3>1 DEF VolumesStayPlain
    <3>2. CASE RunSucceeds(d) \/ RunReplyLost(d)
      <4>1. PICK good \in BOOLEAN : inst' = [inst EXCEPT ![job[d].color] = Started(d, good)]
        BY <3>2 DEF RunSucceeds, RunReplyLost
      <4>2. inst'[c] = IF c = job[d].color THEN Started(d, good) ELSE inst[c]
        BY <4>1 DEF TypeOK
      <4> QED BY <2>2, <4>2 DEF Started, VolumesStayPlain
    <3>3. CASE ComposeUp(d) \/ BuildFails(d)
      <4>1. CASE inst' = inst
        BY <2>2, <4>1 DEF VolumesStayPlain
      <4>2. CASE inst' # inst
        <5>1. PICK good : inst' = [inst EXCEPT !["plain"] = Started(d, good)]
          BY <3>3, <4>2 DEF ComposeUp, BuildFails
        <5> QED BY <2>2, <5>1 DEF TypeOK, VolumesStayPlain
      <4> QED BY <4>1, <4>2
    <3>4. CASE RunFails(d) \/ HealthTimesOut(d)
      <4>1. \/ inst' = inst
            \/ inst' = [inst EXCEPT ![job[d].color] = Absent]
        BY <3>4 DEF RunFails, HealthTimesOut
      <4> QED BY <2>2, <4>1 DEF Absent, TypeOK, VolumesStayPlain
    <3>5. CASE SwitchOver(d) \/ SwitchOverReplyLost(d) \/ RetireColors(d)
      BY <2>2, <3>5 DEF SwitchOver, SwitchOverReplyLost, RetireColors, KeepOnly, Absent, VolumesStayPlain
    <3> QED
      BY <1>5, <3>1, <3>2, <3>3, <3>4, <3>5 DEF WorkerStep, TakeJobThrows, ReuseImage, BeginBuild,
         BuildSucceeds, HealthPasses, RecordRunning, RecordSuccess, CollectGarbage,
         StepThrows, RecordFailure, ReleaseLock, AckJob
  <2> QED BY <1>3, <2>1, <2>2 DEF VolumesStayPlain
<1> QED BY <1>1, <1>2, <1>4, <1>5

LEMMA VolumesEnvironment ==
  ASSUME TypeOK, VolumesStayPlain, LockExpires \/ PanelRestarts \/ UserStep
  PROVE  VolumesStayPlain'
<1>1. CASE LockExpires \/ RemoveRow \/ EditSettings
  BY <1>1 DEF LockExpires, RemoveRow, EditSettings, VolumesStayPlain
<1>2. CASE PanelRestarts
  <2>1. \A d \in Deployments : job'[d].vol = job[d].vol /\ job'[d].color = job[d].color
    BY <1>2 DEF PanelRestarts, TypeOK, Job
  <2> QED BY <1>2, <2>1 DEF PanelRestarts, VolumesStayPlain
<1>3. ASSUME NEW on \in BOOLEAN, Power(on) PROVE VolumesStayPlain'
  <2>1. \A c \in Colors : inst'[c].vol = inst[c].vol
    BY <1>3 DEF Power, TypeOK, Instance
  <2> QED BY <1>3, <2>1 DEF Power, VolumesStayPlain
<1>4. CASE RemoveFromNode
  BY <1>4 DEF RemoveFromNode, Absent, VolumesStayPlain
<1> QED BY <1>1, <1>2, <1>3, <1>4 DEF UserStep

\* Under every fault and every edit, even when the deploy lock is lost, at most
\* one container of the service mounts its volumes.
THEOREM VolumesExclude == Spec => []VolumeExclusive
<1>1. Init => VolumesStayPlain
  BY DEF Init, VolumesStayPlain, NewJob, Absent
<1>2. TypeOK /\ VolumesStayPlain /\ [Next]_vars => VolumesStayPlain'
  <2> SUFFICES ASSUME TypeOK, VolumesStayPlain, [Next]_vars PROVE VolumesStayPlain'
    OBVIOUS
  <2>1. CASE UNCHANGED vars
    BY <2>1 DEF vars, VolumesStayPlain
  <2>2. CASE LockExpires \/ PanelRestarts \/ UserStep
    BY <2>2, VolumesEnvironment
  <2> QED BY <2>1, <2>2, VolumesStep DEF Next
<1>3. VolumesStayPlain => VolumeExclusive
  BY DEF VolumesStayPlain, VolumeExclusive
<1> QED BY <1>1, <1>2, <1>3, PipelineTypes, PTL DEF Spec

-----------------------------------------------------------------------------
(* Images.                                                                  *)

InUse == svc.present /\ removal = "idle"

AfterRun    == {"ran", "healthy", "promoted"}
AfterRecord == {"recorded", "success"}

\* What a deploy runs is on the node from its start to the end of its garbage collection, and
\* what it collects for is what it recorded.
ImagesStay ==
  svc.kind = "git" /\ InUse =>
    /\ CurrentImageKept
    /\ \A d \in Deployments :
         /\ job[d].pc \in AfterRun \cup AfterRecord => job[d].tag \in images
         /\ job[d].pc \in AfterRecord => job[d].tag = svc.image

\* A removal is not given up half way.
RemovalEnds == ("remove" \notin Env => removal = "idle") /\ ("remove" \notin Env \/ MaxRestarts = 0)

LEMMA GotoDoes ==
  ASSUME TypeOK, NEW d \in Deployments, NEW pc \in Pcs, Goto(d, pc)
  PROVE  /\ job'[d].pc = pc /\ job'[d].tag = job[d].tag /\ job'[d].color = job[d].color
         /\ \A e \in Deployments \ {d} : job'[e] = job[e]
BY DEF Goto, TypeOK, Job

\* Steps that take no image away and record nothing.
LEMMA ImagesFrame ==
  ASSUME ImagesStay, svc'.kind = svc.kind, svc'.image = svc.image, images \subseteq images', InUse' => InUse,
         \A e \in Deployments :
           /\ job'[e].pc \in AfterRun => job[e].pc \in AfterRun
           /\ job'[e].pc \in AfterRecord => job[e].pc \in AfterRecord
           /\ job'[e].pc \in AfterRun \cup AfterRecord => job'[e].tag = job[e].tag
  PROVE  ImagesStay'
BY DEF ImagesStay, CurrentImageKept, InUse

LEMMA RequestImages ==
  ASSUME TypeOK, ImagesStay, NEW d \in Deployments, RequestDeploy(d) \/ RequestStep(d)
  PROVE  ImagesStay'
<1>1. CASE RequestDeploy(d)
  <2>1. job'[d].pc = "locked" /\ \A e \in Deployments \ {d} : job'[e] = job[e]
    <3>1. PICK t : job' = [job EXCEPT ![d] = [NewJob EXCEPT !.pc = "locked", !.rollback = t]]
      BY <1>1 DEF RequestDeploy
    <3> QED BY <3>1 DEF TypeOK, NewJob
  <2> QED BY <1>1, <2>1, ImagesFrame DEF RequestDeploy, AfterRun, AfterRecord, InUse
<1>2. CASE RequestStep(d)
  <2>1. /\ svc' = svc /\ images' = images /\ removal' = removal
        /\ \E pc \in {"inserted", "queued", "over"} : Goto(d, pc)
    BY <1>2 DEF RequestStep, InsertDeployment, EnqueueJob, RequestFails, EnqueueReplyLost
  <2>2. /\ job'[d].pc \in {"inserted", "queued", "over"}
        /\ \A e \in Deployments \ {d} : job'[e] = job[e]
    BY <2>1, GotoDoes DEF Pcs, RequestPcs
  <2> QED BY <2>1, <2>2, ImagesFrame DEF AfterRun, AfterRecord, InUse
<1> QED BY <1>1, <1>2

\* The worker's steps up to the running container, and its failures.
LEMMA BuildImages ==
  ASSUME TypeOK, ImagesStay, NEW d \in Deployments,
         \/ TakeJob(d) \/ TakeJobThrows(d) \/ ReuseImage(d) \/ BeginBuild(d) \/ BuildSucceeds(d)
         \/ BuildFails(d) \/ RunFails(d) \/ RunReplyLost(d) \/ HealthTimesOut(d)
         \/ SwitchOverReplyLost(d) \/ StepThrows(d) \/ RecordFailure(d) \/ ReleaseLock(d) \/ AckJob(d)
  PROVE  ImagesStay'
<1>1. /\ svc'.kind = svc.kind /\ svc'.image = svc.image /\ svc'.present = svc.present
      /\ images \subseteq images' /\ removal' = removal
  BY DEF TakeJob, TakeJobThrows, ReuseImage, BeginBuild, BuildSucceeds, BuildFails, RunFails,
     RunReplyLost, HealthTimesOut, SwitchOverReplyLost, StepThrows, RecordFailure, ReleaseLock,
     AckJob, SetStatus, TypeOK, Service
<1>2. /\ job'[d].pc \in {"loaded", "over", "built", "building", "failing", "final", "returning"}
      /\ \A e \in Deployments \ {d} : job'[e] = job[e]
  <2>1. CASE TakeJob(d)
    BY <2>1 DEF TakeJob, TypeOK, Job
  <2>2. CASE ~TakeJob(d)
    <3>1. \E pc \in {"over", "built", "building", "failing", "final", "returning"} : Goto(d, pc)
      BY <2>2 DEF TakeJobThrows, ReuseImage, BeginBuild, BuildSucceeds, BuildFails, RunFails,
         RunReplyLost, HealthTimesOut, SwitchOverReplyLost, StepThrows, RecordFailure,
         ReleaseLock, AckJob
    <3> QED BY <3>1, GotoDoes DEF Pcs, WorkerPcs, TryPcs
  <2> QED BY <2>1, <2>2
<1> QED BY <1>1, <1>2, ImagesFrame DEF AfterRun, AfterRecord, InUse

LEMMA SwitchImages ==
  ASSUME TypeOK, ImagesStay, NEW d \in Deployments,
         HealthPasses(d) \/ SwitchOver(d) \/ RetireColors(d) \/ RecordSuccess(d)
  PROVE  ImagesStay'
<1>1. svc' = svc /\ images' = images /\ removal' = removal
  BY DEF HealthPasses, SwitchOver, RetireColors, RecordSuccess
<1>2. \/ job[d].pc \in AfterRun /\ \E pc \in {"healthy", "promoted"} : Goto(d, pc)
      \/ job[d].pc \in AfterRecord /\ \E pc \in {"success", "final"} : Goto(d, pc)
  BY DEF HealthPasses, SwitchOver, RetireColors, RecordSuccess, AfterRun, AfterRecord
<1>3. /\ job'[d].tag = job[d].tag
      /\ job'[d].pc \in AfterRun => job[d].pc \in AfterRun
      /\ job'[d].pc \in AfterRecord => job[d].pc \in AfterRecord
      /\ \A e \in Deployments \ {d} : job'[e] = job[e]
  BY <1>2, GotoDoes DEF AfterRun, AfterRecord, Pcs, WorkerPcs, TryPcs
<1> QED BY <1>1, <1>3, ImagesFrame DEF InUse

\* A container is started, the row is written, and the other images are collected.
LEMMA RecordImages ==
  ASSUME TypeOK, HolderOwnsLock, ImagesStay, NEW d \in Deployments,
         ComposeUp(d) \/ RunSucceeds(d) \/ RecordRunning(d) \/ CollectGarbage(d)
  PROVE  ImagesStay'
<1> SUFFICES ASSUME svc'.kind = "git", InUse' PROVE ImagesStay'
  BY DEF ImagesStay
<1>1. svc.kind = "git" /\ InUse
  BY DEF ComposeUp, RunSucceeds, RecordRunning, CollectGarbage, InUse, TypeOK, Service
<1>2. ASSUME NEW e \in Deployments, job[d].pc \in Holding, job[e].pc \in Holding PROVE e = d
  BY <1>2 DEF HolderOwnsLock
<1>3. /\ AfterRun \cup AfterRecord \subseteq Holding
      /\ "built" \in Holding
  BY HoldingPcs DEF AfterRun, AfterRecord
<1>4. CASE RunSucceeds(d)
  <2>1. /\ svc' = svc /\ images' = images /\ removal' = removal
        /\ job[d].tag \in images /\ job[d].pc = "built" /\ Goto(d, "ran")
    BY <1>1, <1>4 DEF RunSucceeds, ImageOnNode
  <2>2. job'[d].pc = "ran" /\ job'[d].tag = job[d].tag /\ \A e \in Deployments \ {d} : job'[e] = job[e]
    BY <2>1, GotoDoes DEF Pcs, WorkerPcs, TryPcs
  <2> QED BY <1>1, <2>1, <2>2 DEF ImagesStay, CurrentImageKept, AfterRun, AfterRecord
<1>5. CASE RecordRunning(d)
  <2>1. /\ svc'.image = job[d].tag /\ images' = images /\ job[d].pc = "promoted" /\ Goto(d, "recorded")
    BY <1>1, <1>5 DEF RecordRunning, InUse, TypeOK, Service
  <2>2. job'[d].pc = "recorded" /\ job'[d].tag = job[d].tag /\ \A e \in Deployments \ {d} : job'[e] = job[e]
    BY <2>1, GotoDoes DEF Pcs, WorkerPcs, TryPcs
  <2>3. job[d].tag \in images
    BY <1>1, <2>1 DEF ImagesStay, AfterRun
  <2>4. \A e \in Deployments \ {d} : job'[e].pc \notin AfterRun \cup AfterRecord
    BY <1>2, <1>3, <2>1, <2>2 DEF AfterRun
  <2> QED BY <2>1, <2>2, <2>3, <2>4 DEF ImagesStay, CurrentImageKept
<1>6. CASE CollectGarbage(d)
  <2>1. /\ svc' = svc /\ job[d].pc = "success" /\ Goto(d, "final")
        /\ images' = images \/ images' = images \cap {job[d].tag}
    BY <1>6 DEF CollectGarbage, Collected
  <2>2. job'[d].pc = "final" /\ \A e \in Deployments \ {d} : job'[e] = job[e]
    BY <2>1, GotoDoes DEF Pcs, WorkerPcs
  <2>3. job[d].tag \in images /\ job[d].tag = svc.image
    BY <1>1, <2>1 DEF ImagesStay, AfterRecord
  <2>4. \A e \in Deployments : job'[e].pc \notin AfterRun \cup AfterRecord
    BY <1>2, <1>3, <2>1, <2>2 DEF AfterRun, AfterRecord
  <2> QED BY <2>1, <2>3, <2>4 DEF ImagesStay, CurrentImageKept
<1> QED BY <1>1, <1>4, <1>5, <1>6 DEF ComposeUp

LEMMA EnvironmentImages ==
  ASSUME TypeOK, RemovalEnds, ImagesStay, LockExpires \/ PanelRestarts \/ UserStep
  PROVE  ImagesStay'
<1>1. CASE LockExpires
  BY <1>1, ImagesFrame DEF LockExpires, InUse
<1>2. CASE PanelRestarts
  <2>1. \A e \in Deployments : \/ job'[e] = job[e]
                               \/ job'[e].pc \in {"over", "queued"}
    BY <1>2 DEF PanelRestarts, TypeOK, Job
  <2>2. removal = "idle"
    <3>1. restarts \in 0..MaxRestarts /\ restarts < MaxRestarts
      BY <1>2 DEF PanelRestarts, TypeOK
    <3>2. MaxRestarts # 0
      BY <3>1, BoundsAssumption
    <3> QED BY <3>2 DEF RemovalEnds
  <2>3. \A e \in Deployments :
          /\ job'[e].pc \in AfterRun => job[e].pc \in AfterRun
          /\ job'[e].pc \in AfterRecord => job[e].pc \in AfterRecord
          /\ job'[e].pc \in AfterRun \cup AfterRecord => job'[e].tag = job[e].tag
    BY <2>1 DEF AfterRun, AfterRecord
  <2>4. svc' = svc /\ images' = images /\ (InUse' => InUse)
    BY <1>2, <2>2 DEF PanelRestarts, InUse
  <2> QED BY <2>3, <2>4, ImagesFrame
<1>3. ASSUME NEW on \in BOOLEAN, Power(on) PROVE ImagesStay'
  <2>1. /\ svc'.kind = svc.kind /\ svc'.image = svc.image /\ svc'.present = svc.present
        /\ job' = job /\ images' = images /\ removal' = removal
    BY <1>3 DEF Power, TypeOK, Service
  <2> QED BY <2>1, ImagesFrame DEF InUse
<1>4. CASE RemoveFromNode \/ RemoveRow
  <2>1. ~InUse'
    BY <1>4 DEF RemoveFromNode, RemoveRow, InUse, TypeOK, Service
  <2> QED BY <2>1 DEF ImagesStay
<1>5. CASE EditSettings
  <2>1. /\ svc'.kind = svc.kind /\ svc'.image = svc.image /\ svc'.present = svc.present
        /\ job' = job /\ images' = images /\ removal' = removal
    BY <1>5 DEF EditSettings, TypeOK, Service, Settings
  <2> QED BY <2>1, ImagesFrame DEF InUse
<1> QED BY <1>1, <1>2, <1>3, <1>4, <1>5 DEF UserStep

LEMMA RemovalStep == ASSUME RemovalEnds, [Next]_vars PROVE RemovalEnds'
BY DEF RemovalEnds, Next, vars, RequestStep, WorkerStep, UserStep, RequestDeploy, InsertDeployment,
   EnqueueJob, RequestFails, EnqueueReplyLost, TakeJob, TakeJobThrows, ReuseImage, BeginBuild,
   BuildSucceeds, BuildFails, ComposeUp, RunSucceeds, RunFails, RunReplyLost, HealthPasses,
   HealthTimesOut, SwitchOver, SwitchOverReplyLost, RetireColors, RecordRunning, RecordSuccess,
   CollectGarbage, StepThrows, RecordFailure, ReleaseLock, AckJob, LockExpires, PanelRestarts,
   Power, RemoveFromNode, RemoveRow, EditSettings

LEMMA ImagesStep ==
  ASSUME TypeOK, HolderOwnsLock, RemovalEnds, ImagesStay, [Next]_vars
  PROVE  ImagesStay'
<1>1. CASE UNCHANGED vars
  BY <1>1 DEF vars, ImagesStay, CurrentImageKept, InUse
<1>2. ASSUME NEW d \in Deployments, WorkerStep(d) PROVE ImagesStay'
  BY <1>2, BuildImages, SwitchImages, RecordImages DEF WorkerStep
<1> QED BY <1>1, <1>2, RequestImages, EnvironmentImages DEF Next

\* Under the exclusion of deploys, and unless the panel dies while it deletes the service, the
\* recorded image of a service built from git stays on its node: no garbage collection of any
\* other deploy takes it, however builds, rollbacks and failures alternate.
THEOREM RecordedImageStays ==
  ASSUME "ack_lost" \notin Env, "lock_overrun" \notin Env, "remove" \notin Env \/ MaxRestarts = 0
  PROVE  Spec => []CurrentImageKept
<1> DEFINE Inv == HolderOwnsLock /\ RemovalEnds /\ ImagesStay
<1>1. Init => Inv
  <2>1. Init => ImagesStay
    BY DEF Init, ImagesStay, CurrentImageKept, NewJob, AfterRun, AfterRecord
  <2>2. Init => RemovalEnds
    BY DEF Init, RemovalEnds
  <2> QED BY <2>1, <2>2, HolderInit
<1>2. TypeOK /\ Inv /\ [Next]_vars => Inv'
  BY HolderStep, RemovalStep, ImagesStep
<1>3. Inv => CurrentImageKept
  BY DEF ImagesStay, CurrentImageKept, InUse
<1> QED BY <1>1, <1>2, <1>3, PipelineTypes, PTL DEF Spec

-----------------------------------------------------------------------------
(* Colors.                                                                  *)

\* What would part the services row from the node: an answer, a write or a worker that is lost
\* between the switchover and the row.
NothingLost == "reply_lost" \notin Env /\ "db_error" \notin Env /\ MaxRestarts = 0

BeforeSwitch == {"loaded", "building", "built", "ran", "healthy"}

\* Only a service built from git has colored containers.
ColorsOfGit == svc.kind # "git" => \A d \in Deployments : job[d].color = "plain"

\* A deploy works on another container than the recorded one, and what it started is there.
ColorsStay ==
  InUse =>
    /\ ActiveColorLive
    /\ \A d \in Deployments :
         /\ job[d].pc \in BeforeSwitch => job[d].color = "plain" \/ job[d].color # svc.color
         /\ job[d].pc \in AfterRun => inst[job[d].color].tag = job[d].tag

\* Steps that start and retire nothing.
LEMMA ColorsFrame ==
  ASSUME TypeOK, ColorsStay, svc'.color = svc.color, svc'.image = svc.image, InUse' => InUse,
         \A c \in Colors : inst'[c].tag = inst[c].tag,
         \A e \in Deployments :
           /\ job'[e].pc \in BeforeSwitch => job[e].pc \in BeforeSwitch
           /\ job'[e].pc \in AfterRun => job[e].pc \in AfterRun
           /\ job'[e].pc \in BeforeSwitch \cup AfterRun =>
                job'[e].color = job[e].color /\ job'[e].tag = job[e].tag
           /\ job[e].pc = "promoted" => job'[e].pc = "promoted"
  PROVE  ColorsStay'
<1>1. svc.color \in Colors /\ \A e \in Deployments : job[e].color \in Colors
  BY DEF TypeOK, Service, Job
<1> QED BY <1>1 DEF ColorsStay, ActiveColorLive, InUse

\* Steps of a deploy that change its container, and perhaps the one it replaces.
LEMMA ColorsTouched ==
  ASSUME TypeOK, HolderOwnsLock, ColorsStay, NEW d \in Deployments, job[d].pc \in BeforeSwitch,
         svc'.color = svc.color, svc'.image = svc.image, InUse' => InUse,
         \A e \in Deployments \ {d} : job'[e] = job[e],
         job'[d].color = job[d].color, job'[d].tag = job[d].tag,
         \/ /\ job'[d].pc \in {"failing", "ran"}
            /\ \A c \in Colors \ {job[d].color} : inst'[c] = inst[c]
         \/ job'[d].pc = "promoted",
         job'[d].pc \in AfterRun => inst'[job[d].color].tag = job[d].tag
  PROVE  ColorsStay'
<1> SUFFICES ASSUME InUse' PROVE ColorsStay'
  BY DEF ColorsStay
<1>1. svc.color \in Colors /\ job[d].color \in Colors
  BY DEF TypeOK, Service, Job
<1>2. BeforeSwitch \cup AfterRun \subseteq Holding
  BY HoldingPcs DEF BeforeSwitch, AfterRun
<1>3. \A e \in Deployments \ {d} : job'[e].pc \notin BeforeSwitch \cup AfterRun
  BY <1>2 DEF HolderOwnsLock
<1>4. \A e \in Deployments : job[e].pc # "promoted"
  BY <1>2, <1>3 DEF AfterRun, BeforeSwitch
<1>5. job[d].color = "plain" \/ job[d].color # svc.color
  BY DEF ColorsStay
<1>6. ActiveColorLive'
  <2>1. CASE job'[d].pc = "promoted"
    BY <2>1 DEF ActiveColorLive
  <2>2. CASE job'[d].pc # "promoted" /\ svc.color # "plain"
    BY <1>1, <1>4, <1>5, <2>2 DEF ActiveColorLive, ColorsStay, InUse
  <2>3. CASE svc.color = "plain"
    BY <2>3 DEF ActiveColorLive
  <2> QED BY <2>1, <2>2, <2>3
<1>7. job'[d].pc \in BeforeSwitch => job'[d].color = "plain" \/ job'[d].color # svc'.color
  BY <1>5
<1> QED BY <1>3, <1>6, <1>7 DEF ColorsStay

LEMMA QuietColors ==
  ASSUME TypeOK, NothingLost, ColorsStay, NEW d \in Deployments,
         \/ RequestDeploy(d) \/ RequestStep(d)
         \/ TakeJobThrows(d) \/ ReuseImage(d) \/ BeginBuild(d) \/ BuildSucceeds(d) \/ HealthPasses(d)
         \/ RecordSuccess(d) \/ CollectGarbage(d) \/ StepThrows(d) \/ RecordFailure(d)
         \/ ReleaseLock(d) \/ AckJob(d)
  PROVE  ColorsStay'
<1>1. /\ inst' = inst /\ removal' = removal /\ svc'.color = svc.color /\ svc'.image = svc.image
      /\ svc'.present = svc.present
  BY DEF RequestDeploy, RequestStep, InsertDeployment, EnqueueJob, RequestFails, EnqueueReplyLost,
     TakeJobThrows, ReuseImage, BeginBuild, BuildSucceeds, HealthPasses, RecordSuccess,
     CollectGarbage, StepThrows, RecordFailure, ReleaseLock, AckJob, SetStatus, TypeOK, Service
<1>2. CASE RequestDeploy(d)
  <2>1. PICK t : job' = [job EXCEPT ![d] = [NewJob EXCEPT !.pc = "locked", !.rollback = t]]
    BY <1>2 DEF RequestDeploy
  <2>2. job'[d].pc = "locked" /\ \A e \in Deployments \ {d} : job'[e] = job[e]
    BY <2>1 DEF TypeOK, NewJob
  <2> QED BY <1>1, <1>2, <2>2, ColorsFrame DEF RequestDeploy, InUse, BeforeSwitch, AfterRun
<1>3. CASE ~RequestDeploy(d)
  <2>1. \/ job[d].pc \notin BeforeSwitch \cup AfterRun /\ \E pc \in Pcs \ (BeforeSwitch \cup AfterRun) : Goto(d, pc)
        \/ job[d].pc \in BeforeSwitch /\ \E pc \in BeforeSwitch \cup {"failing"} :
             Goto(d, pc) /\ (pc \in AfterRun => job[d].pc \in AfterRun)
    BY <1>3 DEF RequestStep, InsertDeployment, EnqueueJob, RequestFails, EnqueueReplyLost,
       TakeJobThrows, ReuseImage, BeginBuild, BuildSucceeds, HealthPasses, RecordSuccess,
       CollectGarbage, StepThrows, RecordFailure, ReleaseLock, AckJob, NothingLost,
       BeforeSwitch, AfterRun, Pcs, WorkerPcs, TryPcs, RequestPcs
  <2>2. /\ job'[d].tag = job[d].tag /\ job'[d].color = job[d].color
        /\ \A e \in Deployments \ {d} : job'[e] = job[e]
        /\ job'[d].pc \in BeforeSwitch => job[d].pc \in BeforeSwitch
        /\ job'[d].pc \in AfterRun => job[d].pc \in AfterRun
        /\ job[d].pc # "promoted"
    BY <2>1, GotoDoes DEF BeforeSwitch, AfterRun, Pcs, WorkerPcs, TryPcs
  <2> QED BY <1>1, <2>2, ColorsFrame DEF InUse
<1> QED BY <1>2, <1>3

LEMMA TakeColors ==
  ASSUME TypeOK, ColorsStay, NEW d \in Deployments, TakeJob(d)
  PROVE  ColorsStay'
<1>1. /\ job'[d].pc = "loaded" /\ job'[d].color = TargetColor
      /\ \A e \in Deployments \ {d} : job'[e] = job[e]
      /\ svc' = svc /\ inst' = inst /\ removal' = removal /\ job[d].pc = "queued"
  BY DEF TakeJob, TypeOK, Job
<1>2. TargetColor = "plain" \/ TargetColor # svc.color
  BY DEF TargetColor, OtherColor
<1>3. ActiveColorLive => ActiveColorLive'
  BY <1>1 DEF ActiveColorLive
<1> QED BY <1>1, <1>2, <1>3 DEF ColorsStay, InUse, AfterRun

\* One container of the service is started, or removed.
LEMMA StartColors ==
  ASSUME TypeOK, NothingLost, HolderOwnsLock, ColorsOfGit, ColorsStay, NEW d \in Deployments,
         \/ BuildFails(d) \/ ComposeUp(d) \/ RunSucceeds(d) \/ RunFails(d) \/ RunReplyLost(d)
         \/ HealthTimesOut(d)
  PROVE  ColorsStay'
<1>1. /\ job[d].pc \in BeforeSwitch
      /\ \E pc \in {"failing", "ran", "promoted"} : Goto(d, pc)
      /\ svc' = svc /\ removal' = removal
  BY DEF BuildFails, ComposeUp, RunSucceeds, RunFails, RunReplyLost, HealthTimesOut, BeforeSwitch
<1>2. /\ job'[d].pc \in {"failing", "ran", "promoted"}
      /\ job'[d].tag = job[d].tag /\ job'[d].color = job[d].color
      /\ \A e \in Deployments \ {d} : job'[e] = job[e]
  BY <1>1, GotoDoes DEF Pcs, WorkerPcs, TryPcs
<1>3. ASSUME NEW good \in BOOLEAN, inst' = [inst EXCEPT ![job[d].color] = Started(d, good)]
      PROVE  /\ \A c \in Colors \ {job[d].color} : inst'[c] = inst[c]
             /\ inst'[job[d].color].tag = job[d].tag
  BY <1>3 DEF Started, TypeOK, Job
<1>4. CASE ComposeUp(d) \/ RunSucceeds(d) \/ RunReplyLost(d)
  <2>1. \E good \in BOOLEAN : inst' = [inst EXCEPT ![job[d].color] = Started(d, good)]
    BY <1>4 DEF ComposeUp, RunSucceeds, RunReplyLost, ColorsOfGit
  <2> QED BY <1>1, <1>2, <1>3, <2>1, ColorsTouched DEF InUse
<1>5. CASE BuildFails(d) \/ RunFails(d) \/ HealthTimesOut(d)
  <2>1. job'[d].pc = "failing"
    BY <1>5, GotoDoes DEF BuildFails, RunFails, HealthTimesOut, Pcs, WorkerPcs
  <2>2. \A c \in Colors \ {job[d].color} : inst'[c] = inst[c]
    BY <1>5 DEF BuildFails, RunFails, HealthTimesOut, ColorsOfGit, TypeOK
  <2> QED BY <1>1, <1>2, <2>1, <2>2, ColorsTouched DEF InUse, AfterRun
<1> QED BY <1>4, <1>5

\* The other containers are retired, and the row is written.
LEMMA SwitchColors ==
  ASSUME TypeOK, NothingLost, HolderOwnsLock, ColorsStay, NEW d \in Deployments,
         SwitchOver(d) \/ SwitchOverReplyLost(d) \/ RetireColors(d) \/ RecordRunning(d)
  PROVE  ColorsStay'
<1>1. CASE SwitchOver(d) \/ RetireColors(d)
  <2>1. /\ job[d].pc \in BeforeSwitch /\ job[d].pc \in AfterRun /\ Goto(d, "promoted")
        /\ svc' = svc /\ removal' = removal
    BY <1>1 DEF SwitchOver, RetireColors, BeforeSwitch, AfterRun
  <2>2. job'[d].pc = "promoted" /\ job'[d].tag = job[d].tag /\ job'[d].color = job[d].color
        /\ \A e \in Deployments \ {d} : job'[e] = job[e]
    BY <2>1, GotoDoes DEF Pcs, WorkerPcs, TryPcs
  <2>3. inst'[job[d].color] = inst[job[d].color]
    BY <1>1 DEF SwitchOver, RetireColors, KeepOnly, TypeOK, Job
  <2>4. InUse => inst[job[d].color].tag = job[d].tag
    BY <2>1 DEF ColorsStay
  <2>5. CASE InUse
    BY <2>1, <2>2, <2>3, <2>4, <2>5, ColorsTouched DEF InUse
  <2>6. CASE ~InUse
    BY <2>1, <2>6 DEF ColorsStay, InUse
  <2> QED BY <2>5, <2>6
<1>2. CASE RecordRunning(d)
  <2> SUFFICES ASSUME InUse' PROVE ColorsStay'
    BY DEF ColorsStay
  <2>1. /\ svc'.color = job[d].color /\ svc'.image = job[d].tag
        /\ inst' = inst /\ job[d].pc = "promoted" /\ Goto(d, "recorded") /\ InUse
    BY <1>2 DEF RecordRunning, InUse, TypeOK, Service
  <2>2. job'[d].pc = "recorded" /\ \A e \in Deployments \ {d} : job'[e] = job[e]
    BY <2>1, GotoDoes DEF Pcs, WorkerPcs, TryPcs
  <2>3. BeforeSwitch \cup AfterRun \subseteq Holding /\ "promoted" \in Holding
    BY HoldingPcs DEF BeforeSwitch, AfterRun
  <2>4. \A e \in Deployments : job'[e].pc \notin BeforeSwitch \cup AfterRun
    BY <2>1, <2>2, <2>3 DEF HolderOwnsLock, BeforeSwitch, AfterRun
  <2>5. inst[job[d].color].tag = job[d].tag
    BY <2>1 DEF ColorsStay, AfterRun
  <2> QED BY <2>1, <2>4, <2>5 DEF ColorsStay, ActiveColorLive
<1> QED BY <1>1, <1>2 DEF SwitchOverReplyLost, NothingLost

LEMMA EnvironmentColors ==
  ASSUME TypeOK, NothingLost, ColorsStay, LockExpires \/ PanelRestarts \/ UserStep
  PROVE  ColorsStay'
<1>1. CASE LockExpires
  BY <1>1, ColorsFrame DEF LockExpires, InUse
<1>2. CASE PanelRestarts
  <2>1. restarts \in 0..MaxRestarts /\ restarts < MaxRestarts
    BY <1>2 DEF PanelRestarts, TypeOK
  <2> QED BY <2>1 DEF NothingLost
<1>3. ASSUME NEW on \in BOOLEAN, Power(on) PROVE ColorsStay'
  <2>1. /\ svc'.color = svc.color /\ svc'.image = svc.image /\ svc'.present = svc.present
        /\ job' = job /\ removal' = removal
    BY <1>3 DEF Power, TypeOK, Service
  <2>2. \A c \in Colors : inst'[c].tag = inst[c].tag
    BY <1>3 DEF Power, TypeOK, Instance
  <2> QED BY <2>1, <2>2, ColorsFrame DEF InUse
<1>4. CASE RemoveFromNode \/ RemoveRow
  <2>1. ~InUse'
    BY <1>4 DEF RemoveFromNode, RemoveRow, InUse, TypeOK, Service
  <2> QED BY <2>1 DEF ColorsStay
<1>5. CASE EditSettings
  <2>1. /\ svc'.color = svc.color /\ svc'.image = svc.image /\ svc'.present = svc.present
        /\ job' = job /\ inst' = inst /\ removal' = removal
    BY <1>5 DEF EditSettings, TypeOK, Service, Settings
  <2> QED BY <2>1, ColorsFrame DEF InUse
<1> QED BY <1>1, <1>2, <1>3, <1>4, <1>5 DEF UserStep

\* No step changes what kind of service it is.
LEMMA KindFixed == ASSUME TypeOK, [Next]_vars PROVE svc'.kind = svc.kind
<1>1. svc \in [present : BOOLEAN, kind : Kinds,
                status : {"CREATED", "BUILDING", "RUNNING", "STOPPED", "ERROR"}, color : Colors,
                image : Tags \cup {NoTag}, ref : Tags \cup {NoTag}, cfg : Settings]
  BY DEF TypeOK, Service
<1>2. ASSUME NEW s, SetStatus(s) PROVE svc'.kind = svc.kind
  BY <1>1, <1>2 DEF SetStatus
<1>3. ASSUME NEW d \in Deployments, RequestDeploy(d) \/ RequestStep(d) PROVE svc'.kind = svc.kind
  BY <1>3 DEF RequestDeploy, RequestStep, InsertDeployment, EnqueueJob, RequestFails, EnqueueReplyLost
<1>4. ASSUME NEW d \in Deployments, TakeJob(d) \/ TakeJobThrows(d) \/ ReuseImage(d) \/ BeginBuild(d)
                \/ BuildSucceeds(d) \/ BuildFails(d) \/ ComposeUp(d)
      PROVE  svc'.kind = svc.kind
  BY <1>2, <1>4 DEF TakeJob, TakeJobThrows, ReuseImage, BeginBuild, BuildSucceeds, BuildFails, ComposeUp
<1>5. ASSUME NEW d \in Deployments, RunSucceeds(d) \/ RunFails(d) \/ RunReplyLost(d)
                \/ HealthPasses(d) \/ HealthTimesOut(d) \/ SwitchOver(d)
                \/ SwitchOverReplyLost(d) \/ RetireColors(d)
      PROVE  svc'.kind = svc.kind
  BY <1>2, <1>5 DEF RunSucceeds, RunFails, RunReplyLost, HealthPasses, HealthTimesOut,
     SwitchOver, SwitchOverReplyLost, RetireColors
<1>6. ASSUME NEW d \in Deployments, RecordRunning(d) PROVE svc'.kind = svc.kind
  BY <1>1, <1>6 DEF RecordRunning
<1>7. ASSUME NEW d \in Deployments, RecordSuccess(d) \/ CollectGarbage(d) \/ StepThrows(d)
                \/ RecordFailure(d) \/ ReleaseLock(d) \/ AckJob(d)
      PROVE  svc'.kind = svc.kind
  BY <1>2, <1>7 DEF RecordSuccess, CollectGarbage, StepThrows, RecordFailure, ReleaseLock, AckJob
<1>8. CASE LockExpires \/ PanelRestarts \/ RemoveFromNode \/ RemoveRow \/ UNCHANGED vars
  BY <1>1, <1>8 DEF LockExpires, PanelRestarts, RemoveFromNode, RemoveRow, vars
<1>9. ASSUME NEW on \in BOOLEAN, Power(on) PROVE svc'.kind = svc.kind
  BY <1>1, <1>9 DEF Power
<1>10. CASE EditSettings
  BY <1>1, <1>10 DEF EditSettings
<1> QED
  BY <1>3, <1>4, <1>5, <1>6, <1>7, <1>8, <1>9, <1>10 DEF Next, WorkerStep, UserStep

LEMMA ColorsOfGitStep == ASSUME TypeOK, ColorsOfGit, [Next]_vars PROVE ColorsOfGit'
<1>1. svc'.kind = svc.kind
  BY KindFixed
<1>2. ASSUME NEW d \in Deployments, RequestDeploy(d) PROVE ColorsOfGit'
  <2>1. PICK t : job' = [job EXCEPT ![d] = [NewJob EXCEPT !.pc = "locked", !.rollback = t]]
    BY <1>2 DEF RequestDeploy
  <2>2. job'[d].color = "plain" /\ \A e \in Deployments \ {d} : job'[e] = job[e]
    BY <2>1 DEF TypeOK, NewJob
  <2> QED BY <1>1, <2>2 DEF ColorsOfGit
<1>3. ASSUME NEW d \in Deployments, TakeJob(d) PROVE ColorsOfGit'
  <2>1. job'[d].color = TargetColor /\ \A e \in Deployments \ {d} : job'[e] = job[e]
    BY <1>3 DEF TakeJob, TypeOK, Job
  <2>2. svc.kind # "git" => TargetColor = "plain"
    BY DEF TargetColor
  <2> QED BY <1>1, <2>1, <2>2 DEF ColorsOfGit
<1>4. ASSUME NEW d \in Deployments, RequestStep(d) \/ (WorkerStep(d) /\ ~TakeJob(d)) PROVE ColorsOfGit'
  <2>1. \E pc \in Pcs : Goto(d, pc)
    BY <1>4 DEF RequestStep, InsertDeployment, EnqueueJob, RequestFails, EnqueueReplyLost,
       WorkerStep, TakeJobThrows, ReuseImage, BeginBuild, BuildSucceeds, BuildFails,
       ComposeUp, RunSucceeds, RunFails, RunReplyLost, HealthPasses, HealthTimesOut, SwitchOver,
       SwitchOverReplyLost, RetireColors, RecordRunning, RecordSuccess, CollectGarbage,
       StepThrows, RecordFailure, ReleaseLock, AckJob, Pcs, WorkerPcs, TryPcs, RequestPcs
  <2>2. \A e \in Deployments : job'[e].color = job[e].color
    BY <2>1, GotoDoes
  <2> QED BY <1>1, <2>2 DEF ColorsOfGit
<1>5. CASE PanelRestarts
  <2>1. \A e \in Deployments : job'[e].color = job[e].color
    BY <1>5 DEF PanelRestarts, TypeOK, Job
  <2> QED BY <1>1, <2>1 DEF ColorsOfGit
<1>6. CASE LockExpires \/ UserStep \/ UNCHANGED vars
  <2>1. job' = job
    BY <1>6 DEF LockExpires, UserStep, Power, RemoveFromNode, RemoveRow, EditSettings, vars
  <2> QED BY <1>1, <2>1 DEF ColorsOfGit
<1> QED BY <1>2, <1>3, <1>4, <1>5, <1>6 DEF Next

LEMMA ColorsStep ==
  ASSUME TypeOK, NothingLost, HolderOwnsLock, ColorsOfGit, ColorsStay, [Next]_vars
  PROVE  ColorsStay'
<1>1. CASE UNCHANGED vars
  BY <1>1 DEF vars, ColorsStay, ActiveColorLive, InUse
<1>2. ASSUME NEW d \in Deployments, RequestDeploy(d) \/ RequestStep(d) \/ WorkerStep(d)
      PROVE  ColorsStay'
  BY <1>2, QuietColors, TakeColors, StartColors, SwitchColors DEF WorkerStep
<1> QED BY <1>1, <1>2, EnvironmentColors DEF Next

\* Under the exclusion of deploys, and as long as no answer, write or worker is lost between the
\* switchover and its record, the color in the row names the container that runs the recorded
\* image, however deploys fail, are edited, powered or removed.
THEOREM RecordedColorLives ==
  ASSUME "ack_lost" \notin Env, "lock_overrun" \notin Env, NothingLost
  PROVE  Spec => []ActiveColorLive
<1> DEFINE Inv == HolderOwnsLock /\ ColorsOfGit /\ ColorsStay
<1>1. Init => Inv
  <2>1. Init => ColorsStay
    BY DEF Init, ColorsStay, ActiveColorLive, NewJob, BeforeSwitch, AfterRun
  <2>2. Init => ColorsOfGit
    BY DEF Init, ColorsOfGit, NewJob
  <2> QED BY <2>1, <2>2, HolderInit
<1>2. TypeOK /\ Inv /\ [Next]_vars => Inv'
  BY HolderStep, ColorsOfGitStep, ColorsStep
<1>3. Inv => ActiveColorLive
  BY DEF ColorsStay, ActiveColorLive, InUse
<1> QED BY <1>1, <1>2, <1>3, PipelineTypes, PTL DEF Spec

-----------------------------------------------------------------------------
(* The old instance.                                                        *)

\* Users edit and delete the service, and nothing else goes wrong on the way.
Undisturbed == Env \subseteq {"edit", "remove"} /\ MaxRestarts = 0

Starting == {"loaded", "building", "built"}

\* Which containers can serve: before a deploy has started its own, the recorded one; until it
\* switches over, that and its own; from then on its own.
Alone ==
  /\ svc.kind # "git" => svc.color = "plain"
  /\ (\A d \in Deployments : job[d].pc \notin AfterRun)
     /\ (svc.present \/ \E d \in Deployments : job[d].pc \in Starting)
       => \A c \in Colors : Healthy(c) => c = svc.color
  /\ \A d \in Deployments :
       /\ job[d].pc \in BeforeSwitch => job[d].color = "plain" \/ job[d].color # svc.color
       /\ job[d].pc \in {"ran", "healthy"} =>
            \A c \in Colors : Healthy(c) => c = svc.color \/ c = job[d].color
       /\ job[d].pc = "promoted" => \A c \in Colors : Healthy(c) => c = job[d].color
       /\ job[d].pc = "healthy" => Healthy(job[d].color) \/ \A c \in Colors : ~Healthy(c)

\* Steps that leave the containers and the phases of a deploy alone.
LEMMA AloneFrame ==
  ASSUME TypeOK, Alone, svc'.kind = svc.kind, svc'.color = svc.color, svc'.present => svc.present,
         \/ inst' = inst
         \/ \A c \in Colors : ~inst'[c].good,
         \A e \in Deployments :
           /\ job'[e].pc \in Starting => job[e].pc \in Starting
           /\ job'[e].pc \in AfterRun \/ job[e].pc \in AfterRun => job'[e].pc = job[e].pc
           /\ job'[e].pc \in BeforeSwitch \cup AfterRun => job'[e].color = job[e].color
  PROVE  Alone'
<1>1. CASE inst' = inst
  BY <1>1 DEF Alone, Healthy, Starting, BeforeSwitch, AfterRun
<1>2. CASE \A c \in Colors : ~inst'[c].good
  BY <1>2 DEF Alone, Healthy, Starting, BeforeSwitch, AfterRun
<1> QED BY <1>1, <1>2

\* While one deploy is in progress the phases of the others do not matter.
LEMMA OthersIdle ==
  ASSUME TypeOK, HolderOwnsLock, NEW d \in Deployments, job[d].pc \in BeforeSwitch \cup AfterRun
  PROVE  \A e \in Deployments \ {d} : job[e].pc \notin BeforeSwitch \cup AfterRun
<1>1. BeforeSwitch \cup AfterRun \subseteq Holding
  BY HoldingPcs DEF BeforeSwitch, AfterRun
<1> QED BY <1>1 DEF HolderOwnsLock

LEMMA QuietAlone ==
  ASSUME TypeOK, Undisturbed, Alone, NEW d \in Deployments,
         \/ RequestDeploy(d) \/ RequestStep(d)
         \/ TakeJobThrows(d) \/ ReuseImage(d) \/ BeginBuild(d) \/ BuildSucceeds(d)
         \/ RecordSuccess(d) \/ CollectGarbage(d) \/ StepThrows(d) \/ RecordFailure(d)
         \/ ReleaseLock(d) \/ AckJob(d)
  PROVE  Alone'
<1>1. /\ inst' = inst /\ svc'.color = svc.color /\ svc'.kind = svc.kind /\ svc'.present = svc.present
  BY DEF RequestDeploy, RequestStep, InsertDeployment, EnqueueJob, RequestFails, EnqueueReplyLost,
     TakeJobThrows, ReuseImage, BeginBuild, BuildSucceeds, RecordSuccess,
     CollectGarbage, StepThrows, RecordFailure, ReleaseLock, AckJob, SetStatus, TypeOK, Service
<1>2. CASE RequestDeploy(d)
  <2>1. PICK t : job' = [job EXCEPT ![d] = [NewJob EXCEPT !.pc = "locked", !.rollback = t]]
    BY <1>2 DEF RequestDeploy
  <2>2. job'[d].pc = "locked" /\ \A e \in Deployments \ {d} : job'[e] = job[e]
    BY <2>1 DEF TypeOK, NewJob
  <2> QED BY <1>1, <1>2, <2>2, AloneFrame DEF RequestDeploy, Starting, BeforeSwitch, AfterRun
<1>3. CASE ~RequestDeploy(d)
  <2>1. \/ job[d].pc \notin BeforeSwitch \cup AfterRun /\ \E pc \in Pcs \ (BeforeSwitch \cup AfterRun) : Goto(d, pc)
        \/ job[d].pc \in Starting /\ \E pc \in Starting : Goto(d, pc)
    BY <1>3 DEF RequestStep, InsertDeployment, EnqueueJob, RequestFails, EnqueueReplyLost,
       TakeJobThrows, ReuseImage, BeginBuild, BuildSucceeds, RecordSuccess,
       CollectGarbage, StepThrows, RecordFailure, ReleaseLock, AckJob, Undisturbed,
       BeforeSwitch, AfterRun, Starting, Pcs, WorkerPcs, TryPcs, RequestPcs
  <2>2. /\ job'[d].color = job[d].color
        /\ \A e \in Deployments \ {d} : job'[e] = job[e]
        /\ job'[d].pc \in Starting => job[d].pc \in Starting
        /\ job'[d].pc \notin AfterRun /\ job[d].pc \notin AfterRun
    BY <2>1, GotoDoes DEF BeforeSwitch, AfterRun, Starting, Pcs, WorkerPcs, TryPcs
  <2> QED BY <1>1, <2>2, AloneFrame
<1> QED BY <1>2, <1>3

LEMMA TakeAlone ==
  ASSUME TypeOK, Alone, NEW d \in Deployments, TakeJob(d) PROVE Alone'
<1>1. /\ job'[d].pc = "loaded" /\ job'[d].color = TargetColor
      /\ \A e \in Deployments \ {d} : job'[e] = job[e]
      /\ svc' = svc /\ inst' = inst /\ job[d].pc = "queued" /\ svc.present
  BY DEF TakeJob, TypeOK, Job
<1>2. TargetColor = "plain" \/ TargetColor # svc.color
  BY DEF TargetColor, OtherColor
<1> QED BY <1>1, <1>2 DEF Alone, Healthy, AfterRun, BeforeSwitch, Starting

\* A step of the deploy in progress: Alone then speaks of it only.
LEMMA AloneMoves ==
  ASSUME TypeOK, HolderOwnsLock, Alone, svc' = svc, NEW d \in Deployments, NEW pc \in Pcs, Goto(d, pc),
         job[d].pc \in BeforeSwitch,
         pc \in Starting => job[d].pc \in Starting,
         pc \in {"ran", "healthy"} => \A c \in Colors : Healthy(c)' => c = svc.color \/ c = job[d].color,
         pc = "promoted" => \A c \in Colors : Healthy(c)' => c = job[d].color,
         pc = "healthy" => Healthy(job[d].color)',
         pc \notin AfterRun => \A c \in Colors : Healthy(c)' => c = svc.color
  PROVE  Alone'
<1>1. /\ job'[d].pc = pc /\ job'[d].color = job[d].color
      /\ \A e \in Deployments \ {d} : job'[e] = job[e]
  BY GotoDoes
<1>2. \A e \in Deployments \ {d} : job'[e].pc \notin BeforeSwitch \cup AfterRun
  BY <1>1, OthersIdle
<1>3. job[d].color = "plain" \/ job[d].color # svc.color
  BY DEF Alone
<1>4. svc.kind # "git" => svc.color = "plain"
  BY DEF Alone
<1>5. (\A e \in Deployments : job'[e].pc \notin AfterRun) => pc \notin AfterRun
  BY <1>1
<1>6. \A e \in Deployments : job'[e].pc \in BeforeSwitch \cup AfterRun => e = d
  BY <1>2
<1>7. pc = job'[d].pc /\ job'[d].color = job[d].color
  BY <1>1
<1> QED BY <1>3, <1>4, <1>5, <1>6, <1>7 DEF Alone, Healthy, BeforeSwitch, AfterRun

\* Who serves while a deploy is on its way.
LEMMA ServingNow ==
  ASSUME TypeOK, HolderOwnsLock, Alone, NEW d \in Deployments, NEW c \in Colors, Healthy(c)
  PROVE  /\ job[d].pc \in Starting => c = svc.color
         /\ job[d].pc \in {"ran", "healthy"} => c = svc.color \/ c = job[d].color
<1>1. ASSUME job[d].pc \in Starting PROVE \A e \in Deployments : job[e].pc \notin AfterRun
  BY <1>1, OthersIdle DEF Starting, BeforeSwitch, AfterRun
<1> QED BY <1>1 DEF Alone

LEMMA StartAlone ==
  ASSUME TypeOK, Undisturbed, HolderOwnsLock, ColorsOfGit, Alone, NEW d \in Deployments,
         \/ BuildFails(d) \/ ComposeUp(d) \/ RunSucceeds(d) \/ RunFails(d) \/ HealthTimesOut(d)
         \/ HealthPasses(d)
  PROVE  Alone'
<1>0. svc' = svc /\ job[d].pc \in BeforeSwitch /\ job[d].color \in Colors
  BY DEF BuildFails, ComposeUp, RunSucceeds, RunFails, HealthTimesOut, HealthPasses, BeforeSwitch,
     TypeOK, Job
<1>1. ASSUME NEW good \in BOOLEAN, inst' = [inst EXCEPT ![job[d].color] = Started(d, good)]
      PROVE  \A c \in Colors : Healthy(c)' => (c = job[d].color /\ good) \/ (c # job[d].color /\ Healthy(c))
  BY <1>1 DEF Started, TypeOK, Job, Healthy
<1>2. ASSUME inst' = [inst EXCEPT ![job[d].color] = Absent]
      PROVE  \A c \in Colors : Healthy(c)' => c # job[d].color /\ Healthy(c)
  BY <1>2 DEF Absent, TypeOK, Job, Healthy
<1>3. ASSUME UNCHANGED inst PROVE \A c \in Colors : Healthy(c)' => Healthy(c)
  BY <1>3 DEF Healthy
<1>4. CASE BuildFails(d)
  <2>1. job[d].pc \in Starting /\ Goto(d, "failing")
    BY <1>4 DEF BuildFails, Starting
  <2>2. \/ UNCHANGED inst
        \/ inst' = [inst EXCEPT ![job[d].color] = Started(d, FALSE)]
    BY <1>4 DEF BuildFails, ColorsOfGit
  <2>3. \A c \in Colors : Healthy(c)' => Healthy(c)
    BY <1>1, <1>3, <2>2
  <2> QED BY <1>0, <2>1, <2>3, ServingNow, AloneMoves DEF AfterRun, Starting, Pcs, WorkerPcs
<1>5. CASE ComposeUp(d) \/ (RunSucceeds(d) /\ svc.kind = "image")
  <2>1. job[d].pc \in Starting /\ Goto(d, "promoted") /\ svc.kind # "git"
    BY <1>5 DEF ComposeUp, RunSucceeds, Starting
  <2>2. job[d].color = "plain" /\ svc.color = "plain"
    BY <2>1 DEF ColorsOfGit, Alone
  <2>3. \A c \in Colors : Healthy(c)' => c = job[d].color \/ Healthy(c)
    BY <1>1, <1>5, <2>2 DEF ComposeUp, RunSucceeds
  <2> QED BY <1>0, <2>1, <2>2, <2>3, ServingNow, AloneMoves DEF AfterRun, Starting, Pcs, WorkerPcs, TryPcs
<1>6. CASE RunSucceeds(d) /\ svc.kind # "image"
  <2>1. job[d].pc \in Starting /\ Goto(d, "ran")
    BY <1>6 DEF RunSucceeds, Starting
  <2>2. \A c \in Colors : Healthy(c)' => c = job[d].color \/ Healthy(c)
    BY <1>1, <1>6 DEF RunSucceeds
  <2> QED BY <1>0, <2>1, <2>2, ServingNow, AloneMoves DEF AfterRun, Starting, Pcs, WorkerPcs, TryPcs
<1>7. CASE RunFails(d)
  <2>1. job[d].pc \in Starting /\ Goto(d, "failing")
    BY <1>7 DEF RunFails, Starting
  <2>2. \A c \in Colors : Healthy(c)' => Healthy(c)
    BY <1>2, <1>3, <1>7 DEF RunFails
  <2> QED BY <1>0, <2>1, <2>2, ServingNow, AloneMoves DEF AfterRun, Starting, Pcs, WorkerPcs
<1>8. CASE HealthTimesOut(d)
  <2>1. job[d].pc = "ran" /\ Goto(d, "failing")
    BY <1>8 DEF HealthTimesOut
  <2>2. \A c \in Colors : Healthy(c)' => c # job[d].color /\ Healthy(c)
    BY <1>2, <1>8 DEF HealthTimesOut, Undisturbed
  <2> QED BY <1>0, <2>1, <2>2, ServingNow, AloneMoves DEF AfterRun, Starting, Pcs, WorkerPcs
<1>9. CASE HealthPasses(d)
  <2>1. job[d].pc = "ran" /\ Goto(d, "healthy") /\ Healthy(job[d].color) /\ inst' = inst
    BY <1>9 DEF HealthPasses
  <2>3. job'[d].color = job[d].color
    BY <2>1, GotoDoes DEF Pcs, WorkerPcs, TryPcs
  <2>4. Healthy(job[d].color)'
    BY <2>1, <2>3 DEF Healthy
  <2>2. \A c \in Colors : Healthy(c)' => Healthy(c)
    BY <1>3, <1>9 DEF HealthPasses
  <2> QED BY <1>0, <2>1, <2>2, <2>4, ServingNow, AloneMoves DEF AfterRun, Starting, Pcs, WorkerPcs, TryPcs
<1> QED BY <1>4, <1>5, <1>6, <1>7, <1>8, <1>9

LEMMA SwitchAlone ==
  ASSUME TypeOK, Undisturbed, HolderOwnsLock, ColorsOfGit, Alone, NEW d \in Deployments,
         SwitchOver(d) \/ RetireColors(d) \/ RecordRunning(d)
  PROVE  Alone'
<1>1. CASE SwitchOver(d) \/ RetireColors(d)
  <2>1. svc' = svc /\ job[d].pc \in BeforeSwitch /\ Goto(d, "promoted") /\ inst' = KeepOnly(job[d].color)
    BY <1>1 DEF SwitchOver, RetireColors, BeforeSwitch, Undisturbed
  <2>2. \A c \in Colors : Healthy(c)' => c = job[d].color
    BY <2>1 DEF KeepOnly, Healthy, Absent
  <2> QED BY <2>1, <2>2, AloneMoves DEF AfterRun, Starting, Pcs, WorkerPcs, TryPcs
<1>2. CASE RecordRunning(d)
  <2>1. /\ inst' = inst /\ job[d].pc = "promoted" /\ Goto(d, "recorded")
        /\ svc'.kind = svc.kind /\ svc'.present = svc.present
        /\ svc'.color = IF svc.present THEN job[d].color ELSE svc.color
    BY <1>2 DEF RecordRunning, TypeOK, Service
  <2>2. job'[d].pc = "recorded" /\ \A e \in Deployments \ {d} : job'[e] = job[e]
    BY <2>1, GotoDoes DEF Pcs, WorkerPcs, TryPcs
  <2>3. \A e \in Deployments : job'[e].pc \notin BeforeSwitch \cup AfterRun
    BY <2>1, <2>2, OthersIdle DEF BeforeSwitch, AfterRun
  <2>4. \A c \in Colors : Healthy(c) => c = job[d].color
    BY <2>1 DEF Alone
  <2>5. svc'.kind # "git" => svc'.color = "plain"
    BY <2>1 DEF Alone, ColorsOfGit
  <2> QED BY <2>1, <2>3, <2>4, <2>5 DEF Alone, Healthy, BeforeSwitch, AfterRun, Starting
<1> QED BY <1>1, <1>2

LEMMA EnvironmentAlone ==
  ASSUME TypeOK, Undisturbed, Alone, LockExpires \/ PanelRestarts \/ UserStep
  PROVE  Alone'
<1>1. CASE PanelRestarts
  <2>1. restarts \in 0..MaxRestarts /\ restarts < MaxRestarts
    BY <1>1 DEF PanelRestarts, TypeOK
  <2> QED BY <2>1 DEF Undisturbed
<1>2. ASSUME NEW on \in BOOLEAN, Power(on) PROVE Alone'
  BY <1>2 DEF Power, Undisturbed
<1>3. CASE LockExpires \/ EditSettings \/ RemoveRow
  <2>1. /\ svc'.color = svc.color /\ svc'.kind = svc.kind /\ (svc'.present => svc.present)
        /\ job' = job /\ inst' = inst
    BY <1>3 DEF LockExpires, EditSettings, RemoveRow, TypeOK, Service, Settings
  <2> QED BY <2>1, AloneFrame
<1>4. CASE RemoveFromNode
  <2>1. \A c \in Colors : ~inst'[c].good
    BY <1>4 DEF RemoveFromNode, Undisturbed, Absent
  <2> QED BY <1>4, <2>1, AloneFrame DEF RemoveFromNode
<1> QED BY <1>1, <1>2, <1>3, <1>4 DEF UserStep

LEMMA AloneStep ==
  ASSUME TypeOK, Undisturbed, HolderOwnsLock, ColorsOfGit, Alone, [Next]_vars PROVE Alone'
<1>1. CASE UNCHANGED vars
  BY <1>1, AloneFrame DEF vars
<1>2. ASSUME NEW d \in Deployments, RunReplyLost(d) \/ SwitchOverReplyLost(d) PROVE FALSE
  BY <1>2 DEF RunReplyLost, SwitchOverReplyLost, Undisturbed
<1>3. ASSUME NEW d \in Deployments, RequestDeploy(d) \/ RequestStep(d) \/ WorkerStep(d)
      PROVE  Alone'
  BY <1>2, <1>3, QuietAlone, TakeAlone, StartAlone, SwitchAlone DEF WorkerStep
<1> QED BY <1>1, <1>3, EnvironmentAlone DEF Next

\* A step of a deploy that starts or retires a container leaves one that serves.
LEMMA OldStays ==
  ASSUME TypeOK, Undisturbed, HolderOwnsLock, ColorsOfGit, Alone, [Next]_vars,
         NEW d \in Deployments, job[d].color # "plain", job[d] # job'[d], OldServing(d)
  PROVE  Serving'
<1> DEFINE t == job[d].color
<1>0. t \in Colors /\ svc.kind = "git"
  BY DEF TypeOK, Job, ColorsOfGit
<1>1. CASE inst' = inst
  BY <1>1 DEF OldServing, Serving, Healthy
<1>2. ASSUME NEW c \in Colors, Healthy(c), inst'[c] = inst[c] PROVE Serving'
  BY <1>2 DEF Serving, Healthy
<1>3. CASE RunSucceeds(d) \/ RunFails(d)
  <2>1. PICK c \in Colors : Healthy(c)
    BY DEF OldServing
  <2>2. job[d].pc = "built"
    BY <1>3 DEF RunSucceeds, RunFails
  <2>3. c = svc.color /\ c # t
    BY <2>1, <2>2, ServingNow DEF Alone, Starting, BeforeSwitch
  <2>4. inst'[c] = inst[c]
    BY <1>3, <2>3 DEF RunSucceeds, RunFails, TypeOK
  <2> QED BY <1>2, <2>1, <2>4
<1>4. CASE HealthTimesOut(d)
  <2>1. job[d].pc = "ran"
    BY <1>4 DEF HealthTimesOut
  <2>2. PICK c \in Colors : Healthy(c) /\ c # t
    BY <2>1 DEF OldServing
  <2>3. inst'[c] = inst[c]
    BY <1>4, <2>2 DEF HealthTimesOut, TypeOK
  <2> QED BY <1>2, <2>2, <2>3
<1>5. CASE SwitchOver(d)
  <2>1. job[d].pc = "healthy" /\ inst' = KeepOnly(t)
    BY <1>5 DEF SwitchOver
  <2>2. Healthy(t)
    BY <2>1 DEF OldServing, Alone
  <2>3. inst'[t] = inst[t]
    BY <1>0, <2>1 DEF KeepOnly
  <2> QED BY <1>0, <1>2, <2>2, <2>3
<1>6. ASSUME NEW e \in Deployments \ {d}, RequestDeploy(e) \/ RequestStep(e) \/ WorkerStep(e) PROVE FALSE
  <2>1. job'[d] = job[d]
    BY <1>6 DEF RequestDeploy, RequestStep, InsertDeployment, EnqueueJob, RequestFails, EnqueueReplyLost,
       WorkerStep, TakeJob, TakeJobThrows, ReuseImage, BeginBuild, BuildSucceeds, BuildFails,
       ComposeUp, RunSucceeds, RunFails, RunReplyLost, HealthPasses, HealthTimesOut, SwitchOver,
       SwitchOverReplyLost, RetireColors, RecordRunning, RecordSuccess, CollectGarbage,
       StepThrows, RecordFailure, ReleaseLock, AckJob, Goto, TypeOK
  <2> QED BY <2>1
<1>7. CASE RequestDeploy(d) \/ RequestStep(d) \/ WorkerStep(d)
  <2>1. \/ inst' = inst \/ RunSucceeds(d) \/ RunFails(d) \/ HealthTimesOut(d) \/ SwitchOver(d)
    BY <1>0, <1>7 DEF RequestDeploy, RequestStep, InsertDeployment, EnqueueJob, RequestFails, EnqueueReplyLost,
       WorkerStep, TakeJob, TakeJobThrows, ReuseImage, BeginBuild, BuildSucceeds, BuildFails,
       ComposeUp, RunReplyLost, HealthPasses, SwitchOverReplyLost, RetireColors, RecordRunning,
       RecordSuccess, CollectGarbage, StepThrows, RecordFailure, ReleaseLock, AckJob, Undisturbed
  <2> QED BY <1>1, <1>3, <1>4, <1>5, <2>1
<1>8. CASE LockExpires \/ UserStep \/ UNCHANGED vars
  BY <1>8 DEF LockExpires, UserStep, Power, RemoveFromNode, RemoveRow, EditSettings, vars
<1>9. CASE PanelRestarts
  BY <1>1, <1>9 DEF PanelRestarts
<1> QED BY <1>6, <1>7, <1>8, <1>9 DEF Next

\* As long as users only edit and delete the service, and no answer, write, key or worker is
\* lost, no step of a blue-green deploy takes the service off the air, whichever builds, runs
\* and health checks fail (zeroDowntimeDeploy).
THEOREM OldKeepsServing ==
  ASSUME Undisturbed
  PROVE  Spec => OldLeftServing
<1> DEFINE Inv == HolderOwnsLock /\ ColorsOfGit /\ Alone
<1>1. Init => Inv
  <2>1. Init => Alone
    BY DEF Init, Alone, NewJob, BeforeSwitch, AfterRun, Starting, Healthy, Absent
  <2>2. Init => ColorsOfGit
    BY DEF Init, ColorsOfGit, NewJob
  <2> QED BY <2>1, <2>2, HolderInit
<1>2. TypeOK /\ Inv /\ [Next]_vars => Inv'
  BY HolderStep, ColorsOfGitStep, AloneStep DEF Undisturbed
<1>3. TypeOK /\ Inv /\ [Next]_vars =>
        [\A d \in Deployments : job[d].color # "plain" /\ job[d] # job'[d] /\ OldServing(d) => Serving']_vars
  BY OldStays
<1> QED BY <1>1, <1>2, <1>3, PipelineTypes, PTL DEF Spec, OldLeftServing
-----------------------------------------------------------------------------
(* The refinement of SerialDeploys.  Beyond the owner of the lock it needs  *)
(* what a row says of a deployment that has come so far: it is there as     *)
(* long as the service is, and says DEPLOYING once there is an image.       *)

Deployed == {"built", "ran", "healthy", "promoted", "recorded"}

RowSound(d) ==
  /\ job[d].pc \in {"idle", "locked"} => dep[d].status = "NONE"
  /\ job[d].pc \in Deployed => dep[d].status \in {"NONE", "DEPLOYING"}
  /\ svc.present /\ job[d].pc \in {"inserted", "queued"} \cup WorkerPcs => dep[d].status # "NONE"
  /\ ~svc.present => dep[d].status = "NONE"

RowsSound == \A d \in Deployments : RowSound(d)

TurnStep == RowsSound' /\ [Turns!SerialNext]_Turns!serialVars

LEMMA WorkerPcsAre ==
  WorkerPcs = {"loaded", "building", "built", "ran", "healthy", "promoted", "recorded",
               "success", "failing", "final", "returning"}
BY DEF WorkerPcs, TryPcs

\* A step of d that touches no row but its own.
LEMMA RowsFrame ==
  ASSUME RowsSound, NEW d \in Deployments, svc'.present = svc.present, RowSound(d)',
         \A e \in Deployments \ {d} : job'[e] = job[e] /\ dep'[e] = dep[e]
  PROVE  RowsSound'
BY DEF RowsSound, RowSound

\* The holder goes on and writes nothing down.
LEMMA GoesOn ==
  ASSUME TypeOK, HolderOwnsLock, RowsSound, NEW d \in Deployments, NEW pc \in Pcs,
         job[d].pc \in Holding \ {"locked"}, pc \in {"queued", "over"} \cup (WorkerPcs \ {"recorded", "success"}),
         pc \in Deployed => job[d].pc \in Deployed,
         job'[d].pc = pc, \A e \in Deployments \ {d} : job'[e] = job[e],
         UNCHANGED <<lock, dep>>,
         svc'.present = svc.present, svc'.color = svc.color, svc'.image = svc.image
  PROVE  TurnStep
<1>1. lock = d /\ Shown' = FALSE
  BY WorkerPcsAre DEF HolderOwnsLock, Shown
<1>2. UNCHANGED <<lock, Statuses, <<svc.color, svc.image>>>>
  BY DEF Statuses
<1>3. Turns!Close
  BY <1>1, <1>2 DEF Turns!Close
<1>4. RowSound(d)'
  BY HoldingPcs, WorkerPcsAre DEF RowsSound, RowSound, Deployed
<1> QED BY <1>3, <1>4, RowsFrame DEF TurnStep, Turns!SerialNext

\* What SetDeploy does to the rows.
LEMMA RowSays ==
  ASSUME TypeOK, NEW d \in Deployments, NEW to, NEW tag, SetDeploy(d, to, tag)
  PROVE  /\ dep[d].status = "NONE" => UNCHANGED <<dep, Statuses>>
         /\ dep[d].status # "NONE" => dep'[d].status = to /\ Statuses' = [Statuses EXCEPT ![d] = to]
         /\ \A e \in Deployments \ {d} : dep'[e] = dep[e]
<1>1. CASE dep[d].status = "NONE"
  BY <1>1 DEF SetDeploy, Statuses
<1>2. CASE dep[d].status # "NONE"
  <2>1. dep' = [dep EXCEPT ![d] = [status |-> to, tag |-> tag]]
    BY <1>2 DEF SetDeploy
  <2>2. \A e \in Deployments : dep'[e].status = IF e = d THEN to ELSE dep[e].status
    BY <2>1 DEF TypeOK
  <2>3. Statuses' = [Statuses EXCEPT ![d] = to]
    BY <2>2 DEF Statuses
  <2> QED BY <1>2, <2>1, <2>2, <2>3 DEF TypeOK
<1> QED BY <1>1, <1>2

\* The holder writes its row on the way to the switchover, or at its end in failure.
LEMMA Reports ==
  ASSUME TypeOK, HolderOwnsLock, RowsSound, NEW d \in Deployments, NEW pc \in Pcs, NEW to, NEW tag,
         \/ to = "BUILDING" /\ pc = "building" /\ job[d].pc = "loaded"
         \/ to = "DEPLOYING" /\ pc \in {"built", "promoted"} /\ job[d].pc \in {"loaded", "building"}
         \/ to = "FAILED" /\ pc = "final" /\ job[d].pc = "failing",
         Goto(d, pc), SetDeploy(d, to, tag), UNCHANGED lock,
         svc'.present = svc.present, svc'.color = svc.color, svc'.image = svc.image
  PROVE  TurnStep
<1>1. job'[d].pc = pc /\ \A e \in Deployments \ {d} : job'[e] = job[e]
  BY GotoDoes
<1>2. lock = d /\ Shown = FALSE /\ Shown' = FALSE /\ d # NoDep
  BY <1>1, HoldingPcs, NoDepAssumption DEF HolderOwnsLock, Shown
<1>3. \A e \in Deployments \ {d} : dep'[e] = dep[e]
  BY RowSays
<1>4. CASE dep[d].status = "NONE"
  <2>1. UNCHANGED <<lock, dep, Statuses, <<svc.color, svc.image>>, Shown>>
    BY <1>2, <1>4, RowSays
  <2>2. RowSound(d)'
    BY <1>1, <1>4, <2>1, WorkerPcsAre DEF RowsSound, RowSound, Deployed
  <2> QED BY <1>1, <1>3, <2>1, <2>2, RowsFrame DEF TurnStep, Turns!serialVars
<1>5. CASE dep[d].status # "NONE"
  <2>1. dep'[d].status = to /\ Statuses' = [Statuses EXCEPT ![d] = to]
    BY <1>5, RowSays
  <2>2. Turns!Says(to) /\ UNCHANGED <<lock, <<svc.color, svc.image>>, Shown>>
    BY <1>2, <2>1 DEF Turns!Says
  <2>3. Turns!Advance \/ Turns!Fail
    BY <1>2, <2>2 DEF Turns!Advance, Turns!Fail
  <2>4. RowSound(d)'
    BY <1>1, <1>5, <2>1, WorkerPcsAre DEF RowsSound, RowSound, Deployed
  <2> QED BY <1>1, <1>3, <2>3, <2>4, RowsFrame DEF TurnStep, Turns!SerialNext
<1> QED BY <1>4, <1>5

LEMMA Publishes ==
  ASSUME TypeOK, HolderOwnsLock, RowsSound, NEW d \in Deployments, RecordRunning(d)
  PROVE  TurnStep
<1>1. /\ job[d].pc = "promoted" /\ job'[d].pc = "recorded" /\ UNCHANGED <<lock, dep, Statuses>>
      /\ job'[d].color = job[d].color /\ job'[d].tag = job[d].tag
      /\ \A e \in Deployments \ {d} : job'[e] = job[e]
  BY GotoDoes, WorkerPcsAre DEF RecordRunning, Pcs, Statuses
<1>2. lock = d /\ Shown = FALSE /\ d # NoDep
  BY <1>1, HoldingPcs, NoDepAssumption DEF HolderOwnsLock, Shown
<1>3. svc'.present = svc.present
  BY DEF RecordRunning, TypeOK, Service
<1>4. RowSound(d)'
  BY <1>1, <1>3, WorkerPcsAre DEF RowsSound, RowSound, Deployed
<1>5. CASE svc.present
  <2>1. dep[d].status = "DEPLOYING"
    BY <1>1, <1>5, WorkerPcsAre DEF RowsSound, RowSound, Deployed
  <2>2. svc'.color = job[d].color /\ svc'.image = job[d].tag
    BY <1>5 DEF RecordRunning, TypeOK, Service
  <2>3. <<svc'.color, svc'.image>> \in Colors \X (Tags \cup {NoTag})
    BY <2>2 DEF TypeOK, Job
  <2>4. Shown' = TRUE
    BY <1>1, <1>2, <1>3, <1>5 DEF Shown
  <2>5. Statuses[lock] = "DEPLOYING"
    BY <1>2, <2>1 DEF Statuses
  <2>6. Turns!Publish
    BY <1>1, <1>2, <2>3, <2>4, <2>5 DEF Turns!Publish
  <2> QED BY <1>1, <1>3, <1>4, <2>6, RowsFrame DEF TurnStep, Turns!SerialNext
<1>6. CASE ~svc.present
  <2>1. Shown' = FALSE /\ UNCHANGED svc
    BY <1>3, <1>6 DEF Shown, RecordRunning
  <2> QED BY <1>1, <1>2, <1>3, <1>4, <2>1, RowsFrame DEF TurnStep, Turns!serialVars
<1> QED BY <1>5, <1>6

LEMMA Succeeds ==
  ASSUME TypeOK, HolderOwnsLock, RowsSound, NEW d \in Deployments, RecordSuccess(d)
  PROVE  TurnStep
<1>1. /\ job[d].pc = "recorded" /\ job'[d].pc \in {"success", "final"} /\ UNCHANGED <<lock, svc>>
      /\ \A e \in Deployments \ {d} : job'[e] = job[e]
  BY GotoDoes, WorkerPcsAre DEF RecordSuccess, Pcs
<1>2. lock = d /\ d # NoDep
  BY <1>1, HoldingPcs, NoDepAssumption DEF HolderOwnsLock
<1>3. SetDeploy(d, "SUCCESS", dep[d].tag)
  BY DEF RecordSuccess
<1>4. \A e \in Deployments \ {d} : dep'[e] = dep[e]
  BY <1>3, RowSays
<1>5. CASE dep[d].status = "NONE"
  <2>1. UNCHANGED <<dep, Statuses>> /\ ~svc.present
    BY <1>1, <1>3, <1>5, RowSays, WorkerPcsAre DEF RowsSound, RowSound
  <2>2. Shown = FALSE /\ Shown' = FALSE
    BY <1>1, <2>1 DEF Shown
  <2>3. RowSound(d)'
    BY <1>1, <1>5, <2>1, WorkerPcsAre DEF RowsSound, RowSound, Deployed
  <2> QED BY <1>1, <2>1, <2>2, <2>3, RowsFrame DEF TurnStep, Turns!serialVars
<1>6. CASE dep[d].status # "NONE"
  <2>1. svc.present /\ dep[d].status = "DEPLOYING"
    BY <1>1, <1>6 DEF RowsSound, RowSound, Deployed
  <2>2. Shown /\ Shown' \in BOOLEAN
    BY <1>1, <1>2, <2>1 DEF Shown
  <2>3. dep'[d].status = "SUCCESS" /\ Statuses' = [Statuses EXCEPT ![d] = "SUCCESS"]
    BY <1>3, <1>6, RowSays
  <2>4. Statuses[lock] = "DEPLOYING" /\ Turns!Says("SUCCESS")
    BY <1>2, <2>1, <2>3 DEF Statuses, Turns!Says
  <2>5. Turns!Succeed
    BY <1>1, <2>2, <2>4 DEF Turns!Succeed
  <2>6. RowSound(d)'
    BY <1>1, <2>1, <2>3, WorkerPcsAre DEF RowSound, Deployed
  <2> QED BY <1>1, <1>4, <2>5, <2>6, RowsFrame DEF TurnStep, Turns!SerialNext
<1> QED BY <1>5, <1>6

LEMMA RequestTurns ==
  ASSUME TypeOK, HolderOwnsLock, RowsSound, "ack_lost" \notin Env,
         NEW d \in Deployments, RequestDeploy(d) \/ RequestStep(d)
  PROVE  TurnStep
<1>1. CASE RequestDeploy(d)
  <2>1. lock = NoDep /\ job[d].pc = "idle" /\ lock' = d /\ UNCHANGED <<dep, svc, Statuses>>
    BY <1>1 DEF RequestDeploy, LockFree, Statuses
  <2>2. job'[d].pc = "locked" /\ \A e \in Deployments \ {d} : job'[e] = job[e]
    BY <1>1 DEF RequestDeploy, TypeOK, NewJob
  <2>3. Shown = FALSE /\ Shown' = FALSE
    BY <2>1, <2>2 DEF Shown
  <2>4. Statuses[d] = "NONE"
    BY <2>1 DEF Statuses, RowsSound, RowSound
  <2>5. Turns!Accept(d)
    BY <2>1, <2>3, <2>4 DEF Turns!Accept
  <2>6. RowSound(d)'
    BY <2>1, <2>2, WorkerPcsAre DEF RowsSound, RowSound, Deployed
  <2> QED BY <2>1, <2>2, <2>5, <2>6, RowsFrame DEF TurnStep, Turns!SerialNext
<1>2. CASE InsertDeployment(d)
  <2>1. /\ job[d].pc = "locked" /\ job'[d].pc = "inserted" /\ UNCHANGED <<lock, svc>>
        /\ \A e \in Deployments \ {d} : job'[e] = job[e]
    BY <1>2, GotoDoes DEF InsertDeployment, Pcs, RequestPcs
  <2>2. lock = d /\ d # NoDep /\ dep[d].status = "NONE" /\ svc.present
    BY <1>2, <2>1, HoldingPcs, NoDepAssumption DEF HolderOwnsLock, RowsSound, RowSound, InsertDeployment
  <2>3. /\ dep'[d].status = "QUEUED" /\ Statuses' = [Statuses EXCEPT ![d] = "QUEUED"]
        /\ \A e \in Deployments \ {d} : dep'[e] = dep[e]
    <3>1. dep' = [dep EXCEPT ![d] = [status |-> "QUEUED", tag |-> job[d].rollback]]
      BY <1>2 DEF InsertDeployment
    <3>2. \A e \in Deployments : dep'[e].status = IF e = d THEN "QUEUED" ELSE dep[e].status
      BY <3>1 DEF TypeOK
    <3>3. Statuses' = [Statuses EXCEPT ![d] = "QUEUED"]
      BY <3>2 DEF Statuses
    <3> QED BY <3>1, <3>2, <3>3 DEF TypeOK
  <2>4. Statuses[lock] = "NONE" /\ Shown = FALSE /\ Shown' = FALSE
    BY <2>1, <2>2 DEF Statuses, Shown
  <2>5. Turns!Insert
    BY <2>1, <2>2, <2>3, <2>4 DEF Turns!Insert, Turns!Says
  <2>6. RowSound(d)'
    BY <2>1, <2>2, <2>3 DEF RowSound, Deployed
  <2> QED BY <2>1, <2>3, <2>5, <2>6, RowsFrame DEF TurnStep, Turns!SerialNext
<1>3. CASE EnqueueJob(d)
  <2>1. /\ job[d].pc = "inserted" /\ job'[d].pc = "queued" /\ UNCHANGED <<lock, dep, svc>>
        /\ \A e \in Deployments \ {d} : job'[e] = job[e]
    BY <1>3, GotoDoes DEF EnqueueJob, Pcs
  <2>2. "queued" \in Pcs /\ "queued" \notin Deployed \cup {"recorded", "success"}
    BY DEF Pcs, Deployed
  <2> QED BY <2>1, <2>2, HoldingPcs, GoesOn
<1>4. CASE RequestFails(d)
  <2>1. /\ job[d].pc \in {"locked", "inserted"} /\ job'[d].pc = "over" /\ UNCHANGED <<dep, svc, Statuses>>
        /\ lock' = NoDep /\ \A e \in Deployments \ {d} : job'[e] = job[e]
    BY <1>4, GotoDoes DEF RequestFails, Pcs, Statuses
  <2>2. lock = d /\ Shown = FALSE /\ Shown' = FALSE
    BY <2>1, HoldingPcs DEF HolderOwnsLock, Shown
  <2>3. Turns!End
    BY <2>1, <2>2 DEF Turns!End
  <2>4. RowSound(d)'
    BY <2>1, WorkerPcsAre DEF RowsSound, RowSound, Deployed
  <2> QED BY <2>1, <2>3, <2>4, RowsFrame DEF TurnStep, Turns!SerialNext
<1> QED BY <1>1, <1>2, <1>3, <1>4 DEF RequestStep, EnqueueReplyLost

LEMMA StatusOnly ==
  ASSUME TypeOK, NEW to, SetStatus(to) \/ UNCHANGED svc
  PROVE  svc'.present = svc.present /\ svc'.color = svc.color /\ svc'.image = svc.image
BY DEF SetStatus, TypeOK, Service

\* The steps of a worker that write no row.
LEMMA QuietTurns ==
  ASSUME TypeOK, HolderOwnsLock, RowsSound, NEW d \in Deployments,
         \/ TakeJob(d) \/ TakeJobThrows(d) \/ BuildFails(d) \/ StepThrows(d) \/ CollectGarbage(d)
         \/ RunSucceeds(d) \/ RunFails(d) \/ RunReplyLost(d) \/ HealthPasses(d) \/ HealthTimesOut(d)
         \/ SwitchOver(d) \/ SwitchOverReplyLost(d) \/ RetireColors(d)
  PROVE  TurnStep
<1>1. UNCHANGED <<lock, dep, svc>>
  BY DEF TakeJob, TakeJobThrows, BuildFails, StepThrows, CollectGarbage, RunSucceeds, RunFails, RunReplyLost,
         HealthPasses, HealthTimesOut, SwitchOver, SwitchOverReplyLost, RetireColors
<1>2. CASE TakeJob(d)
  <2>1. job[d].pc = "queued" /\ job'[d].pc = "loaded" /\ \A e \in Deployments \ {d} : job'[e] = job[e]
    BY <1>2 DEF TakeJob, TypeOK, Job
  <2> QED BY <1>1, <2>1, HoldingPcs, WorkerPcsAre, GoesOn DEF Pcs, Deployed
<1>3. CASE ~TakeJob(d)
  <2>1. PICK pc \in {"over", "ran", "healthy", "promoted", "failing", "final"} :
          /\ Goto(d, pc)
          /\ job[d].pc \in {"queued", "success"} \cup TryPcs
          /\ pc \in Deployed => job[d].pc \in Deployed
    BY <1>3 DEF TakeJobThrows, BuildFails, StepThrows, CollectGarbage, RunSucceeds, RunFails, RunReplyLost,
                HealthPasses, HealthTimesOut, SwitchOver, SwitchOverReplyLost, RetireColors, TryPcs, Deployed
  <2>2. pc \in Pcs /\ pc \in {"queued", "over"} \cup (WorkerPcs \ {"recorded", "success"})
    BY WorkerPcsAre DEF Pcs
  <2>3. job[d].pc \in Holding \ {"locked"}
    BY <2>1, HoldingPcs DEF TryPcs
  <2>4. job'[d].pc = pc /\ \A e \in Deployments \ {d} : job'[e] = job[e]
    BY <2>1, <2>2, GotoDoes
  <2> QED BY <1>1, <2>1, <2>2, <2>3, <2>4, GoesOn
<1> QED BY <1>2, <1>3

LEMMA ReportTurns ==
  ASSUME TypeOK, HolderOwnsLock, RowsSound, NEW d \in Deployments,
         ReuseImage(d) \/ BeginBuild(d) \/ BuildSucceeds(d) \/ ComposeUp(d) \/ RecordFailure(d)
  PROVE  TurnStep
<1>1. UNCHANGED lock /\ svc'.present = svc.present /\ svc'.color = svc.color /\ svc'.image = svc.image
  BY StatusOnly DEF ReuseImage, BeginBuild, BuildSucceeds, ComposeUp, RecordFailure
<1>2. {"building", "built", "promoted", "final"} \subseteq Pcs
  BY WorkerPcsAre DEF Pcs
<1>3. CASE ReuseImage(d)
  <2>1. job[d].pc = "loaded" /\ Goto(d, "built") /\ SetDeploy(d, "DEPLOYING", job[d].tag)
    BY <1>3 DEF ReuseImage
  <2> QED BY <1>1, <1>2, <2>1, Reports
<1>4. CASE BeginBuild(d)
  <2>1. job[d].pc = "loaded" /\ Goto(d, "building") /\ SetDeploy(d, "BUILDING", dep[d].tag)
    BY <1>4 DEF BeginBuild
  <2> QED BY <1>1, <1>2, <2>1, Reports
<1>5. CASE BuildSucceeds(d) \/ ComposeUp(d)
  <2>1. job[d].pc = "building" /\ SetDeploy(d, "DEPLOYING", job[d].tag) /\ (Goto(d, "built") \/ Goto(d, "promoted"))
    BY <1>5 DEF BuildSucceeds, ComposeUp
  <2> QED BY <1>1, <1>2, <2>1, Reports
<1>6. CASE RecordFailure(d)
  <2>1. job[d].pc = "failing" /\ Goto(d, "final") /\ SetDeploy(d, "FAILED", dep[d].tag)
    BY <1>6 DEF RecordFailure
  <2> QED BY <1>1, <1>2, <2>1, Reports
<1> QED BY <1>3, <1>4, <1>5, <1>6

LEMMA EndTurns ==
  ASSUME TypeOK, HolderOwnsLock, RowsSound, "ack_lost" \notin Env,
         NEW d \in Deployments, ReleaseLock(d) \/ AckJob(d)
  PROVE  TurnStep
<1>1. /\ UNCHANGED <<dep, svc, Statuses>> /\ \A e \in Deployments \ {d} : job'[e] = job[e]
      /\ job[d].pc \in {"final", "returning"} /\ job'[d].pc \in {"returning", "over"}
  BY GotoDoes, WorkerPcsAre DEF ReleaseLock, AckJob, Pcs, Statuses
<1>2. RowsSound'
  <2>1. RowSound(d)'
    BY <1>1, WorkerPcsAre DEF RowsSound, RowSound, Deployed
  <2> QED BY <1>1, <2>1, RowsFrame
<1>3. CASE ReleaseLock(d)
  <2>1. lock = d /\ Shown = FALSE /\ lock' = NoDep /\ Shown' = FALSE
    BY <1>3, HoldingPcs DEF ReleaseLock, HolderOwnsLock, Shown
  <2>2. Turns!End
    BY <1>1, <2>1 DEF Turns!End
  <2> QED BY <1>2, <2>2 DEF TurnStep, Turns!SerialNext
<1>4. CASE AckJob(d)
  <2>1. UNCHANGED lock /\ Shown' = Shown
    <3>1. lock = NoDep \/ lock \in Deployments
      BY DEF TypeOK
    <3> QED BY <1>1, <1>4, <3>1 DEF AckJob, Shown
  <2> QED BY <1>1, <1>2, <2>1 DEF TurnStep, Turns!serialVars
<1> QED BY <1>3, <1>4

LEMMA EnvironmentTurns ==
  ASSUME TypeOK, HolderOwnsLock, RowsSound, "lock_overrun" \notin Env,
         LockExpires \/ PanelRestarts \/ UserStep
  PROVE  TurnStep
<1>1. CASE LockExpires
  <2>1. UNCHANGED <<job, dep, svc, Statuses>> /\ lock' = NoDep /\ Shown = FALSE /\ Shown' = FALSE
    BY <1>1 DEF LockExpires, Leaked, Shown, Statuses
  <2>2. RowsSound'
    BY <2>1 DEF RowsSound, RowSound
  <2>3. Turns!End
    BY <2>1 DEF Turns!End
  <2> QED BY <2>2, <2>3 DEF TurnStep, Turns!SerialNext
<1>2. CASE PanelRestarts
  <2>1. UNCHANGED <<lock, dep, svc, Statuses>>
    BY <1>2 DEF PanelRestarts, Statuses
  <2>2. ASSUME NEW d \in Deployments
        PROVE  \/ job'[d].pc = job[d].pc /\ job[d].pc \notin WorkerPcs
               \/ job'[d].pc = "over"
               \/ job'[d].pc = "queued" /\ job[d].pc \in WorkerPcs
    <3> DEFINE r == job[d]
    <3>0. RequestPcs \cap WorkerPcs = {}
      BY WorkerPcsAre DEF RequestPcs
    <3>1. r \in Job
      BY DEF TypeOK
    <3>2. CASE r.pc \in RequestPcs
      <4>1. job'[d] = [r EXCEPT !.pc = "over"]
        BY <1>2, <3>0, <3>2 DEF PanelRestarts
      <4> HIDE DEF r
      <4> QED BY <3>1, <4>1 DEF Job
    <3>3. CASE r.pc \in WorkerPcs
      <4>1. job'[d] = [r EXCEPT !.pc = IF r.stalls < MaxStalls THEN "queued" ELSE "over", !.stalls = @ + 1]
        BY <1>2, <3>0, <3>3 DEF PanelRestarts
      <4>2. job'[d].pc \in {"queued", "over"}
        <5> HIDE DEF r
        <5> QED BY <3>1, <4>1 DEF Job
      <4> QED BY <3>3, <4>2
    <3>4. CASE r.pc \notin WorkerPcs \cup RequestPcs
      BY <1>2, <3>4 DEF PanelRestarts
    <3> QED BY <3>2, <3>3, <3>4
  <2>3. RowsSound'
    BY <2>1, <2>2, WorkerPcsAre DEF RowsSound, RowSound, Deployed
  <2>4. Shown' = FALSE
    <3>1. lock = NoDep \/ lock \in Deployments
      BY DEF TypeOK
    <3> QED BY <2>1, <2>2, <3>1, WorkerPcsAre DEF Shown
  <2>5. Turns!Close
    BY <2>1, <2>4 DEF Turns!Close
  <2> QED BY <2>3, <2>5 DEF TurnStep, Turns!SerialNext
<1>3. CASE RemoveRow
  <2>1. UNCHANGED <<lock, job>> /\ svc'.present = FALSE /\ svc'.color = svc.color /\ svc'.image = svc.image
    BY <1>3 DEF RemoveRow, TypeOK, Service
  <2>2. \A d \in Deployments : dep'[d].status = "NONE"
    BY <1>3 DEF RemoveRow, NoRow
  <2>3. Shown' = FALSE /\ Statuses' = [d \in Deployments |-> "NONE"]
    BY <2>1, <2>2 DEF Shown, Statuses
  <2>4. Turns!Delete
    BY <2>1, <2>3 DEF Turns!Delete
  <2>5. RowsSound'
    BY <2>1, <2>2 DEF RowsSound, RowSound
  <2> QED BY <2>4, <2>5 DEF TurnStep, Turns!SerialNext
<1>4. CASE UserStep /\ ~RemoveRow
  <2>1. UNCHANGED <<lock, job, dep, Statuses>>
    BY <1>4 DEF UserStep, Power, RemoveFromNode, EditSettings, Statuses
  <2>2. svc'.present = svc.present /\ svc'.color = svc.color /\ svc'.image = svc.image
    BY <1>4 DEF UserStep, Power, RemoveFromNode, EditSettings, TypeOK, Service
  <2>3. Shown' = Shown
    BY <2>1, <2>2 DEF Shown
  <2>4. RowsSound'
    BY <2>1, <2>2 DEF RowsSound, RowSound
  <2> QED BY <2>1, <2>2, <2>3, <2>4 DEF TurnStep, Turns!serialVars
<1> QED BY <1>1, <1>2, <1>3, <1>4

LEMMA TurnsStep ==
  ASSUME "ack_lost" \notin Env, "lock_overrun" \notin Env, TypeOK, HolderOwnsLock, RowsSound, [Next]_vars
  PROVE  TurnStep
<1>1. CASE UNCHANGED vars
  <2>1. UNCHANGED <<lock, job, dep, svc, Statuses, Shown>>
    BY <1>1 DEF vars, Statuses, Shown
  <2> QED BY <2>1 DEF TurnStep, RowsSound, RowSound, Turns!serialVars
<1>2. ASSUME NEW d \in Deployments, WorkerStep(d) PROVE TurnStep
  BY <1>2, QuietTurns, ReportTurns, Publishes, Succeeds, EndTurns DEF WorkerStep
<1> QED BY <1>1, <1>2, RequestTurns, EnvironmentTurns DEF Next

\* Deployments take turns, and the rows tell of the turn: every step of panel, worker,
\* agent and users is a step of SerialDeploys or a stutter (acquireDeployLock, setDeploy,
\* setService, the finally block of process), if no deploy outlives the TTL of its key
\* and no acknowledgement of a job is lost.
THEOREM PipelineImplements ==
  ASSUME "ack_lost" \notin Env, "lock_overrun" \notin Env
  PROVE  Spec => DeploysTakeTurns
<1>1. Init => HolderOwnsLock /\ RowsSound /\ Turns!SerialInit
  <2> SUFFICES ASSUME Init PROVE RowsSound /\ Turns!SerialInit
    BY HolderInit
  <2>1. \A d \in Deployments : job[d].pc = "idle" /\ dep[d].status = "NONE"
    BY DEF Init, NewJob, NoRow
  <2>2. RowsSound
    BY <2>1, WorkerPcsAre DEF RowsSound, RowSound, Deployed
  <2>3. Statuses = [d \in Deployments |-> "NONE"] /\ Shown = FALSE /\ lock = NoDep
    BY <2>1 DEF Statuses, Shown, Init
  <2>4. <<svc.color, svc.image>> \in Colors \X (Tags \cup {NoTag})
    BY DEF Init, Colors
  <2> QED BY <2>2, <2>3, <2>4 DEF Turns!SerialInit
<1>2. TypeOK /\ HolderOwnsLock /\ RowsSound /\ [Next]_vars
        => HolderOwnsLock' /\ RowsSound' /\ [Turns!SerialNext]_Turns!serialVars
  BY HolderStep, TurnsStep DEF TurnStep
<1> QED BY <1>1, <1>2, PipelineTypes, PTL DEF Spec, DeploysTakeTurns, Turns!Serial
=============================================================================

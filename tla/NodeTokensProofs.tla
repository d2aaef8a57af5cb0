-------------------------- MODULE NodeTokensProofs --------------------------
(* Proofs about NodeTokens, for every number of secrets, days and restarts. *)
EXTENDS NodeTokens, TLAPS

-----------------------------------------------------------------------------
(* Types.                                                                   *)

LEMMA NumbersTyped ==
  /\ 0 \in 0..MaxTime /\ 1 \in Secrets /\ 0 \in 0..MaxRestarts
  /\ Secrets \subseteq Nat /\ Secrets \subseteq Maybe /\ NoSecret \in Maybe
  /\ \A i \in Secrets : i < MaxSecret => i + 1 \in Secrets
BY NumbersAssumption DEF Secrets, Maybe, NoSecret

LEMMA AgentStateTyped ==
  ASSUME agent \in Agent, NEW t \in Secrets, NEW u \in Secrets
  PROVE  /\ Observed(t) \in Agent
         /\ Staged(Observed(t), u) \in Agent
         /\ \A a \in Agent : StateFile(a) \in File
         /\ NoFile \in File
<1>1. Observed(t) \in Agent
  BY NumbersTyped DEF Observed, Agent
<1>2. \A a \in Agent : Staged(a, u) \in Agent
  BY NumbersTyped DEF Staged, Agent
<1>3. \A a \in Agent : StateFile(a) \in File
  BY DEF StateFile, Agent, File
<1> QED BY <1>1, <1>2, <1>3, NumbersTyped DEF NoFile, File

LEMMA PersistTyped ==
  ASSUME TypeOK, NEW a \in Agent, Persist(a)
  PROVE  agent' \in Agent /\ disk' \in File
<1>1. CASE a = agent
  BY <1>1 DEF Persist, TypeOK
<1>2. CASE a # agent
  <2>1. StateFile(a) \in File /\ NoFile \in File
    BY NumbersTyped DEF StateFile, Agent, File, NoFile
  <2>2. [a EXCEPT !.saving = TRUE] \in Agent
    BY DEF Agent
  <2> QED BY <1>2, <2>1, <2>2 DEF Persist, TypeOK
<1> QED BY <1>1, <1>2

LEMMA TokensInit == Init => TypeOK
<1> SUFFICES ASSUME Init PROVE TypeOK
  OBVIOUS
<1>1. PICK pc \in InitialAgents :
        LET known == IF pc = "up" THEN 1 ELSE NoSecret IN
        /\ agent = [pc |-> pc, cur |-> known, next |-> NoSecret, waits |-> NoRequest, saving |-> FALSE]
        /\ disk = [cur |-> known, next |-> NoSecret]
        /\ row = [cur |-> 1, prev |-> NoSecret, rotatedAt |-> 0,
                  status |-> IF pc = "up" THEN "ONLINE" ELSE "OFFLINE", pinned |-> pc = "up"]
  BY DEF Init
<1>2. agent \in Agent /\ disk \in File
  BY <1>1, NumbersTyped, InitialAssumption DEF Agent, File
<1>3. row \in Row
  BY <1>1, NumbersTyped DEF Row
<1>4. enr \in [Enrollments -> Enroll]
  <2>1. {[pc |-> "idle", join |-> j, tok |-> NoSecret] : j \in JoinTokens} \subseteq Enroll
    BY NumbersTyped DEF Enroll
  <2> QED BY <2>1 DEF Init
<1>5. rot \in [Rotations -> Rotation] /\ beat \in Beat
  BY NumbersTyped DEF Init, Rotation, NoRotation, Beat
<1> QED BY <1>2, <1>3, <1>4, <1>5, NumbersTyped DEF Init, TypeOK

LEMMA AgentStepTyped ==
  ASSUME TypeOK, SaveCompletes \/ PanelRequest \/ AgentRestarts \/ EnrollFails
  PROVE  TypeOK'
<1> USE DEF TypeOK, panelVars, rotVars, enrollVars, timeVars
<1>1. CASE SaveCompletes
  <2>1. agent' \in Agent /\ disk' \in File
    BY <1>1 DEF SaveCompletes, Agent, StateFile, File
  <2> QED BY <1>1, <2>1 DEF SaveCompletes
<1>2. CASE PanelRequest
  <2>1. agent' \in Agent /\ disk' \in File
    BY <1>2, AgentStateTyped, PersistTyped DEF PanelRequest, Row
  <2> QED BY <1>2, <2>1 DEF PanelRequest
<1>3. CASE AgentRestarts
  <2>1. agent' \in Agent
    BY <1>3 DEF AgentRestarts, Agent, Loaded, File
  <2>2. restarts' \in 0..MaxRestarts
    <3>1. restarts \in 0..MaxRestarts /\ restarts < MaxRestarts /\ restarts' = restarts + 1
      BY <1>3 DEF AgentRestarts
    <3> QED BY <3>1, NumbersAssumption
  <2> QED BY <1>3, <2>1, <2>2 DEF AgentRestarts
<1>4. CASE EnrollFails
  <2>1. agent' \in Agent
    BY <1>4 DEF EnrollFails, Agent
  <2> QED BY <1>4, <2>1 DEF EnrollFails
<1> QED BY <1>1, <1>2, <1>3, <1>4

LEMMA RotationStepTyped ==
  ASSUME TypeOK, NEW r \in Rotations, SchedulerPicks(r) \/ StartRotation(r) \/ RotationStep(r)
  PROVE  TypeOK'
<1> USE DEF TypeOK, agentVars, enrollVars, timeVars
<1>0. /\ [rot EXCEPT ![r] = NoRotation] \in [Rotations -> Rotation]
      /\ rot[r].pc = "idle" => [rot EXCEPT ![r].pc = "due"] \in [Rotations -> Rotation]
      /\ rot[r].pc = "sent" => [rot EXCEPT ![r].pc = "acked"] \in [Rotations -> Rotation]
      /\ rot[r].pc \in {"sent", "acked"} => rot[r].old \in Secrets /\ rot[r].new \in Secrets
  BY DEF Rotation, NoRotation
<1>1. CASE SchedulerPicks(r)
  BY <1>0, <1>1 DEF SchedulerPicks
<1>2. CASE StartRotation(r)
  <2>1. issued' \in Secrets /\ [pc |-> "sent", old |-> row.cur, new |-> issued + 1] \in Rotation
    BY <1>2, NumbersTyped DEF StartRotation, Rotation, Row
  <2> QED BY <1>2, <2>1 DEF StartRotation
<1>3. CASE PushArrives(r)
  <2>2. Staged(Observed(rot[r].old), rot[r].new) \in Agent
    BY <1>0, <1>3, AgentStateTyped DEF PushArrives
  <2>3. agent' \in Agent /\ disk' \in File
    BY <1>3, <2>2, PersistTyped DEF PushArrives, Receive
  <2>4. rot' \in [Rotations -> Rotation]
    BY <1>0, <1>3 DEF PushArrives
  <2> QED BY <1>3, <2>3, <2>4 DEF PushArrives
<1>4. CASE PushFails(r)
  <2>1. stray' \subseteq Push
    BY <1>0, <1>4 DEF PushFails, Push
  <2> QED BY <1>0, <1>4, <2>1 DEF PushFails
<1>5. CASE PersistSwitch(r)
  <2>1. row' \in Row
    BY <1>0, <1>5, NumbersTyped DEF PersistSwitch, Row
  <2> QED BY <1>0, <1>5, <2>1 DEF PersistSwitch
<1>6. CASE SwitchFails(r)
  BY <1>0, <1>6 DEF SwitchFails
<1> QED BY <1>1, <1>2, <1>3, <1>4, <1>5, <1>6 DEF RotationStep

LEMMA StrayTyped ==
  ASSUME TypeOK, NEW m \in stray, StrayArrives(m)
  PROVE  TypeOK'
<1> USE DEF TypeOK, enrollVars, timeVars
<1>1. Staged(Observed(m.old), m.new) \in Agent
  BY AgentStateTyped DEF Push
<1>2. agent' \in Agent /\ disk' \in File
  BY <1>1, PersistTyped DEF StrayArrives, Receive
<1> QED BY <1>2 DEF StrayArrives

LEMMA BeatTyped ==
  ASSUME TypeOK, SendBeat \/ ReadBeat \/ BeatLost \/ WriteBeat \/ MarkStaleOffline
  PROVE  TypeOK'
<1> USE DEF TypeOK, agentVars, rotVars, enrollVars, timeVars
<1>1. CASE SendBeat
  BY <1>1 DEF SendBeat, Beat, Agent
<1>2. CASE ReadBeat
  <2>1. beat' \in Beat
    BY <1>2 DEF ReadBeat, Beat
  <2> QED BY <1>2, <2>1 DEF ReadBeat
<1>3. CASE BeatLost
  BY <1>3 DEF BeatLost, Beat
<1>4. CASE WriteBeat
  <2>1. row' \in Row
    BY <1>4, NumbersTyped DEF WriteBeat, BeatRow, Row
  <2>2. beat' \in Beat
    BY <1>4 DEF WriteBeat, Beat
  <2> QED BY <1>4, <2>1, <2>2 DEF WriteBeat
<1>5. CASE MarkStaleOffline
  BY <1>5 DEF MarkStaleOffline, Row
<1> QED BY <1>1, <1>2, <1>3, <1>4, <1>5

LEMMA EnrollTyped ==
  ASSUME TypeOK, NEW e \in Enrollments, SendEnroll(e) \/ EnrollStep(e)
  PROVE  TypeOK'
<1> USE DEF TypeOK, agentVars, rotVars, timeVars
<1>0. \A pc \in {"sent", "read", "provisioned", "marked", "over"} :
        [enr EXCEPT ![e].pc = pc] \in [Enrollments -> Enroll]
  BY DEF Enroll
<1>1. CASE SendEnroll(e)
  <2>1. agent' \in Agent
    BY <1>1 DEF SendEnroll, Agent
  <2> QED BY <1>0, <1>1, <2>1 DEF SendEnroll
<1>2. CASE ReadEnroll(e)
  BY <1>0, <1>2 DEF ReadEnroll
<1>3. CASE ProvisionNode(e)
  <2>1. issued + 1 \in Secrets
    BY <1>3, NumbersTyped DEF ProvisionNode
  <2>2. row' \in Row
    BY <1>3, <2>1 DEF ProvisionNode, Row
  <2>3. enr' \in [Enrollments -> Enroll]
    BY <1>3, <2>1, NumbersTyped DEF ProvisionNode, Enroll
  <2> QED BY <1>3, <2>1, <2>2, <2>3 DEF ProvisionNode
<1>4. CASE MarkUsed(e)
  BY <1>0, <1>4 DEF MarkUsed, Enroll
<1>5. CASE Enrolled(e)
  <2>1. agent' \in Agent /\ disk' \in File
    BY <1>5, NumbersTyped DEF Enrolled, Agent, File, Enroll
  <2> QED BY <1>0, <1>5, <2>1 DEF Enrolled
<1> QED BY <1>1, <1>2, <1>3, <1>4, <1>5 DEF EnrollStep

LEMMA TimeTyped ==
  ASSUME TypeOK, DayPasses \/ \E j \in JoinTokens : JoinExpires(j)
  PROVE  TypeOK'
<1> USE DEF TypeOK, agentVars, rotVars, enrollVars, timeVars
<1>1. CASE DayPasses
  <2>1. clock \in 0..MaxTime /\ clock < MaxTime /\ clock' = clock + 1
    BY <1>1 DEF DayPasses
  <2>2. clock' \in 0..MaxTime
    BY <2>1, NumbersAssumption
  <2> QED BY <1>1, <2>2 DEF DayPasses
<1>2. CASE \E j \in JoinTokens : JoinExpires(j)
  BY <1>2 DEF JoinExpires
<1> QED BY <1>1, <1>2

LEMMA TokensNext == TypeOK /\ [Next]_vars => TypeOK'
<1> SUFFICES ASSUME TypeOK, [Next]_vars PROVE TypeOK'
  OBVIOUS
<1>1. CASE UNCHANGED vars
  BY <1>1 DEF TypeOK, vars, panelVars, agentVars, rotVars, enrollVars, timeVars
<1>2. CASE Next
  BY <1>2, AgentStepTyped, RotationStepTyped, StrayTyped, BeatTyped, EnrollTyped, TimeTyped DEF Next
<1> QED BY <1>1, <1>2

\* The rows, the agent's state and its file keep their types under every fault.
THEOREM TokenTypes == Spec => []TypeOK
<1>1. Init => TypeOK
  BY TokensInit
<1>2. TypeOK /\ [Next]_vars => TypeOK'
  BY TokensNext
<1> QED BY <1>1, <1>2, PTL DEF Spec

-----------------------------------------------------------------------------
(* Panel and agent never lose each other, when nobody rotates twice at once, *)
(* each join token is posted once, and messages may be lost but not late.   *)

OneAtATime ==
  /\ \A r, s \in Rotations : r = s
  /\ \A d, e \in Enrollments : d = e
  /\ Env \subseteq {"lost"}

\* What the file and the requests in flight are while the agent is enrolled ...
EnrolledAgent ==
  /\ disk = StateFile(agent)
  /\ agent.cur # NoSecret
  /\ Authenticates(row.cur)
  /\ \A e \in Enrollments : enr[e].pc \in {"idle", "over"}

\* ... and while it is not.
BlankAgent ==
  /\ disk = NoFile
  /\ agent.cur = NoSecret /\ agent.next = NoSecret
  /\ \A r \in Rotations : rot[r].pc # "acked"
  /\ \A e \in Enrollments : enr[e].pc \in {"provisioned", "marked"} => enr[e].tok = row.cur

\* A push either presents the secret of the row or is refused; the secret it
\* carries is new to both sides.
PushSound(r) ==
  rot[r].pc = "sent" =>
    /\ rot[r].old = row.cur \/ rot[r].old \notin {agent.cur, agent.next}
    /\ rot[r].new \notin {row.cur, agent.cur, agent.next}

\* A confirmed push: the agent holds exactly the old and the new secret.
ConfirmSound(r) ==
  rot[r].pc = "acked" =>
    agent.cur = row.cur /\ agent.next = rot[r].new /\ rot[r].new # row.cur

Bounded ==
  /\ row.cur <= issued /\ agent.cur <= issued /\ agent.next <= issued
  /\ \A r \in Rotations : rot[r].new <= issued

InStep ==
  /\ ~agent.saving /\ stray = {}
  /\ agent.pc = "up" => EnrolledAgent
  /\ agent.pc # "up" => BlankAgent
  /\ \A r \in Rotations : PushSound(r) /\ ConfirmSound(r)
  /\ Bounded

\* Steps that change none of the secrets.
LEMMA FrameInStep ==
  ASSUME InStep, row'.cur = row.cur,
         UNCHANGED <<agent, disk, rot, stray, enr, issued>>
  PROVE  InStep'
BY DEF InStep, EnrolledAgent, BlankAgent, PushSound, ConfirmSound, Bounded, StateFile, Authenticates

LEMMA InStepInit == Init => InStep
<1> SUFFICES ASSUME Init PROVE InStep
  OBVIOUS
<1>1. PICK pc \in InitialAgents :
        LET known == IF pc = "up" THEN 1 ELSE NoSecret IN
        /\ agent = [pc |-> pc, cur |-> known, next |-> NoSecret, waits |-> NoRequest, saving |-> FALSE]
        /\ disk = [cur |-> known, next |-> NoSecret]
        /\ row = [cur |-> 1, prev |-> NoSecret, rotatedAt |-> 0,
                  status |-> IF pc = "up" THEN "ONLINE" ELSE "OFFLINE", pinned |-> pc = "up"]
  BY Zenon DEF Init
<1>2. \A e \in Enrollments : enr[e].pc = "idle"
  BY DEF Init
<1>3. \A r \in Rotations : rot[r].pc = "idle" /\ rot[r].new = NoSecret
  BY DEF Init, NoRotation
<1>4. stray = {} /\ issued = 1
  BY DEF Init
<1>5. CASE pc = "up"
  <2>1. agent.pc = "up" /\ agent.cur = 1 /\ agent.next = 0 /\ ~agent.saving /\ disk = StateFile(agent)
    BY <1>1, <1>5 DEF StateFile, NoSecret
  <2> QED
    BY <1>1, <1>2, <1>3, <1>4, <2>1 DEF InStep, EnrolledAgent, PushSound, ConfirmSound, Bounded,
       Authenticates, NoSecret
<1>6. CASE pc # "up"
  <2>1. agent.pc # "up" /\ agent.cur = 0 /\ agent.next = 0 /\ ~agent.saving /\ disk = NoFile
    BY <1>1, <1>6 DEF NoFile, NoSecret
  <2> QED
    BY <1>1, <1>2, <1>3, <1>4, <2>1 DEF InStep, BlankAgent, PushSound, ConfirmSound, Bounded, NoSecret
<1> QED BY <1>5, <1>6

\* Without disk faults the file follows the state.
LEMMA PersistKeepsFile ==
  ASSUME OneAtATime, NEW a, Persist(a), disk = StateFile(agent)
  PROVE  agent' = a /\ disk' = StateFile(a)
BY DEF OneAtATime, Persist

LEMMA AgentInStep ==
  ASSUME OneAtATime, TypeOK, InStep, SaveCompletes \/ PanelRequest \/ AgentRestarts \/ EnrollFails
  PROVE  InStep'
<1> USE DEF panelVars, rotVars, enrollVars, timeVars
<1>1. CASE SaveCompletes
  BY <1>1 DEF SaveCompletes, InStep
<1>2. CASE PanelRequest
  <2>1. agent.pc = "up" /\ EnrolledAgent
    BY <1>2 DEF PanelRequest, Serving, InStep
  <2>2. agent' = Observed(row.cur) /\ disk' = StateFile(agent')
    BY <1>2, <2>1, PersistKeepsFile DEF PanelRequest, EnrolledAgent
  <2>3. CASE row.cur # agent.next
    BY <1>2, <2>1, <2>2, <2>3, FrameInStep DEF PanelRequest, Observed, EnrolledAgent
  <2>4. CASE row.cur = agent.next
    <3>1. /\ agent' = [agent EXCEPT !.cur = row.cur, !.next = NoSecret]
          /\ agent'.cur = row.cur /\ agent'.next = NoSecret
          /\ agent'.pc = "up" /\ ~agent'.saving /\ row.cur # NoSecret
      BY <2>1, <2>2, <2>4 DEF Observed, TypeOK, Agent, InStep, EnrolledAgent, Authenticates
    <3>2. EnrolledAgent'
      BY <1>2, <2>1, <2>2, <3>1 DEF PanelRequest, EnrolledAgent, Authenticates
    <3>3. ASSUME NEW r \in Rotations PROVE PushSound(r)' /\ ConfirmSound(r)'
      <4>1. rot[r].pc = "sent" => rot[r].new # NoSecret /\ rot[r].old # NoSecret
        BY DEF TypeOK, Rotation, Secrets, NoSecret
      <4> QED BY <1>2, <2>4, <3>1, <4>1 DEF PanelRequest, InStep, PushSound, ConfirmSound
    <3>4. Bounded'
      BY <1>2, <3>1 DEF PanelRequest, InStep, Bounded, NoSecret, TypeOK, Secrets
    <3> QED BY <1>2, <3>1, <3>2, <3>3, <3>4 DEF PanelRequest, InStep
  <2> QED BY <2>3, <2>4
<1>3. CASE AgentRestarts
  <2>1. /\ agent'.pc = "up" <=> agent.pc = "up"
        /\ agent'.cur = agent.cur /\ agent'.next = agent.next /\ ~agent'.saving
    BY <1>3 DEF AgentRestarts, Loaded, InStep, EnrolledAgent, BlankAgent, StateFile, NoFile
  <2> QED
    BY <1>3, <2>1 DEF AgentRestarts, InStep, EnrolledAgent, BlankAgent, PushSound, ConfirmSound,
       Bounded, StateFile, Authenticates
<1>4. CASE EnrollFails
  <2>1. agent.pc # "up" /\ agent'.pc # "up" /\ agent'.saving = agent.saving
        /\ agent'.cur = agent.cur /\ agent'.next = agent.next
    BY <1>4 DEF EnrollFails, TypeOK, Agent
  <2> QED
    BY <1>4, <2>1 DEF EnrollFails, InStep, BlankAgent, PushSound, ConfirmSound, Bounded
<1> QED BY <1>1, <1>2, <1>3, <1>4

LEMMA RotationInStep ==
  ASSUME OneAtATime, TypeOK, InStep, NEW r \in Rotations,
         SchedulerPicks(r) \/ StartRotation(r) \/ RotationStep(r)
  PROVE  InStep'
<1> USE DEF agentVars, enrollVars, timeVars
<1>0. Rotations = {r}
  BY DEF OneAtATime
<1>1. CASE SchedulerPicks(r)
  <2>1. rot'[r].pc = "due" /\ rot'[r].new = rot[r].new
    BY <1>1 DEF SchedulerPicks, TypeOK, Rotation
  <2> QED
    BY <1>0, <1>1, <2>1 DEF SchedulerPicks, InStep, EnrolledAgent, BlankAgent, PushSound, ConfirmSound,
       Bounded, StateFile, Authenticates
<1>2. CASE StartRotation(r)
  <2>1. /\ rot'[r].pc = "sent" /\ rot'[r].old = row.cur /\ rot'[r].new = issued + 1
        /\ issued' = issued + 1
    BY <1>2 DEF StartRotation, TypeOK
  <2>2. issued + 1 \notin {row.cur, agent.cur, agent.next} /\ Bounded'
    BY <1>0, <1>2, <2>1 DEF StartRotation, InStep, Bounded, TypeOK, Row, Agent, Secrets, Maybe, NoSecret
  <2> QED
    BY <1>0, <1>2, <2>1, <2>2 DEF StartRotation, InStep, EnrolledAgent, BlankAgent, PushSound,
       ConfirmSound, StateFile, Authenticates
<1>3. CASE PushArrives(r)
  <2>1. /\ agent.pc = "up" /\ EnrolledAgent
        /\ rot[r].old = row.cur /\ rot[r].new \notin {row.cur, agent.cur, agent.next}
        /\ row.cur # NoSecret
    BY <1>3 DEF PushArrives, Receive, Serving, Authenticates, InStep, PushSound
  <2>2. agent' = Staged(Observed(row.cur), rot[r].new) /\ disk' = StateFile(agent')
    BY <1>3, <2>1, PersistKeepsFile DEF PushArrives, Receive, EnrolledAgent
  <2>3. /\ agent'.cur = row.cur /\ agent'.next = rot[r].new
        /\ agent'.pc = "up" /\ ~agent'.saving
    BY <2>1, <2>2 DEF Staged, Observed, InStep, EnrolledAgent, Authenticates, TypeOK, Agent
  <2>4. rot'[r] = NoRotation \/ (rot'[r].pc = "acked" /\ rot'[r].new = rot[r].new)
    BY <1>3 DEF PushArrives, TypeOK, Rotation
  <2>5. EnrolledAgent'
    BY <1>3, <2>1, <2>2, <2>3 DEF PushArrives, EnrolledAgent, Authenticates
  <2>6. Bounded'
    BY <1>0, <1>3, <2>3, <2>4 DEF PushArrives, InStep, Bounded, NoRotation, NoSecret, TypeOK, Secrets
  <2> QED
    BY <1>0, <1>3, <2>1, <2>3, <2>4, <2>5, <2>6 DEF PushArrives, InStep, PushSound, ConfirmSound, NoRotation
<1>4. CASE PushFails(r) \/ SwitchFails(r)
  <2>1. stray' = stray /\ rot'[r] = NoRotation
    BY <1>4 DEF PushFails, SwitchFails, OneAtATime, TypeOK
  <2>2. Bounded'
    BY <1>0, <1>4, <2>1 DEF PushFails, SwitchFails, InStep, Bounded, NoRotation, NoSecret, TypeOK, Secrets
  <2> QED
    BY <1>0, <1>4, <2>1, <2>2 DEF PushFails, SwitchFails, InStep, EnrolledAgent, BlankAgent, PushSound,
       ConfirmSound, NoRotation, StateFile, Authenticates
<1>5. CASE PersistSwitch(r)
  <2>1. /\ agent.pc = "up" /\ EnrolledAgent
        /\ agent.next = rot[r].new /\ rot[r].new \in Secrets
    BY <1>5 DEF PersistSwitch, InStep, BlankAgent, ConfirmSound, TypeOK, Rotation
  <2>2. rot'[r] = NoRotation /\ row'.cur = rot[r].new
    BY <1>5 DEF PersistSwitch, TypeOK, Row
  <2>3. Bounded'
    BY <1>0, <1>5, <2>2 DEF PersistSwitch, InStep, Bounded, NoRotation, NoSecret, TypeOK, Secrets
  <2>4. EnrolledAgent'
    BY <1>5, <2>1, <2>2 DEF PersistSwitch, EnrolledAgent, StateFile, Authenticates, Secrets, NoSecret
  <2> QED
    BY <1>0, <1>5, <2>1, <2>2, <2>3, <2>4 DEF PersistSwitch, InStep, PushSound, ConfirmSound, NoRotation
<1> QED BY <1>1, <1>2, <1>3, <1>4, <1>5 DEF RotationStep

LEMMA EnrollInStep ==
  ASSUME OneAtATime, TypeOK, InStep, NEW e \in Enrollments, SendEnroll(e) \/ EnrollStep(e)
  PROVE  InStep'
<1> USE DEF agentVars, rotVars, timeVars
<1>0. Enrollments = {e}
  BY DEF OneAtATime
<1>1. CASE SendEnroll(e)
  <2>1. /\ agent.pc # "up" /\ agent'.pc # "up" /\ agent'.saving = agent.saving
        /\ agent'.cur = agent.cur /\ agent'.next = agent.next /\ enr'[e].pc = "sent"
    BY <1>1 DEF SendEnroll, TypeOK, Agent
  <2> QED
    BY <1>0, <1>1, <2>1 DEF SendEnroll, InStep, BlankAgent, PushSound, ConfirmSound, Bounded
<1>2. CASE ReadEnroll(e)
  <2>1. agent.pc # "up" /\ enr'[e].pc \in {"read", "over"}
    BY <1>2 DEF ReadEnroll, InStep, EnrolledAgent, TypeOK
  <2> QED
    BY <1>0, <1>2, <2>1 DEF ReadEnroll, InStep, BlankAgent, PushSound, ConfirmSound, Bounded
<1>3. CASE ProvisionNode(e)
  <2>1. /\ agent.pc # "up" /\ BlankAgent
        /\ enr'[e].tok = issued + 1 /\ row'.cur = issued + 1 /\ issued' = issued + 1
    BY <1>3 DEF ProvisionNode, InStep, EnrolledAgent, TypeOK, Row, Enroll
  <2>2. BlankAgent'
    BY <1>0, <1>3, <2>1 DEF ProvisionNode, BlankAgent
  <2>3. Bounded'
    BY <1>3, <2>1 DEF ProvisionNode, InStep, Bounded, TypeOK, Agent, Rotation, Secrets, Maybe, NoSecret
  <2>4. ASSUME NEW r \in Rotations PROVE PushSound(r)' /\ ConfirmSound(r)'
    <3>1. rot[r].pc # "acked" /\ agent.cur = NoSecret /\ agent.next = NoSecret
      BY <2>1 DEF BlankAgent
    <3>2. rot[r].pc = "sent" => rot[r].old # NoSecret /\ rot[r].new # NoSecret /\ rot[r].new # issued + 1
      BY DEF TypeOK, Rotation, InStep, Bounded, Secrets, NoSecret
    <3> QED BY <1>3, <2>1, <3>1, <3>2 DEF ProvisionNode, PushSound, ConfirmSound
  <2> QED BY <1>3, <2>1, <2>2, <2>3, <2>4 DEF ProvisionNode, InStep
<1>4. CASE MarkUsed(e)
  <2>1. /\ agent.pc # "up" /\ enr'[e].pc = "marked" /\ enr'[e].tok = enr[e].tok
    BY <1>4 DEF MarkUsed, InStep, EnrolledAgent, TypeOK, Enroll
  <2> QED
    BY <1>0, <1>4, <2>1 DEF MarkUsed, InStep, BlankAgent, PushSound, ConfirmSound, Bounded
<1>5. CASE Enrolled(e)
  <2>1. /\ agent.pc # "up" /\ BlankAgent /\ enr[e].tok = row.cur /\ row.cur \in Secrets
        /\ enr'[e].pc = "over" /\ row' = row
    BY <1>5 DEF Enrolled, InStep, EnrolledAgent, BlankAgent, TypeOK, Row
  <2>2. /\ agent'.cur = row.cur /\ agent'.next = NoSecret /\ agent'.pc = "up" /\ ~agent'.saving
        /\ disk' = StateFile(agent')
    BY <1>5, <2>1 DEF Enrolled, StateFile
  <2>3. EnrolledAgent'
    <3>1. row.cur # NoSecret
      BY <2>1 DEF Secrets, NoSecret
    <3>2. \A d \in Enrollments : enr'[d].pc \in {"idle", "over"}
      BY <1>0, <2>1
    <3> QED BY <2>1, <2>2, <3>1, <3>2 DEF EnrolledAgent, Authenticates
  <2>4. ASSUME NEW r \in Rotations PROVE PushSound(r)' /\ ConfirmSound(r)'
    <3>1. rot[r].pc = "sent" => rot[r].old # NoSecret /\ rot[r].new # NoSecret
      BY DEF TypeOK, Rotation, Secrets, NoSecret
    <3> QED BY <1>5, <2>1, <2>2, <3>1 DEF Enrolled, InStep, BlankAgent, PushSound, ConfirmSound
  <2>5. Bounded'
    BY <1>5, <2>1, <2>2 DEF Enrolled, InStep, Bounded, NoSecret, TypeOK, Secrets
  <2> QED BY <1>5, <2>2, <2>3, <2>4, <2>5 DEF Enrolled, InStep
<1> QED BY <1>1, <1>2, <1>3, <1>4, <1>5 DEF EnrollStep

LEMMA NextInStep ==
  ASSUME OneAtATime, TypeOK, InStep, [Next]_vars
  PROVE  InStep'
<1> USE DEF agentVars, rotVars, enrollVars, timeVars
<1>1. CASE UNCHANGED vars
  BY <1>1, FrameInStep DEF vars, panelVars
<1>2. CASE SendBeat \/ ReadBeat \/ BeatLost \/ DayPasses
  BY <1>2, FrameInStep DEF SendBeat, ReadBeat, BeatLost, DayPasses
<1>3. CASE WriteBeat \/ MarkStaleOffline
  <2>1. row'.cur = row.cur
    BY <1>3 DEF WriteBeat, BeatRow, MarkStaleOffline, TypeOK, Row
  <2> QED BY <1>3, <2>1, FrameInStep DEF WriteBeat, MarkStaleOffline
<1>4. CASE \E j \in JoinTokens : JoinExpires(j)
  BY <1>4, FrameInStep DEF JoinExpires
<1>5. CASE \E m \in stray : StrayArrives(m)
  BY <1>5 DEF InStep
<1> QED
  BY <1>1, <1>2, <1>3, <1>4, <1>5, AgentInStep, RotationInStep, EnrollInStep DEF Next

\* When rotations do not overlap and only messages are lost, the panel never
\* presents a secret its enrolled agent would refuse, through any number of
\* rotations, failed pushes, lost answers and restarts of the agent.
THEOREM NeverLockedOut ==
  ASSUME OneAtATime
  PROVE  Spec => []PanelAccepted
<1>1. Init => InStep
  BY InStepInit
<1>2. TypeOK /\ InStep /\ [Next]_vars => InStep'
  BY NextInStep
<1>3. InStep => PanelAccepted
  BY DEF InStep, EnrolledAgent, PanelAccepted
<1> QED BY <1>1, <1>2, <1>3, TokenTypes, PTL DEF Spec

-----------------------------------------------------------------------------
(* Restarts of the agent.                                                   *)

\* An enrolled agent knows a secret, and so does its file unless it is being written.
Identity ==
  /\ agent.pc = "up" => agent.cur # NoSecret /\ (agent.saving \/ disk.cur # NoSecret)
  /\ agent.saving => agent.pc = "up"
  /\ \A e \in Enrollments : enr[e].pc \in {"provisioned", "marked"} => enr[e].tok # NoSecret

LEMMA IdentityInit == Init => Identity
<1> SUFFICES ASSUME Init PROVE Identity
  OBVIOUS
<1>1. /\ agent.pc = "up" => agent.cur = 1 /\ disk.cur = 1
      /\ ~agent.saving
  BY DEF Init
<1>2. \A e \in Enrollments : enr[e].pc = "idle"
  BY DEF Init
<1> QED BY <1>1, <1>2 DEF Identity, NoSecret

\* Whatever is authenticated and staged, the agent goes on with a secret.
LEMMA PersistIdentifies ==
  ASSUME TypeOK, Identity, Serving, NEW a \in Agent, Persist(a), enr' = enr,
         a.pc = "up", a.cur # NoSecret, ~a.saving
  PROVE  Identity' /\ agent'.pc = "up"
<1>1. CASE a = agent
  BY <1>1 DEF Persist, Identity, Serving
<1>2. CASE a # agent
  <2>1. /\ StateFile(a).cur # NoSecret
        /\ disk.cur # NoSecret
        /\ LET s == [a EXCEPT !.saving = TRUE] IN s.pc = "up" /\ s.cur # NoSecret /\ s.saving
    BY DEF StateFile, Identity, Serving, Agent
  <2> QED BY <1>2, <2>1 DEF Persist, Identity
<1> QED BY <1>1, <1>2

LEMMA StagedKnows ==
  ASSUME TypeOK, Identity, Serving, NEW t \in Secrets, NEW u \in Secrets
  PROVE  \A a \in {Observed(t), Staged(Observed(t), u)} :
           a \in Agent /\ a.pc = "up" /\ a.cur # NoSecret /\ ~a.saving
<1>1. t # NoSecret
  BY DEF Secrets, NoSecret
<1>2. Observed(t).pc = "up" /\ Observed(t).cur # NoSecret /\ ~Observed(t).saving
  BY <1>1 DEF Observed, Serving, Identity, TypeOK, Agent
<1>3. Observed(t) \in Agent /\ Staged(Observed(t), u) \in Agent
  BY AgentStateTyped DEF TypeOK
<1>4. LET a == Staged(Observed(t), u) IN a.pc = "up" /\ a.cur # NoSecret /\ ~a.saving
  BY <1>2, <1>3 DEF Staged, Agent
<1> QED BY <1>2, <1>3, <1>4

LEMMA PushIdentifies ==
  ASSUME TypeOK, Identity,
         (\E r \in Rotations : PushArrives(r)) \/ (\E m \in stray : StrayArrives(m))
  PROVE  Identity' /\ agent'.pc = "up"
<1>1. PICK old \in Secrets, new \in Secrets : Receive(old, new) /\ enr' = enr
  BY DEF PushArrives, StrayArrives, enrollVars, TypeOK, Rotation, Push
<1> QED BY <1>1, StagedKnows, PersistIdentifies DEF Receive

LEMMA AgentIdentifies ==
  ASSUME TypeOK, Identity, SaveCompletes \/ PanelRequest \/ AgentRestarts \/ EnrollFails
  PROVE  Identity' /\ (agent.pc = "up" /\ ~agent.saving => agent'.pc = "up")
<1> USE DEF panelVars, enrollVars
<1>1. CASE SaveCompletes
  <2>1. /\ agent'.pc = agent.pc /\ agent'.cur = agent.cur /\ ~agent'.saving
        /\ disk'.cur = agent.cur
    BY <1>1 DEF SaveCompletes, StateFile, TypeOK, Agent
  <2> QED BY <1>1, <2>1 DEF SaveCompletes, Identity
<1>2. CASE PanelRequest
  <2>1. row.cur \in Secrets
    BY DEF TypeOK, Row
  <2> QED BY <1>2, <2>1, StagedKnows, PersistIdentifies DEF PanelRequest
<1>3. CASE AgentRestarts
  BY <1>3 DEF AgentRestarts, Loaded, Identity
<1>4. CASE EnrollFails
  <2>1. agent.pc = "enrolling" /\ agent'.pc = "new" /\ agent'.saving = agent.saving
    BY <1>4 DEF EnrollFails, TypeOK, Agent
  <2> QED BY <1>4, <2>1 DEF EnrollFails, Identity
<1> QED BY <1>1, <1>2, <1>3, <1>4

LEMMA EnrollIdentifies ==
  ASSUME TypeOK, Identity, NEW e \in Enrollments, SendEnroll(e) \/ EnrollStep(e)
  PROVE  Identity' /\ (agent.pc = "up" => agent'.pc = "up")
<1> USE DEF agentVars
<1>1. CASE SendEnroll(e)
  <2>1. /\ agent.pc = "new" /\ agent'.pc = "enrolling" /\ agent'.saving = agent.saving
        /\ \A f \in Enrollments : enr'[f].pc \in {"provisioned", "marked"} => enr'[f] = enr[f]
    BY <1>1 DEF SendEnroll, TypeOK, Agent, Enroll
  <2> QED BY <2>1 DEF Identity
<1>2. CASE ReadEnroll(e) \/ MarkUsed(e)
  <2>1. \A f \in Enrollments : enr'[f].tok = enr[f].tok /\
          (enr'[f].pc \in {"provisioned", "marked"} => enr[f].pc \in {"provisioned", "marked"})
    BY <1>2 DEF ReadEnroll, MarkUsed, TypeOK, Enroll
  <2> QED BY <1>2, <2>1 DEF ReadEnroll, MarkUsed, Identity
<1>3. CASE ProvisionNode(e)
  <2>1. issued + 1 # NoSecret
    BY DEF TypeOK, Secrets, NoSecret
  <2>2. \A f \in Enrollments : enr'[f].tok = IF f = e THEN issued + 1 ELSE enr[f].tok
    BY <1>3 DEF ProvisionNode, TypeOK, Enroll
  <2>3. \A f \in Enrollments : f # e => enr'[f].pc = enr[f].pc
    BY <1>3 DEF ProvisionNode, TypeOK
  <2> QED BY <1>3, <2>1, <2>2, <2>3 DEF ProvisionNode, Identity
<1>4. CASE Enrolled(e)
  <2>1. enr[e].tok # NoSecret
    BY <1>4 DEF Enrolled, Identity
  <2>2. \A f \in Enrollments : enr'[f].tok = enr[f].tok /\ (f # e => enr'[f].pc = enr[f].pc)
    BY <1>4 DEF Enrolled, TypeOK, Enroll
  <2>3. enr'[e].pc = "over"
    BY <1>4 DEF Enrolled, TypeOK, Enroll
  <2> QED BY <1>4, <2>1, <2>2, <2>3 DEF Enrolled, Identity
<1> QED BY <1>1, <1>2, <1>3, <1>4 DEF EnrollStep

LEMMA IdentityStep ==
  ASSUME TypeOK, Identity, [Next]_vars
  PROVE  Identity' /\ (agent.pc = "up" /\ ~agent.saving => agent'.pc = "up")
<1>1. CASE /\ \/ UNCHANGED vars
              \/ \E r \in Rotations : \/ SchedulerPicks(r) \/ StartRotation(r)
                                      \/ PushFails(r) \/ PersistSwitch(r) \/ SwitchFails(r)
              \/ SendBeat \/ ReadBeat \/ BeatLost \/ WriteBeat \/ MarkStaleOffline
              \/ (\E j \in JoinTokens : JoinExpires(j)) \/ DayPasses
  <2>1. agent' = agent /\ disk' = disk /\ enr' = enr
    BY <1>1 DEF vars, panelVars, agentVars, enrollVars, SchedulerPicks, StartRotation, PushFails,
       PersistSwitch, SwitchFails, SendBeat, ReadBeat, BeatLost, WriteBeat, MarkStaleOffline,
       JoinExpires, DayPasses
  <2> QED BY <2>1 DEF Identity
<1> QED
  BY <1>1, PushIdentifies, AgentIdentifies, EnrollIdentifies DEF Next, RotationStep

\* With any number of overlapping rotations and enrollments, and whatever is lost, late, not
\* written or half written: only a death in the middle of a write of state.json makes an
\* enrolled agent forget who it is.
THEOREM RestartsKeepIdentity == Spec => StaysEnrolled
<1>1. Init => Identity
  BY IdentityInit
<1>2. TypeOK /\ Identity /\ [Next]_vars =>
        Identity' /\ [agent.pc = "up" /\ ~agent.saving => agent'.pc = "up"]_vars
  BY IdentityStep
<1> QED BY <1>1, <1>2, TokenTypes, PTL DEF Spec, StaysEnrolled

-----------------------------------------------------------------------------
(* Refinement.  The row presents, the agent accepts: every step of the      *)
(* protocol provisions, stages, switches or narrows, or is not seen at all. *)

\* What an enrolled agent accepts, and where its secrets come from.
LEMMA AcceptedIs ==
  ASSUME TypeOK, InStep
  PROVE  /\ agent.pc # "up" => Accepted = {}
         /\ agent.pc = "up" => /\ Accepted = {agent.cur, agent.next} \ {NoSecret}
                               /\ row.cur \in Accepted
BY DEF InStep, EnrolledAgent, Authenticates, Accepted

LEMMA RollInit == ASSUME Init PROVE Roll!RolloverInit
<1>1. TypeOK /\ InStep
  BY TokensInit, InStepInit
<1>2. row.cur \in Secrets
  BY <1>1 DEF TypeOK, Row
<1>3. PICK pc \in InitialAgents :
        agent = [pc |-> pc, cur |-> IF pc = "up" THEN 1 ELSE NoSecret, next |-> NoSecret,
                 waits |-> NoRequest, saving |-> FALSE]
  BY Zenon DEF Init
<1>4. agent.next = NoSecret
  BY <1>3
<1>5. Accepted \in {{}, {row.cur}}
  BY <1>1, <1>4, AcceptedIs
<1> QED BY <1>2, <1>5 DEF Roll!RolloverInit

\* Steps that neither side's secrets show.
LEMMA RollFrame ==
  ASSUME row'.cur = row.cur, agent'.pc = agent.pc \/ (agent.pc # "up" /\ agent'.pc # "up"),
         agent'.cur = agent.cur, agent'.next = agent.next
  PROVE  UNCHANGED Roll!kvars
BY DEF Roll!kvars, Accepted

LEMMA RollRequest ==
  ASSUME OneAtATime, TypeOK, InStep, PanelRequest
  PROVE  [Roll!RolloverNext]_Roll!kvars
<1>1. agent.pc = "up" /\ EnrolledAgent /\ row' = row
  BY DEF PanelRequest, Serving, InStep, panelVars
<1>2. agent' = Observed(row.cur)
  BY <1>1, PersistKeepsFile DEF PanelRequest, EnrolledAgent
<1>3. CASE row.cur # agent.next
  BY <1>1, <1>2, <1>3, RollFrame DEF Observed
<1>4. CASE row.cur = agent.next
  <2>1. agent'.pc = "up" /\ agent'.cur = row.cur /\ agent'.next = NoSecret /\ row.cur # NoSecret
    BY <1>1, <1>2, <1>4 DEF Observed, TypeOK, Agent, EnrolledAgent, Authenticates
  <2>2. Accepted' = {row.cur}
    BY <2>1 DEF Accepted
  <2>3. row.cur \in Accepted
    BY <1>1, AcceptedIs
  <2> QED BY <1>1, <2>2, <2>3 DEF Roll!RolloverNext, Roll!Narrow
<1> QED BY <1>3, <1>4

LEMMA RollRotation ==
  ASSUME OneAtATime, TypeOK, InStep, NEW r \in Rotations, RotationStep(r)
  PROVE  [Roll!RolloverNext]_Roll!kvars
<1>1. CASE PushArrives(r)
  <2>1. /\ agent.pc = "up" /\ EnrolledAgent
        /\ rot[r].old = row.cur /\ rot[r].new \notin {row.cur, agent.cur, agent.next}
        /\ row.cur # NoSecret
    BY <1>1 DEF PushArrives, Receive, Serving, Authenticates, InStep, PushSound
  <2>2. agent' = Staged(Observed(row.cur), rot[r].new)
    BY <1>1, <2>1, PersistKeepsFile DEF PushArrives, Receive, EnrolledAgent
  <2>3. agent'.cur = row.cur /\ agent'.next = rot[r].new /\ agent'.pc = "up"
    BY <2>1, <2>2 DEF Staged, Observed, EnrolledAgent, Authenticates, TypeOK, Agent
  <2>4. rot[r].new \in Secrets /\ rot[r].new # NoSecret
    BY <1>1 DEF PushArrives, TypeOK, Rotation, Secrets, NoSecret
  <2>5. Accepted' = {row.cur, rot[r].new}
    BY <2>1, <2>3, <2>4 DEF Accepted
  <2>6. row.cur \in Accepted /\ row' = row
    BY <1>1, <2>1, AcceptedIs DEF PushArrives
  <2> QED BY <2>4, <2>5, <2>6 DEF Roll!RolloverNext, Roll!Stage
<1>2. CASE PushFails(r) \/ SwitchFails(r)
  BY <1>2, RollFrame DEF PushFails, SwitchFails, agentVars
<1>3. CASE PersistSwitch(r)
  <2>1. agent.pc = "up" /\ agent.next = rot[r].new /\ rot[r].new \in Secrets
    BY <1>3 DEF PersistSwitch, InStep, BlankAgent, ConfirmSound, TypeOK, Rotation
  <2>2. row'.cur \in Accepted
    BY <1>3, <2>1 DEF PersistSwitch, TypeOK, Row, Accepted, Secrets, NoSecret
  <2>3. UNCHANGED Accepted
    BY <1>3 DEF PersistSwitch, agentVars, Accepted
  <2> QED BY <2>2, <2>3 DEF Roll!RolloverNext, Roll!Switch
<1> QED BY <1>1, <1>2, <1>3 DEF RotationStep

LEMMA RollEnroll ==
  ASSUME OneAtATime, TypeOK, InStep, NEW e \in Enrollments, SendEnroll(e) \/ EnrollStep(e)
  PROVE  [Roll!RolloverNext]_Roll!kvars
<1>1. CASE SendEnroll(e)
  BY <1>1, RollFrame DEF SendEnroll, TypeOK, Agent
<1>2. CASE ReadEnroll(e) \/ MarkUsed(e)
  BY <1>2, RollFrame DEF ReadEnroll, MarkUsed, agentVars
<1>3. CASE ProvisionNode(e)
  <2>1. agent.pc # "up" /\ agent' = agent
    BY <1>3 DEF ProvisionNode, InStep, EnrolledAgent, agentVars
  <2>2. Accepted = {} /\ Accepted' = {}
    BY <2>1 DEF Accepted
  <2>3. row'.cur \in Secrets
    BY <1>3, NumbersTyped DEF ProvisionNode, TypeOK, Row
  <2> QED BY <2>2, <2>3 DEF Roll!RolloverNext, Roll!Provision
<1>4. CASE Enrolled(e)
  <2>1. agent.pc # "up" /\ enr[e].tok = row.cur /\ row' = row /\ row.cur # NoSecret
    BY <1>4 DEF Enrolled, InStep, EnrolledAgent, BlankAgent, TypeOK, Row, Secrets, NoSecret
  <2>2. agent'.pc = "up" /\ agent'.cur = row.cur /\ agent'.next = NoSecret
    BY <1>4, <2>1 DEF Enrolled
  <2>3. Accepted = {} /\ Accepted' = {row.cur}
    BY <2>1, <2>2 DEF Accepted
  <2> QED BY <2>1, <2>3 DEF Roll!RolloverNext, Roll!Provision
<1> QED BY <1>1, <1>2, <1>3, <1>4 DEF EnrollStep

LEMMA RollStep ==
  ASSUME OneAtATime, TypeOK, InStep, [Next]_vars
  PROVE  [Roll!RolloverNext]_Roll!kvars
<1>1. CASE UNCHANGED vars
  BY <1>1, RollFrame DEF vars, panelVars, agentVars
<1>2. CASE SendBeat \/ ReadBeat \/ BeatLost \/ DayPasses \/ \E j \in JoinTokens : JoinExpires(j)
  BY <1>2, RollFrame DEF SendBeat, ReadBeat, BeatLost, DayPasses, JoinExpires, agentVars
<1>3. CASE WriteBeat \/ MarkStaleOffline
  <2>1. row'.cur = row.cur
    BY <1>3 DEF WriteBeat, BeatRow, MarkStaleOffline, TypeOK, Row
  <2> QED BY <1>3, <2>1, RollFrame DEF WriteBeat, MarkStaleOffline, agentVars
<1>4. CASE SaveCompletes \/ \E m \in stray : StrayArrives(m)
  BY <1>4 DEF SaveCompletes, InStep
<1>5. CASE AgentRestarts
  <2>1. /\ agent'.pc = agent.pc \/ (agent.pc # "up" /\ agent'.pc # "up")
        /\ agent'.cur = agent.cur /\ agent'.next = agent.next
    BY <1>5 DEF AgentRestarts, Loaded, InStep, EnrolledAgent, BlankAgent, StateFile, NoFile
  <2> QED BY <1>5, <2>1, RollFrame DEF AgentRestarts, panelVars
<1>6. CASE EnrollFails
  BY <1>6, RollFrame DEF EnrollFails, panelVars, TypeOK, Agent
<1>7. ASSUME NEW r \in Rotations, SchedulerPicks(r) \/ StartRotation(r)
      PROVE  [Roll!RolloverNext]_Roll!kvars
  BY <1>7, RollFrame DEF SchedulerPicks, StartRotation, agentVars
<1> QED
  BY <1>1, <1>2, <1>3, <1>4, <1>5, <1>6, <1>7, RollRequest, RollRotation, RollEnroll DEF Next

\* Under the assumption of NeverLockedOut the protocol implements the rollover of a shared
\* secret: a new secret is accepted before it is presented, and an old one dropped after.
THEOREM RotationImplements ==
  ASSUME OneAtATime
  PROVE  Spec => RollsOver
<1>1. Init => InStep /\ Roll!RolloverInit
  BY InStepInit, RollInit
<1>2. TypeOK /\ InStep /\ [Next]_vars => InStep' /\ [Roll!RolloverNext]_Roll!kvars
  BY NextInStep, RollStep
<1> QED BY <1>1, <1>2, TokenTypes, PTL DEF Spec, RollsOver, Roll!Rollover

\* What KeyRollover is worth, proved from it alone: two parties that follow it never lose each
\* other (the order of stage, switch and confirmation in rotateToken).
THEOREM RolloverKeepsTouch == RollsOver => []Roll!InTouch
<1>1. Roll!RolloverInit => Roll!InTouch
  BY DEF Roll!RolloverInit, Roll!InTouch
<1>2. Roll!InTouch /\ [Roll!RolloverNext]_Roll!kvars => Roll!InTouch'
  BY DEF Roll!RolloverNext, Roll!Provision, Roll!Stage, Roll!Switch, Roll!Narrow, Roll!InTouch, Roll!kvars
<1> QED BY <1>1, <1>2, PTL DEF RollsOver, Roll!Rollover
=============================================================================

--------------------------- MODULE SchedulesProofs ---------------------------
(* Proofs about Schedules, for any number of schedules, requests, changes   *)
(* and faults.                                                              *)
EXTENDS Schedules, TLAPS

-----------------------------------------------------------------------------
(* Types.                                                                   *)

Pcs == {"idle", "list", "clear", "read", "add", "undo"}

LEMMA IdleTyped == /\ Idle \in Request
                   /\ Idle.pc = "idle" /\ Idle.work = {}
<1>1. (CHOOSE r \in Rows : TRUE) \in Rows
  BY RowsAssumption
<1> QED BY <1>1 DEF Idle, Request, Crons

\* A sync that goes on, is marked, begins or is undone is still a request.
LEMMA RequestTyped ==
  \A r \in Request :
    /\ r.work \subseteq Jobs
    /\ \A pc \in Pcs, w \in SUBSET Jobs : [r EXCEPT !.pc = pc, !.work = w] \in Request
    /\ \A b \in BOOLEAN : [r EXCEPT !.whole = @ /\ b, !.alone = FALSE] \in Request
    /\ \A b \in BOOLEAN : [r EXCEPT !.pc = "list", !.work = {}, !.whole = TRUE, !.alone = b] \in Request
    /\ [r EXCEPT !.op = "again"] \in Request
BY DEF Request, Pcs

\* What a request starts from.
LEMMA StartTyped ==
  \A r \in Rows, c \in Crons :
    /\ [Idle EXCEPT !.op = "create", !.row = r] \in Request
    /\ [Idle EXCEPT !.op = "update", !.row = r, !.old = c] \in Request
    /\ [Idle EXCEPT !.op = "toggle", !.row = r] \in Request
    /\ [Idle EXCEPT !.op = "remove", !.row = r] \in Request
    /\ [Idle EXCEPT !.pc = "list"] \in Request
BY IdleTyped DEF Request

LEMMA MarkedTyped == ASSUME TypeOK, NEW p \in Syncs, NEW b \in BOOLEAN
                     PROVE  Marked(p, b) \in Request
BY RequestTyped DEF TypeOK, Marked

LEMMA BesideTyped == ASSUME TypeOK, NEW q \in Syncs, NEW r \in Request, NEW b \in BOOLEAN
                     PROVE  Beside(q, r, b) \in [Syncs -> Request]
BY MarkedTyped DEF Beside

LEMMA BeginsTyped == ASSUME TypeOK, NEW q \in Syncs, NEW r \in Request, Begins(q, r)
                     PROVE  req' \in [Syncs -> Request] /\ mixed' \in BOOLEAN
<1>1. Others(q) \in BOOLEAN
  BY DEF Others
<1>2. [r EXCEPT !.pc = "list", !.work = {}, !.whole = TRUE, !.alone = ~Others(q)] \in Request
  BY <1>1, RequestTyped
<1> QED BY <1>1, <1>2, BesideTyped DEF Begins, TypeOK

LEMMA GoesTyped == ASSUME TypeOK, NEW q \in Syncs, NEW pc \in Pcs, NEW w \in SUBSET Jobs, Goes(q, pc, w)
                   PROVE  req' \in [Syncs -> Request]
<1>1. [req[q] EXCEPT !.pc = pc, !.work = w] \in Request
  BY RequestTyped DEF TypeOK
<1> QED BY <1>1 DEF Goes, TypeOK

LEMMA ThrowsTyped == ASSUME TypeOK, NEW q \in Syncs, Throws(q)
                     PROVE  req' \in [Syncs -> Request] /\ thrown' \in BOOLEAN
<1>1. AfterThrow(q) \in Request
  BY IdleTyped, RequestTyped DEF AfterThrow, TypeOK, Pcs
<1> QED BY <1>1, BesideTyped DEF Throws

LEMMA RowTyped == ASSUME TypeOK, NEW r \in Rows
                  PROVE  /\ \A on \in BOOLEAN, c \in Crons :
                              [row EXCEPT ![r] = [life |-> "there", enabled |-> on, cron |-> c]] \in [Rows -> Row]
                         /\ \A c \in Crons : [row EXCEPT ![r].cron = c] \in [Rows -> Row]
                         /\ [row EXCEPT ![r].enabled = ~@] \in [Rows -> Row]
                         /\ [row EXCEPT ![r].life = "gone"] \in [Rows -> Row]
                         /\ row[r].cron \in Crons
BY DEF TypeOK, Row

LEMMA ScheduledTyped == ASSUME TypeOK PROVE Scheduled \subseteq Jobs /\ jobs \subseteq Jobs
<1>1. \A r \in Enabled : r \in Rows /\ row[r].cron \in Crons
  BY RowTyped DEF Enabled
<1>2. Scheduled \subseteq Jobs
  BY <1>1 DEF Scheduled, Jobs
<1>3. Patterns \subseteq Crons
  BY DEF Crons
<1>4. jobs \subseteq Jobs
  BY <1>3 DEF Jobs, TypeOK
<1> QED BY <1>2, <1>4

LEMMA TypeInit == Init => TypeOK
<1> SUFFICES ASSUME Init PROVE TypeOK
  OBVIOUS
<1>1. row \in [Rows -> Row] BY DEF Init, Row, Crons
<1>2. req \in [Syncs -> Request] BY IdleTyped DEF Init
<1>3. thrown \in BOOLEAN /\ mixed \in BOOLEAN
  BY DEF Init
<1>4. kind \in Kinds /\ jobs \subseteq Rows \X Patterns
  BY DEF Init
<1>5. changes \in 0..MaxChanges /\ faults \in 0..MaxFaults
  BY ScheduleBoundsAssumption DEF Init
<1> QED BY <1>1, <1>2, <1>3, <1>4, <1>5 DEF TypeOK

LEMMA TypeStep == TypeOK /\ [Next]_vars => TypeOK'
<1> SUFFICES ASSUME TypeOK, [Next]_vars PROVE TypeOK'
  OBVIOUS
<1> USE ScheduleBoundsAssumption
<1>0. Requests \subseteq Syncs BY DEF Syncs
<1>1. ASSUME NEW q \in Requests, Create(q) PROVE TypeOK'
  <2>1. PICK r \in Rows, c \in Crons, on \in BOOLEAN :
          /\ row' = [row EXCEPT ![r] = [life |-> "there", enabled |-> on, cron |-> c]]
          /\ Begins(q, [Idle EXCEPT !.op = "create", !.row = r])
    BY <1>1 DEF Create
  <2>2. row' \in [Rows -> Row] /\ req' \in [Syncs -> Request] /\ mixed' \in BOOLEAN
    BY <2>1, <1>0, RowTyped, StartTyped, BeginsTyped
  <2> QED BY <2>2, <1>1 DEF TypeOK, Create, Change
<1>2. ASSUME NEW q \in Requests, Update(q) PROVE TypeOK'
  <2>1. PICK r \in Rows, c \in Crons :
          /\ row' = [row EXCEPT ![r].cron = c]
          /\ Begins(q, [Idle EXCEPT !.op = "update", !.row = r, !.old = row[r].cron])
    BY <1>2 DEF Update
  <2>2. row' \in [Rows -> Row] /\ req' \in [Syncs -> Request] /\ mixed' \in BOOLEAN
    BY <2>1, <1>0, RowTyped, StartTyped, BeginsTyped
  <2> QED BY <2>2, <1>2 DEF TypeOK, Update, Change
<1>3. ASSUME NEW q \in Requests, Toggle(q) PROVE TypeOK'
  <2>1. PICK r \in Rows :
          /\ row' = [row EXCEPT ![r].enabled = ~@]
          /\ Begins(q, [Idle EXCEPT !.op = "toggle", !.row = r])
    BY <1>3 DEF Toggle
  <2>2. row' \in [Rows -> Row] /\ req' \in [Syncs -> Request] /\ mixed' \in BOOLEAN
    BY <2>1, <1>0, RowTyped, StartTyped, BeginsTyped, BadAssumption DEF Crons
  <2> QED BY <2>2, <1>3 DEF TypeOK, Toggle, Change
<1>4. ASSUME NEW q \in Requests, Remove(q) PROVE TypeOK'
  <2>1. PICK r \in Rows :
          /\ row' = [row EXCEPT ![r].life = "gone"]
          /\ Begins(q, [Idle EXCEPT !.op = "remove", !.row = r])
    BY <1>4 DEF Remove
  <2>2. row' \in [Rows -> Row] /\ req' \in [Syncs -> Request] /\ mixed' \in BOOLEAN
    BY <2>1, <1>0, RowTyped, StartTyped, BeginsTyped DEF Crons
  <2> QED BY <2>2, <1>4 DEF TypeOK, Remove, Change
<1>5. ASSUME RemoveService PROVE TypeOK'
  <2>1. row' \in [Rows -> Row]
    BY <1>5, RowTyped DEF RemoveService
  <2>2. req' \in [Syncs -> Request]
    BY <1>5, MarkedTyped DEF RemoveService
  <2>3. mixed' \in BOOLEAN /\ UNCHANGED <<kind, jobs, thrown, faults>>
    BY <1>5 DEF RemoveService
  <2>4. changes' \in 0..MaxChanges
    BY <1>5 DEF RemoveService, TypeOK
  <2> QED BY <2>1, <2>2, <2>3, <2>4 DEF TypeOK
<1>6. ASSUME PanelRestarts PROVE TypeOK'
  <2>1. req' \in [Syncs -> Request]
    <3>1. [Idle EXCEPT !.pc = "list"] \in Request
      BY IdleTyped DEF Request
    <3> QED BY <3>1, <1>6, IdleTyped DEF PanelRestarts
  <2>2. thrown' \in BOOLEAN
    BY <1>6 DEF PanelRestarts, TypeOK, InSync
  <2> QED BY <2>1, <2>2, <1>6 DEF TypeOK, PanelRestarts
<1>7. ASSUME NEW q \in Syncs, ListJobs(q) PROVE TypeOK'
  <2>1. req' \in [Syncs -> Request]
    BY <1>7, GoesTyped, ScheduledTyped DEF ListJobs, Pcs
  <2> QED BY <2>1, <1>7 DEF TypeOK, ListJobs, counts
<1>8. ASSUME NEW q \in Syncs, RemoveJob(q) PROVE TypeOK'
  <2>1. PICK j \in req[q].work : jobs' = jobs \ {j} /\ Goes(q, "clear", req[q].work \ {j})
    BY <1>8 DEF RemoveJob
  <2>2. req[q].work \ {j} \in SUBSET Jobs
    BY DEF TypeOK, Request
  <2>3. req' \in [Syncs -> Request]
    BY <2>1, <2>2, GoesTyped DEF Pcs
  <2> QED BY <2>1, <2>3, <1>8 DEF TypeOK, RemoveJob, counts
<1>9. ASSUME NEW q \in Syncs, Cleared(q) PROVE TypeOK'
  <2>1. req' \in [Syncs -> Request]
    BY <1>9, GoesTyped DEF Cleared, Pcs
  <2> QED BY <2>1, <1>9 DEF TypeOK, Cleared, counts
<1>10. ASSUME NEW q \in Syncs, ReadRows(q) PROVE TypeOK'
  <2>1. req' \in [Syncs -> Request]
    BY <1>10, GoesTyped, ScheduledTyped DEF ReadRows, Pcs
  <2> QED BY <2>1, <1>10 DEF TypeOK, ReadRows, counts
<1>11. ASSUME NEW q \in Syncs, AddJob(q) PROVE TypeOK'
  <2>1. PICK j \in req[q].work : j[2] # Bad /\ jobs' = jobs \cup {j} /\ Goes(q, "add", req[q].work \ {j})
    BY <1>11 DEF AddJob
  <2>2. req[q].work \subseteq Jobs
    BY DEF TypeOK, Request
  <2>3. j \in Rows \X Patterns
    BY <2>1, <2>2 DEF Jobs, Crons
  <2>4. req' \in [Syncs -> Request]
    BY <2>1, <2>2, GoesTyped DEF Pcs
  <2> QED BY <2>1, <2>3, <2>4, <1>11 DEF TypeOK, AddJob, counts
<1>12. ASSUME NEW q \in Syncs, Added(q) PROVE TypeOK'
  <2>1. req' \in [Syncs -> Request]
    BY <1>12, IdleTyped DEF Added, TypeOK
  <2>2. thrown' \in BOOLEAN /\ mixed' \in BOOLEAN
    BY <1>12 DEF Added, TypeOK, Request
  <2> QED BY <2>1, <2>2, <1>12 DEF TypeOK, Added, counts
<1>13. ASSUME NEW q \in Syncs, AddRefused(q) PROVE TypeOK'
  BY <1>13, ThrowsTyped DEF TypeOK, AddRefused, Throws
<1>14. ASSUME NEW q \in Syncs, RedisFails(q) PROVE TypeOK'
  <2>1. req' \in [Syncs -> Request] /\ thrown' \in BOOLEAN
    BY <1>14, ThrowsTyped DEF RedisFails
  <2>2. UNCHANGED <<kind, row, jobs, mixed, changes>>
    BY <1>14 DEF RedisFails, Throws
  <2>3. faults' \in 0..MaxFaults
    BY <1>14 DEF RedisFails, TypeOK
  <2> QED BY <2>1, <2>2, <2>3 DEF TypeOK
<1>15. ASSUME NEW q \in Syncs, UndoCreate(q) PROVE TypeOK'
  <2>1. req[q].row \in Rows
    BY DEF TypeOK, Request
  <2>2. row' \in [Rows -> Row]
    BY <2>1, <1>15, RowTyped DEF UndoCreate
  <2>3. req' \in [Syncs -> Request]
    BY <1>15, IdleTyped, BesideTyped DEF UndoCreate
  <2> QED BY <2>2, <2>3, <1>15 DEF TypeOK, UndoCreate, counts
<1>16. ASSUME NEW q \in Syncs, UndoUpdate(q) PROVE TypeOK'
  <2>1. req[q].row \in Rows /\ req[q].old \in Crons /\ req[q] \in Request
    BY DEF TypeOK, Request
  <2>2. row' \in [Rows -> Row]
    BY <2>1, <1>16, RowTyped DEF UndoUpdate
  <2>3. req' \in [Syncs -> Request] /\ mixed' \in BOOLEAN
    BY <2>1, <1>16, RequestTyped, BeginsTyped DEF UndoUpdate
  <2> QED BY <2>2, <2>3, <1>16 DEF TypeOK, UndoUpdate, counts
<1>17. CASE UNCHANGED vars
  BY <1>17 DEF TypeOK, vars, counts
<1> QED BY <1>1, <1>2, <1>3, <1>4, <1>5, <1>6, <1>7, <1>8, <1>9, <1>10, <1>11, <1>12, <1>13, <1>14,
           <1>15, <1>16, <1>17 DEF Next, SyncStep

\* Rows, jobs and requests keep their types, and only accepted expressions are in Redis.
THEOREM ScheduleTypes == Spec => []TypeOK
BY TypeInit, TypeStep, PTL DEF Spec

-----------------------------------------------------------------------------
(* What a step does to the other requests.                                  *)

LEMMA MarkedKeeps == ASSUME TypeOK, NEW p \in Syncs, NEW b \in BOOLEAN
                     PROVE  /\ Marked(p, b).pc = req[p].pc
                            /\ Marked(p, b).work = req[p].work
                            /\ Marked(p, b).whole = (req[p].whole /\ (InSync(p) => b))
                            /\ Marked(p, b).alone = (req[p].alone /\ ~InSync(p))
<1>1. req[p] \in Request
  BY DEF TypeOK
<1> QED BY <1>1 DEF Marked, Request

\* A sync that begins is at its first statement; a sync beside it is no longer alone.
LEMMA BeginsAtList == ASSUME TypeOK, NEW q \in Syncs, NEW r \in Request, Begins(q, r)
                      PROVE  /\ req'[q].pc = "list"
                             /\ req'[q].alone = ~Others(q)
                             /\ \A p \in Syncs \ {q} : req'[p] = Marked(p, TRUE)
                             /\ mixed' = (mixed \/ Others(q))
<1> DEFINE s == [r EXCEPT !.pc = "list", !.work = {}, !.whole = TRUE, !.alone = ~Others(q)]
<1>1. s.pc = "list" /\ s.alone = ~Others(q)
  BY DEF Request
<1>2. req' = [p \in Syncs |-> IF p = q THEN s ELSE Marked(p, TRUE)] /\ mixed' = (mixed \/ Others(q))
  BY DEF Begins, Beside
<1> HIDE DEF s
<1> QED BY <1>1, <1>2

LEMMA ThrowsEnds == ASSUME TypeOK, NEW q \in Syncs, Throws(q)
                    PROVE  /\ req'[q].pc \in {"idle", "undo"}
                           /\ \A p \in Syncs \ {q} : req'[p] = Marked(p, FALSE)
<1>1. AfterThrow(q).pc \in {"idle", "undo"}
  BY IdleTyped DEF AfterThrow, TypeOK, Request
<1> QED BY <1>1 DEF Throws, Beside

LEMMA GoesThere == ASSUME TypeOK, NEW q \in Syncs, NEW pc \in Pcs, NEW w \in SUBSET Jobs, Goes(q, pc, w)
                   PROVE  /\ req'[q].pc = pc /\ req'[q].work = w
                          /\ req'[q].alone = req[q].alone /\ req'[q].whole = req[q].whole
                          /\ \A p \in Syncs \ {q} : req'[p] = req[p]
<1> DEFINE s == [req[q] EXCEPT !.pc = pc, !.work = w]
<1>1. s.pc = pc /\ s.work = w /\ s.alone = req[q].alone /\ s.whole = req[q].whole
  BY DEF TypeOK, Request
<1>2. req' = [req EXCEPT ![q] = s]
  BY DEF Goes
<1> HIDE DEF s
<1> QED BY <1>1, <1>2 DEF TypeOK

LEMMA GoneShrinks == ASSUME TypeOK, NEW r \in Rows, row' = [row EXCEPT ![r].life = "gone"]
                     PROVE  Scheduled' \subseteq Scheduled
<1>1. ASSUME NEW t \in Enabled' PROVE t \in Enabled /\ row'[t].cron = row[t].cron
  BY <1>1 DEF Enabled, TypeOK, Row
<1> QED BY <1>1 DEF Scheduled

\* A sync that has yet to read the rows makes up for anything.
LEMMA CompleteAgain == ASSUME NEW q \in Syncs, req'[q].pc \in {"list", "clear", "read"}
                       PROVE  Complete'
BY DEF Complete, WillAdd

-----------------------------------------------------------------------------
(* No enabled schedule is left out.  The invariant also speaks of the time  *)
(* after a sync threw: one that began later and has read the rows.          *)

Mending == \E q \in Syncs : req[q].pc = "add" /\ req[q].whole

Sound == ~thrown \/ Mending => Complete

\* The steps that leave no sync before its read.
LEMMA AddSound == ASSUME TypeOK, Sound, NEW q \in Syncs, AddJob(q) PROVE Sound'
<1>1. PICK j \in req[q].work : jobs' = jobs \cup {j} /\ Goes(q, "add", req[q].work \ {j})
  BY DEF AddJob
<1>2. req[q].work \ {j} \in SUBSET Jobs /\ "add" \in Pcs
  BY DEF TypeOK, Request, Pcs
<1>3. /\ req'[q].pc = "add" /\ req'[q].work = req[q].work \ {j} /\ req'[q].whole = req[q].whole
      /\ \A p \in Syncs \ {q} : req'[p] = req[p]
  BY <1>1, <1>2, GoesThere
<1>4. req[q].pc = "add" /\ thrown' = thrown /\ Scheduled' = Scheduled
  BY DEF AddJob, Scheduled, Enabled
<1>5. (~thrown \/ Mending)' => ~thrown \/ Mending
  BY <1>3, <1>4 DEF Mending
<1>6. ASSUME Complete PROVE Complete'
  <2>1. SUFFICES ASSUME NEW k \in Scheduled, k \notin jobs' PROVE \E p \in Syncs : WillAdd(p, k)'
    BY <1>4 DEF Complete
  <2>2. PICK p \in Syncs : WillAdd(p, k)
    BY <1>6, <2>1, <1>1 DEF Complete
  <2>3. WillAdd(p, k)'
    BY <2>1, <2>2, <1>1, <1>3, <1>4 DEF WillAdd
  <2> QED BY <2>3
<1> QED BY <1>5, <1>6 DEF Sound

LEMMA AddedSound == ASSUME TypeOK, Sound, NEW q \in Syncs, Added(q) PROVE Sound'
<1>1. /\ req'[q].pc = "idle" /\ \A p \in Syncs \ {q} : req'[p] = req[p]
      /\ req[q].pc = "add" /\ req[q].work = {}
  BY IdleTyped DEF Added, TypeOK
<1>2. jobs' = jobs /\ Scheduled' = Scheduled /\ thrown' = (thrown /\ ~req[q].whole)
  BY DEF Added, Scheduled, Enabled
<1>3. (~thrown \/ Mending)' => ~thrown \/ Mending
  BY <1>1, <1>2 DEF Mending
<1>4. ASSUME Complete PROVE Complete'
  <2>1. SUFFICES ASSUME NEW k \in Scheduled, k \notin jobs PROVE \E p \in Syncs : WillAdd(p, k)'
    BY <1>2 DEF Complete
  <2>2. PICK p \in Syncs : WillAdd(p, k)
    BY <1>4, <2>1 DEF Complete
  <2>3. p # q
    BY <2>2, <1>1 DEF WillAdd
  <2> QED BY <2>2, <2>3, <1>1 DEF WillAdd
<1> QED BY <1>3, <1>4 DEF Sound

LEMMA ThrowsSound == ASSUME TypeOK, NEW q \in Syncs, Throws(q) PROVE Sound'
<1>1. ASSUME NEW p \in Syncs, req'[p].pc = "add" PROVE ~req'[p].whole
  <2>1. p # q /\ req'[p] = Marked(p, FALSE)
    BY <1>1, ThrowsEnds
  <2>2. InSync(p)
    BY <1>1, <2>1, MarkedKeeps DEF InSync
  <2> QED BY <2>1, <2>2, MarkedKeeps
<1>2. thrown'
  BY DEF Throws
<1> QED BY <1>1, <1>2 DEF Sound, Mending

\* A row that goes with no sync: the other requests keep what they do.
LEMMA GoneSound ==
  ASSUME TypeOK, Sound, NEW r \in Rows, row' = [row EXCEPT ![r].life = "gone"],
         jobs' = jobs, thrown' = thrown,
         \A p \in Syncs : \/ req'[p] = Marked(p, TRUE)
                          \/ req'[p].pc = "idle" /\ req[p].pc = "undo"
  PROVE  Sound'
<1>1. Scheduled' \subseteq Scheduled
  BY GoneShrinks
<1>2. \A p \in Syncs : req'[p] = Marked(p, TRUE) =>
        req'[p].pc = req[p].pc /\ req'[p].work = req[p].work /\ (req'[p].whole => req[p].whole)
  BY MarkedKeeps
<1>3. (~thrown \/ Mending)' => ~thrown \/ Mending
  BY <1>2 DEF Mending
<1>4. ASSUME Complete PROVE Complete'
  <2>1. SUFFICES ASSUME NEW k \in Scheduled, k \notin jobs PROVE \E p \in Syncs : WillAdd(p, k)'
    BY <1>1 DEF Complete
  <2>2. PICK p \in Syncs : WillAdd(p, k)
    BY <1>4, <2>1 DEF Complete
  <2>3. req'[p].pc = req[p].pc /\ req'[p].work = req[p].work
    BY <2>2, <1>2 DEF WillAdd
  <2> QED BY <2>2, <2>3 DEF WillAdd
<1> QED BY <1>3, <1>4 DEF Sound

LEMMA SoundStep == TypeOK /\ Sound /\ [Next]_vars => Sound'
<1> SUFFICES ASSUME TypeOK, Sound, [Next]_vars PROVE Sound'
  OBVIOUS
<1>0. Requests \subseteq Syncs /\ Boot \in Syncs
  BY DEF Syncs
<1>1. ASSUME Complete' PROVE Sound'
  BY <1>1 DEF Sound
<1>2. ASSUME NEW q \in Syncs, NEW r \in Request, Begins(q, r) PROVE Sound'
  BY <1>1, <1>2, BeginsAtList, CompleteAgain
<1>3. ASSUME NEW q \in Requests, Create(q) \/ Update(q) \/ Toggle(q) \/ Remove(q) PROVE Sound'
  <2>1. \E r \in Request : Begins(q, r)
    <3>1. CASE Create(q) BY <3>1, StartTyped, BadAssumption DEF Create, Crons
    <3>2. CASE Update(q) BY <3>2, StartTyped, RowTyped DEF Update
    <3>3. CASE Toggle(q) BY <3>3, StartTyped, BadAssumption DEF Toggle, Crons
    <3>4. CASE Remove(q) BY <3>4, StartTyped, BadAssumption DEF Remove, Crons
    <3> QED BY <1>3, <3>1, <3>2, <3>3, <3>4
  <2> QED BY <2>1, <1>0, <1>2
<1>4. ASSUME RemoveService PROVE Sound'
  <2>1. PICK r \in Rows : row' = [row EXCEPT ![r].life = "gone"]
    BY <1>4 DEF RemoveService
  <2>2. jobs' = jobs /\ thrown' = thrown /\ \A p \in Syncs : req'[p] = Marked(p, TRUE)
    BY <1>4 DEF RemoveService
  <2> QED BY <2>1, <2>2, GoneSound
<1>5. ASSUME PanelRestarts PROVE Sound'
  <2>1. req'[Boot].pc = "list"
    BY <1>5, <1>0, IdleTyped DEF PanelRestarts, Request
  <2> QED BY <2>1, <1>0, <1>1, CompleteAgain
<1>6. ASSUME NEW q \in Syncs, NEW pc \in {"list", "clear", "read"}, NEW w \in SUBSET Jobs, Goes(q, pc, w)
      PROVE  Sound'
  BY <1>6, <1>1, GoesThere, CompleteAgain DEF Pcs
<1>7. ASSUME NEW q \in Syncs, ListJobs(q) PROVE Sound'
  BY <1>7, <1>6, ScheduledTyped DEF ListJobs
<1>8. ASSUME NEW q \in Syncs, RemoveJob(q) PROVE Sound'
  BY <1>8, <1>6 DEF RemoveJob, TypeOK, Request
<1>9. ASSUME NEW q \in Syncs, Cleared(q) PROVE Sound'
  BY <1>9, <1>6 DEF Cleared
<1>10. ASSUME NEW q \in Syncs, ReadRows(q) PROVE Sound'
  <2>1. req'[q].pc = "add" /\ req'[q].work = Scheduled
    BY <1>10, GoesThere, ScheduledTyped DEF ReadRows, Pcs
  <2>2. Scheduled' = Scheduled
    BY <1>10 DEF ReadRows, Scheduled, Enabled
  <2>3. Complete'
    BY <2>1, <2>2 DEF Complete, WillAdd
  <2> QED BY <2>3, <1>1
<1>11. ASSUME NEW q \in Syncs, AddRefused(q) \/ RedisFails(q) PROVE Sound'
  BY <1>11, ThrowsSound DEF AddRefused, RedisFails
<1>12. ASSUME NEW q \in Syncs, UndoCreate(q) PROVE Sound'
  <2>1. req[q].row \in Rows /\ row' = [row EXCEPT ![req[q].row].life = "gone"]
    BY <1>12 DEF UndoCreate, TypeOK, Request
  <2>2. jobs' = jobs /\ thrown' = thrown
    BY <1>12 DEF UndoCreate
  <2>3. \A p \in Syncs : IF p = q THEN req'[p].pc = "idle" /\ req[p].pc = "undo"
                                  ELSE req'[p] = Marked(p, TRUE)
    BY <1>12, IdleTyped DEF UndoCreate, Beside
  <2> QED BY <2>1, <2>2, <2>3, GoneSound
<1>13. ASSUME NEW q \in Syncs, UndoUpdate(q) PROVE Sound'
  <2>1. [req[q] EXCEPT !.op = "again"] \in Request
    BY RequestTyped DEF TypeOK
  <2> QED BY <2>1, <1>13, <1>2 DEF UndoUpdate
<1>14. CASE UNCHANGED vars
  BY <1>14 DEF vars, Sound, Mending, Complete, WillAdd, Scheduled, Enabled
<1> QED BY <1>3, <1>4, <1>5, <1>7, <1>8, <1>9, <1>10, AddSound, AddedSound, <1>11, <1>12, <1>13, <1>14
        DEF Next, SyncStep

\* Overlapping syncs of any number of requests leave no enabled schedule without its job,
\* unless a call threw and no later sync has ended.
THEOREM SchedulesServed == Spec => []NothingUnscheduled
<1>1. Init => Sound
  BY DEF Init, Sound, Complete, Scheduled, Enabled
<1>2. Sound => NothingUnscheduled
  BY DEF Sound, NothingUnscheduled
<1> QED BY <1>1, <1>2, TypeInit, TypeStep, SoundStep, PTL DEF Spec

-----------------------------------------------------------------------------
(* A sync that runs alone rebuilds the jobs exactly.                        *)

\* Alone in fact; and two that overlap are known to the history.
Apart == \A q \in Syncs : InSync(q) => IF req[q].alone THEN ~Others(q) ELSE mixed

\* How far one that is alone has come.
Progress == \A q \in Syncs : InSync(q) /\ req[q].alone =>
              /\ req[q].pc = "clear" => jobs = req[q].work
              /\ req[q].pc = "read" => jobs = {}
              /\ req[q].pc = "add" => jobs \cup req[q].work = Scheduled

Exact == Apart /\ Progress /\ Rebuilt

\* A step of one sync leaves the others as they are.
LEMMA GoesExact == ASSUME TypeOK, Exact, NEW q \in Syncs, NEW pc \in {"list", "clear", "read", "add"},
                          NEW w \in SUBSET Jobs, Goes(q, pc, w), InSync(q),
                          row' = row, mixed' = mixed,
                          req[q].alone =>
                            /\ pc = "clear" => jobs' = w
                            /\ pc = "read" => jobs' = {}
                            /\ pc = "add" => jobs' \cup w = Scheduled
                   PROVE  Exact'
<1>1. /\ req'[q].pc = pc /\ req'[q].work = w /\ req'[q].alone = req[q].alone
      /\ \A p \in Syncs \ {q} : req'[p] = req[p]
  BY GoesThere DEF Pcs
<1>2. \A p \in Syncs : InSync(p)' = InSync(p) /\ req'[p].alone = req[p].alone
  BY <1>1 DEF InSync
<1>3. Scheduled' = Scheduled
  BY DEF Scheduled, Enabled
<1>4. Apart'
  BY <1>2 DEF Apart, Exact, Others
<1>5. ASSUME NEW p \in Syncs, InSync(p), req[p].alone PROVE p = q
  BY <1>5 DEF Exact, Apart, Others
<1>6. Progress'
  BY <1>1, <1>2, <1>3, <1>5 DEF Progress
<1>7. Rebuilt'
  BY <1>2 DEF Rebuilt
<1> QED BY <1>4, <1>6, <1>7 DEF Exact

LEMMA BeginsExact == ASSUME TypeOK, Exact, NEW q \in Syncs, NEW r \in Request, Begins(q, r), ~InSync(q)
                     PROVE  Exact'
<1>1. /\ req'[q].pc = "list" /\ req'[q].alone = ~Others(q) /\ mixed' = (mixed \/ Others(q))
      /\ \A p \in Syncs \ {q} : req'[p] = Marked(p, TRUE)
  BY BeginsAtList
<1>2. \A p \in Syncs \ {q} : InSync(p)' = InSync(p) /\ (InSync(p) => ~req'[p].alone /\ Others(q))
  BY <1>1, MarkedKeeps DEF InSync, Others
<1>3. Others(q)' = Others(q) /\ InSync(q)'
  BY <1>1, <1>2 DEF Others, InSync
<1>4. Apart'
  BY <1>1, <1>2, <1>3 DEF Apart
<1>5. Progress'
  BY <1>1, <1>2 DEF Progress
<1>6. Rebuilt'
  BY <1>3 DEF Rebuilt
<1> QED BY <1>4, <1>5, <1>6 DEF Exact

LEMMA ThrowsExact == ASSUME TypeOK, Exact, NEW q \in Syncs, InSync(q), Throws(q) PROVE Exact'
<1>1. /\ ~InSync(q)' /\ thrown' /\ mixed' = mixed
      /\ \A p \in Syncs \ {q} : req'[p] = Marked(p, FALSE)
  BY ThrowsEnds DEF InSync, Throws
<1>2. \A p \in Syncs \ {q} : InSync(p)' = InSync(p) /\ (InSync(p) => ~req'[p].alone)
  BY <1>1, MarkedKeeps DEF InSync
<1>3. \A p \in Syncs \ {q} : InSync(p) => mixed
  <2>1. SUFFICES ASSUME NEW p \in Syncs \ {q}, InSync(p) PROVE mixed
    OBVIOUS
  <2>2. Others(p)
    BY <2>1 DEF Others
  <2> QED BY <2>1, <2>2 DEF Exact, Apart
<1>4. Apart'
  BY <1>1, <1>2, <1>3 DEF Apart
<1>5. Progress'
  BY <1>1, <1>2 DEF Progress
<1>6. Rebuilt'
  BY <1>1 DEF Rebuilt
<1> QED BY <1>4, <1>5, <1>6 DEF Exact

LEMMA GoneExact ==
  ASSUME TypeOK, Exact, mixed',
         \A p \in Syncs : \/ req'[p] = Marked(p, TRUE)
                          \/ req'[p].pc = "idle"
  PROVE  Exact'
<1>1. \A p \in Syncs : InSync(p)' => ~req'[p].alone
  BY MarkedKeeps DEF InSync
<1>2. Apart'
  BY <1>1 DEF Apart
<1>3. Progress'
  BY <1>1 DEF Progress
<1> QED BY <1>2, <1>3 DEF Exact, Rebuilt

LEMMA AddedExact == ASSUME TypeOK, Exact, NEW q \in Syncs, Added(q) PROVE Exact'
<1>1. /\ req'[q].pc = "idle" /\ \A p \in Syncs \ {q} : req'[p] = req[p]
      /\ req[q].pc = "add" /\ req[q].work = {} /\ InSync(q)
  BY IdleTyped DEF Added, TypeOK, InSync
<1>2. jobs' = jobs /\ Scheduled' = Scheduled /\ mixed' = (mixed /\ ~req[q].alone)
  BY DEF Added, Scheduled, Enabled
<1>3. ~InSync(q)' /\ \A p \in Syncs \ {q} : InSync(p)' = InSync(p)
  BY <1>1 DEF InSync
<1>4. CASE req[q].alone
  <2>1. \A p \in Syncs : ~InSync(p)'
    BY <1>3, <1>1, <1>4 DEF Exact, Apart, Others
  <2>2. jobs = Scheduled
    BY <1>1, <1>4 DEF Exact, Progress
  <2> QED BY <2>1, <2>2, <1>2 DEF Exact, Apart, Progress, Rebuilt
<1>5. CASE ~req[q].alone
  <2>1. mixed /\ mixed'
    BY <1>5, <1>1, <1>2 DEF Exact, Apart
  <2>2. ASSUME NEW p \in Syncs, InSync(p)' PROVE ~req'[p].alone
    <3>1. p # q /\ InSync(p) /\ req'[p] = req[p] /\ Others(p)
      BY <2>2, <1>1, <1>3 DEF Others
    <3> QED BY <3>1 DEF Exact, Apart
  <2> QED BY <2>1, <2>2 DEF Exact, Apart, Progress, Rebuilt
<1> QED BY <1>4, <1>5

LEMMA ExactStep == TypeOK /\ Exact /\ [Next]_vars => Exact'
<1> SUFFICES ASSUME TypeOK, Exact, [Next]_vars PROVE Exact'
  OBVIOUS
<1>0. Requests \subseteq Syncs /\ Boot \in Syncs
  BY DEF Syncs
<1>1. ASSUME NEW q \in Requests, Create(q) \/ Update(q) \/ Toggle(q) \/ Remove(q) PROVE Exact'
  <2>1. \E r \in Request : Begins(q, r)
    <3>1. CASE Create(q) BY <3>1, StartTyped, BadAssumption DEF Create, Crons
    <3>2. CASE Update(q) BY <3>2, StartTyped, RowTyped DEF Update
    <3>3. CASE Toggle(q) BY <3>3, StartTyped, BadAssumption DEF Toggle, Crons
    <3>4. CASE Remove(q) BY <3>4, StartTyped, BadAssumption DEF Remove, Crons
    <3> QED BY <1>1, <3>1, <3>2, <3>3, <3>4
  <2>2. ~InSync(q)
    BY <1>1 DEF InSync, Create, Update, Toggle, Remove, Change
  <2> QED BY <2>1, <2>2, <1>0, BeginsExact
<1>2. ASSUME RemoveService PROVE Exact'
  BY <1>2, GoneExact DEF RemoveService
<1>3. ASSUME PanelRestarts PROVE Exact'
  <2>1. req'[Boot].pc = "list" /\ \A p \in Syncs \ {Boot} : req'[p].pc = "idle"
    BY <1>3, <1>0, IdleTyped DEF PanelRestarts, Request
  <2>2. req'[Boot].alone
    BY <1>3, <1>0 DEF PanelRestarts, Idle
  <2>3. \A p \in Syncs : InSync(p)' = (p = Boot)
    BY <2>1 DEF InSync
  <2> QED BY <2>1, <2>2, <2>3, <1>0 DEF Exact, Apart, Progress, Rebuilt, Others
<1>4. ASSUME NEW q \in Syncs, ListJobs(q) PROVE Exact'
  BY <1>4, GoesExact, ScheduledTyped DEF ListJobs, InSync
<1>5. ASSUME NEW q \in Syncs, RemoveJob(q) PROVE Exact'
  <2>1. PICK j \in req[q].work : jobs' = jobs \ {j} /\ Goes(q, "clear", req[q].work \ {j})
    BY <1>5 DEF RemoveJob
  <2>2. InSync(q) /\ req[q].work \ {j} \in SUBSET Jobs /\ row' = row /\ mixed' = mixed
    BY <1>5 DEF RemoveJob, InSync, TypeOK, Request
  <2>3. req[q].alone => jobs = req[q].work
    BY <1>5, <2>2 DEF Exact, Progress, RemoveJob
  <2> QED BY <2>1, <2>2, <2>3, GoesExact
<1>6. ASSUME NEW q \in Syncs, Cleared(q) PROVE Exact'
  <2>1. req[q].alone => jobs = {}
    BY <1>6 DEF Exact, Progress, Cleared, InSync
  <2> QED BY <2>1, <1>6, GoesExact DEF Cleared, InSync
<1>7. ASSUME NEW q \in Syncs, ReadRows(q) PROVE Exact'
  <2>1. req[q].alone => jobs = {}
    BY <1>7 DEF Exact, Progress, ReadRows, InSync
  <2> QED BY <2>1, <1>7, ScheduledTyped, GoesExact DEF ReadRows, InSync
<1>8. ASSUME NEW q \in Syncs, AddJob(q) PROVE Exact'
  <2>1. PICK j \in req[q].work : jobs' = jobs \cup {j} /\ Goes(q, "add", req[q].work \ {j})
    BY <1>8 DEF AddJob
  <2>2. InSync(q) /\ req[q].work \ {j} \in SUBSET Jobs /\ row' = row /\ mixed' = mixed
    BY <1>8 DEF AddJob, InSync, TypeOK, Request
  <2>3. req[q].alone => jobs' \cup (req[q].work \ {j}) = Scheduled
    BY <1>8, <2>1, <2>2 DEF Exact, Progress, AddJob
  <2> QED BY <2>1, <2>2, <2>3, GoesExact
<1>9. ASSUME NEW q \in Syncs, AddRefused(q) \/ RedisFails(q) PROVE Exact'
  BY <1>9, ThrowsExact DEF AddRefused, RedisFails, InSync
<1>10. ASSUME NEW q \in Syncs, UndoCreate(q) PROVE Exact'
  <2>1. \A p \in Syncs : IF p = q THEN req'[p].pc = "idle" ELSE req'[p] = Marked(p, TRUE)
    BY <1>10, IdleTyped DEF UndoCreate, Beside
  <2>2. mixed'
    BY <1>10 DEF UndoCreate
  <2> QED BY <2>1, <2>2, GoneExact
<1>11. ASSUME NEW q \in Syncs, UndoUpdate(q) PROVE Exact'
  <2>1. [req[q] EXCEPT !.op = "again"] \in Request
    BY RequestTyped DEF TypeOK
  <2> QED BY <2>1, <1>11, BeginsExact DEF UndoUpdate, InSync
<1>12. CASE UNCHANGED vars
  BY <1>12 DEF vars, Exact, Apart, Progress, Rebuilt, Scheduled, Enabled, InSync, Others
<1> QED BY <1>1, <1>2, <1>3, <1>4, <1>5, <1>6, <1>7, <1>8, AddedExact, <1>9, <1>10, <1>11, <1>12
        DEF Next, SyncStep

\* Without overlap and without errors the jobs in Redis are those of the enabled rows, whatever
\* the requests were.
THEOREM SchedulesRebuilt == Spec => []Rebuilt
<1>1. Init => Exact
  <2>1. Init => \A q \in Syncs : ~InSync(q)
    BY IdleTyped DEF Init, InSync
  <2>2. Init => jobs = Scheduled
    BY DEF Init, Scheduled, Enabled
  <2> QED BY <2>1, <2>2 DEF Exact, Apart, Progress, Rebuilt
<1>2. Exact => Rebuilt
  BY DEF Exact
<1> QED BY <1>1, <1>2, TypeInit, TypeStep, ExactStep, PTL DEF Spec
=============================================================================

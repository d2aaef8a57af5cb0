------------------------------ MODULE Schedules ------------------------------
(***************************************************************************)
(* The repeatable jobs of backup.scheduler.ts and service-cron.scheduler.ts *)
(* in Redis, and the table they are rebuilt from.  Each request that       *)
(* changes a schedule, and each start of the panel, runs sync(): list the  *)
(* jobs, remove them, read the enabled rows, add a job for each.  Nothing  *)
(* keeps two of them apart, and any call may fail.                         *)
(***************************************************************************)
EXTENDS FiniteSets, Naturals

CONSTANTS
  Rows,       \* the schedules that can be created: a bound
  Requests,   \* slots for requests in progress
  Boot,       \* the sync of a starting panel
  Patterns,   \* cron expressions that BullMQ accepts
  Bad,        \* one that it does not
  Kinds,      \* the queues to look at: "backup", "cron"
  MaxChanges, \* bound: requests
  MaxFaults   \* bound: errors of Redis, deaths of the panel

ASSUME BootAssumption == Boot \notin Requests
ASSUME BadAssumption == Bad \notin Patterns
ASSUME KindsAssumption == Kinds \subseteq {"backup", "cron"}
ASSUME RowsAssumption == Rows # {}
ASSUME ScheduleBoundsAssumption == MaxChanges \in Nat /\ MaxFaults \in Nat

VARIABLES
  kind,     \* which of the two queues
  row,      \* backup_schedules or service_crons
  jobs,     \* the repeatable jobs, known by schedule and expression
  req,      \* the requests and the start of the panel
  thrown,   \* history: a sync threw, and none was begun and finished since
  mixed,    \* history: syncs overlapped, or a row went without one, and no sync ran alone since
  changes, faults  \* history: what the bounds count

counts == <<changes, faults>>
vars == <<kind, row, jobs, req, thrown, mixed, counts>>

-----------------------------------------------------------------------------
Syncs == Requests \cup {Boot}
Crons == Patterns \cup {Bad}
Jobs  == Rows \X Crons

\* A deleted row's id does not come back.
Row == [life : {"none", "there", "gone"}, enabled : BOOLEAN, cron : Crons]

\* work: the jobs to remove or to add.  old: the expression before an update.
\* whole: no sync threw since this one began.  alone: none overlapped it either.
Request == [pc : {"idle", "list", "clear", "read", "add", "undo"},
            op : {"create", "update", "toggle", "remove", "again"},
            row : Rows, old : Crons, work : SUBSET Jobs, whole : BOOLEAN, alone : BOOLEAN]

TypeOK ==
  /\ kind \in Kinds
  /\ row \in [Rows -> Row]
  /\ jobs \subseteq Rows \X Patterns
  /\ req \in [Syncs -> Request]
  /\ thrown \in BOOLEAN /\ mixed \in BOOLEAN
  /\ changes \in 0..MaxChanges /\ faults \in 0..MaxFaults

Idle == [pc |-> "idle", op |-> "again", row |-> CHOOSE r \in Rows : TRUE, old |-> Bad, work |-> {},
         whole |-> TRUE, alone |-> TRUE]

Init ==
  /\ kind \in Kinds
  /\ row = [r \in Rows |-> [life |-> "none", enabled |-> FALSE, cron |-> Bad]]
  /\ jobs = {}
  /\ req = [q \in Syncs |-> Idle]
  /\ thrown = FALSE /\ mixed = FALSE
  /\ changes = 0 /\ faults = 0

-----------------------------------------------------------------------------
(* Requests.  Each one writes its row and then rebuilds the jobs.          *)

InSync(q) == req[q].pc \in {"list", "clear", "read", "add"}

Others(q) == \E p \in Syncs \ {q} : InSync(p)

\* What the other requests become when q goes on as r: those that are in a sync are marked.
Marked(p, whole) ==
  IF InSync(p) THEN [req[p] EXCEPT !.whole = @ /\ whole, !.alone = FALSE] ELSE req[p]

Beside(q, r, whole) == [p \in Syncs |-> IF p = q THEN r ELSE Marked(p, whole)]

Begins(q, r) ==
  /\ req' = Beside(q, [r EXCEPT !.pc = "list", !.work = {}, !.whole = TRUE, !.alone = ~Others(q)], TRUE)
  /\ mixed' = (mixed \/ Others(q))

Change(q) ==
  /\ req[q].pc = "idle" /\ req[Boot].pc = "idle"
  /\ changes < MaxChanges /\ changes' = changes + 1
  /\ UNCHANGED <<kind, jobs, thrown, faults>>

\* Neither DTO looks at the expression.  A backup schedule is created enabled.
Create(q) ==
  /\ Change(q)
  /\ \E r \in Rows, c \in Crons, on \in BOOLEAN :
       /\ row[r].life = "none"
       /\ kind = "backup" => on
       /\ row' = [row EXCEPT ![r] = [life |-> "there", enabled |-> on, cron |-> c]]
       /\ Begins(q, [Idle EXCEPT !.op = "create", !.row = r])

\* The backup queue has no update.
Update(q) ==
  /\ kind = "cron"
  /\ Change(q)
  /\ \E r \in Rows, c \in Crons :
       /\ row[r].life = "there"
       /\ row' = [row EXCEPT ![r].cron = c]
       /\ Begins(q, [Idle EXCEPT !.op = "update", !.row = r, !.old = row[r].cron])

Toggle(q) ==
  /\ kind = "cron"
  /\ Change(q)
  /\ \E r \in Rows :
       /\ row[r].life = "there"
       /\ row' = [row EXCEPT ![r].enabled = ~@]
       /\ Begins(q, [Idle EXCEPT !.op = "toggle", !.row = r])

Remove(q) ==
  /\ Change(q)
  /\ \E r \in Rows :
       /\ row[r].life = "there"
       /\ row' = [row EXCEPT ![r].life = "gone"]
       /\ Begins(q, [Idle EXCEPT !.op = "remove", !.row = r])

\* The crons of a service go with it, ON DELETE CASCADE; a backup schedule stays.
RemoveService ==
  /\ kind = "cron"
  /\ changes < MaxChanges /\ changes' = changes + 1
  /\ \E r \in Rows :
       /\ row[r].life = "there"
       /\ row' = [row EXCEPT ![r].life = "gone"]
  /\ req' = [p \in Syncs |-> Marked(p, TRUE)]
  /\ mixed' = TRUE
  /\ UNCHANGED <<kind, jobs, thrown, faults>>

-----------------------------------------------------------------------------
(* sync(), one statement at a time.                                        *)

Goes(q, pc, work) == req' = [req EXCEPT ![q] = [@ EXCEPT !.pc = pc, !.work = work]]

ListJobs(q) ==
  /\ req[q].pc = "list"
  /\ Goes(q, "clear", jobs)
  /\ UNCHANGED <<kind, row, jobs, thrown, mixed, counts>>

RemoveJob(q) ==
  /\ req[q].pc = "clear"
  /\ \E j \in req[q].work :
       /\ jobs' = jobs \ {j}
       /\ Goes(q, "clear", req[q].work \ {j})
  /\ UNCHANGED <<kind, row, thrown, mixed, counts>>

Cleared(q) ==
  /\ req[q].pc = "clear" /\ req[q].work = {}
  /\ Goes(q, "read", {})
  /\ UNCHANGED <<kind, row, jobs, thrown, mixed, counts>>

Enabled == {r \in Rows : row[r].life = "there" /\ row[r].enabled}

Scheduled == {<<r, row[r].cron>> : r \in Enabled}

\* Mutant: the flag is not looked at.
ReadRowsDisabled(q) ==
  /\ req[q].pc = "read"
  /\ Goes(q, "add", {<<r, row[r].cron>> : r \in {s \in Rows : row[s].life = "there"}})
  /\ UNCHANGED <<kind, row, jobs, thrown, mixed, counts>>

\* Mutant: the schedule of the request alone is read.
ReadRowsOne(q) ==
  /\ req[q].pc = "read"
  /\ Goes(q, "add", {j \in Scheduled : j[1] = req[q].row})
  /\ UNCHANGED <<kind, row, jobs, thrown, mixed, counts>>

ReadRows(q) ==
  /\ req[q].pc = "read"
  /\ Goes(q, "add", Scheduled)
  /\ UNCHANGED <<kind, row, jobs, thrown, mixed, counts>>

\* Mutant: BullMQ takes any expression.
AddAnyJob(q) ==
  /\ req[q].pc = "add"
  /\ \E j \in req[q].work :
       /\ jobs' = jobs \cup {j}
       /\ Goes(q, "add", req[q].work \ {j})
  /\ UNCHANGED <<kind, row, thrown, mixed, counts>>

AddJob(q) ==
  /\ req[q].pc = "add"
  /\ \E j \in req[q].work :
       /\ j[2] # Bad
       /\ jobs' = jobs \cup {j}
       /\ Goes(q, "add", req[q].work \ {j})
  /\ UNCHANGED <<kind, row, thrown, mixed, counts>>

Added(q) ==
  /\ req[q].pc = "add" /\ req[q].work = {}
  /\ req' = [req EXCEPT ![q] = Idle]
  /\ thrown' = (thrown /\ ~req[q].whole)
  /\ mixed' = (mixed /\ ~req[q].alone)
  /\ UNCHANGED <<kind, row, jobs, counts>>

\* What a request does about a sync that threw.
AfterThrow(q) ==
  IF kind = "cron" /\ req[q].op \in {"create", "update"}
    THEN [req[q] EXCEPT !.pc = "undo", !.work = {}]
    ELSE Idle

Throws(q) ==
  /\ req' = Beside(q, AfterThrow(q), FALSE)
  /\ thrown' = TRUE
  /\ UNCHANGED <<kind, row, jobs, mixed, changes>>

AddRefused(q) ==
  /\ req[q].pc = "add" /\ \E j \in req[q].work : j[2] = Bad
  /\ Throws(q)
  /\ UNCHANGED faults

RedisFails(q) ==
  /\ InSync(q)
  /\ faults < MaxFaults /\ faults' = faults + 1
  /\ Throws(q)

\* create deletes its row and leaves the jobs as they are.
UndoCreate(q) ==
  /\ req[q].pc = "undo" /\ req[q].op = "create"
  /\ row' = [row EXCEPT ![req[q].row].life = "gone"]
  /\ req' = Beside(q, Idle, TRUE)
  /\ mixed' = TRUE
  /\ UNCHANGED <<kind, jobs, thrown, counts>>

\* update puts the expression back and rebuilds once more; what that throws is ignored.
UndoUpdate(q) ==
  /\ req[q].pc = "undo" /\ req[q].op = "update"
  /\ row' = [row EXCEPT ![req[q].row].cron = req[q].old]
  /\ Begins(q, [req[q] EXCEPT !.op = "again"])
  /\ UNCHANGED <<kind, jobs, thrown, counts>>

\* The jobs stay in Redis; the next start of the panel rebuilds them.
PanelRestarts ==
  /\ faults < MaxFaults /\ faults' = faults + 1
  /\ req' = [q \in Syncs |-> IF q = Boot THEN [Idle EXCEPT !.pc = "list"] ELSE Idle]
  /\ thrown' = (thrown \/ \E q \in Syncs : InSync(q))
  /\ UNCHANGED <<kind, row, jobs, mixed, changes>>

-----------------------------------------------------------------------------
SyncStep(q) ==
  \/ ListJobs(q) \/ RemoveJob(q) \/ Cleared(q) \/ ReadRows(q) \/ AddJob(q) \/ Added(q)
  \/ AddRefused(q) \/ UndoCreate(q) \/ UndoUpdate(q)

Next ==
  \/ \E q \in Requests : Create(q) \/ Update(q) \/ Toggle(q) \/ Remove(q)
  \/ \E q \in Syncs : SyncStep(q) \/ RedisFails(q)
  \/ RemoveService \/ PanelRestarts

Spec == Init /\ [][Next]_vars

FairSpec == Spec /\ \A q \in Syncs : WF_vars(SyncStep(q))

-----------------------------------------------------------------------------
(* Properties.                                                             *)

WillAdd(q, j) == \/ req[q].pc \in {"list", "clear", "read"}
                 \/ req[q].pc = "add" /\ j \in req[q].work

\* However the requests overlap, no enabled schedule is left without its job: it has one, or
\* a sync that is still running will add it.  It takes that no sync threw; after that the
\* jobs are complete again once a sync begun later has ended.
Complete == \A j \in Scheduled : j \in jobs \/ \E q \in Syncs : WillAdd(q, j)

NothingUnscheduled == ~thrown => Complete

\* Where syncs neither overlap nor throw, and each deleted row is followed by one, the jobs
\* are those of the enabled rows, "rebuilt from the DB whenever schedules change (and on
\* boot)" (backup.scheduler.ts:23-24).
Rebuilt ==
  ~thrown /\ ~mixed /\ (\A q \in Syncs : ~InSync(q)) => jobs = Scheduled
=============================================================================

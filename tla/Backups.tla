------------------------------- MODULE Backups -------------------------------
(***************************************************************************)
(* The backups of one volume: rows of backups.service.ts, files that the   *)
(* agent writes (backups.go), retention after a scheduled one, restore     *)
(* into the volume, copies to the off-site store (offsite.service.ts).  An *)
(* agent's command runs to its end whoever asked for it is gone.           *)
(***************************************************************************)
EXTENDS FiniteSets, Naturals

CONSTANTS
  N,          \* bound: backups made, numbered in the order of their rows
  KeepLast,   \* keepLast of the schedule
  Batch,      \* maxBatch of uploadPending, 20 in the code
  Users,      \* slots for the requests of users
  Schedule,   \* the worker of the backup queue
  MaxUses,    \* bound: removals and restores asked for
  MaxFaults   \* bound: faults

ASSUME BackupBoundsAssumption ==
  N \in Nat /\ KeepLast \in Nat /\ Batch \in Nat \ {0} /\ MaxUses \in Nat /\ MaxFaults \in Nat
ASSUME ScheduleAssumption == Schedule \notin Users

VARIABLES
  row,      \* backups, and the status of offsite_uploads
  file,     \* what the node's directory holds
  cmd,      \* the agent's backup commands
  req,      \* create, remove and the scheduled job, as far as they are
  restore,  \* the agent's restore command
  volume,   \* what the volume holds
  upload,   \* the run of the off-site worker
  store,    \* the objects in the off-site store
  by,       \* history: who began to remove a backup
  lost,     \* history: a restore lost its file, was broken off, or had a hollow file
  uses, faults  \* history: what the bounds count

onNode  == <<file, cmd, restore, volume, lost>>
offSite == <<upload, store>>
counts  == <<uses, faults>>
vars    == <<row, onNode, req, offSite, by, counts>>

-----------------------------------------------------------------------------
Ids      == 1..N
Requests == Users \cup {Schedule}

\* A row that is gone keeps its status here for the history.
Row == [there : BOOLEAN, status : {"none", "RUNNING", "SUCCESS", "FAILED"}, upload : {"none", "failed", "uploaded"}]

\* torn: being written while the volume was empty for a time; hollow: the file that gives.
Contents == {"none", "part", "torn", "whole", "hollow"}

\* b: the backup that is made.  work: those to remove, the newest first.
Request == [pc : {"idle", "wait", "retain", "file", "row"}, b : 0..N, work : SUBSET Ids]

TypeOK ==
  /\ row \in [Ids -> Row]
  /\ file \in [Ids -> Contents]
  /\ cmd \in [Ids -> {"none", "running", "stray", "ok", "error"}]
  /\ req \in [Requests -> Request]
  /\ restore \in [pc : {"idle", "stat", "wipe", "extract"}, b : 0..N]
  /\ volume \in {"data", "empty"}
  /\ upload \in [pc : {"idle", "next", "stream"}, work : SUBSET Ids]
  /\ store \subseteq Ids
  /\ by \in [Ids -> {"none", "user", "retention"}]
  /\ lost \in BOOLEAN
  /\ uses \in 0..MaxUses /\ faults \in 0..MaxFaults

Idle == [pc |-> "idle", b |-> 0, work |-> {}]
NoUpload == [pc |-> "idle", work |-> {}]
NoRestore == [pc |-> "idle", b |-> 0]

Init ==
  /\ row = [b \in Ids |-> [there |-> FALSE, status |-> "none", upload |-> "none"]]
  /\ file = [b \in Ids |-> "none"] /\ cmd = [b \in Ids |-> "none"]
  /\ req = [q \in Requests |-> Idle]
  /\ restore = NoRestore /\ volume = "data" /\ lost = FALSE
  /\ upload = NoUpload /\ store = {}
  /\ by = [b \in Ids |-> "none"]
  /\ uses = 0 /\ faults = 0

Fault == faults < MaxFaults /\ faults' = faults + 1 /\ UNCHANGED uses
Use   == uses < MaxUses /\ uses' = uses + 1 /\ UNCHANGED faults

-----------------------------------------------------------------------------
(* Making one.                                                             *)

Fresh(b) == row[b].status = "none" /\ \A a \in Ids : row[a].status = "none" => b <= a

\* The row, and the command at the agent.
Create(q) ==
  /\ req[q].pc = "idle"
  /\ \E b \in Ids :
       /\ Fresh(b)
       /\ row' = [row EXCEPT ![b] = [@ EXCEPT !.there = TRUE, !.status = "RUNNING"]]
       /\ cmd' = [cmd EXCEPT ![b] = "running"]
       /\ file' = [file EXCEPT ![b] = IF volume = "empty" THEN "torn" ELSE "part"]
       /\ req' = [req EXCEPT ![q] = [@ EXCEPT !.pc = "wait", !.b = b]]
  /\ UNCHANGED <<restore, volume, lost, offSite, by, counts>>

\* A file removed meanwhile stays removed.
TarEnds(b) ==
  /\ cmd[b] = "running" \/ (cmd[b] = "stray" /\ file[b] \in {"part", "torn"})
  /\ cmd' = [cmd EXCEPT ![b] = IF @ = "running" THEN "ok" ELSE @]
  /\ file' = [file EXCEPT ![b] = CASE @ = "part" -> "whole" [] @ = "torn" -> "hollow" [] OTHER -> @]
  /\ UNCHANGED <<row, req, restore, volume, lost, offSite, by, counts>>

TarFails(b) ==
  /\ cmd[b] = "running"
  /\ Fault
  /\ cmd' = [cmd EXCEPT ![b] = "error"]
  /\ file' = [file EXCEPT ![b] = "none"]
  /\ UNCHANGED <<row, req, restore, volume, lost, offSite, by>>

\* An update of a row that is gone changes nothing.
SetStatus(b, status) == row' = [row EXCEPT ![b].status = IF row[b].there THEN status ELSE @]

\* A failure ends the scheduled job before its retention; so does a row that is gone.
Ends(q, status) ==
  /\ SetStatus(req[q].b, status)
  /\ req' = [req EXCEPT ![q] = IF q = Schedule /\ status = "SUCCESS" /\ row[req[q].b].there
                                 THEN [@ EXCEPT !.pc = "retain"] ELSE Idle]
  /\ UNCHANGED <<onNode, offSite, by>>

\* Mutant: the "ok" of the answer is not looked at.
HearsAny(q) ==
  /\ req[q].pc = "wait" /\ cmd[req[q].b] \in {"ok", "error", "stray"}
  /\ Ends(q, "SUCCESS")
  /\ UNCHANGED counts

Hears(q) ==
  /\ req[q].pc = "wait" /\ cmd[req[q].b] \in {"ok", "error", "stray"}
  /\ Ends(q, IF cmd[req[q].b] = "ok" THEN "SUCCESS" ELSE "FAILED")
  /\ UNCHANGED counts

\* The request times out, or the size does not fit the column; the file stays.
NoReply(q) ==
  /\ req[q].pc = "wait"
  /\ Fault
  /\ Ends(q, "FAILED")

-----------------------------------------------------------------------------
(* Removing: the file, then the row.                                       *)

Newer(b, S) == {c \in S : c > b}

\* The newest of S: what a loop over S comes to next.
Top(S) == {b \in S : Newer(b, S) = {}}

Good == {b \in Ids : row[b].there /\ row[b].status = "SUCCESS"}

\* Mutant: failed ones count too.
ExpiredOfAll == {b \in Good : Cardinality(Newer(b, {c \in Ids : row[c].there})) >= KeepLast}

\* What slice(keepLast) leaves of the successful ones, the newest first.
Expired == {b \in Good : Cardinality(Newer(b, Good)) >= KeepLast}

Marks(S, who) == by' = [b \in Ids |-> IF b \in S /\ by[b] = "none" THEN who ELSE by[b]]

Removing(q, work) ==
  req' = [req EXCEPT ![q] = IF work = {} THEN Idle ELSE [Idle EXCEPT !.pc = "file", !.work = work]]

Retain ==
  /\ req[Schedule].pc = "retain"
  /\ Marks(Expired, "retention")
  /\ Removing(Schedule, Expired)
  /\ UNCHANGED <<row, onNode, offSite, counts>>

AskRemove(u) ==
  /\ req[u].pc = "idle"
  /\ Use
  /\ \E b \in Ids :
       /\ row[b].there
       /\ Marks({b}, "user")
       /\ Removing(u, {b})
  /\ UNCHANGED <<row, onNode, offSite>>

\* The removal of a row that is gone by now: get throws.
SkipGone(q) ==
  /\ req[q].pc = "file"
  /\ \E b \in Top(req[q].work) : ~row[b].there /\ Removing(q, req[q].work \ {b})
  /\ UNCHANGED <<row, onNode, offSite, by, counts>>

DeleteFile(q) ==
  /\ req[q].pc = "file"
  /\ \E b \in Top(req[q].work) :
       /\ row[b].there
       /\ file' = [file EXCEPT ![b] = "none"]
       /\ lost' = (lost \/ (restore.b = b /\ restore.pc \in {"wipe", "extract"}))
  /\ req' = [req EXCEPT ![q].pc = "row"]
  /\ UNCHANGED <<row, cmd, restore, volume, offSite, by, counts>>

\* The agent does not answer: the row goes all the same.
LeaveFile(q) ==
  /\ req[q].pc = "file" /\ \E b \in Top(req[q].work) : row[b].there
  /\ Fault
  /\ req' = [req EXCEPT ![q].pc = "row"]
  /\ UNCHANGED <<row, onNode, offSite, by>>

DeleteRow(q) ==
  /\ req[q].pc = "row"
  /\ \E b \in Top(req[q].work) :
       /\ row' = [row EXCEPT ![b].there = FALSE]
       /\ Removing(q, req[q].work \ {b})
  /\ UNCHANGED <<onNode, offSite, by, counts>>

-----------------------------------------------------------------------------
(* Restoring: stat, rm -rf, tar x.                                         *)

AskRestore ==
  /\ restore.pc = "idle"
  /\ Use
  /\ \E b \in Good : restore' = [pc |-> "stat", b |-> b]
  /\ UNCHANGED <<row, file, cmd, volume, lost, req, offSite, by>>

\* Mutant: the file is not looked for.
StatNothing ==
  /\ restore.pc = "stat"
  /\ restore' = [restore EXCEPT !.pc = "wipe"]
  /\ UNCHANGED <<row, file, cmd, volume, lost, req, offSite, by, counts>>

Stat ==
  /\ restore.pc = "stat"
  /\ restore' = IF file[restore.b] = "none" THEN NoRestore ELSE [restore EXCEPT !.pc = "wipe"]
  /\ UNCHANGED <<row, file, cmd, volume, lost, req, offSite, by, counts>>

\* A backup being written has the hole in it.
Wipe ==
  /\ restore.pc = "wipe"
  /\ volume' = "empty"
  /\ file' = [b \in Ids |-> IF file[b] = "part" /\ cmd[b] \in {"running", "stray"} THEN "torn" ELSE file[b]]
  /\ restore' = [restore EXCEPT !.pc = "extract"]
  /\ UNCHANGED <<row, cmd, lost, req, offSite, by, counts>>

Extract ==
  /\ restore.pc = "extract"
  /\ volume' = IF file[restore.b] = "whole" THEN "data" ELSE "empty"
  /\ lost' = (lost \/ file[restore.b] = "hollow")
  /\ restore' = NoRestore
  /\ UNCHANGED <<row, file, cmd, req, offSite, by, counts>>

-----------------------------------------------------------------------------
(* Off-site.  The worker runs uploadPending again and again.               *)

\* Mutant: a failed upload is not tried again.
PendingNew == {b \in Good : row[b].upload = "none"}

Pending == {b \in Good : row[b].upload # "uploaded"}

Newest(k, S) == {b \in S : Cardinality(Newer(b, S)) < k}

Select ==
  /\ upload.pc = "idle" /\ Pending # {}
  /\ upload' = [pc |-> "next", work |-> Newest(Batch, Pending)]
  /\ UNCHANGED <<row, onNode, req, store, by, counts>>

Advance(b) == upload' = IF upload.work = {b} THEN NoUpload
                        ELSE [pc |-> "next", work |-> upload.work \ {b}]

\* A record for a row that is gone breaks its foreign key: the batch ends there.
Record(b, result) ==
  IF row[b].there
    THEN row' = [row EXCEPT ![b].upload = result] /\ Advance(b)
    ELSE upload' = NoUpload /\ UNCHANGED row

\* So does a backup that is gone when its turn comes.
Open ==
  /\ upload.pc = "next"
  /\ \E b \in Top(upload.work) :
       IF b \notin Good THEN upload' = NoUpload /\ UNCHANGED row
       ELSE IF file[b] = "none" THEN Record(b, "failed")
       ELSE upload' = [upload EXCEPT !.pc = "stream"] /\ UNCHANGED row
  /\ UNCHANGED <<onNode, req, store, by, counts>>

\* An open file is read to its end even if it is removed.
Stored ==
  /\ upload.pc = "stream"
  /\ \E b \in Top(upload.work) : store' = store \cup {b} /\ Record(b, "uploaded")
  /\ UNCHANGED <<onNode, req, by, counts>>

\* Mutant: a status the ledger does not know.
StreamIsPartial ==
  /\ upload.pc = "stream"
  /\ Fault
  /\ \E b \in Top(upload.work) : Record(b, "partial")
  /\ UNCHANGED <<onNode, req, store, by>>

StreamBreaks ==
  /\ upload.pc = "stream"
  /\ Fault
  /\ \E b \in Top(upload.work) : Record(b, "failed")
  /\ UNCHANGED <<onNode, req, store, by>>

-----------------------------------------------------------------------------
\* The node's commands go on; a backup that was RUNNING stays so.
PanelDies ==
  /\ Fault
  /\ req' = [q \in Requests |-> Idle]
  /\ upload' = NoUpload
  /\ UNCHANGED <<row, onNode, store, by>>

\* Its containers go on or stop with it, and nobody hears of them.
AgentDies ==
  /\ Fault
  /\ \E on \in SUBSET Ids :
       cmd' = [b \in Ids |-> IF cmd[b] \notin {"running", "stray"} THEN cmd[b] ELSE IF b \in on THEN "stray" ELSE "error"]
  /\ \/ /\ restore' = NoRestore
        /\ lost' = (lost \/ restore.pc = "extract")
     \/ UNCHANGED <<restore, lost>>
  /\ IF upload.pc = "stream" THEN \E b \in Top(upload.work) : Record(b, "failed")
                             ELSE UNCHANGED <<row, upload>>
  /\ UNCHANGED <<file, volume, req, store, by>>

-----------------------------------------------------------------------------
RequestStep(q) == Hears(q) \/ SkipGone(q) \/ DeleteFile(q) \/ DeleteRow(q)
UploadStep     == Select \/ Open \/ Stored

Next ==
  \/ \E q \in Requests : Create(q) \/ RequestStep(q) \/ NoReply(q) \/ LeaveFile(q)
  \/ \E u \in Users : AskRemove(u)
  \/ \E b \in Ids : TarEnds(b) \/ TarFails(b)
  \/ Retain \/ AskRestore \/ Stat \/ Wipe \/ Extract
  \/ UploadStep \/ StreamBreaks \/ PanelDies \/ AgentDies

Spec == Init /\ [][Next]_vars

\* A handler that runs goes on.  The off-site worker is a repeatable job, and the destination
\* is reachable again after the faults.
FairSpec == Spec /\ WF_vars(UploadStep) /\ \A q \in Requests : WF_vars(RequestStep(q))

-----------------------------------------------------------------------------
(* Properties.                                                             *)

\* A row that says SUCCESS has its file, written to the end, unless a removal of it was begun:
\* whichever side died or was not heard, and whatever another request removed.
SuccessIsWhole ==
  \A b \in Good : file[b] \in {"whole", "hollow"} \/ by[b] # "none"

\* Retention takes a backup only where keepLast newer ones succeeded, and these are still there
\* unless a user removed them.  A backup that failed, or is running, takes no place of a good one.
RetentionKeeps ==
  \A b \in Ids : by[b] = "retention" =>
    Cardinality({c \in Ids : c > b /\ row[c].status = "SUCCESS" /\ (row[c].there \/ by[c] = "user")}) >= KeepLast

\* A restore that ends leaves the volume with its data: it is not wiped for a file that is not
\* there.  What can still empty it is counted in lost.
VolumeKept == volume = "empty" => lost \/ restore.pc = "extract"

\* Removals that were broken off between the file and the row can fill every batch.
Clogged == Cardinality({c \in Good : file[c] = "none"}) >= Batch

\* With the destination reachable in the end, each successful backup reaches the store, unless
\* its removal begins first or the batches are clogged; neither failed uploads nor batches that
\* were broken off stop it.  (Within the seven days of the lookback: time is not modelled.)
OffsiteInTheEnd ==
  \A b \in Ids : b \in Good ~> (b \in store \/ by[b] # "none" \/ Clogged)
=============================================================================

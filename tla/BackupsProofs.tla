---------------------------- MODULE BackupsProofs ----------------------------
(* Proofs about Backups, for any number of backups, users, removals,        *)
(* restores and faults.                                                     *)
EXTENDS Backups, FiniteSetTheorems, TLAPS

-----------------------------------------------------------------------------
(* What steps do to the rows.                                               *)

\* An off-site status changes nothing else of a row.
SameRows == \A b \in Ids : row'[b].there = row[b].there /\ row'[b].status = row[b].status

LEMMA RowParts == ASSUME TypeOK, NEW b \in Ids
                  PROVE  /\ \A s \in {"none", "RUNNING", "SUCCESS", "FAILED"} :
                              [row EXCEPT ![b].status = s] \in [Ids -> Row]
                         /\ \A s \in {"RUNNING", "SUCCESS", "FAILED"} :
                              [row EXCEPT ![b] = [@ EXCEPT !.there = TRUE, !.status = s]] \in [Ids -> Row]
                         /\ [row EXCEPT ![b].there = FALSE] \in [Ids -> Row]
                         /\ \A u \in {"failed", "uploaded"} : [row EXCEPT ![b].upload = u] \in [Ids -> Row]
                         /\ row[b] \in Row
BY DEF TypeOK, Row

LEMMA TopIn == \A S : Top(S) \subseteq S
BY DEF Top

LEMMA RecordDoes == ASSUME TypeOK, NEW b \in Ids, NEW u \in {"failed", "uploaded"}, Record(b, u),
                           upload.work \subseteq Ids
                    PROVE  /\ row' \in [Ids -> Row] /\ SameRows
                           /\ upload' \in [pc : {"idle", "next", "stream"}, work : SUBSET Ids]
<1>1. NoUpload \in [pc : {"idle", "next", "stream"}, work : SUBSET Ids]
  BY DEF NoUpload
<1>2. CASE row[b].there
  <2>1. row' = [row EXCEPT ![b].upload = u]
    BY <1>2 DEF Record
  <2>2. row' \in [Ids -> Row]
    BY <2>1, RowParts
  <2>3. SameRows
    BY <2>1 DEF SameRows, TypeOK, Row
  <2>4. upload' \in [pc : {"idle", "next", "stream"}, work : SUBSET Ids]
    BY <1>1, <1>2 DEF Record, Advance
  <2> QED BY <2>2, <2>3, <2>4
<1>3. CASE ~row[b].there
  BY <1>1, <1>3 DEF Record, SameRows, TypeOK
<1> QED BY <1>2, <1>3

-----------------------------------------------------------------------------
(* Types.                                                                   *)

LEMMA IdleTyped == /\ Idle \in Request /\ Idle.pc = "idle" /\ Idle.work = {}
                   /\ NoRestore \in [pc : {"idle", "stat", "wipe", "extract"}, b : 0..N]
                   /\ NoUpload \in [pc : {"idle", "next", "stream"}, work : SUBSET Ids]
BY BackupBoundsAssumption DEF Idle, Request, NoRestore, NoUpload

LEMMA RemovingTyped == ASSUME TypeOK, NEW q \in Requests, NEW w \in SUBSET Ids, Removing(q, w)
                       PROVE  /\ req' \in [Requests -> Request]
                              /\ \A p \in Requests \ {q} : req'[p] = req[p]
                              /\ req'[q].pc \in {"idle", "file"} /\ req'[q].work = w
<1> DEFINE r == IF w = {} THEN Idle ELSE [Idle EXCEPT !.pc = "file", !.work = w]
<1>1. r \in Request /\ r.pc \in {"idle", "file"} /\ r.work = w
  BY IdleTyped DEF Request
<1>2. req' = [req EXCEPT ![q] = r]
  BY DEF Removing
<1> HIDE DEF r
<1> QED BY <1>1, <1>2 DEF TypeOK

LEMMA EndsDoes == ASSUME TypeOK, NEW q \in Requests, NEW s \in {"SUCCESS", "FAILED"}, Ends(q, s), req[q].b \in Ids
                  PROVE  /\ row' \in [Ids -> Row]
                         /\ \A b \in Ids : /\ row'[b].there = row[b].there
                                           /\ row'[b].status = IF b = req[q].b /\ row[b].there THEN s ELSE row[b].status
                         /\ req' \in [Requests -> Request]
                         /\ \A p \in Requests \ {q} : req'[p] = req[p]
                         /\ req'[q].pc \in {"idle", "retain"}
<1> DEFINE t == IF row[req[q].b].there THEN s ELSE row[req[q].b].status
           r == IF q = Schedule /\ s = "SUCCESS" /\ row[req[q].b].there
                  THEN [req[q] EXCEPT !.pc = "retain"] ELSE Idle
<1>1. row' = [row EXCEPT ![req[q].b].status = t]
  BY DEF Ends, SetStatus, TypeOK, Row
<1>2. t \in {"none", "RUNNING", "SUCCESS", "FAILED"}
  BY RowParts DEF Row
<1>3. row' \in [Ids -> Row]
  BY <1>1, <1>2, RowParts
<1>4. \A b \in Ids : /\ row'[b].there = row[b].there
                     /\ row'[b].status = IF b = req[q].b /\ row[b].there THEN s ELSE row[b].status
  BY <1>1 DEF TypeOK, Row
<1>5. r \in Request /\ r.pc \in {"idle", "retain"}
  BY IdleTyped DEF Request, TypeOK
<1>6. req' = [req EXCEPT ![q] = r]
  BY DEF Ends
<1> HIDE DEF r, t
<1> QED BY <1>3, <1>4, <1>5, <1>6 DEF TypeOK

LEMMA TypeInit == Init => TypeOK
<1> SUFFICES ASSUME Init PROVE TypeOK
  OBVIOUS
<1>1. row \in [Ids -> Row]
  BY DEF Init, Row
<1>2. req \in [Requests -> Request]
  BY IdleTyped DEF Init
<1>3. lost \in BOOLEAN /\ volume \in {"data", "empty"} /\ store \subseteq Ids
  BY DEF Init
<1>4. file \in [Ids -> Contents] /\ cmd \in [Ids -> {"none", "running", "stray", "ok", "error"}]
      /\ by \in [Ids -> {"none", "user", "retention"}]
  BY DEF Init, Contents
<1>5. uses \in 0..MaxUses /\ faults \in 0..MaxFaults
  BY BackupBoundsAssumption DEF Init
<1>6. /\ restore \in [pc : {"idle", "stat", "wipe", "extract"}, b : 0..N]
      /\ upload \in [pc : {"idle", "next", "stream"}, work : SUBSET Ids]
  BY IdleTyped DEF Init
<1> QED BY <1>1, <1>2, <1>3, <1>4, <1>5, <1>6 DEF TypeOK

\* The two counters keep their bounds.
LEMMA CountsTyped == ASSUME TypeOK, Fault \/ Use \/ UNCHANGED counts
                     PROVE  uses' \in 0..MaxUses /\ faults' \in 0..MaxFaults
BY BackupBoundsAssumption DEF TypeOK, Fault, Use, counts

LEMMA MarksTyped == ASSUME TypeOK, NEW S, NEW who \in {"user", "retention"}, Marks(S, who)
                    PROVE  /\ by' \in [Ids -> {"none", "user", "retention"}]
                           /\ \A b \in Ids : /\ by[b] # "none" => by'[b] = by[b]
                                             /\ b \in S => by'[b] # "none"
                                             /\ by'[b] # by[b] => b \in S /\ by'[b] = who
BY DEF TypeOK, Marks

LEMMA CreateTyped == ASSUME TypeOK, NEW q \in Requests, Create(q)
                     PROVE  /\ TypeOK'
                            /\ req[q].pc = "idle"
                            /\ \E b \in Ids :
                                 /\ row[b].status = "none"
                                 /\ cmd' = [cmd EXCEPT ![b] = "running"]
                                 /\ file'[b] \in {"part", "torn"}
                                 /\ row'[b].status = "RUNNING" /\ req'[q].pc = "wait" /\ req'[q].b = b
                                 /\ \A c \in Ids \ {b} : row'[c] = row[c] /\ file'[c] = file[c]
                                 /\ \A p \in Requests \ {q} : req'[p] = req[p]
<1>1. PICK b \in Ids :
        /\ Fresh(b)
        /\ row' = [row EXCEPT ![b] = [@ EXCEPT !.there = TRUE, !.status = "RUNNING"]]
        /\ cmd' = [cmd EXCEPT ![b] = "running"]
        /\ file' = [file EXCEPT ![b] = IF volume = "empty" THEN "torn" ELSE "part"]
        /\ req' = [req EXCEPT ![q] = [@ EXCEPT !.pc = "wait", !.b = b]]
  BY DEF Create
<1>2. row' \in [Ids -> Row]
  BY <1>1, RowParts
<1>3. row'[b].status = "RUNNING" /\ \A c \in Ids \ {b} : row'[c] = row[c]
  BY <1>1 DEF TypeOK, Row
<1>4. file' \in [Ids -> Contents] /\ file'[b] \in {"part", "torn"} /\ \A c \in Ids \ {b} : file'[c] = file[c]
  BY <1>1 DEF TypeOK, Contents
<1>5. cmd' \in [Ids -> {"none", "running", "stray", "ok", "error"}]
  BY <1>1 DEF TypeOK
<1>6. /\ req' \in [Requests -> Request] /\ req'[q].pc = "wait" /\ req'[q].b = b
      /\ \A p \in Requests \ {q} : req'[p] = req[p]
  <2> DEFINE r == [req[q] EXCEPT !.pc = "wait", !.b = b]
  <2>1. r \in Request /\ r.pc = "wait" /\ r.b = b
    <3>1. b \in 0..N
      BY BackupBoundsAssumption DEF Ids
    <3>2. req[q] \in Request
      BY DEF TypeOK
    <3> QED BY <3>1, <3>2 DEF Request
  <2>2. req' = [req EXCEPT ![q] = r]
    BY <1>1
  <2> HIDE DEF r
  <2> QED BY <2>1, <2>2 DEF TypeOK
<1>7. TypeOK'
  BY <1>2, <1>4, <1>5, <1>6 DEF TypeOK, Create, offSite, counts
<1>8. row[b].status = "none" /\ req[q].pc = "idle"
  BY <1>1 DEF Fresh, Create
<1> QED BY <1>1, <1>3, <1>4, <1>6, <1>7, <1>8

LEMMA TypeStep == TypeOK /\ [Next]_vars => TypeOK'
<1> SUFFICES ASSUME TypeOK, [Next]_vars PROVE TypeOK'
  OBVIOUS
<1> DEFINE Counted == uses' \in 0..MaxUses /\ faults' \in 0..MaxFaults
<1>1. ASSUME NEW q \in Requests, Create(q) PROVE TypeOK'
  BY <1>1, CreateTyped
<1>2. ASSUME NEW q \in Requests, Hears(q) \/ NoReply(q) PROVE TypeOK'
  <2>1. CASE req[q].b \in Ids
    <3>1. Counted /\ UNCHANGED <<onNode, offSite, by>>
      BY <1>2, CountsTyped DEF Hears, NoReply, Ends
    <3>2. row' \in [Ids -> Row] /\ req' \in [Requests -> Request]
      BY <1>2, <2>1, EndsDoes DEF Hears, NoReply
    <3> QED BY <3>1, <3>2 DEF TypeOK, onNode, offSite
  <2>2. CASE req[q].b \notin Ids
    <3>1. row' = row
      BY <1>2, <2>2 DEF Hears, NoReply, Ends, SetStatus, TypeOK
    <3>2. req' \in [Requests -> Request]
      <4> DEFINE s == IF cmd[req[q].b] = "ok" THEN "SUCCESS" ELSE "FAILED"
      <4>1. Ends(q, s) \/ Ends(q, "FAILED")
        BY <1>2 DEF Hears, NoReply
      <4> HIDE DEF s
      <4>2. [req[q] EXCEPT !.pc = "retain"] \in Request
        BY DEF TypeOK, Request
      <4> QED BY <4>1, <4>2, IdleTyped DEF Ends, TypeOK
    <3>3. Counted /\ UNCHANGED <<onNode, offSite, by>>
      BY <1>2, CountsTyped DEF Hears, NoReply, Ends
    <3> QED BY <3>1, <3>2, <3>3 DEF TypeOK, onNode, offSite
  <2> QED BY <2>1, <2>2
<1>3. ASSUME NEW b \in Ids, TarEnds(b) \/ TarFails(b) PROVE TypeOK'
  <2>1. Counted
    BY <1>3, CountsTyped DEF TarEnds, TarFails
  <2>2. file' \in [Ids -> Contents]
    BY <1>3 DEF TarEnds, TarFails, TypeOK, Contents
  <2>3. cmd' \in [Ids -> {"none", "running", "stray", "ok", "error"}]
    BY <1>3 DEF TarEnds, TarFails, TypeOK
  <2> QED BY <1>3, <2>1, <2>2, <2>3 DEF TarEnds, TarFails, TypeOK, offSite
<1>4. ASSUME Retain PROVE TypeOK'
  <2>1. Expired \in SUBSET Ids
    BY DEF Expired, Good
  <2>2. req' \in [Requests -> Request]
    BY <1>4, <2>1, RemovingTyped DEF Retain, Requests
  <2>3. by' \in [Ids -> {"none", "user", "retention"}]
    BY <1>4, MarksTyped DEF Retain
  <2> QED BY <1>4, <2>2, <2>3 DEF Retain, TypeOK, onNode, offSite, counts
<1>5. ASSUME NEW u \in Users, AskRemove(u) PROVE TypeOK'
  <2>1. PICK b \in Ids : Marks({b}, "user") /\ Removing(u, {b})
    BY <1>5 DEF AskRemove
  <2>2. req' \in [Requests -> Request]
    BY <2>1, RemovingTyped DEF Requests
  <2>3. by' \in [Ids -> {"none", "user", "retention"}]
    BY <2>1, MarksTyped
  <2>4. Counted
    BY <1>5, CountsTyped DEF AskRemove
  <2> QED BY <1>5, <2>2, <2>3, <2>4 DEF AskRemove, TypeOK, onNode, offSite
<1>6. ASSUME NEW q \in Requests, SkipGone(q) PROVE TypeOK'
  <2>1. PICK b \in Ids : Removing(q, req[q].work \ {b})
    BY <1>6, TopIn DEF SkipGone, TypeOK, Request
  <2>2. req' \in [Requests -> Request]
    BY <2>1, RemovingTyped DEF TypeOK, Request
  <2> QED BY <1>6, <2>2 DEF SkipGone, TypeOK, onNode, offSite, counts
<1>7. ASSUME NEW q \in Requests, DeleteFile(q) PROVE TypeOK'
  <2>1. PICK b \in Ids : file' = [file EXCEPT ![b] = "none"]
                         /\ lost' = (lost \/ (restore.b = b /\ restore.pc \in {"wipe", "extract"}))
    BY <1>7, TopIn DEF DeleteFile, TypeOK, Request
  <2>2. file' \in [Ids -> Contents]
    BY <2>1 DEF TypeOK, Contents
  <2>3. lost' \in BOOLEAN
    BY <2>1 DEF TypeOK
  <2>4. req' \in [Requests -> Request]
    BY <1>7 DEF DeleteFile, TypeOK, Request
  <2> QED BY <1>7, <2>2, <2>3, <2>4 DEF DeleteFile, TypeOK, offSite, counts
<1>8. ASSUME NEW q \in Requests, LeaveFile(q) PROVE TypeOK'
  <2>1. req' \in [Requests -> Request]
    BY <1>8 DEF LeaveFile, TypeOK, Request
  <2>2. Counted
    BY <1>8, CountsTyped DEF LeaveFile
  <2> QED BY <1>8, <2>1, <2>2 DEF LeaveFile, TypeOK, onNode, offSite
<1>9. ASSUME NEW q \in Requests, DeleteRow(q) PROVE TypeOK'
  <2>1. PICK b \in Ids : row' = [row EXCEPT ![b].there = FALSE] /\ Removing(q, req[q].work \ {b})
    BY <1>9, TopIn DEF DeleteRow, TypeOK, Request
  <2>2. row' \in [Ids -> Row]
    BY <2>1, RowParts
  <2>3. req' \in [Requests -> Request]
    BY <2>1, RemovingTyped DEF TypeOK, Request
  <2> QED BY <1>9, <2>2, <2>3 DEF DeleteRow, TypeOK, onNode, offSite, counts
<1>10. ASSUME AskRestore PROVE TypeOK'
  <2>1. restore' \in [pc : {"idle", "stat", "wipe", "extract"}, b : 0..N]
    BY <1>10 DEF AskRestore, Good, Ids
  <2>2. Counted
    BY <1>10, CountsTyped DEF AskRestore
  <2> QED BY <1>10, <2>1, <2>2 DEF AskRestore, TypeOK, offSite
<1>11. ASSUME Stat PROVE TypeOK'
  <2>1. restore' \in [pc : {"idle", "stat", "wipe", "extract"}, b : 0..N]
    BY <1>11, IdleTyped DEF Stat, TypeOK
  <2> QED BY <1>11, <2>1 DEF Stat, TypeOK, offSite, counts
<1>12. ASSUME Wipe PROVE TypeOK'
  <2>1. file' \in [Ids -> Contents]
    BY <1>12 DEF Wipe, TypeOK, Contents
  <2>2. restore' \in [pc : {"idle", "stat", "wipe", "extract"}, b : 0..N]
    BY <1>12 DEF Wipe, TypeOK
  <2> QED BY <1>12, <2>1, <2>2 DEF Wipe, TypeOK, offSite, counts
<1>13. ASSUME Extract PROVE TypeOK'
  <2>1. lost' \in BOOLEAN
    BY <1>13 DEF Extract, TypeOK
  <2>2. restore' \in [pc : {"idle", "stat", "wipe", "extract"}, b : 0..N] /\ volume' \in {"data", "empty"}
    BY <1>13, IdleTyped DEF Extract
  <2> QED BY <1>13, <2>1, <2>2 DEF Extract, TypeOK, offSite, counts
<1>14. upload.work \subseteq Ids
  BY DEF TypeOK
<1>15. ASSUME Select PROVE TypeOK'
  <2>1. upload' \in [pc : {"idle", "next", "stream"}, work : SUBSET Ids]
    BY <1>15 DEF Select, Newest, Pending, Good
  <2> QED BY <1>15, <2>1 DEF Select, TypeOK, onNode, counts
<1>16. ASSUME Open PROVE TypeOK'
  <2>1. row' \in [Ids -> Row] /\ upload' \in [pc : {"idle", "next", "stream"}, work : SUBSET Ids]
    <3>1. PICK b \in Ids : IF b \notin Good THEN upload' = NoUpload /\ UNCHANGED row
                           ELSE IF file[b] = "none" THEN Record(b, "failed")
                           ELSE upload' = [upload EXCEPT !.pc = "stream"] /\ UNCHANGED row
      BY <1>16, <1>14, TopIn DEF Open
    <3> QED BY <3>1, <1>14, RecordDoes, IdleTyped DEF TypeOK
  <2> QED BY <1>16, <2>1 DEF Open, TypeOK, onNode, counts
<1>17. ASSUME Stored PROVE TypeOK'
  <2>1. PICK b \in Ids : store' = store \cup {b} /\ Record(b, "uploaded")
    BY <1>17, <1>14, TopIn DEF Stored
  <2>2. row' \in [Ids -> Row] /\ upload' \in [pc : {"idle", "next", "stream"}, work : SUBSET Ids]
    BY <2>1, <1>14, RecordDoes
  <2>3. store' \subseteq Ids
    BY <2>1 DEF TypeOK
  <2> QED BY <1>17, <2>2, <2>3 DEF Stored, TypeOK, onNode, counts
<1>18. ASSUME StreamBreaks PROVE TypeOK'
  <2>1. PICK b \in Ids : Record(b, "failed")
    BY <1>18, <1>14, TopIn DEF StreamBreaks
  <2>2. row' \in [Ids -> Row] /\ upload' \in [pc : {"idle", "next", "stream"}, work : SUBSET Ids]
    BY <2>1, <1>14, RecordDoes
  <2>3. Counted
    BY <1>18, CountsTyped DEF StreamBreaks
  <2> QED BY <1>18, <2>2, <2>3 DEF StreamBreaks, TypeOK, onNode
<1>19. ASSUME PanelDies PROVE TypeOK'
  <2>1. Counted
    BY <1>19, CountsTyped DEF PanelDies
  <2>2. req' \in [Requests -> Request] /\ upload' \in [pc : {"idle", "next", "stream"}, work : SUBSET Ids]
    BY <1>19, IdleTyped DEF PanelDies
  <2> QED BY <1>19, <2>1, <2>2 DEF PanelDies, TypeOK, onNode
<1>20. ASSUME AgentDies PROVE TypeOK'
  <2>1. Counted
    BY <1>20, CountsTyped DEF AgentDies
  <2>2. cmd' \in [Ids -> {"none", "running", "stray", "ok", "error"}]
    BY <1>20 DEF AgentDies, TypeOK
  <2>3. restore' \in [pc : {"idle", "stat", "wipe", "extract"}, b : 0..N]
    BY <1>20, IdleTyped DEF AgentDies, TypeOK
  <2>4. lost' \in BOOLEAN
    BY <1>20 DEF AgentDies, TypeOK
  <2>5. row' \in [Ids -> Row] /\ upload' \in [pc : {"idle", "next", "stream"}, work : SUBSET Ids]
    <3>1. (\E b \in Ids : Record(b, "failed")) \/ UNCHANGED <<row, upload>>
      BY <1>20, <1>14, TopIn DEF AgentDies
    <3> QED BY <3>1, <1>14, RecordDoes DEF TypeOK
  <2> QED BY <1>20, <2>1, <2>2, <2>3, <2>4, <2>5 DEF AgentDies, TypeOK
<1>21. CASE UNCHANGED vars
  BY <1>21 DEF vars, TypeOK, onNode, offSite, counts
<1> QED BY <1>1, <1>2, <1>3, <1>4, <1>5, <1>6, <1>7, <1>8, <1>9, <1>10, <1>11, <1>12, <1>13, <1>15, <1>16,
           <1>17, <1>18, <1>19, <1>20, <1>21 DEF Next, RequestStep, UploadStep

\* Rows, files, commands and handlers keep their types, and the ledger the two statuses it knows.
THEOREM BackupTypes == Spec => []TypeOK
BY TypeInit, TypeStep, PTL DEF Spec

-----------------------------------------------------------------------------
(* The agent's side: what a command that ended has left.                    *)

Written == \A b \in Ids :
  /\ row[b].status = "none" => cmd[b] = "none"
  /\ row[b].status = "SUCCESS" => cmd[b] = "ok"
  /\ cmd[b] = "running" => file[b] \in {"part", "torn"} \/ by[b] # "none"
  /\ cmd[b] = "ok" => file[b] \in {"whole", "hollow"} \/ (file[b] = "none" /\ by[b] # "none")

\* A handler waits for a row of its own.
Waits == \A q \in Requests : req[q].pc = "wait" =>
  /\ req[q].b \in Ids /\ row[req[q].b].status = "RUNNING"
  /\ \A p \in Requests \ {q} : req[p].pc = "wait" => req[p].b # req[q].b

\* What is being removed was marked for it.
Doomed == \A q \in Requests : req[q].pc \in {"file", "row"} =>
  \A b \in req[q].work : by[b] # "none"

Restoring == restore.pc # "idle" =>
  /\ restore.b \in Ids /\ cmd[restore.b] = "ok"
  /\ restore.pc \in {"wipe", "extract"} => file[restore.b] \in {"whole", "hollow"} \/ lost

Safe == Written /\ Waits /\ Doomed /\ Restoring /\ VolumeKept

\* The parts a step can leave alone.
SameStatus == \A b \in Ids : row'[b].status = row[b].status
Marked == \A b \in Ids : by[b] # "none" => by'[b] # "none"

LEMMA WrittenFrame == ASSUME Written, SameStatus, Marked, UNCHANGED <<cmd, file>> PROVE Written'
BY DEF Written, SameStatus, Marked

LEMMA WaitsFrame == ASSUME TypeOK, Waits, SameStatus,
                           \A q \in Requests : req'[q].pc = "wait" => req'[q] = req[q]
                    PROVE  Waits'
BY DEF Waits, SameStatus

LEMMA DoomedFrame == ASSUME Doomed, TypeOK, Marked,
                            \A q \in Requests : req'[q].pc \in {"file", "row"} =>
                              req[q].pc \in {"file", "row"} /\ req'[q].work \subseteq req[q].work
                     PROVE  Doomed'
<1> SUFFICES ASSUME NEW q \in Requests, req'[q].pc \in {"file", "row"}, NEW b \in req'[q].work
             PROVE  by'[b] # "none"
  BY DEF Doomed
<1>1. b \in req[q].work /\ req[q].pc \in {"file", "row"} /\ b \in Ids
  BY DEF TypeOK, Request
<1> QED BY <1>1 DEF Doomed, Marked

LEMMA NodeFrame == ASSUME Restoring, VolumeKept, UNCHANGED onNode PROVE Restoring' /\ VolumeKept'
BY DEF Restoring, VolumeKept, onNode

LEMMA CreateSafe == ASSUME TypeOK, Safe, NEW q \in Requests, Create(q) PROVE Safe'
<1>1. PICK b \in Ids : /\ row[b].status = "none"
                       /\ cmd' = [cmd EXCEPT ![b] = "running"]
                       /\ file'[b] \in {"part", "torn"}
                       /\ row'[b].status = "RUNNING" /\ req'[q].pc = "wait" /\ req'[q].b = b
                       /\ \A c \in Ids \ {b} : row'[c] = row[c] /\ file'[c] = file[c]
                       /\ \A p \in Requests \ {q} : req'[p] = req[p]
  BY CreateTyped
<1>2. UNCHANGED <<restore, volume, lost, by>>
  BY DEF Create
<1>3. cmd[b] = "none" /\ cmd'[b] = "running" /\ \A c \in Ids \ {b} : cmd'[c] = cmd[c]
  BY <1>1 DEF Safe, Written, TypeOK
<1>4. Written'
  BY <1>1, <1>2, <1>3 DEF Safe, Written
<1>5. Waits'
  <2>1. \A p \in Requests \ {q} : req[p].pc = "wait" => req[p].b \in Ids \ {b}
    BY <1>1 DEF Safe, Waits
  <2> QED BY <2>1, <1>1 DEF Safe, Waits
<1>6. Doomed'
  BY <1>1, <1>2 DEF Safe, Doomed
<1>7. restore.pc # "idle" => restore.b # b
  BY <1>3 DEF Safe, Restoring
<1>8. Restoring' /\ VolumeKept'
  BY <1>1, <1>2, <1>3, <1>7 DEF Safe, Restoring, VolumeKept
<1> QED BY <1>4, <1>5, <1>6, <1>8 DEF Safe

LEMMA EndsSafe == ASSUME TypeOK, Safe, NEW q \in Requests, NEW s \in {"SUCCESS", "FAILED"}, Ends(q, s),
                         req[q].pc = "wait", s = "SUCCESS" => cmd[req[q].b] = "ok"
                  PROVE  Safe'
<1>1. req[q].b \in Ids /\ row[req[q].b].status = "RUNNING"
  BY DEF Safe, Waits
<1>2. /\ \A b \in Ids : row'[b].status = IF b = req[q].b /\ row[b].there THEN s ELSE row[b].status
      /\ \A p \in Requests \ {q} : req'[p] = req[p]
      /\ req'[q].pc \in {"idle", "retain"}
  BY <1>1, EndsDoes
<1>3. UNCHANGED onNode /\ by' = by
  BY DEF Ends
<1>4. Written'
  BY <1>1, <1>2, <1>3 DEF Safe, Written, onNode
<1>5. Waits'
  BY <1>2 DEF Safe, Waits
<1>6. Doomed'
  BY <1>2, <1>3 DEF Safe, Doomed
<1> QED BY <1>3, <1>4, <1>5, <1>6, NodeFrame DEF Safe

LEMMA TarSafe == ASSUME TypeOK, Safe, NEW b \in Ids, TarEnds(b) \/ TarFails(b) PROVE Safe'
<1>1. UNCHANGED <<row, req, restore, volume, lost, by>>
  BY DEF TarEnds, TarFails
<1>2. /\ cmd[b] \in {"running", "stray"} /\ \A c \in Ids \ {b} : cmd'[c] = cmd[c] /\ file'[c] = file[c]
      /\ cmd'[b] # "running"
  BY DEF TarEnds, TarFails, TypeOK
<1>3. cmd'[b] = "ok" => cmd[b] = "running"
  BY DEF TarEnds, TarFails, TypeOK
<1>4. cmd'[b] = "ok" => file'[b] = CASE file[b] = "part" -> "whole" [] file[b] = "torn" -> "hollow" [] OTHER -> file[b]
  BY DEF TarEnds, TarFails, TypeOK
<1>5. cmd'[b] = "ok" => file'[b] \in {"whole", "hollow"} \/ (file'[b] = "none" /\ by[b] # "none")
  <2>1. SUFFICES ASSUME cmd'[b] = "ok" PROVE file'[b] \in {"whole", "hollow"} \/ (file'[b] = "none" /\ by[b] # "none")
    OBVIOUS
  <2>2. file[b] \in {"part", "torn"} \/ by[b] # "none"
    BY <2>1, <1>3 DEF Safe, Written
  <2>3. file[b] \in Contents
    BY DEF TypeOK
  <2> QED BY <2>1, <2>2, <2>3, <1>4 DEF Contents
<1>6. row[b].status \notin {"none", "SUCCESS"}
  BY <1>2 DEF Safe, Written
<1>7. Written'
  BY <1>1, <1>2, <1>5, <1>6 DEF Safe, Written
<1>8. restore.pc # "idle" => restore.b # b
  BY <1>2 DEF Safe, Restoring
<1>9. Restoring' /\ VolumeKept'
  BY <1>1, <1>2, <1>8 DEF Safe, Restoring, VolumeKept
<1> QED BY <1>1, <1>7, <1>9 DEF Safe, Waits, Doomed

\* Steps of a removal that leave the files alone.
LEMMA QueueSafe == ASSUME TypeOK, Safe, NEW q \in Requests, NEW w \in SUBSET Ids, Removing(q, w),
                          UNCHANGED onNode, SameStatus, Marked, \A b \in w : by'[b] # "none"
                   PROVE  Safe'
<1>1. /\ \A p \in Requests \ {q} : req'[p] = req[p]
      /\ req'[q].pc \in {"idle", "file"} /\ req'[q].work = w
  BY RemovingTyped
<1>2. Written'
  BY WrittenFrame DEF Safe, onNode
<1>3. Waits'
  BY <1>1, WaitsFrame DEF Safe
<1>4. Doomed'
  <2>1. ASSUME NEW p \in Requests, req'[p].pc \in {"file", "row"}, NEW b \in req'[p].work
        PROVE  by'[b] # "none"
    <3>1. CASE p = q BY <3>1, <1>1
    <3>2. CASE p # q BY <3>2, <1>1, <2>1 DEF Safe, Doomed, Marked, TypeOK, Request
    <3> QED BY <3>1, <3>2
  <2> QED BY <2>1 DEF Doomed
<1> QED BY <1>2, <1>3, <1>4, NodeFrame DEF Safe

LEMMA DeleteFileSafe == ASSUME TypeOK, Safe, NEW q \in Requests, DeleteFile(q) PROVE Safe'
<1>1. PICK b \in Ids : /\ b \in req[q].work /\ file' = [file EXCEPT ![b] = "none"]
                       /\ lost' = (lost \/ (restore.b = b /\ restore.pc \in {"wipe", "extract"}))
  BY TopIn DEF DeleteFile, TypeOK, Request
<1>2. UNCHANGED <<row, cmd, restore, volume, by>> /\ req[q].pc = "file" /\ req' = [req EXCEPT ![q].pc = "row"]
  BY DEF DeleteFile
<1>3. by[b] # "none" /\ file'[b] = "none" /\ \A c \in Ids \ {b} : file'[c] = file[c]
  BY <1>1, <1>2 DEF Safe, Doomed, TypeOK
<1>4. Written'
  BY <1>2, <1>3 DEF Safe, Written
<1>5. /\ req'[q].pc = "row" /\ req'[q].work = req[q].work
      /\ \A p \in Requests \ {q} : req'[p] = req[p]
  BY <1>2 DEF TypeOK, Request
<1>6. Waits'
  BY <1>2, <1>5, WaitsFrame DEF Safe, SameStatus
<1>7. Doomed'
  BY <1>2, <1>5 DEF Safe, Doomed
<1>8. Restoring'
  BY <1>1, <1>2, <1>3 DEF Safe, Restoring
<1>9. VolumeKept'
  BY <1>1, <1>2 DEF Safe, VolumeKept
<1> QED BY <1>4, <1>6, <1>7, <1>8, <1>9 DEF Safe

LEMMA RestoreSafe == ASSUME TypeOK, Safe, AskRestore \/ Stat \/ Wipe \/ Extract PROVE Safe'
<1>1. UNCHANGED <<row, cmd, req, by>>
  BY DEF AskRestore, Stat, Wipe, Extract
<1>2. Waits' /\ Doomed'
  BY <1>1 DEF Safe, Waits, Doomed
<1>3. CASE AskRestore
  <2>1. UNCHANGED <<file, volume, lost>> /\ restore.pc = "idle"
    BY <1>3 DEF AskRestore
  <2>2. PICK b \in Good : restore' = [pc |-> "stat", b |-> b]
    BY <1>3 DEF AskRestore
  <2>3. b \in Ids /\ cmd[b] = "ok"
    BY <2>2 DEF Good, Safe, Written
  <2>4. Restoring'
    BY <2>2, <2>3, <1>1 DEF Restoring
  <2>5. Written' /\ VolumeKept'
    BY <1>1, <2>1 DEF Safe, Written, VolumeKept
  <2> QED BY <1>2, <2>4, <2>5 DEF Safe
<1>4. CASE Stat
  <2>1. UNCHANGED <<file, volume, lost>> /\ restore.pc = "stat"
    BY <1>4 DEF Stat
  <2>2. Written' /\ VolumeKept'
    BY <1>1, <2>1, <1>4 DEF Safe, Written, VolumeKept
  <2>3. file[restore.b] # "none" => file[restore.b] \in {"whole", "hollow"}
    BY <2>1 DEF Safe, Restoring, Written
  <2>4. Restoring'
    BY <1>1, <1>4, <2>1, <2>3, IdleTyped DEF Safe, Restoring, Stat, NoRestore, TypeOK
  <2> QED BY <1>2, <2>2, <2>4 DEF Safe
<1>5. CASE Wipe
  <2>1. /\ lost' = lost /\ restore.pc = "wipe" /\ restore'.pc = "extract" /\ restore'.b = restore.b
        /\ \A b \in Ids : file'[b] = IF file[b] = "part" /\ cmd[b] \in {"running", "stray"} THEN "torn" ELSE file[b]
    BY <1>5 DEF Wipe, TypeOK
  <2>2. Written'
    BY <1>1, <2>1 DEF Safe, Written
  <2>3. Restoring'
    BY <1>1, <2>1 DEF Safe, Restoring
  <2>4. VolumeKept'
    BY <2>1 DEF VolumeKept
  <2> QED BY <1>2, <2>2, <2>3, <2>4 DEF Safe
<1>6. CASE Extract
  <2>1. restore.pc = "extract" /\ restore' = NoRestore /\ file' = file
    BY <1>6 DEF Extract
  <2>2. Written' /\ Restoring'
    BY <1>1, <2>1 DEF Safe, Written, Restoring, NoRestore
  <2>3. file[restore.b] \in {"whole", "hollow"} \/ lost
    BY <2>1 DEF Safe, Restoring
  <2>4. VolumeKept'
    BY <2>3, <1>6 DEF Extract, VolumeKept
  <2> QED BY <1>2, <2>2, <2>4 DEF Safe
<1> QED BY <1>3, <1>4, <1>5, <1>6

\* The off-site worker touches only the status of an upload.
LEMMA UploadKeeps == ASSUME TypeOK, Select \/ Open \/ Stored \/ StreamBreaks
                     PROVE  SameRows /\ UNCHANGED <<onNode, req, by>>
<1>1. upload.work \subseteq Ids
  BY DEF TypeOK
<1>2. CASE Select
  BY <1>2 DEF Select, SameRows
<1>3. CASE Open
  <2>1. (\E b \in Ids : Record(b, "failed")) \/ UNCHANGED row
    BY <1>1, <1>3, TopIn DEF Open
  <2> QED BY <2>1, <1>1, <1>3, RecordDoes DEF Open, SameRows
<1>4. CASE Stored \/ StreamBreaks
  <2>1. \E b \in Ids : Record(b, "uploaded") \/ Record(b, "failed")
    BY <1>1, <1>4, TopIn DEF Stored, StreamBreaks
  <2> QED BY <2>1, <1>1, <1>4, RecordDoes DEF Stored, StreamBreaks
<1> QED BY <1>2, <1>3, <1>4

LEMMA UploadSafe == ASSUME TypeOK, Safe, Select \/ Open \/ Stored \/ StreamBreaks PROVE Safe'
<1>1. SameStatus /\ Marked /\ UNCHANGED <<onNode, req, by>>
  BY UploadKeeps DEF SameRows, SameStatus, Marked
<1>2. Written'
  BY <1>1, WrittenFrame DEF Safe, onNode
<1>3. Waits' /\ Doomed'
  BY <1>1, WaitsFrame DEF Safe, Doomed
<1> QED BY <1>1, <1>2, <1>3, NodeFrame DEF Safe

LEMMA AgentKeeps == ASSUME TypeOK, AgentDies
                    PROVE  /\ SameRows
                           /\ UNCHANGED <<file, volume, req, by>>
                           /\ \A b \in Ids : IF cmd[b] \in {"running", "stray"} THEN cmd'[b] \in {"stray", "error"}
                                                                                ELSE cmd'[b] = cmd[b]
                           /\ \/ restore' = NoRestore /\ lost' = (lost \/ restore.pc = "extract")
                              \/ UNCHANGED <<restore, lost>>
<1>1. (\E b \in Ids : Record(b, "failed")) \/ UNCHANGED row
  BY TopIn DEF AgentDies, TypeOK
<1>2. SameRows
  BY <1>1, RecordDoes DEF SameRows, TypeOK
<1>3. \A b \in Ids : IF cmd[b] \in {"running", "stray"} THEN cmd'[b] \in {"stray", "error"} ELSE cmd'[b] = cmd[b]
  <2>1. PICK on \in SUBSET Ids :
          cmd' = [b \in Ids |-> IF cmd[b] \notin {"running", "stray"} THEN cmd[b] ELSE IF b \in on THEN "stray" ELSE "error"]
    BY DEF AgentDies
  <2> QED BY <2>1
<1>4. UNCHANGED <<file, volume, req, by>>
  BY DEF AgentDies
<1>5. \/ restore' = NoRestore /\ lost' = (lost \/ restore.pc = "extract")
      \/ UNCHANGED <<restore, lost>>
  BY DEF AgentDies
<1> QED BY <1>2, <1>3, <1>4, <1>5

LEMMA DeathSafe == ASSUME TypeOK, Safe, PanelDies \/ AgentDies PROVE Safe'
<1>1. CASE PanelDies
  <2>1. SameStatus /\ Marked /\ UNCHANGED <<onNode, by>> /\ \A q \in Requests : req'[q] = Idle
    BY <1>1 DEF PanelDies, SameStatus, Marked
  <2>2. Written'
    BY <2>1, WrittenFrame DEF Safe, onNode
  <2>3. Waits' /\ Doomed'
    BY <2>1, IdleTyped DEF Waits, Doomed
  <2> QED BY <2>1, <2>2, <2>3, NodeFrame DEF Safe
<1>2. CASE AgentDies
  <2>1. /\ \A b \in Ids : row'[b].status = row[b].status
        /\ UNCHANGED <<file, volume, req, by>>
        /\ \A b \in Ids : IF cmd[b] \in {"running", "stray"} THEN cmd'[b] \in {"stray", "error"} ELSE cmd'[b] = cmd[b]
        /\ \/ restore' = NoRestore /\ lost' = (lost \/ restore.pc = "extract")
           \/ UNCHANGED <<restore, lost>>
    BY <1>2, AgentKeeps DEF SameRows
  <2>2. Written'
    BY <2>1 DEF Safe, Written
  <2>3. Waits' /\ Doomed'
    BY <2>1 DEF Safe, Waits, Doomed
  <2>4. Restoring'
    BY <2>1 DEF Safe, Restoring, NoRestore
  <2>5. VolumeKept'
    <3>1. CASE restore' = NoRestore /\ lost' = (lost \/ restore.pc = "extract")
      BY <2>1, <3>1 DEF Safe, VolumeKept
    <3>2. CASE UNCHANGED <<restore, lost>>
      BY <2>1, <3>2 DEF Safe, VolumeKept
    <3> QED BY <2>1, <3>1, <3>2
  <2> QED BY <2>2, <2>3, <2>4, <2>5 DEF Safe
<1> QED BY <1>1, <1>2

LEMMA SafeStep == TypeOK /\ Safe /\ [Next]_vars => Safe'
<1> SUFFICES ASSUME TypeOK, Safe, [Next]_vars PROVE Safe'
  OBVIOUS
<1>1. ASSUME NEW q \in Requests, Hears(q) \/ NoReply(q) PROVE Safe'
  <2>1. req[q].pc = "wait"
    BY <1>1 DEF Hears, NoReply
  <2>2. Ends(q, "FAILED") \/ (Ends(q, "SUCCESS") /\ cmd[req[q].b] = "ok")
    BY <1>1 DEF Hears, NoReply
  <2> QED BY <2>1, <2>2, EndsSafe
<1>2. ASSUME Retain PROVE Safe'
  <2>1. Expired \in SUBSET Ids
    BY DEF Expired, Good
  <2>2. Marked /\ \A b \in Expired : by'[b] # "none"
    BY <1>2, <2>1, MarksTyped DEF Retain, Marked
  <2>3. SameStatus /\ UNCHANGED onNode /\ Removing(Schedule, Expired)
    BY <1>2 DEF Retain, SameStatus
  <2> QED BY <2>1, <2>2, <2>3, QueueSafe DEF Requests
<1>3. ASSUME NEW u \in Users, AskRemove(u) PROVE Safe'
  <2>1. PICK b \in Ids : Marks({b}, "user") /\ Removing(u, {b})
    BY <1>3 DEF AskRemove
  <2>2. Marked /\ by'[b] # "none"
    BY <2>1, MarksTyped DEF Marked
  <2>3. SameStatus /\ UNCHANGED onNode
    BY <1>3 DEF AskRemove, SameStatus
  <2> QED BY <2>1, <2>2, <2>3, QueueSafe DEF Requests
<1>4. ASSUME NEW q \in Requests, SkipGone(q) \/ DeleteRow(q) PROVE Safe'
  <2>1. req[q].work \in SUBSET Ids /\ req[q].pc \in {"file", "row"} /\ by' = by
    BY <1>4 DEF TypeOK, Request, SkipGone, DeleteRow
  <2>2. PICK b \in req[q].work : Removing(q, req[q].work \ {b})
    BY <1>4, TopIn DEF SkipGone, DeleteRow
  <2>3. \A c \in req[q].work \ {b} : by'[c] # "none"
    BY <2>1 DEF Safe, Doomed
  <2>4. SameStatus
    <3>1. CASE SkipGone(q)
      BY <3>1 DEF SkipGone, SameStatus
    <3>2. CASE DeleteRow(q)
      <4>1. PICK c \in Ids : row' = [row EXCEPT ![c].there = FALSE]
        BY <3>2, <2>1, TopIn DEF DeleteRow
      <4> QED BY <4>1 DEF SameStatus, TypeOK, Row
    <3> QED BY <1>4, <3>1, <3>2
  <2>5. UNCHANGED onNode
    BY <1>4 DEF SkipGone, DeleteRow
  <2> QED BY <2>1, <2>2, <2>3, <2>4, <2>5, QueueSafe DEF Marked
<1>5. ASSUME NEW q \in Requests, LeaveFile(q) PROVE Safe'
  <2>1. /\ req[q].pc = "file" /\ req'[q].pc = "row" /\ req'[q].work = req[q].work
        /\ \A p \in Requests \ {q} : req'[p] = req[p]
    BY <1>5 DEF LeaveFile, TypeOK, Request
  <2>2. UNCHANGED <<row, onNode, by>>
    BY <1>5 DEF LeaveFile
  <2>3. Written'
    BY <2>2, WrittenFrame DEF Safe, onNode, SameStatus, Marked
  <2>4. Waits'
    BY <2>1, <2>2, WaitsFrame DEF Safe, SameStatus
  <2>5. Doomed'
    BY <2>1, <2>2 DEF Safe, Doomed
  <2> QED BY <2>2, <2>3, <2>4, <2>5, NodeFrame DEF Safe
<1>6. CASE UNCHANGED vars
  BY <1>6 DEF vars, onNode, Safe, Written, Waits, Doomed, Restoring, VolumeKept
<1> QED BY <1>1, <1>2, <1>3, <1>4, <1>5, <1>6, CreateSafe, TarSafe, DeleteFileSafe, RestoreSafe, UploadSafe,
           DeathSafe DEF Next, RequestStep, UploadStep

LEMMA SafeInit == Init => Safe
BY IdleTyped DEF Init, Safe, Written, Waits, Doomed, Restoring, VolumeKept, NoRestore, Idle

\* A row that says SUCCESS has its file, for any requests, crashes and lost answers.
THEOREM BackupWhole == Spec => []SuccessIsWhole
<1>1. Safe => SuccessIsWhole
  BY DEF Safe, Written, SuccessIsWhole, Good
<1> QED BY <1>1, TypeInit, TypeStep, SafeInit, SafeStep, PTL DEF Spec

\* The volume is empty only while a restore extracts, or after one that lost its file.
THEOREM VolumeIsKept == Spec => []VolumeKept
<1>1. Safe => VolumeKept
  BY DEF Safe
<1> QED BY <1>1, TypeInit, TypeStep, SafeInit, SafeStep, PTL DEF Spec

-----------------------------------------------------------------------------
(* Retention.  The newer ones that a removed backup rests on may be removed *)
(* in their turn, but only for newer ones still.                            *)

Rests(b) == {c \in Ids : c > b /\ row[c].status = "SUCCESS" /\ (row[c].there \/ by[c] = "user")}

LEMMA CardinalityGrows == ASSUME NEW S \in SUBSET Ids, NEW T \in SUBSET Ids, S \subseteq T, Cardinality(S) >= KeepLast
                          PROVE  Cardinality(T) >= KeepLast
<1>1. IsFiniteSet(Ids)
  BY BackupBoundsAssumption, FS_Interval DEF Ids
<1>2. IsFiniteSet(S) /\ IsFiniteSet(T)
  BY <1>1, FS_Subset
<1>3. Cardinality(S) <= Cardinality(T)
  BY <1>2, FS_Subset
<1>4. Cardinality(S) \in Nat /\ Cardinality(T) \in Nat
  BY <1>2, FS_CardinalityType
<1> QED BY <1>3, <1>4, BackupBoundsAssumption

\* Where nothing that counts is lost, and nobody is marked by retention.
LEMMA RestsFrame == ASSUME RetentionKeeps, \A b \in Ids : Rests(b) \subseteq Rests(b)',
                           \A b \in Ids : by'[b] = "retention" => by[b] = "retention"
                    PROVE  RetentionKeeps'
<1> SUFFICES ASSUME NEW b \in Ids, by'[b] = "retention" PROVE Cardinality(Rests(b)') >= KeepLast
  BY DEF RetentionKeeps, Rests
<1>1. Cardinality(Rests(b)) >= KeepLast
  BY DEF RetentionKeeps, Rests
<1>2. Rests(b) \in SUBSET Ids /\ Rests(b)' \in SUBSET Ids
  BY DEF Rests
<1> HIDE DEF Rests
<1> QED BY <1>1, <1>2, CardinalityGrows

LEMMA RetainKeeps == ASSUME TypeOK, RetentionKeeps, Retain PROVE RetentionKeeps'
<1>1. Expired \subseteq Ids /\ row' = row
  BY DEF Expired, Good, Retain
<1>2. \A b \in Ids : /\ by[b] # "none" => by'[b] = by[b]
                     /\ by'[b] # by[b] => b \in Expired
  BY MarksTyped DEF Retain
<1>3. \A b \in Ids : Rests(b) \subseteq Rests(b)'
  BY <1>1, <1>2 DEF Rests
<1> SUFFICES ASSUME NEW b \in Ids, by'[b] = "retention" PROVE Cardinality(Rests(b)') >= KeepLast
  BY DEF RetentionKeeps, Rests
<1>4. Rests(b) \in SUBSET Ids /\ Rests(b)' \in SUBSET Ids
  BY DEF Rests
<1>5. CASE by[b] = "retention"
  <2>1. Cardinality(Rests(b)) >= KeepLast
    BY <1>5 DEF RetentionKeeps, Rests
  <2> HIDE DEF Rests
  <2> QED BY <2>1, <1>3, <1>4, CardinalityGrows
<1>6. CASE by[b] # "retention"
  <2>1. Cardinality(Newer(b, Good)) >= KeepLast
    BY <1>6, <1>2 DEF Expired
  <2>2. Newer(b, Good) \subseteq Rests(b)' /\ Newer(b, Good) \in SUBSET Ids
    BY <1>1 DEF Newer, Good, Rests
  <2> HIDE DEF Rests
  <2> QED BY <2>1, <2>2, <1>4, CardinalityGrows
<1> QED BY <1>5, <1>6

LEMMA DeleteRowKeeps == ASSUME TypeOK, Safe, RetentionKeeps, NEW q \in Requests, DeleteRow(q)
                        PROVE  RetentionKeeps'
<1>1. PICK d \in Ids : d \in req[q].work /\ row' = [row EXCEPT ![d].there = FALSE]
  BY TopIn DEF DeleteRow, TypeOK, Request
<1>2. by' = by /\ req[q].pc = "row"
  BY DEF DeleteRow
<1>3. by[d] \in {"user", "retention"}
  BY <1>1, <1>2 DEF Safe, Doomed, TypeOK
<1>4. /\ \A c \in Ids : row'[c].status = row[c].status
      /\ \A c \in Ids \ {d} : row'[c].there = row[c].there
  BY <1>1 DEF TypeOK, Row
<1>5. CASE by[d] = "user"
  BY <1>2, <1>4, <1>5, RestsFrame DEF Rests
<1>6. CASE by[d] = "retention"
  <2>1. Cardinality(Rests(d)) >= KeepLast
    BY <1>6 DEF RetentionKeeps, Rests
  <2> SUFFICES ASSUME NEW b \in Ids, by'[b] = "retention" PROVE Cardinality(Rests(b)') >= KeepLast
    BY DEF RetentionKeeps, Rests
  <2>2. /\ Rests(b) \in SUBSET Ids /\ Rests(b)' \in SUBSET Ids
        /\ Rests(d) \in SUBSET Ids
    BY DEF Rests
  <2>3. CASE b < d
    <3>1. Rests(d) \subseteq Rests(b)'
      BY <1>2, <1>4, <2>3 DEF Rests, Ids
    <3> HIDE DEF Rests
    <3> QED BY <2>1, <2>2, <3>1, CardinalityGrows
  <2>4. CASE ~(b < d)
    <3>1. Rests(b) \subseteq Rests(b)'
      BY <1>2, <1>4, <2>4 DEF Rests, Ids
    <3>2. Cardinality(Rests(b)) >= KeepLast
      BY <1>2 DEF RetentionKeeps, Rests
    <3> HIDE DEF Rests
    <3> QED BY <2>2, <3>1, <3>2, CardinalityGrows
  <2> QED BY <2>3, <2>4
<1> QED BY <1>3, <1>5, <1>6

LEMMA RetentionStep == TypeOK /\ Safe /\ RetentionKeeps /\ [Next]_vars => RetentionKeeps'
<1> SUFFICES ASSUME TypeOK, Safe, RetentionKeeps, [Next]_vars PROVE RetentionKeeps'
  OBVIOUS
<1>1. ASSUME SameRows, by' = by PROVE RetentionKeeps'
  BY <1>1, RestsFrame DEF SameRows, Rests
<1>2. ASSUME NEW q \in Requests, Create(q) PROVE RetentionKeeps'
  <2>1. PICK b \in Ids : row[b].status = "none" /\ \A c \in Ids \ {b} : row'[c] = row[c]
    BY <1>2, CreateTyped
  <2>2. by' = by
    BY <1>2 DEF Create
  <2> QED BY <2>1, <2>2, RestsFrame DEF Rests
<1>3. ASSUME NEW q \in Requests, Hears(q) \/ NoReply(q) PROVE RetentionKeeps'
  <2>1. req[q].b \in Ids /\ row[req[q].b].status = "RUNNING"
    BY <1>3 DEF Safe, Waits, Hears, NoReply
  <2>2. PICK s \in {"SUCCESS", "FAILED"} : Ends(q, s)
    BY <1>3 DEF Hears, NoReply
  <2>3. \A b \in Ids : /\ row'[b].there = row[b].there
                       /\ b # req[q].b => row'[b].status = row[b].status
    BY <2>1, <2>2, EndsDoes
  <2>4. by' = by
    BY <2>2 DEF Ends
  <2> QED BY <2>1, <2>3, <2>4, RestsFrame DEF Rests
<1>4. ASSUME NEW u \in Users, AskRemove(u) PROVE RetentionKeeps'
  <2>1. PICK b \in Ids : Marks({b}, "user")
    BY <1>4 DEF AskRemove
  <2>2. row' = row
    BY <1>4 DEF AskRemove
  <2>3. \A c \in Ids : by'[c] # by[c] => by[c] = "none" /\ by'[c] = "user"
    BY <2>1, MarksTyped DEF TypeOK
  <2> QED BY <2>2, <2>3, RestsFrame DEF Rests
<1>5. ASSUME NEW b \in Ids, TarEnds(b) \/ TarFails(b) PROVE RetentionKeeps'
  BY <1>5, <1>1 DEF TarEnds, TarFails, SameRows
<1>6. ASSUME NEW q \in Requests, SkipGone(q) \/ DeleteFile(q) \/ LeaveFile(q) PROVE RetentionKeeps'
  BY <1>6, <1>1 DEF SkipGone, DeleteFile, LeaveFile, SameRows
<1>7. ASSUME AskRestore \/ Stat \/ Wipe \/ Extract \/ PanelDies PROVE RetentionKeeps'
  BY <1>7, <1>1 DEF AskRestore, Stat, Wipe, Extract, PanelDies, SameRows
<1>8. ASSUME Select \/ Open \/ Stored \/ StreamBreaks PROVE RetentionKeeps'
  BY <1>8, <1>1, UploadKeeps
<1>9. ASSUME AgentDies PROVE RetentionKeeps'
  BY <1>9, <1>1, AgentKeeps
<1>10. CASE UNCHANGED vars
  BY <1>10, <1>1 DEF vars, SameRows
<1> QED BY <1>2, <1>3, <1>4, <1>5, <1>6, <1>7, <1>8, <1>9, <1>10, RetainKeeps, DeleteRowKeeps
        DEF Next, RequestStep, UploadStep

\* Retention takes a backup only where keepLast newer good ones are left or were removed by users,
\* for any keepLast, however its removals interleave with users' and break off.
THEOREM RetentionSpares == Spec => []RetentionKeeps
<1>1. Init => RetentionKeeps
  BY DEF Init, RetentionKeeps
<1> QED BY <1>1, TypeInit, TypeStep, SafeInit, SafeStep, RetentionStep, PTL DEF Spec
=============================================================================

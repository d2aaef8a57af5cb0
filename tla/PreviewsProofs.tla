---------------------------- MODULE PreviewsProofs ---------------------------
(* Proofs about Previews, for every number of requests, children, events    *)
(* and faults.                                                              *)
EXTENDS Previews, TLAPS

-----------------------------------------------------------------------------
(* Types.                                                                   *)

Pcs == {"idle", "read", "redeploy", "note", "create", "flag", "domain", "row",
        "deploy", "link", "remove", "unlink"}

\* A request past its creation, and one that redeploys, has a child to work on.
Aimed == \A h \in Hooks : hook[h].pc \in {"redeploy", "flag", "domain", "row", "deploy", "link"} =>
           hook[h].target \in Children

LEMMA HookTyped ==
  /\ 0 \in Commits /\ Idle \in Hook
  /\ \A d \in Delivery : [Idle EXCEPT !.pc = "read", !.event = d] \in Hook
  /\ \A r \in Hook :
       /\ \A pc \in Pcs : [r EXCEPT !.pc = pc] \in Hook
       /\ \A pc \in Pcs, c \in Children \cup {None} : [r EXCEPT !.pc = pc, !.target = c] \in Hook
       /\ \A pc \in Pcs, e, c \in Children \cup {None} :
            [r EXCEPT !.pc = pc, !.existing = e, !.target = c] \in Hook
<1>1. 0 \in Commits
  BY PreviewBoundsAssumption DEF Commits
<1>2. Idle \in Hook
  BY <1>1 DEF Idle, NoEvent, Hook, Delivery
<1>3. \A d \in Delivery : [Idle EXCEPT !.pc = "read", !.event = d] \in Hook
  BY <1>2 DEF Idle, Hook
<1>4. \A r \in Hook : \A pc \in Pcs : [r EXCEPT !.pc = pc] \in Hook
  BY DEF Hook, Pcs
<1>5. \A r \in Hook : \A pc \in Pcs, c \in Children \cup {None} :
        [r EXCEPT !.pc = pc, !.target = c] \in Hook
  BY DEF Hook, Pcs
<1>6. \A r \in Hook : \A pc \in Pcs, e, c \in Children \cup {None} :
        [r EXCEPT !.pc = pc, !.existing = e, !.target = c] \in Hook
  BY DEF Hook, Pcs
<1> QED BY <1>1, <1>2, <1>3, <1>4, <1>5, <1>6

LEMMA ChildTyped ==
  /\ NoChild \in Child
  /\ [NoChild EXCEPT !.used = TRUE] \in Child
  /\ [NoChild EXCEPT !.used = TRUE, !.service = TRUE] \in Child
  /\ \A r \in Child :
       /\ [r EXCEPT !.hidden = TRUE] \in Child
       /\ [r EXCEPT !.host = TRUE] \in Child
       /\ [r EXCEPT !.preview = TRUE] \in Child
       /\ [r EXCEPT !.due = TRUE] \in Child
       /\ \A d \in {"none", "queued"} : [r EXCEPT !.deploy = d] \in Child
       /\ \A n \in Commits : [r EXCEPT !.deploy = "building", !.cloned = n] \in Child
<1>1. NoChild \in Child
  BY HookTyped DEF NoChild, Child
<1>2. [NoChild EXCEPT !.used = TRUE] \in Child /\ [NoChild EXCEPT !.used = TRUE, !.service = TRUE] \in Child
  BY <1>1 DEF NoChild, Child
<1>3. \A r \in Child : /\ [r EXCEPT !.hidden = TRUE] \in Child
                       /\ [r EXCEPT !.host = TRUE] \in Child
                       /\ [r EXCEPT !.preview = TRUE] \in Child
                       /\ [r EXCEPT !.due = TRUE] \in Child
  BY DEF Child
<1>4. \A r \in Child : \A d \in {"none", "queued"} : [r EXCEPT !.deploy = d] \in Child
  BY DEF Child
<1>5. \A r \in Child : \A n \in Commits : [r EXCEPT !.deploy = "building", !.cloned = n] \in Child
  BY DEF Child
<1> QED BY <1>1, <1>2, <1>3, <1>4, <1>5

LEMMA GotoTyped == ASSUME TypeOK, NEW h \in Hooks, NEW pc \in Pcs, Goto(h, pc) \/ Ends(h)
                   PROVE  hook' \in [Hooks -> Hook]
<1>1. hook \in [Hooks -> Hook] /\ hook[h] \in Hook
  BY DEF TypeOK
<1>2. [hook[h] EXCEPT !.pc = pc] \in Hook
  BY <1>1, HookTyped
<1>3. CASE Goto(h, pc)
  BY <1>1, <1>2, <1>3 DEF Goto
<1>4. CASE Ends(h)
  BY <1>1, <1>4, HookTyped DEF Ends
<1> QED BY <1>3, <1>4

LEMMA ChildSet == ASSUME TypeOK, NEW c \in Children \cup {None}, NEW r \in Child
                  PROVE  [child EXCEPT ![c] = r] \in [Children -> Child]
BY DEF TypeOK

LEMMA QueuedTyped == ASSUME TypeOK, NEW c \in Children \cup {None}
                     PROVE  [child EXCEPT ![c].deploy = "queued"] \in [Children -> Child]
<1>1. CASE c = None
  BY <1>1, NoChildAssumption DEF TypeOK
<1>2. CASE c \in Children
  <2>1. child[c] \in Child
    BY <1>2 DEF TypeOK
  <2>2. [child[c] EXCEPT !.deploy = "queued"] \in Child
    BY <2>1, ChildTyped
  <2> QED BY <1>2, <2>2 DEF TypeOK
<1> QED BY <1>1, <1>2

LEMMA FlagsTyped == ASSUME TypeOK, NEW c \in Children \cup {None}
                    PROVE  /\ [child EXCEPT ![c].hidden = TRUE] \in [Children -> Child]
                           /\ [child EXCEPT ![c].host = TRUE] \in [Children -> Child]
                           /\ [child EXCEPT ![c].preview = TRUE] \in [Children -> Child]
<1>1. CASE c = None
  BY <1>1, NoChildAssumption DEF TypeOK
<1>2. CASE c \in Children
  <2>1. child[c] \in Child
    BY <1>2 DEF TypeOK
  <2>2. /\ [child[c] EXCEPT !.hidden = TRUE] \in Child
        /\ [child[c] EXCEPT !.host = TRUE] \in Child
        /\ [child[c] EXCEPT !.preview = TRUE] \in Child
    BY <2>1, ChildTyped
  <2> QED BY <1>2, <2>2 DEF TypeOK
<1> QED BY <1>1, <1>2

LEMMA FaultTyped == ASSUME faults \in 0..MaxFaults, Fault PROVE faults' \in 0..MaxFaults
BY PreviewBoundsAssumption DEF Fault

LEMMA HappensTyped ==
  ASSUME TypeOK, NEW action \in {"upsert", "delete"}, NEW head, head \in Commits \/ head = events + 1,
         Happens(action, head)
  PROVE  /\ head \in Commits /\ events' \in Commits /\ mail' \subseteq Delivery
         /\ UNCHANGED <<faults, hook, link, child>>
<1>1. events + 1 \in Commits
  BY PreviewBoundsAssumption DEF TypeOK, Happens, Commits
<1>2. [no |-> events + 1, action |-> action, sha |-> head] \in Delivery
  BY <1>1 DEF Delivery
<1> QED BY <1>1, <1>2 DEF Happens, TypeOK

LEMMA GoneTyped ==
  ASSUME TypeOK, NEW c \in Children, Gone(c)
  PROVE  child' \in [Children -> Child] /\ (link' = None \/ link' \in Link)
BY ChildTyped DEF Gone, TypeOK, Link

LEMMA OutsideTypes ==
  ASSUME TypeOK,
         \/ Opened \/ Pushed \/ Closed \/ Lose \/ PanelDies \/ \E h \in Hooks : Receive(h)
         \/ \E c \in Children : UserRemoves(c) \/ Expire(c) \/ Cleanup(c) \/ Build(c) \/ DeployEnds(c)
  PROVE  TypeOK'
<1>1. CASE Opened
  <2> DEFINE head == IF events = 0 THEN 1 ELSE pr.head
  <2>1. pr.head \in Commits /\ (events = 0 => head = events + 1)
    BY DEF TypeOK
  <2>2. pr' = [open |-> TRUE, head |-> head] /\ Happens("upsert", head)
    BY <1>1 DEF Opened
  <2>3. head \in Commits /\ events' \in Commits /\ mail' \subseteq Delivery /\ UNCHANGED <<faults, hook, link, child>>
    BY <2>1, <2>2, HappensTyped
  <2> QED BY <2>2, <2>3 DEF TypeOK
<1>2. CASE Pushed
  <2>1. events + 1 \in Commits /\ events' \in Commits /\ mail' \subseteq Delivery /\ UNCHANGED <<faults, hook, link, child>>
    BY <1>2, HappensTyped DEF Pushed
  <2> QED BY <1>2, <2>1 DEF Pushed, TypeOK
<1>3. CASE Closed
  <2>1. pr.head \in Commits
    BY DEF TypeOK
  <2>2. events' \in Commits /\ mail' \subseteq Delivery /\ UNCHANGED <<faults, hook, link, child>>
    BY <1>3, <2>1, HappensTyped DEF Closed
  <2> QED BY <1>3, <2>2 DEF Closed, TypeOK
<1>4. CASE Lose
  BY <1>4, FaultTyped DEF Lose, TypeOK
<1>5. CASE PanelDies
  BY <1>5, FaultTyped, HookTyped DEF PanelDies, TypeOK
<1>6. ASSUME NEW h \in Hooks, Receive(h) PROVE TypeOK'
  <2>1. PICK d \in mail :
          /\ hook' = [hook EXCEPT ![h] = [Idle EXCEPT !.pc = "read", !.event = d]]
          /\ \/ mail' = mail \ {d} /\ UNCHANGED faults
             \/ Fault /\ UNCHANGED mail
    BY <1>6 DEF Receive
  <2>2. hook' \in [Hooks -> Hook]
    BY <2>1, HookTyped DEF TypeOK
  <2>3. faults' \in 0..MaxFaults
    BY <2>1, FaultTyped DEF TypeOK
  <2> QED BY <1>6, <2>1, <2>2, <2>3 DEF Receive, TypeOK
<1>7. ASSUME NEW c \in Children, UserRemoves(c) \/ Cleanup(c) PROVE TypeOK'
  BY <1>7, GoneTyped DEF UserRemoves, Cleanup, prVars, TypeOK
<1>8. ASSUME NEW c \in Children, Expire(c) \/ Build(c) \/ DeployEnds(c) PROVE TypeOK'
  <2>1. pr.head \in Commits
    BY DEF TypeOK
  <2>2. child[c] \in Child /\ child \in [Children -> Child]
    BY DEF TypeOK
  <2>3. /\ [child[c] EXCEPT !.due = TRUE] \in Child
        /\ [child[c] EXCEPT !.deploy = "none"] \in Child
        /\ [child[c] EXCEPT !.deploy = "building", !.cloned = pr.head] \in Child
    BY <2>1, <2>2, ChildTyped
  <2>4. child' \in [Children -> Child]
    BY <1>8, <2>2, <2>3 DEF Expire, Build, DeployEnds
  <2> QED BY <1>8, <2>4 DEF Expire, Build, DeployEnds, prVars, TypeOK
<1> QED BY <1>1, <1>2, <1>3, <1>4, <1>5, <1>6, <1>7, <1>8

LEMMA HookTypes == ASSUME TypeOK, Aimed, NEW h \in Hooks, HookStep(h) PROVE TypeOK'
<1> DEFINE c == hook[h].target
<1>0. c \in Children \cup {None} /\ hook[h].event.sha \in Commits
  BY DEF TypeOK, Hook, Delivery
<1>1. CASE ReadForUpsert(h)
  <2> DEFINE pc == IF link # None /\ link.preview # None THEN "redeploy" ELSE "create"
             e == IF link # None THEN link.id ELSE None
             d == IF link # None THEN link.preview ELSE None
             r == [hook[h] EXCEPT !.pc = pc, !.existing = e, !.target = d]
  <2>1. pc \in Pcs /\ e \in Children \cup {None} /\ d \in Children \cup {None}
    BY DEF Pcs, TypeOK, Link
  <2>2. hook' = [hook EXCEPT ![h] = r]
    BY <1>1 DEF ReadForUpsert
  <2>3. hook[h] \in Hook /\ hook \in [Hooks -> Hook]
    BY DEF TypeOK
  <2> HIDE DEF pc, e, d
  <2>4. r \in Hook
    BY <2>1, <2>3, HookTyped
  <2> QED BY <1>1, <2>2, <2>3, <2>4 DEF ReadForUpsert, TypeOK, prVars
<1>2. CASE Redeploy(h)
  <2>1. hook' \in [Hooks -> Hook]
    BY <1>2, GotoTyped DEF Redeploy, Refused, Pcs
  <2>2. child' \in [Children -> Child]
    BY <1>0, <1>2, QueuedTyped DEF Redeploy, TypeOK
  <2> QED BY <1>2, <2>1, <2>2 DEF Redeploy, TypeOK, prVars
<1>3. CASE NoteCommit(h)
  <2>1. hook' \in [Hooks -> Hook]
    BY <1>3, GotoTyped DEF NoteCommit, Pcs
  <2>2. link' = None \/ link' \in Link
    BY <1>0, <1>3 DEF NoteCommit, StillLinked, TypeOK, Link
  <2> QED BY <1>3, <2>1, <2>2 DEF NoteCommit, TypeOK, prVars
<1>4. CASE CreateService(h)
  <2> DEFINE d == CHOOSE e \in Unused : TRUE
  <2>1. Unused # {} => d \in Children
    BY DEF Unused
  <2> HIDE DEF d
  <2> DEFINE r == [hook[h] EXCEPT !.pc = "flag", !.target = d]
             k == [NoChild EXCEPT !.used = TRUE, !.service = TRUE]
  <2>a. \/ Unused # {} /\ child' = [child EXCEPT ![d] = k] /\ hook' = [hook EXCEPT ![h] = r]
        \/ UNCHANGED child /\ Ends(h)
    BY <1>4 DEF CreateService, d
  <2>b. k \in Child
    BY ChildTyped
  <2>c. hook[h] \in Hook /\ hook \in [Hooks -> Hook] /\ child \in [Children -> Child]
    BY DEF TypeOK
  <2>d. Unused # {} => r \in Hook
    BY <2>1, <2>c, HookTyped DEF Pcs
  <2> HIDE DEF r, k
  <2>2. hook' \in [Hooks -> Hook]
    BY <2>a, <2>c, <2>d, HookTyped DEF Ends
  <2>3. child' \in [Children -> Child]
    BY <2>a, <2>b, <2>c
  <2> QED BY <1>4, <2>2, <2>3 DEF CreateService, TypeOK, prVars
<1>5. CASE FlagAsPreview(h) \/ SetDomain(h) \/ InsertPreview(h) \/ FirstDeploy(h)
  <2>1. hook' \in [Hooks -> Hook]
    BY <1>5, GotoTyped DEF FlagAsPreview, SetDomain, InsertPreview, FirstDeploy, Pcs
  <2>a. child \in [Children -> Child] /\ [child EXCEPT ![c].deploy = "queued"] \in [Children -> Child]
    BY <1>0, QueuedTyped DEF TypeOK
  <2>b. /\ [child EXCEPT ![c].hidden = TRUE] \in [Children -> Child]
        /\ [child EXCEPT ![c].host = TRUE] \in [Children -> Child]
        /\ [child EXCEPT ![c].preview = TRUE] \in [Children -> Child]
    BY <1>0, FlagsTyped
  <2> HIDE DEF c
  <2>2. child' \in [Children -> Child]
    BY <1>5, <2>a, <2>b DEF FlagAsPreview, SetDomain, InsertPreview, FirstDeploy, c
  <2> QED BY <1>5, <2>1, <2>2 DEF FlagAsPreview, SetDomain, InsertPreview, FirstDeploy, TypeOK, prVars
<1>6. CASE SaveLink(h)
  <2>1. hook' \in [Hooks -> Hook]
    BY <1>6, GotoTyped DEF SaveLink, Pcs
  <2>2. c \in Children
    BY <1>6 DEF SaveLink, Aimed
  <2> QED BY <1>0, <1>6, <2>1, <2>2 DEF SaveLink, TypeOK, prVars, Link, StillLinked
<1>7. CASE ReadForDelete(h)
  <2> DEFINE r == [hook[h] EXCEPT !.pc = "remove", !.existing = link.id, !.target = link.preview]
  <2>1. hook[h] \in Hook /\ hook \in [Hooks -> Hook]
    BY DEF TypeOK
  <2>2. link # None => link.id \in Children \cup {None} /\ link.preview \in Children \cup {None}
    BY DEF TypeOK, Link
  <2>3. link # None => r \in Hook
    BY <2>1, <2>2, HookTyped DEF Pcs
  <2>4. Ends(h) \/ (link # None /\ hook' = [hook EXCEPT ![h] = r])
    BY <1>7 DEF ReadForDelete
  <2> HIDE DEF r
  <2>5. hook' \in [Hooks -> Hook]
    BY <2>1, <2>3, <2>4, HookTyped DEF Ends
  <2> QED BY <1>7, <2>5 DEF ReadForDelete, TypeOK, prVars
<1>8. CASE RemovePreview(h)
  <2>1. hook' \in [Hooks -> Hook]
    BY <1>8, GotoTyped DEF RemovePreview, Pcs
  <2>2. child' \in [Children -> Child] /\ (link' = None \/ link' \in Link)
    BY <1>0, <1>8, GoneTyped DEF RemovePreview, TypeOK
  <2> QED BY <1>8, <2>1, <2>2 DEF RemovePreview, TypeOK, prVars
<1>9. CASE DeleteLink(h)
  <2>1. hook' \in [Hooks -> Hook]
    BY <1>9, GotoTyped DEF DeleteLink, Pcs
  <2> QED BY <1>9, <2>1 DEF DeleteLink, TypeOK, prVars
<1> QED BY <1>1, <1>2, <1>3, <1>4, <1>5, <1>6, <1>7, <1>8, <1>9 DEF HookStep

LEMMA AimedKept == ASSUME TypeOK, Aimed, [Next]_vars PROVE Aimed'
<1>1. CASE UNCHANGED hook
  BY <1>1 DEF Aimed
<1>2. CASE PanelDies
  BY <1>2 DEF Aimed, PanelDies, Idle
<1>3. ASSUME NEW h \in Hooks, Receive(h) \/ HookStep(h) PROVE Aimed'
  <2>1. hook \in [Hooks -> Hook] /\ hook[h] \in Hook
    BY DEF TypeOK
  <2>2. \A g \in Hooks \ {h} : hook'[g] = hook[g]
    BY <1>3, <2>1 DEF Receive, HookStep, Goto, Ends, ReadForUpsert, Redeploy, Refused, NoteCommit,
       CreateService, FlagAsPreview, SetDomain, InsertPreview, FirstDeploy, SaveLink, ReadForDelete,
       RemovePreview, DeleteLink
  <2>3. hook'[h].pc \in {"redeploy", "flag", "domain", "row", "deploy", "link"} =>
          hook'[h].target \in Children
    <3>1. CASE NoteCommit(h) \/ SaveLink(h) \/ DeleteLink(h) \/ RemovePreview(h) \/ Redeploy(h)
      BY <2>1, <3>1 DEF NoteCommit, SaveLink, DeleteLink, RemovePreview, Redeploy, Refused, Goto, Ends,
         Idle, Hook
    <3>5. CASE Receive(h)
      <4>1. \A d : [Idle EXCEPT !.pc = "read", !.event = d].pc = "read"
        BY DEF Idle
      <4>2. \E d \in mail : hook' = [hook EXCEPT ![h] = [Idle EXCEPT !.pc = "read", !.event = d]]
        BY <3>5 DEF Receive
      <4>3. hook'[h].pc = "read"
        BY <2>1, <4>1, <4>2
      <4> QED BY <4>3
    <3>6. CASE ReadForDelete(h)
      <4> DEFINE r == [hook[h] EXCEPT !.pc = "remove", !.existing = link.id, !.target = link.preview]
      <4>1. r.pc = "remove" /\ Idle.pc = "idle"
        BY <2>1 DEF Hook, Idle
      <4>2. hook' = [hook EXCEPT ![h] = r] \/ hook' = [hook EXCEPT ![h] = Idle]
        BY <3>6 DEF ReadForDelete, Ends
      <4> HIDE DEF r
      <4>3. hook'[h].pc \in {"remove", "idle"}
        BY <2>1, <4>1, <4>2
      <4> QED BY <4>3
    <3>2. CASE ReadForUpsert(h)
      BY <2>1, <3>2 DEF ReadForUpsert, Hook, TypeOK, Link
    <3>3. CASE CreateService(h)
      <4> DEFINE d == CHOOSE e \in Unused : TRUE
      <4>1. Unused # {} => d \in Children
        BY DEF Unused
      <4> HIDE DEF d
      <4> DEFINE r == [hook[h] EXCEPT !.pc = "flag", !.target = d]
      <4>2. r.target = d /\ Idle.pc = "idle"
        BY <2>1 DEF Hook, Idle
      <4>3. (Unused # {} /\ hook' = [hook EXCEPT ![h] = r]) \/ hook' = [hook EXCEPT ![h] = Idle]
        BY <3>3 DEF CreateService, Ends, d
      <4> HIDE DEF r
      <4>4. (Unused # {} /\ hook'[h] = r) \/ hook'[h] = Idle
        BY <2>1, <4>3
      <4> QED BY <4>1, <4>2, <4>4
    <3>4. CASE FlagAsPreview(h) \/ SetDomain(h) \/ InsertPreview(h) \/ FirstDeploy(h)
      BY <2>1, <3>4 DEF Aimed, FlagAsPreview, SetDomain, InsertPreview, FirstDeploy, Goto, Ends, Idle, Hook
    <3> QED BY <1>3, <3>1, <3>2, <3>3, <3>4, <3>5, <3>6 DEF HookStep
  <2> QED BY <2>2, <2>3 DEF Aimed
<1> QED BY <1>1, <1>2, <1>3 DEF Next, vars, Opened, Pushed, Closed, Happens, Lose, UserRemoves, Expire,
         Cleanup, Build, DeployEnds

LEMMA PreviewInit == ASSUME Init PROVE TypeOK /\ Aimed
<1>1. TypeOK
  <2>1. pr \in [open : BOOLEAN, head : Commits] /\ events \in Commits
    BY HookTyped DEF Init
  <2>2. hook \in [Hooks -> Hook] /\ child \in [Children -> Child]
    BY HookTyped, ChildTyped DEF Init
  <2>3. mail \subseteq Delivery /\ link = None /\ faults \in 0..MaxFaults
    BY PreviewBoundsAssumption DEF Init
  <2> QED BY <2>1, <2>2, <2>3 DEF TypeOK
<1>2. Aimed
  BY DEF Init, Aimed, Idle
<1> QED BY <1>1, <1>2

LEMMA TypesKept == ASSUME TypeOK, Aimed, [Next]_vars PROVE TypeOK'
<1>1. UNCHANGED vars => TypeOK'
  BY DEF TypeOK, vars, prVars
<1> QED BY <1>1, OutsideTypes, HookTypes DEF Next

\* Every variable keeps its type, whatever is delivered and however many requests there are.
THEOREM PreviewTypes == Spec => []TypeOK
<1>1. Init => TypeOK /\ Aimed
  BY PreviewInit
<1>2. TypeOK /\ Aimed /\ [Next]_vars => (TypeOK /\ Aimed)'
  BY TypesKept, AimedKept
<1> QED BY <1>1, <1>2, PTL DEF Spec

-----------------------------------------------------------------------------
(* One preview.                                                             *)

Fresh(h) == hook[h].pc \in {"flag", "domain", "row"}

\* The child of a creation in progress is nobody else's, and has no preview yet.
FreshApart ==
  /\ \A h \in Hooks : Fresh(h) => child[hook[h].target].used /\ ~child[hook[h].target].preview
  /\ \A g, h \in Hooks : Fresh(g) /\ Fresh(h) /\ hook[g].target = hook[h].target => g = h

\* The host belongs to one child, and a preview comes after it.
HostFirst ==
  /\ \A c, d \in Children : child[c].host /\ child[d].host => c = d
  /\ HasDomain => \A c \in Children : child[c].preview => child[c].host
  /\ HasDomain => \A h \in Hooks : hook[h].pc = "row" => child[hook[h].target].host

LEMMA OthersWait ==
  ASSUME TypeOK, NEW h \in Hooks, Receive(h) \/ HookStep(h)
  PROVE  \A g \in Hooks \ {h} : hook'[g] = hook[g]
BY DEF TypeOK, Receive, HookStep, Goto, Ends, ReadForUpsert, Redeploy, Refused, NoteCommit,
   CreateService, FlagAsPreview, SetDomain, InsertPreview, FirstDeploy, SaveLink, ReadForDelete,
   RemovePreview, DeleteLink

\* No child is unused again, gains a preview, or changes its host.
Calm == \A c \in Children : /\ child[c].used => child'[c].used
                            /\ child'[c].preview => child[c].preview
                            /\ child'[c].host => child[c].host
                            /\ child[c].host => child'[c].host \/ (child[c].preview /\ ~child'[c].preview)

LEMMA GoneCalm == ASSUME TypeOK, NEW c \in Children, child[c].preview, Gone(c) PROVE Calm
<1>1. [NoChild EXCEPT !.used = TRUE].used /\ ~[NoChild EXCEPT !.used = TRUE].preview
      /\ ~[NoChild EXCEPT !.used = TRUE].host
  BY DEF NoChild
<1>2. \A d \in Children : child'[d] = IF d = c THEN [NoChild EXCEPT !.used = TRUE] ELSE child[d]
  BY DEF Gone, TypeOK
<1> QED BY <1>1, <1>2 DEF Calm

LEMMA OuterCalm ==
  ASSUME TypeOK, NEW c \in Children, UserRemoves(c) \/ Expire(c) \/ Cleanup(c) \/ Build(c) \/ DeployEnds(c)
  PROVE  Calm /\ UNCHANGED hook
<1>1. CASE UserRemoves(c) \/ Cleanup(c)
  BY <1>1, GoneCalm DEF UserRemoves, Cleanup, Due
<1>2. CASE Expire(c) \/ DeployEnds(c)
  BY <1>2 DEF Expire, DeployEnds, Calm, TypeOK, Child
<1>3. CASE Build(c)
  <2> DEFINE k == [child[c] EXCEPT !.deploy = "building", !.cloned = pr.head]
  <2>1. k.used = child[c].used /\ k.preview = child[c].preview /\ k.host = child[c].host
    BY DEF TypeOK, Child
  <2>2. child' = [child EXCEPT ![c] = k] /\ UNCHANGED hook
    BY <1>3 DEF Build
  <2> HIDE DEF k
  <2> QED BY <2>1, <2>2 DEF Calm, TypeOK
<1> QED BY <1>1, <1>2, <1>3

\* The steps that end a creation, or have none.
Aside(h) == \/ Receive(h) \/ ReadForUpsert(h) \/ Redeploy(h) \/ NoteCommit(h) \/ FirstDeploy(h)
            \/ SaveLink(h) \/ ReadForDelete(h) \/ RemovePreview(h) \/ DeleteLink(h)

LEMMA AsideCalm == ASSUME TypeOK, Aimed, NEW h \in Hooks, Aside(h) PROVE Calm
<1>1. CASE Redeploy(h) \/ FirstDeploy(h)
  BY <1>1 DEF Redeploy, FirstDeploy, Calm, TypeOK, Child, Aimed
<1>2. CASE RemovePreview(h)
  <2>1. hook[h].target \in Children \cup {None}
    BY DEF TypeOK, Hook
  <2> QED BY <1>2, <2>1, GoneCalm DEF RemovePreview, Calm
<1> QED BY <1>1, <1>2 DEF Aside, Receive, ReadForUpsert, NoteCommit, SaveLink, ReadForDelete, DeleteLink, Calm

LEMMA AsidePlace == ASSUME TypeOK, NEW h \in Hooks, Aside(h) PROVE ~Fresh(h)'
<1>0. hook \in [Hooks -> Hook] /\ hook[h] \in Hook
  BY DEF TypeOK
<1>1. CASE NoteCommit(h) \/ SaveLink(h) \/ DeleteLink(h) \/ RemovePreview(h) \/ Redeploy(h) \/ FirstDeploy(h)
  BY <1>0, <1>1 DEF NoteCommit, SaveLink, DeleteLink, RemovePreview, Redeploy, FirstDeploy, Refused, Goto, Ends,
     Idle, Hook, Fresh
<1>2. CASE Receive(h)
  <2>1. \A d : [Idle EXCEPT !.pc = "read", !.event = d].pc = "read"
    BY DEF Idle
  <2>2. \E d \in mail : hook' = [hook EXCEPT ![h] = [Idle EXCEPT !.pc = "read", !.event = d]]
    BY <1>2 DEF Receive
  <2>3. hook'[h].pc = "read"
    BY <1>0, <2>1, <2>2
  <2> QED BY <2>3 DEF Fresh
<1>3. CASE ReadForDelete(h)
  <2> DEFINE r == [hook[h] EXCEPT !.pc = "remove", !.existing = link.id, !.target = link.preview]
  <2>1. r.pc = "remove" /\ Idle.pc = "idle"
    BY <1>0 DEF Hook, Idle
  <2>2. hook' = [hook EXCEPT ![h] = r] \/ hook' = [hook EXCEPT ![h] = Idle]
    BY <1>3 DEF ReadForDelete, Ends
  <2> HIDE DEF r
  <2>3. hook'[h].pc \in {"remove", "idle"}
    BY <1>0, <2>1, <2>2
  <2> QED BY <2>3 DEF Fresh
<1>4. CASE ReadForUpsert(h)
  <2> DEFINE pc == IF link # None /\ link.preview # None THEN "redeploy" ELSE "create"
             e == IF link # None THEN link.id ELSE None
             d == IF link # None THEN link.preview ELSE None
             r == [hook[h] EXCEPT !.pc = pc, !.existing = e, !.target = d]
  <2>1. pc \in {"redeploy", "create"}
    OBVIOUS
  <2>2. hook' = [hook EXCEPT ![h] = r]
    BY <1>4 DEF ReadForUpsert
  <2> HIDE DEF pc, e, d
  <2>3. r.pc = pc
    BY <1>0 DEF Hook
  <2> HIDE DEF r
  <2>4. hook'[h].pc = pc
    BY <1>0, <2>2, <2>3
  <2> QED BY <2>1, <2>4 DEF Fresh
<1> QED BY <1>1, <1>2, <1>3, <1>4 DEF Aside

\* What a creation does to the request and to its child.
LEMMA CreateStep ==
  ASSUME TypeOK, NEW h \in Hooks, CreateService(h)
  PROVE  \/ \E d \in Children :
              /\ ~child[d].used /\ child'[d].used /\ ~child'[d].preview /\ ~child'[d].host
              /\ \A c \in Children \ {d} : child'[c] = child[c]
              /\ hook'[h].pc = "flag" /\ hook'[h].target = d
         \/ UNCHANGED child /\ ~Fresh(h)'
<1> DEFINE d == CHOOSE e \in Unused : TRUE
           r == [hook[h] EXCEPT !.pc = "flag", !.target = d]
           k == [NoChild EXCEPT !.used = TRUE, !.service = TRUE]
<1>1. Unused # {} => d \in Children /\ ~child[d].used
  BY DEF Unused
<1>2. \/ Unused # {} /\ child' = [child EXCEPT ![d] = k] /\ hook' = [hook EXCEPT ![h] = r]
      \/ UNCHANGED child /\ hook' = [hook EXCEPT ![h] = Idle]
  BY DEF CreateService, Ends
<1>3. k.used /\ ~k.preview /\ ~k.host /\ Idle.pc = "idle"
  BY DEF NoChild, Idle
<1> HIDE DEF d
<1>4. r.pc = "flag" /\ r.target = d
  BY DEF TypeOK, Hook
<1> HIDE DEF r, k
<1> QED BY <1>1, <1>2, <1>3, <1>4 DEF Fresh, TypeOK

LEMMA FreshKept == ASSUME TypeOK, Aimed, FreshApart, [Next]_vars PROVE FreshApart'
<1>1. ASSUME Calm, UNCHANGED hook PROVE FreshApart'
  <2>1. \A h \in Hooks : Fresh(h) => hook[h].target \in Children
    BY DEF Fresh, Aimed
  <2> QED BY <1>1, <2>1 DEF FreshApart, Fresh, Calm
<1>2. CASE PanelDies
  BY <1>2 DEF PanelDies, FreshApart, Fresh, Idle
<1>3. CASE \E h \in Hooks : Aside(h)
  <2>1. PICK h \in Hooks : Aside(h)
    BY <1>3
  <2>2. Calm /\ ~Fresh(h)' /\ \A g \in Hooks \ {h} : hook'[g] = hook[g]
    BY <2>1, AsideCalm, AsidePlace, OthersWait DEF Aside, HookStep
  <2>3. \A g \in Hooks : Fresh(g) => hook[g].target \in Children
    BY DEF Fresh, Aimed
  <2> QED BY <2>2, <2>3 DEF FreshApart, Fresh, Calm
<1>4. CASE \E h \in Hooks : FlagAsPreview(h) \/ SetDomain(h) \/ InsertPreview(h)
  <2>1. PICK h \in Hooks : FlagAsPreview(h) \/ SetDomain(h) \/ InsertPreview(h)
    BY <1>4
  <2>2. \A g \in Hooks \ {h} : hook'[g] = hook[g]
    BY <2>1, OthersWait DEF HookStep
  <2>3. Fresh(h) /\ hook[h].target \in Children
    BY <2>1 DEF Fresh, Aimed, FlagAsPreview, SetDomain, InsertPreview
  <2>4. Fresh(h)' => hook'[h].target = hook[h].target
    BY <2>1 DEF TypeOK, Hook, Fresh, FlagAsPreview, SetDomain, InsertPreview, Goto, Ends, Idle
  <2>5. \A c \in Children :
          /\ child'[c].used = child[c].used
          /\ child'[c].preview = child[c].preview \/ (c = hook[h].target /\ ~Fresh(h)')
    BY <2>1, <2>3 DEF TypeOK, Hook, Child, Fresh, FlagAsPreview, SetDomain, InsertPreview, Goto, Ends, Idle
  <2>6. \A g \in Hooks : Fresh(g) => hook[g].target \in Children
    BY DEF Fresh, Aimed
  <2>7. \A g \in Hooks : Fresh(g)' => Fresh(g) /\ hook'[g].target = hook[g].target
    BY <2>2, <2>3, <2>4 DEF Fresh
  <2>8. \A g \in Hooks : Fresh(g)' => child'[hook'[g].target].used /\ ~child'[hook'[g].target].preview
    <3> SUFFICES ASSUME NEW g \in Hooks, Fresh(g)'
                 PROVE  child'[hook'[g].target].used /\ ~child'[hook'[g].target].preview
      OBVIOUS
    <3>1. Fresh(g) /\ hook'[g].target = hook[g].target /\ hook[g].target \in Children
      BY <2>6, <2>7
    <3>2. child[hook[g].target].used /\ ~child[hook[g].target].preview
      BY <3>1 DEF FreshApart
    <3>3. ~(hook[g].target = hook[h].target /\ ~Fresh(h)')
      BY <2>3, <3>1 DEF FreshApart
    <3> QED BY <2>5, <3>1, <3>2, <3>3
  <2> QED BY <2>7, <2>8 DEF FreshApart
<1>5. CASE \E h \in Hooks : CreateService(h)
  <2>1. PICK h \in Hooks : CreateService(h)
    BY <1>5
  <2>2. \A g \in Hooks \ {h} : hook'[g] = hook[g]
    BY <2>1, OthersWait DEF HookStep
  <2>3. \A g \in Hooks : Fresh(g) => hook[g].target \in Children
    BY DEF Fresh, Aimed
  <2>4. CASE UNCHANGED child /\ ~Fresh(h)'
    BY <2>2, <2>3, <2>4 DEF FreshApart, Fresh
  <2>5. ASSUME NEW d \in Children,
               ~child[d].used, child'[d].used, ~child'[d].preview,
               \A c \in Children \ {d} : child'[c] = child[c],
               hook'[h].pc = "flag", hook'[h].target = d
        PROVE  FreshApart'
    <3>1. \A g \in Hooks \ {h} : Fresh(g)' => Fresh(g) /\ hook'[g].target = hook[g].target /\ hook[g].target # d
      BY <2>2, <2>5 DEF FreshApart, Fresh
    <3> QED BY <2>2, <2>3, <2>5, <3>1 DEF FreshApart
  <2> QED BY <2>1, <2>4, <2>5, CreateStep
<1> QED BY <1>1, <1>2, <1>3, <1>4, <1>5, OuterCalm DEF Next, HookStep, Aside, Calm, vars, Opened, Pushed,
         Closed, Happens, Lose

LEMMA HostKept == ASSUME TypeOK, Aimed, FreshApart, HostFirst, [Next]_vars PROVE HostFirst'
<1>1. ASSUME Calm, \A h \in Hooks : hook'[h].pc = "row" =>
                     hook[h].pc = "row" /\ hook'[h].target = hook[h].target
      PROVE  HostFirst'
  <2>1. \A c, d \in Children : child'[c].host /\ child'[d].host => c = d
    BY <1>1 DEF Calm, HostFirst
  <2>2. HasDomain => \A c \in Children : child'[c].preview => child'[c].host
    BY <1>1 DEF Calm, HostFirst
  <2>3. \A h \in Hooks : hook[h].pc = "row" => hook[h].target \in Children /\ ~child[hook[h].target].preview
    BY DEF Aimed, FreshApart, Fresh
  <2>4. HasDomain => \A h \in Hooks : hook'[h].pc = "row" => child'[hook'[h].target].host
    BY <1>1, <2>3 DEF Calm, HostFirst
  <2> QED BY <2>1, <2>2, <2>4 DEF HostFirst
<1>2. CASE PanelDies
  BY <1>1, <1>2 DEF PanelDies, Idle, Calm
<1>3. CASE \E h \in Hooks : Aside(h)
  <2>1. PICK h \in Hooks : Aside(h)
    BY <1>3
  <2>2. Calm /\ ~Fresh(h)' /\ \A g \in Hooks \ {h} : hook'[g] = hook[g]
    BY <2>1, AsideCalm, AsidePlace, OthersWait DEF Aside, HookStep
  <2> QED BY <1>1, <2>2 DEF Fresh
<1>4. CASE \E h \in Hooks : InsertPreview(h)
  <2>1. PICK h \in Hooks : InsertPreview(h)
    BY <1>4
  <2>2. \A g \in Hooks \ {h} : hook'[g] = hook[g]
    BY <2>1, OthersWait DEF HookStep
  <2>3. hook[h].pc = "row" /\ hook[h].target \in Children /\ hook'[h].pc = "deploy"
    BY <2>1 DEF Aimed, InsertPreview, TypeOK, Hook, Goto
  <2>4. \A c \in Children : /\ child'[c].host = child[c].host
                            /\ c # hook[h].target => child'[c].preview = child[c].preview
    BY <2>1, <2>3 DEF InsertPreview, TypeOK, Child
  <2>5. \A g \in Hooks : hook[g].pc = "row" => hook[g].target \in Children
    BY DEF Aimed
  <2>6. HasDomain => child[hook[h].target].host
    BY <2>3 DEF HostFirst
  <2> QED BY <2>2, <2>3, <2>4, <2>5, <2>6 DEF HostFirst
<1>5. CASE \E h \in Hooks : FlagAsPreview(h)
  <2>1. PICK h \in Hooks : FlagAsPreview(h)
    BY <1>5
  <2>2. \A g \in Hooks \ {h} : hook'[g] = hook[g]
    BY <2>1, OthersWait DEF HookStep
  <2>3. HasDomain => hook'[h].pc = "domain"
    BY <2>1 DEF FlagAsPreview, TypeOK, Hook, Goto
  <2>4. \A c \in Children : child'[c].host = child[c].host /\ child'[c].preview = child[c].preview
    BY <2>1 DEF FlagAsPreview, TypeOK, Child, Aimed
  <2>5. \A g \in Hooks : hook[g].pc = "row" => hook[g].target \in Children
    BY DEF Aimed
  <2> QED BY <2>2, <2>3, <2>4, <2>5 DEF HostFirst
<1>6. CASE \E h \in Hooks : SetDomain(h)
  <2>1. PICK h \in Hooks : SetDomain(h)
    BY <1>6
  <2>2. \A g \in Hooks \ {h} : hook'[g] = hook[g]
    BY <2>1, OthersWait DEF HookStep
  <2>3. hook[h].pc = "domain" /\ hook[h].target \in Children
    BY <2>1 DEF SetDomain, Aimed
  <2>4. CASE HostTaken
    <3>1. UNCHANGED child /\ hook'[h].pc = "idle"
      BY <2>1, <2>4 DEF SetDomain, TypeOK, Ends, Idle
    <3>2. Calm
      BY <3>1 DEF Calm
    <3> QED BY <1>1, <2>2, <3>1, <3>2
  <2>5. CASE ~HostTaken
    <3>1. hook'[h].target = hook[h].target
      BY <2>1, <2>5 DEF SetDomain, TypeOK, Hook, Goto
    <3>2. \A c \in Children : /\ child'[c].preview = child[c].preview
                              /\ child'[c].host <=> c = hook[h].target
      BY <2>1, <2>3, <2>5 DEF SetDomain, HostTaken, TypeOK, Child
    <3>3. \A g \in Hooks : hook[g].pc = "row" => hook[g].target \in Children
      BY DEF Aimed
    <3>4. HasDomain => (\A c \in Children : ~child[c].preview) /\ \A g \in Hooks : hook[g].pc # "row"
      BY <2>5, <3>3 DEF HostFirst, HostTaken
    <3>5. HasDomain => \A g \in Hooks : hook'[g].pc = "row" => child'[hook'[g].target].host
      BY <2>2, <2>3, <3>1, <3>2, <3>4
    <3>6. HasDomain => \A c \in Children : child'[c].preview => child'[c].host
      BY <3>2, <3>4
    <3>7. \A c, d \in Children : child'[c].host /\ child'[d].host => c = d
      BY <3>2
    <3> QED BY <3>5, <3>6, <3>7 DEF HostFirst
  <2> QED BY <2>4, <2>5
<1>7. CASE \E h \in Hooks : CreateService(h)
  <2>1. PICK h \in Hooks : CreateService(h)
    BY <1>7
  <2>2. \A g \in Hooks \ {h} : hook'[g] = hook[g]
    BY <2>1, OthersWait DEF HookStep
  <2>3. CASE UNCHANGED child /\ ~Fresh(h)'
    BY <1>1, <2>2, <2>3 DEF Calm, Fresh
  <2>4. ASSUME NEW d \in Children,
               ~child[d].used, ~child'[d].preview, ~child'[d].host,
               \A c \in Children \ {d} : child'[c] = child[c],
               hook'[h].pc = "flag", hook'[h].target = d
        PROVE  HostFirst'
    <3>1. \A g \in Hooks : hook[g].pc = "row" => hook[g].target \in Children /\ hook[g].target # d
      BY <2>4 DEF Aimed, FreshApart, Fresh
    <3> QED BY <2>2, <2>4, <3>1 DEF HostFirst
  <2> QED BY <2>1, <2>3, <2>4, CreateStep
<1>8. ASSUME Calm, UNCHANGED hook PROVE HostFirst'
  BY <1>1, <1>8
<1> QED BY <1>2, <1>3, <1>4, <1>5, <1>6, <1>7, <1>8, OuterCalm DEF Next, HookStep, Aside, Calm, vars, Opened,
         Pushed, Closed, Happens, Lose

\* Whatever is delivered, repeated or handled at once, a pull request whose service has a
\* domain has one preview at a time.
THEOREM PreviewOnce == Spec => []OnePreview
<1>1. Init => TypeOK /\ Aimed /\ FreshApart /\ HostFirst
  BY PreviewInit DEF Init, FreshApart, HostFirst, Fresh, Idle, NoChild
<1>2. TypeOK /\ Aimed /\ FreshApart /\ HostFirst /\ [Next]_vars =>
        (TypeOK /\ Aimed /\ FreshApart /\ HostFirst)'
  BY TypesKept, AimedKept, FreshKept, HostKept
<1>3. HostFirst => OnePreview
  BY DEF HostFirst, OnePreview
<1> QED BY <1>1, <1>2, <1>3, PTL DEF Spec

-----------------------------------------------------------------------------
(* The commit of the link.  Commits only get newer, so a child that was     *)
(* asked for after an event was received builds that event's commit.        *)

Gained == {"deploy", "link", "note"}

LEMMA GotoIs == ASSUME TypeOK, NEW h \in Hooks, NEW pc, Goto(h, pc)
                PROVE  /\ hook'[h].pc = pc /\ hook'[h].event = hook[h].event
                       /\ hook'[h].target = hook[h].target /\ hook'[h].existing = hook[h].existing
BY DEF Goto, TypeOK, Hook

LEMMA EndsIs == ASSUME TypeOK, NEW h \in Hooks, Ends(h) PROVE hook'[h].pc = "idle"
BY DEF Ends, TypeOK, Idle

\* Where a request comes from, and what it did on its way.
LEMMA Steps ==
  ASSUME TypeOK, NEW h \in Hooks, HookStep(h)
  PROVE  /\ hook'[h].pc # "idle" => hook'[h].event = hook[h].event /\ hook[h].pc # "idle"
         /\ hook'[h].pc \in Gained =>
              /\ hook'[h].target = hook[h].target
              /\ hook'[h].pc = "deploy" => InsertPreview(h)
              /\ hook'[h].pc = "link"   => FirstDeploy(h) /\ child[hook[h].target].service
              /\ hook'[h].pc = "note"   => Redeploy(h) /\ child[hook[h].target].preview
              /\ hook'[h].pc # "deploy" => child' = [child EXCEPT ![hook[h].target].deploy = "queued"]
         /\ Fresh(h)' => CreateService(h) \/ (Fresh(h) /\ hook'[h].target = hook[h].target)
<1>1. CASE NoteCommit(h) \/ SaveLink(h) \/ DeleteLink(h)
  BY <1>1, EndsIs DEF NoteCommit, SaveLink, DeleteLink, Gained, Fresh
<1>2. CASE Redeploy(h)
  <2>1. CASE Ends(h)
    BY <2>1, EndsIs DEF Gained, Fresh
  <2>2. CASE ~Ends(h)
    BY <1>2, <2>2, GotoIs DEF Redeploy, Refused, Gained, Fresh
  <2> QED BY <2>1, <2>2
<1>3. CASE FirstDeploy(h)
  <2>1. CASE Ends(h)
    BY <2>1, EndsIs DEF Gained, Fresh
  <2>2. CASE ~Ends(h)
    BY <1>3, <2>2, GotoIs DEF FirstDeploy, Gained, Fresh
  <2> QED BY <2>1, <2>2
<1>4. CASE InsertPreview(h)
  BY <1>4, GotoIs DEF InsertPreview, Gained, Fresh
<1>5. CASE FlagAsPreview(h) \/ SetDomain(h)
  <2>1. CASE Ends(h)
    BY <2>1, EndsIs DEF Gained, Fresh
  <2>2. CASE ~Ends(h)
    BY <1>5, <2>2, GotoIs DEF FlagAsPreview, SetDomain, Gained, Fresh
  <2> QED BY <2>1, <2>2
<1>6. CASE RemovePreview(h)
  BY <1>6, GotoIs DEF RemovePreview, Gained, Fresh
<1>7. CASE CreateService(h)
  <2>1. CASE Ends(h)
    BY <2>1, EndsIs DEF Gained, Fresh
  <2>2. CASE ~Ends(h)
    <3> DEFINE d == CHOOSE e \in Unused : TRUE
    <3>1. hook' = [hook EXCEPT ![h] = [@ EXCEPT !.pc = "flag", !.target = d]] /\ hook[h].pc = "create"
      BY <1>7, <2>2 DEF CreateService
    <3> HIDE DEF d
    <3>2. hook'[h].pc = "flag" /\ hook'[h].event = hook[h].event
      BY <3>1 DEF TypeOK, Hook
    <3> QED BY <1>7, <3>1, <3>2 DEF Gained
  <2> QED BY <2>1, <2>2
<1>8. CASE ReadForUpsert(h)
  <2> DEFINE pc == IF link # None /\ link.preview # None THEN "redeploy" ELSE "create"
             e == IF link # None THEN link.id ELSE None
             d == IF link # None THEN link.preview ELSE None
             r == [hook[h] EXCEPT !.pc = pc, !.existing = e, !.target = d]
  <2>1. pc \in {"redeploy", "create"}
    OBVIOUS
  <2>2. hook' = [hook EXCEPT ![h] = r] /\ hook[h].pc = "read"
    BY <1>8 DEF ReadForUpsert
  <2> HIDE DEF pc, e, d
  <2>3. r.pc = pc /\ r.event = hook[h].event
    BY DEF TypeOK, Hook
  <2> HIDE DEF r
  <2>4. hook'[h].pc = pc /\ hook'[h].event = hook[h].event
    BY <2>2, <2>3 DEF TypeOK
  <2> QED BY <2>1, <2>2, <2>4 DEF Gained, Fresh
<1>9. CASE ReadForDelete(h)
  <2>1. CASE Ends(h)
    BY <2>1, EndsIs DEF Gained, Fresh
  <2>2. CASE ~Ends(h)
    <3> DEFINE r == [hook[h] EXCEPT !.pc = "remove", !.existing = link.id, !.target = link.preview]
    <3>1. hook' = [hook EXCEPT ![h] = r] /\ hook[h].pc = "read"
      BY <1>9, <2>2 DEF ReadForDelete
    <3>2. r.pc = "remove" /\ r.event = hook[h].event
      BY DEF TypeOK, Hook
    <3> HIDE DEF r
    <3>3. hook'[h].pc = "remove" /\ hook'[h].event = hook[h].event
      BY <3>1, <3>2 DEF TypeOK
    <3> QED BY <3>1, <3>3 DEF Gained, Fresh
  <2> QED BY <2>1, <2>2
<1> QED BY <1>1, <1>2, <1>3, <1>4, <1>5, <1>6, <1>7, <1>8, <1>9 DEF HookStep

\* No event, in the mail, in a request or in the link, is newer than the pull request.
CommitsInOrder ==
  /\ pr.head <= events /\ (events > 0 => pr.head > 0) /\ (pr.open => events > 0)
  /\ \A d \in mail : 0 < d.sha /\ d.sha <= pr.head
  /\ \A h \in Hooks : hook[h].pc # "idle" => 0 < hook[h].event.sha /\ hook[h].event.sha <= pr.head
  /\ link # None => 0 < link.sha /\ link.sha <= pr.head

LEMMA Numbers == ASSUME TypeOK
                 PROVE  /\ Commits \subseteq Nat /\ pr.head \in Nat /\ events \in Nat
                        /\ \A d \in mail : d.sha \in Commits
                        /\ \A h \in Hooks : hook[h].event.sha \in Commits
                        /\ link # None => link.sha \in Commits
                        /\ \A c \in Children : child[c].cloned \in Commits
BY PreviewBoundsAssumption DEF TypeOK, Commits, Delivery, Hook, Link, Child

LEMMA OrderHappens ==
  ASSUME TypeOK, CommitsInOrder, NEW action, NEW head \in Nat, Happens(action, head), pr'.head = head,
         pr.head <= head, head <= events + 1, head > 0
  PROVE  CommitsInOrder'
<1>1. /\ UNCHANGED <<hook, link>> /\ events' = events + 1
      /\ mail' = mail \cup {[no |-> events + 1, action |-> action, sha |-> head]}
  BY DEF Happens
<1>2. \A d \in mail' : 0 < d.sha /\ d.sha <= head
  BY <1>1, Numbers DEF CommitsInOrder
<1>3. \A h \in Hooks : hook[h].pc # "idle" => hook[h].event.sha <= head
  BY Numbers DEF CommitsInOrder
<1>4. link # None => link.sha <= head
  BY Numbers DEF CommitsInOrder
<1> QED BY <1>1, <1>2, <1>3, <1>4, Numbers DEF CommitsInOrder

LEMMA OrderKept == ASSUME TypeOK, CommitsInOrder, [Next]_vars PROVE CommitsInOrder'
<1>1. CASE Opened
  <2> DEFINE head == IF events = 0 THEN 1 ELSE pr.head
  <2>1. pr' = [open |-> TRUE, head |-> head] /\ Happens("upsert", head)
    BY <1>1 DEF Opened
  <2>2. head \in Nat /\ pr.head <= head /\ head <= events + 1 /\ head > 0
    BY Numbers DEF CommitsInOrder
  <2> HIDE DEF head
  <2> QED BY <2>1, <2>2, OrderHappens
<1>2. CASE Pushed
  <2>1. pr'.head = events + 1 /\ Happens("upsert", events + 1)
    BY <1>2 DEF Pushed, TypeOK
  <2>2. events + 1 \in Nat /\ pr.head <= events + 1 /\ events + 1 > 0
    BY Numbers DEF CommitsInOrder
  <2> QED BY <2>1, <2>2, OrderHappens
<1>3. CASE Closed
  <2>1. pr'.head = pr.head /\ Happens("delete", pr.head)
    BY <1>3 DEF Closed, TypeOK
  <2>2. pr.head \in Nat /\ pr.head <= pr.head /\ pr.head <= events + 1 /\ pr.head > 0
    BY <1>3, Numbers DEF CommitsInOrder, Closed
  <2> QED BY <2>1, <2>2, OrderHappens
<1>4. CASE Lose \/ PanelDies \/ UNCHANGED vars
  BY <1>4 DEF Lose, PanelDies, Idle, vars, prVars, CommitsInOrder
<1>5. ASSUME NEW h \in Hooks, Receive(h) PROVE CommitsInOrder'
  <2>1. PICK d \in mail :
          /\ hook' = [hook EXCEPT ![h] = [Idle EXCEPT !.pc = "read", !.event = d]]
          /\ mail' \subseteq mail
    BY <1>5 DEF Receive
  <2>2. [Idle EXCEPT !.pc = "read", !.event = d].event = d
    BY DEF Idle
  <2>3. hook'[h].event = d /\ \A g \in Hooks \ {h} : hook'[g] = hook[g]
    BY <2>1, <2>2 DEF TypeOK
  <2> QED BY <1>5, <2>1, <2>3 DEF Receive, CommitsInOrder
<1>6. ASSUME NEW h \in Hooks, HookStep(h) PROVE CommitsInOrder'
  <2>1. UNCHANGED <<pr, events, mail>>
    BY <1>6 DEF HookStep, ReadForUpsert, Redeploy, NoteCommit, CreateService, FlagAsPreview, SetDomain,
       InsertPreview, FirstDeploy, SaveLink, ReadForDelete, RemovePreview, DeleteLink, prVars
  <2>2. \A g \in Hooks : hook'[g].pc # "idle" => hook'[g].event = hook[g].event /\ hook[g].pc # "idle"
    BY <1>6, Steps, OthersWait
  <2>3. link' # None => link'.sha = (IF link # None THEN link.sha ELSE 0) \/ link'.sha = hook[h].event.sha
    <3>1. CASE NoteCommit(h)
      BY <3>1 DEF NoteCommit, StillLinked, TypeOK, Link
    <3>2. CASE SaveLink(h)
      BY <3>2 DEF SaveLink, StillLinked, TypeOK, Link
    <3>3. CASE RemovePreview(h)
      BY <3>3 DEF RemovePreview, Gone, TypeOK, Link
    <3>4. CASE DeleteLink(h)
      BY <3>4 DEF DeleteLink
    <3> QED BY <1>6, <3>1, <3>2, <3>3, <3>4 DEF HookStep, ReadForUpsert, Redeploy, CreateService,
             FlagAsPreview, SetDomain, InsertPreview, FirstDeploy, ReadForDelete
  <2>5. hook[h].pc # "idle"
    BY <1>6 DEF HookStep, ReadForUpsert, Redeploy, NoteCommit, CreateService, FlagAsPreview, SetDomain,
       InsertPreview, FirstDeploy, SaveLink, ReadForDelete, RemovePreview, DeleteLink
  <2>6. link' # None => link'.sha = hook[h].event.sha \/ (link # None /\ link'.sha = link.sha)
    <3>1. link' # None /\ link = None => SaveLink(h)
      BY <1>6 DEF HookStep, ReadForUpsert, Redeploy, NoteCommit, StillLinked, CreateService, FlagAsPreview,
         SetDomain, InsertPreview, FirstDeploy, ReadForDelete, RemovePreview, Gone, DeleteLink
    <3>2. SaveLink(h) /\ link = None /\ link' # None => link'.sha = hook[h].event.sha
      BY DEF SaveLink, StillLinked
    <3> QED BY <2>3, <3>1, <3>2
  <2> QED BY <2>1, <2>2, <2>5, <2>6 DEF CommitsInOrder
<1>7. ASSUME NEW c \in Children, UserRemoves(c) \/ Expire(c) \/ Cleanup(c) \/ Build(c) \/ DeployEnds(c)
      PROVE  CommitsInOrder'
  <2>1. UNCHANGED <<pr, events, mail, hook>>
    BY <1>7 DEF UserRemoves, Expire, Cleanup, Build, DeployEnds, prVars
  <2>2. link' # None => link # None /\ link'.sha = link.sha
    BY <1>7 DEF UserRemoves, Expire, Cleanup, Build, DeployEnds, Gone, TypeOK, Link
  <2> QED BY <2>1, <2>2 DEF CommitsInOrder
<1> QED BY <1>1, <1>2, <1>3, <1>4, <1>5, <1>6, <1>7 DEF Next

\* A child that was asked for a build, and one whose build has commit n, or will.
Started(r)  == r.deploy # "none" \/ r.cloned > 0
Serves(r, n) == r.deploy = "queued" \/ r.cloned >= n

\* A child goes on: it gains no preview, loses its preview only with its service, and
\* serves what it served.
Kept(r, s) ==
  /\ r.used => s.used
  /\ s.preview => r.preview
  /\ s.service => r.service
  /\ r.preview /\ ~s.preview => ~s.service
  /\ ~s.preview => ~Started(s) \/ (~r.preview /\ Started(r))
  /\ s.preview => /\ \A n \in Commits : n <= pr.head /\ Serves(r, n) => Serves(s, n)
                  /\ Started(s) => Started(r) \/ s.deploy = "queued"

Steady == \A c \in Children : Kept(child[c], child'[c])

\* Builds come with a preview.  A request that deploys has its child to itself until the
\* preview is removed with its service.
Grown ==
  /\ \A c \in Children : /\ child[c].preview => child[c].used
                         /\ Started(child[c]) => child[c].preview
  /\ \A h \in Hooks : hook[h].pc \in {"deploy", "link"} =>
       child[hook[h].target].used /\ \A g \in Hooks : Fresh(g) => hook[g].target # hook[h].target
  /\ \A h \in Hooks : hook[h].pc = "deploy" /\ child[hook[h].target].service =>
       child[hook[h].target].preview

LEMMA KeptSame ==
  ASSUME NEW r, NEW s, s.used = r.used, s.preview = r.preview, s.service = r.service,
         s.deploy = r.deploy, s.cloned = r.cloned, r.preview \in BOOLEAN
  PROVE  Kept(r, s)
BY DEF Kept, Started, Serves

LEMMA KeptQueued ==
  ASSUME NEW r \in Child, r.preview PROVE Kept(r, [r EXCEPT !.deploy = "queued"])
BY DEF Kept, Child, Serves

LEMMA OneChild ==
  ASSUME TypeOK, NEW c \in Children, NEW s, child' = [child EXCEPT ![c] = s], Kept(child[c], s)
  PROVE  Steady
<1>1. \A d \in Children : child'[d] = IF d = c THEN s ELSE child[d]
  BY DEF TypeOK
<1>2. \A d \in Children : Kept(child[d], child[d])
  BY KeptSame DEF TypeOK, Child
<1> QED BY <1>1, <1>2 DEF Steady

LEMMA StillSteady == ASSUME TypeOK, UNCHANGED child PROVE Steady
BY KeptSame DEF Steady, TypeOK, Child

LEMMA GoneSteady == ASSUME TypeOK, NEW c \in Children, child[c].preview, Gone(c) PROVE Steady
<1> DEFINE s == [NoChild EXCEPT !.used = TRUE]
<1>1. s.used /\ ~s.preview /\ ~s.service /\ ~Started(s)
  BY DEF NoChild, Started
<1>2. child' = [child EXCEPT ![c] = s]
  BY DEF Gone
<1>3. Kept(child[c], s)
  <2> HIDE DEF s
  <2> QED BY <1>1 DEF Kept
<1> HIDE DEF s
<1> QED BY <1>2, <1>3, OneChild

LEMMA OuterSteady ==
  ASSUME TypeOK, Grown, NEW c \in Children,
         UserRemoves(c) \/ Expire(c) \/ Cleanup(c) \/ Build(c) \/ DeployEnds(c)
  PROVE  Steady
<1>0. child[c] \in Child /\ child[c].cloned \in Nat /\ pr.head \in Nat /\ Commits \subseteq Nat
  BY Numbers DEF TypeOK
<1>1. CASE UserRemoves(c) \/ Cleanup(c)
  BY <1>1, GoneSteady DEF UserRemoves, Cleanup, Due
<1>2. CASE Expire(c)
  <2> DEFINE s == [child[c] EXCEPT !.due = TRUE]
  <2>1. /\ s.used = child[c].used /\ s.preview = child[c].preview /\ s.service = child[c].service
        /\ s.deploy = child[c].deploy /\ s.cloned = child[c].cloned /\ child[c].preview \in BOOLEAN
    BY <1>0 DEF Child
  <2>2. child' = [child EXCEPT ![c] = s]
    BY <1>2 DEF Expire
  <2> HIDE DEF s
  <2> QED BY <2>1, <2>2, KeptSame, OneChild
<1>3. CASE Build(c)
  <2> DEFINE s == [child[c] EXCEPT !.deploy = "building", !.cloned = pr.head]
  <2>1. /\ s.used = child[c].used /\ s.preview = child[c].preview /\ s.service = child[c].service
        /\ s.deploy = "building" /\ s.cloned = pr.head
    BY <1>0 DEF Child
  <2>2. child' = [child EXCEPT ![c] = s] /\ child[c].deploy = "queued"
    BY <1>3 DEF Build
  <2>3. child[c].preview /\ Started(child[c])
    BY <2>2 DEF Grown, Started
  <2> HIDE DEF s
  <2>4. Kept(child[c], s)
    BY <1>0, <2>1, <2>3 DEF Kept, Serves
  <2> QED BY <2>2, <2>4, OneChild
<1>4. CASE DeployEnds(c)
  <2> DEFINE s == [child[c] EXCEPT !.deploy = "none"]
  <2>1. /\ s.used = child[c].used /\ s.preview = child[c].preview /\ s.service = child[c].service
        /\ s.deploy = "none" /\ s.cloned = child[c].cloned
    BY <1>0 DEF Child
  <2>2. child' = [child EXCEPT ![c] = s] /\ child[c].deploy = "building"
    BY <1>4 DEF DeployEnds
  <2>3. child[c].preview /\ Started(child[c])
    BY <2>2 DEF Grown, Started
  <2> HIDE DEF s
  <2>4. Kept(child[c], s)
    BY <2>1, <2>2, <2>3 DEF Kept, Serves
  <2> QED BY <2>2, <2>4, OneChild
<1> QED BY <1>1, <1>2, <1>3, <1>4

LEMMA HookSteady ==
  ASSUME TypeOK, Aimed, Grown, NEW h \in Hooks,
         Receive(h) \/ HookStep(h), ~CreateService(h), ~InsertPreview(h)
  PROVE  Steady
<1> DEFINE c == hook[h].target
<1>1. CASE Redeploy(h) \/ FirstDeploy(h)
  <2>1. CASE UNCHANGED child
    BY <2>1, StillSteady
  <2>2. CASE ~UNCHANGED child
    <3>1. c \in Children /\ child' = [child EXCEPT ![c].deploy = "queued"]
      BY <1>1, <2>2 DEF Redeploy, FirstDeploy, Aimed
    <3>2. child[c].preview
      BY <1>1, <2>2 DEF Redeploy, FirstDeploy, Grown
    <3>3. child[c] \in Child /\ child' = [child EXCEPT ![c] = [child[c] EXCEPT !.deploy = "queued"]]
      BY <3>1 DEF TypeOK
    <3> HIDE DEF c
    <3> QED BY <3>1, <3>2, <3>3, KeptQueued, OneChild
  <2> QED BY <2>1, <2>2
<1>2. CASE FlagAsPreview(h) \/ SetDomain(h)
  <2>1. CASE UNCHANGED child
    BY <2>1, StillSteady
  <2>2. CASE ~UNCHANGED child
    <3> DEFINE r == child[c]
    <3>1. c \in Children
      BY <1>2 DEF FlagAsPreview, SetDomain, Aimed
    <3>2. r \in Child
      BY <3>1 DEF TypeOK
    <3>3. PICK s \in {[r EXCEPT !.hidden = TRUE], [r EXCEPT !.host = TRUE]} :
            child' = [child EXCEPT ![c] = s]
      BY <1>2, <2>2 DEF FlagAsPreview, SetDomain, TypeOK
    <3>4. /\ s.used = r.used /\ s.preview = r.preview /\ s.service = r.service
          /\ s.deploy = r.deploy /\ s.cloned = r.cloned /\ r.preview \in BOOLEAN
      BY <3>2, <3>3 DEF Child
    <3>5. Kept(r, s)
      BY <3>4, KeptSame
    <3> HIDE DEF c
    <3> QED BY <3>1, <3>3, <3>5, OneChild
  <2> QED BY <2>1, <2>2
<1>3. CASE RemovePreview(h)
  <2>1. c \in Children \cup {None}
    BY DEF TypeOK, Hook
  <2>2. CASE UNCHANGED child
    BY <2>2, StillSteady
  <2>3. CASE ~UNCHANGED child
    BY <1>3, <2>1, <2>3, GoneSteady DEF RemovePreview
  <2> QED BY <2>2, <2>3
<1>4. CASE UNCHANGED child
  BY <1>4, StillSteady
<1> QED BY <1>1, <1>2, <1>3, <1>4 DEF HookStep, Receive, ReadForUpsert, NoteCommit, SaveLink,
           ReadForDelete, DeleteLink

LEMMA ReceiveIs == ASSUME TypeOK, NEW h \in Hooks, Receive(h)
                   PROVE  hook'[h].pc = "read" /\ UNCHANGED <<link, child>>
<1>1. \A d : [Idle EXCEPT !.pc = "read", !.event = d].pc = "read"
  BY DEF Idle
<1> QED BY <1>1 DEF Receive, TypeOK

LEMMA GrownSteady ==
  ASSUME TypeOK, Aimed, Grown, Steady,
         \A h \in Hooks :
           /\ hook'[h].pc \in {"deploy", "link"} =>
                /\ hook[h].pc \in {"deploy", "link"} /\ hook'[h].target = hook[h].target
                /\ hook'[h].pc = "deploy" => hook[h].pc = "deploy"
           /\ Fresh(h)' => Fresh(h) /\ hook'[h].target = hook[h].target
  PROVE  Grown'
<1>1. \A h \in Hooks : hook[h].pc \in {"deploy", "link"} => hook[h].target \in Children
  BY DEF Aimed
<1>2. \A c \in Children : /\ child'[c].preview => child'[c].used
                          /\ Started(child'[c]) => child'[c].preview
  BY DEF Grown, Steady, Kept
<1>3. \A h \in Hooks : hook'[h].pc \in {"deploy", "link"} =>
        child'[hook'[h].target].used /\ \A g \in Hooks : Fresh(g)' => hook'[g].target # hook'[h].target
  BY <1>1 DEF Grown, Steady, Kept
<1>4. \A h \in Hooks : hook'[h].pc = "deploy" /\ child'[hook'[h].target].service =>
        child'[hook'[h].target].preview
  BY <1>1 DEF Grown, Steady, Kept
<1> QED BY <1>2, <1>3, <1>4 DEF Grown, Started

\* A new child has no preview and no build.
LEMMA CreateBlank ==
  ASSUME TypeOK, NEW h \in Hooks, CreateService(h)
  PROVE  \/ \E d \in Children :
              /\ ~child[d].used /\ child'[d].used /\ ~child'[d].preview /\ ~Started(child'[d])
              /\ \A c \in Children \ {d} : child'[c] = child[c]
              /\ hook'[h].pc = "flag" /\ hook'[h].target = d
         \/ UNCHANGED child /\ hook'[h].pc = "idle"
<1> DEFINE d == CHOOSE e \in Unused : TRUE
           r == [hook[h] EXCEPT !.pc = "flag", !.target = d]
           k == [NoChild EXCEPT !.used = TRUE, !.service = TRUE]
<1>1. Unused # {} => d \in Children /\ ~child[d].used
  BY DEF Unused
<1>2. \/ Unused # {} /\ child' = [child EXCEPT ![d] = k] /\ hook' = [hook EXCEPT ![h] = r]
      \/ UNCHANGED child /\ hook' = [hook EXCEPT ![h] = Idle]
  BY DEF CreateService, Ends
<1>3. k.used /\ ~k.preview /\ ~Started(k) /\ Idle.pc = "idle"
  BY DEF NoChild, Idle, Started
<1> HIDE DEF d
<1>4. r.pc = "flag" /\ r.target = d
  BY DEF TypeOK, Hook
<1> HIDE DEF r, k
<1> QED BY <1>1, <1>2, <1>3, <1>4 DEF TypeOK

LEMMA InsertIs ==
  ASSUME TypeOK, Aimed, FreshApart, NEW h \in Hooks, InsertPreview(h)
  PROVE  /\ hook[h].pc = "row" /\ hook[h].target \in Children /\ Fresh(h)
         /\ hook'[h].pc = "deploy" /\ hook'[h].target = hook[h].target
         /\ ~child[hook[h].target].preview /\ child[hook[h].target].used
         /\ \A c \in Children :
              /\ child'[c].used = child[c].used /\ child'[c].service = child[c].service
              /\ child'[c].deploy = child[c].deploy /\ child'[c].cloned = child[c].cloned
              /\ child'[c].preview <=> child[c].preview \/ c = hook[h].target
<1> DEFINE d == hook[h].target
<1>1. hook[h].pc = "row" /\ d \in Children /\ Fresh(h) /\ ~child[d].preview /\ child[d].used
  BY DEF InsertPreview, Aimed, Fresh, FreshApart
<1>2. hook'[h].pc = "deploy" /\ hook'[h].target = d
  BY GotoIs DEF InsertPreview
<1>3. child' = [child EXCEPT ![d].preview = TRUE] /\ \A c \in Children : child[c] \in Child
  BY DEF InsertPreview, TypeOK
<1> HIDE DEF d
<1> QED BY <1>1, <1>2, <1>3 DEF Child, TypeOK, d

LEMMA GrownKept == ASSUME TypeOK, Aimed, FreshApart, Grown, [Next]_vars PROVE Grown'
<1>1. ASSUME UNCHANGED hook, Steady PROVE Grown'
  BY <1>1, GrownSteady DEF Fresh
<1>2. CASE PanelDies
  BY <1>2, StillSteady, GrownSteady DEF PanelDies, Idle, Fresh
<1>3. ASSUME NEW h \in Hooks, Receive(h) \/ HookStep(h), ~CreateService(h), ~InsertPreview(h)
      PROVE  Grown'
  <2>1. \A g \in Hooks \ {h} : hook'[g] = hook[g]
    BY <1>3, OthersWait
  <2>2. /\ hook'[h].pc \in {"deploy", "link"} =>
             /\ hook[h].pc \in {"deploy", "link"} /\ hook'[h].target = hook[h].target
             /\ hook'[h].pc = "deploy" => hook[h].pc = "deploy"
        /\ Fresh(h)' => Fresh(h) /\ hook'[h].target = hook[h].target
    <3>1. CASE Receive(h)
      BY <3>1, ReceiveIs DEF Fresh
    <3>2. CASE HookStep(h)
      <4>1. hook'[h].pc # "deploy"
        BY <1>3, <3>2, Steps DEF Gained
      <4>2. hook'[h].pc = "link" => FirstDeploy(h) /\ hook'[h].target = hook[h].target
        BY <3>2, Steps DEF Gained
      <4>3. FirstDeploy(h) => hook[h].pc = "deploy"
        BY DEF FirstDeploy
      <4>4. Fresh(h)' => Fresh(h) /\ hook'[h].target = hook[h].target
        BY <1>3, <3>2, Steps
      <4> QED BY <4>1, <4>2, <4>3, <4>4
    <3> QED BY <1>3, <3>1, <3>2
  <2>3. Steady
    BY <1>3, HookSteady
  <2> QED BY <2>1, <2>2, <2>3, GrownSteady DEF Fresh
<1>4. ASSUME NEW h \in Hooks, CreateService(h) PROVE Grown'
  <2>1. \A g \in Hooks \ {h} : hook'[g] = hook[g]
    BY <1>4, OthersWait DEF HookStep
  <2>2. CASE UNCHANGED child /\ hook'[h].pc = "idle"
    BY <2>1, <2>2, StillSteady, GrownSteady DEF Fresh
  <2>3. ASSUME NEW d \in Children,
               ~child[d].used, child'[d].used, ~child'[d].preview, ~Started(child'[d]),
               \A c \in Children \ {d} : child'[c] = child[c],
               hook'[h].pc = "flag", hook'[h].target = d
        PROVE  Grown'
    <3>1. \A g \in Hooks : hook'[g].pc \in {"deploy", "link"} =>
            g # h /\ hook'[g] = hook[g] /\ hook[g].target # d /\ hook[g].target \in Children
      BY <2>1, <2>3 DEF Grown, Aimed
    <3>2. \A g \in Hooks : Fresh(g)' => (Fresh(g) /\ hook'[g].target = hook[g].target) \/ hook'[g].target = d
      BY <2>1, <2>3 DEF Fresh
    <3> QED BY <2>3, <3>1, <3>2 DEF Grown
  <2> QED BY <1>4, <2>2, <2>3, CreateBlank
<1>5. ASSUME NEW h \in Hooks, InsertPreview(h) PROVE Grown'
  <2> DEFINE d == hook[h].target
  <2>1. \A g \in Hooks \ {h} : hook'[g] = hook[g]
    BY <1>5, OthersWait DEF HookStep
  <2>2. \A g \in Hooks : Fresh(g)' => g # h /\ Fresh(g) /\ hook'[g].target = hook[g].target /\ hook[g].target # d
    BY <1>5, <2>1, InsertIs DEF Fresh, FreshApart
  <2>3. \A g \in Hooks : hook'[g].pc \in {"deploy", "link"} =>
          hook'[g].target = hook[g].target /\ hook[g].target \in Children /\ (g # h => hook'[g] = hook[g])
    BY <1>5, <2>1, InsertIs DEF Aimed
  <2>4. \A c \in Children : /\ child'[c].preview => child'[c].used
                            /\ Started(child'[c]) => child'[c].preview
    BY <1>5, InsertIs DEF Grown, Started
  <2>5. \A g \in Hooks : hook'[g].pc \in {"deploy", "link"} =>
          child'[hook'[g].target].used /\ \A f \in Hooks : Fresh(f)' => hook'[f].target # hook'[g].target
    BY <1>5, <2>2, <2>3, InsertIs DEF Grown
  <2>6. \A g \in Hooks : hook'[g].pc = "deploy" /\ child'[hook'[g].target].service =>
          child'[hook'[g].target].preview
    BY <1>5, <2>3, InsertIs DEF Grown
  <2> QED BY <2>4, <2>5, <2>6 DEF Grown, Started
<1>6. CASE Opened \/ Pushed \/ Closed \/ Lose \/ UNCHANGED vars
  BY <1>1, <1>6, StillSteady DEF Opened, Pushed, Closed, Happens, Lose, vars
<1>7. ASSUME NEW c \in Children, UserRemoves(c) \/ Expire(c) \/ Cleanup(c) \/ Build(c) \/ DeployEnds(c)
      PROVE  Grown'
  BY <1>1, <1>7, OuterSteady, OuterCalm
<1> QED BY <1>2, <1>3, <1>4, <1>5, <1>6, <1>7 DEF Next

\* The link serves its commit; so will the link that a request is about to save or note.
LinkServed == link # None /\ link.preview # None =>
                child[link.preview].preview /\ Serves(child[link.preview], link.sha)

LinkWaits(h) == hook[h].pc = "link" /\ child[hook[h].target].preview =>
                  Serves(child[hook[h].target], hook[h].event.sha)

NoteWaits(h) == hook[h].pc = "note" => \A c \in Children :
                  child[c].preview /\ Started(child[c]) => Serves(child[c], hook[h].event.sha)

Linked == LinkServed /\ \A h \in Hooks : LinkWaits(h) /\ NoteWaits(h)

LinkStays == link' # None /\ link'.preview # None =>
               /\ link # None /\ link'.preview = link.preview /\ link'.sha = link.sha
               /\ child'[link.preview].preview

LEMMA ServedSteady ==
  ASSUME TypeOK, CommitsInOrder, LinkServed, Steady, LinkStays PROVE LinkServed'
<1> SUFFICES ASSUME link' # None, link'.preview # None
             PROVE  child'[link'.preview].preview /\ Serves(child'[link'.preview], link'.sha)
  BY DEF LinkServed, Serves
<1>1. /\ link # None /\ link'.preview = link.preview /\ link'.sha = link.sha
      /\ child'[link.preview].preview
  BY DEF LinkStays
<1>2. link.preview \in Children /\ link.sha \in Commits /\ link.sha <= pr.head
  BY <1>1, Numbers DEF TypeOK, Link, CommitsInOrder
<1>3. Serves(child[link.preview], link.sha)
  BY <1>1 DEF LinkServed
<1>4. Serves(child'[link.preview], link.sha)
  BY <1>1, <1>2, <1>3 DEF Steady, Kept
<1> QED BY <1>1, <1>4

LEMMA WaitSteady ==
  ASSUME TypeOK, Aimed, CommitsInOrder, Steady, NEW g \in Hooks, LinkWaits(g), NoteWaits(g),
         hook'[g] = hook[g]
  PROVE  LinkWaits(g)' /\ NoteWaits(g)'
<1> DEFINE n == hook[g].event.sha
<1>1. n \in Commits /\ Commits \subseteq Nat
  BY Numbers
<1>2. hook[g].pc # "idle" => n <= pr.head
  BY DEF CommitsInOrder
<1>3. ASSUME hook[g].pc = "link", child'[hook[g].target].preview
      PROVE  Serves(child'[hook[g].target], n)
  <2>1. hook[g].target \in Children
    BY <1>3 DEF Aimed
  <2>2. child[hook[g].target].preview /\ n <= pr.head
    BY <1>2, <1>3, <2>1 DEF Steady, Kept
  <2>3. Serves(child[hook[g].target], n)
    BY <1>3, <2>2 DEF LinkWaits
  <2> QED BY <1>1, <1>3, <2>1, <2>2, <2>3 DEF Steady, Kept
<1>4. ASSUME hook[g].pc = "note", NEW c \in Children, child'[c].preview, Started(child'[c])
      PROVE  Serves(child'[c], n)
  <2>1. child[c].preview /\ n <= pr.head /\ (Started(child[c]) \/ child'[c].deploy = "queued")
    BY <1>2, <1>4 DEF Steady, Kept
  <2>2. CASE child'[c].deploy = "queued"
    BY <2>2 DEF Serves
  <2>3. CASE Started(child[c])
    <3>1. Serves(child[c], n)
      BY <1>4, <2>1, <2>3 DEF NoteWaits
    <3> QED BY <1>1, <1>4, <2>1, <3>1 DEF Steady, Kept
  <2> QED BY <2>1, <2>2, <2>3
<1> QED BY <1>3, <1>4 DEF LinkWaits, NoteWaits, Serves, Started

LEMMA GoneLink == ASSUME TypeOK, NEW c \in Children, Gone(c), LinkServed PROVE LinkStays
<1>1. \A d \in Children \ {c} : child'[d] = child[d]
  BY DEF Gone, TypeOK
<1>2. CASE link # None /\ link.preview = c
  BY <1>2 DEF Gone, TypeOK, Link, LinkStays
<1>3. CASE ~(link # None /\ link.preview = c)
  BY <1>1, <1>3 DEF Gone, TypeOK, Link, LinkStays, LinkServed
<1> QED BY <1>2, <1>3

LEMMA EvenLink ==
  ASSUME TypeOK, LinkServed, UNCHANGED link, \A c \in Children : child'[c].preview = child[c].preview
  PROVE  LinkStays
BY DEF LinkStays, LinkServed, TypeOK, Link

\* What a request does to the link when its step leaves its child's preview alone.
LEMMA WriteServed ==
  ASSUME TypeOK, Aimed, CommitsInOrder, Linked, NEW h \in Hooks, NoteCommit(h) \/ SaveLink(h) \/ DeleteLink(h)
  PROVE  LinkServed'
<1> DEFINE c == hook[h].target
           n == hook[h].event.sha
<1>0. child' = child
  BY DEF NoteCommit, SaveLink, DeleteLink
<1>1. CASE UNCHANGED link
  BY <1>0, <1>1 DEF Linked, LinkServed, Serves
<1>2. CASE NoteCommit(h) /\ ~UNCHANGED link
  <2>1. /\ hook[h].pc = "note" /\ link # None
        /\ link'.preview = link.preview /\ link'.sha = n
    BY <1>2 DEF NoteCommit, StillLinked, TypeOK, Link
  <2> SUFFICES ASSUME link.preview # None
               PROVE  child[link.preview].preview /\ Serves(child[link.preview], n)
    BY <1>0, <2>1 DEF LinkServed, Serves
  <2>2. link.preview \in Children /\ child[link.preview].preview /\ Serves(child[link.preview], link.sha)
    BY <2>1 DEF Linked, LinkServed, TypeOK, Link
  <2>3. Started(child[link.preview])
    <3>1. link.sha \in Nat /\ child[link.preview].cloned \in Nat /\ 0 < link.sha
      BY <2>1, <2>2, Numbers DEF CommitsInOrder
    <3> QED BY <2>2, <3>1 DEF Serves, Started
  <2> QED BY <2>1, <2>2, <2>3 DEF Linked, NoteWaits
<1>3. CASE SaveLink(h) /\ ~UNCHANGED link
  <2>1. hook[h].pc = "link" /\ c \in Children /\ child[c].preview
    BY <1>3 DEF SaveLink, Aimed
  <2>2. link'.preview = c /\ link'.sha = n
    BY <1>3, <2>1 DEF SaveLink, StillLinked, TypeOK, Link
  <2>3. Serves(child[c], n)
    BY <2>1 DEF Linked, LinkWaits
  <2> QED BY <1>0, <2>1, <2>2, <2>3 DEF LinkServed, Serves
<1>4. CASE DeleteLink(h) /\ ~UNCHANGED link
  BY <1>4 DEF DeleteLink, LinkServed
<1> QED BY <1>1, <1>2, <1>3, <1>4

\* A request that has just asked for a build will see it: its child is queued, and with a
\* domain it is the only one with a preview.
LEMMA AskedServed ==
  ASSUME TypeOK, Aimed, HostFirst, HasDomain, NEW h \in Hooks, Redeploy(h) \/ FirstDeploy(h)
  PROVE  /\ \A c \in Children : child'[c].preview = child[c].preview
         /\ LinkWaits(h)' /\ NoteWaits(h)'
<1> DEFINE t == hook[h].target
<1>1. t \in Children /\ \A c \in Children : child[c] \in Child
  BY DEF Redeploy, FirstDeploy, Aimed, TypeOK
<1>2. UNCHANGED child \/ child' = [child EXCEPT ![t].deploy = "queued"]
  BY DEF Redeploy, FirstDeploy
<1>3. \A c \in Children : child'[c].preview = child[c].preview
  BY <1>1, <1>2 DEF TypeOK, Child
<1>4. hook'[h].pc \in {"link", "note"} =>
        hook'[h].target = t /\ child' = [child EXCEPT ![t].deploy = "queued"] /\ child'[t].deploy = "queued"
  <2>1. hook'[h].pc \in {"link", "note"} =>
          hook'[h].target = t /\ child' = [child EXCEPT ![t].deploy = "queued"]
    BY Steps DEF HookStep, Gained
  <2> QED BY <1>1, <2>1 DEF TypeOK, Child
<1>5. hook'[h].pc = "note" => child[t].preview
  BY Steps DEF HookStep, Gained
<1>6. \A c, d \in Children : child[c].preview /\ child[d].preview => c = d
  BY DEF HostFirst
<1>7. LinkWaits(h)'
  BY <1>4 DEF LinkWaits, Serves
<1>8. NoteWaits(h)'
  <2> SUFFICES ASSUME hook'[h].pc = "note", NEW c \in Children, child'[c].preview
               PROVE  child'[c].deploy = "queued"
    BY DEF NoteWaits, Serves, Started
  <2>1. c = t
    BY <1>1, <1>3, <1>5, <1>6
  <2> QED BY <1>4, <2>1
<1> QED BY <1>3, <1>7, <1>8

LEMMA HookLinked ==
  ASSUME TypeOK, Aimed, HostFirst, HasDomain, CommitsInOrder, Grown, Linked, NEW h \in Hooks,
         Receive(h) \/ HookStep(h), ~CreateService(h), ~InsertPreview(h)
  PROVE  Linked'
<1>1. Steady
  BY HookSteady
<1>2. \A g \in Hooks \ {h} : LinkWaits(g)' /\ NoteWaits(g)'
  BY <1>1, OthersWait, WaitSteady DEF Linked
<1>3. CASE Redeploy(h) \/ FirstDeploy(h)
  <2>1. UNCHANGED link
    BY <1>3 DEF Redeploy, FirstDeploy
  <2>2. LinkServed'
    BY <1>1, <1>3, <2>1, AskedServed, EvenLink, ServedSteady DEF Linked
  <2> QED BY <1>2, <1>3, <2>2, AskedServed DEF Linked
<1>4. CASE ~(Redeploy(h) \/ FirstDeploy(h))
  <2>1. hook'[h].pc \notin {"link", "note"}
    <3>1. CASE Receive(h)
      BY <3>1, ReceiveIs
    <3>2. CASE HookStep(h)
      BY <1>4, <3>2, Steps DEF Gained
    <3> QED BY <3>1, <3>2
  <2>2. LinkWaits(h)' /\ NoteWaits(h)'
    BY <2>1 DEF LinkWaits, NoteWaits
  <2>3. LinkServed'
    <3>1. CASE NoteCommit(h) \/ SaveLink(h) \/ DeleteLink(h)
      BY <3>1, WriteServed
    <3>2. CASE RemovePreview(h)
      <4>1. CASE hook[h].target # None /\ child[hook[h].target].preview
        <5>1. hook[h].target \in Children /\ Gone(hook[h].target)
          BY <3>2, <4>1 DEF RemovePreview, TypeOK, Hook
        <5> QED BY <1>1, <5>1, GoneLink, ServedSteady DEF Linked
      <4>2. CASE ~(hook[h].target # None /\ child[hook[h].target].preview)
        BY <1>1, <3>2, <4>2, EvenLink, ServedSteady DEF RemovePreview, Linked
      <4> QED BY <4>1, <4>2
    <3>3. CASE FlagAsPreview(h) \/ SetDomain(h)
      <4>1. \A c \in Children : child'[c].preview = child[c].preview
        BY <3>3 DEF FlagAsPreview, SetDomain, TypeOK, Child, Aimed
      <4> QED BY <1>1, <3>3, <4>1, EvenLink, ServedSteady DEF FlagAsPreview, SetDomain, Linked
    <3>4. CASE UNCHANGED <<link, child>>
      BY <1>1, <3>4, EvenLink, ServedSteady DEF Linked
    <3> QED BY <1>4, <3>1, <3>2, <3>3, <3>4 DEF HookStep, Receive, ReadForUpsert, ReadForDelete
  <2> QED BY <1>2, <2>2, <2>3 DEF Linked
<1> QED BY <1>3, <1>4

LEMMA NewLinked ==
  ASSUME TypeOK, Aimed, FreshApart, CommitsInOrder, Grown, Linked, NEW h \in Hooks,
         CreateService(h) \/ InsertPreview(h)
  PROVE  Linked'
<1>1. \A g \in Hooks \ {h} : hook'[g] = hook[g]
  BY OthersWait DEF HookStep
<1>2. UNCHANGED link /\ (link # None /\ link.preview # None => link.preview \in Children)
  BY DEF CreateService, InsertPreview, TypeOK, Link
<1>3. \A g \in Hooks : hook[g].pc = "link" => hook[g].target \in Children /\ child[hook[g].target].used
  BY DEF Grown, Aimed
<1>4. CASE InsertPreview(h)
  <2> DEFINE d == hook[h].target
  <2>1. Fresh(h) /\ hook'[h].pc = "deploy"
    BY <1>4, InsertIs
  <2>2. \A c \in Children : /\ child'[c].deploy = child[c].deploy /\ child'[c].cloned = child[c].cloned
                            /\ child'[c].preview <=> child[c].preview \/ c = d
    BY <1>4, InsertIs
  <2>3. \A g \in Hooks : hook[g].pc = "link" => hook[g].target # d
    BY <2>1 DEF Grown
  <2> HIDE DEF d
  <2>4. \A g \in Hooks : LinkWaits(g)'
    BY <1>1, <1>3, <2>1, <2>2, <2>3 DEF Linked, LinkWaits, Serves
  <2>5. \A g \in Hooks : NoteWaits(g)'
    <3> SUFFICES ASSUME NEW g \in Hooks, hook'[g].pc = "note", NEW c \in Children, Started(child'[c])
                 PROVE  Serves(child'[c], hook'[g].event.sha)
      BY DEF NoteWaits, Serves, Started
    <3>1. hook'[g] = hook[g]
      BY <1>1, <2>1
    <3>2. Started(child[c]) /\ child[c].preview
      BY <2>2 DEF Started, Grown
    <3>3. Serves(child[c], hook[g].event.sha)
      BY <3>1, <3>2 DEF Linked, NoteWaits
    <3> QED BY <2>2, <3>1, <3>3 DEF Serves
  <2>6. LinkServed'
    BY <1>2, <2>2 DEF Linked, LinkServed, Serves
  <2> QED BY <2>4, <2>5, <2>6 DEF Linked
<1>5. CASE CreateService(h)
  <2>1. CASE UNCHANGED child /\ hook'[h].pc = "idle"
    BY <1>1, <1>2, <2>1 DEF Linked, LinkServed, LinkWaits, NoteWaits, Serves, Started
  <2>2. ASSUME NEW d \in Children, ~child[d].used, ~child'[d].preview,
               \A c \in Children \ {d} : child'[c] = child[c],
               hook'[h].pc = "flag"
        PROVE  Linked'
    <3>1. \A g \in Hooks : LinkWaits(g)'
      BY <1>1, <1>3, <2>2 DEF Linked, LinkWaits, Serves
    <3>2. \A g \in Hooks : NoteWaits(g)'
      BY <1>1, <2>2 DEF Linked, NoteWaits, Serves, Started
    <3>3. LinkServed'
      BY <1>2, <2>2 DEF Linked, LinkServed, Serves, Grown
    <3> QED BY <3>1, <3>2, <3>3 DEF Linked
  <2> QED BY <1>5, <2>1, <2>2, CreateBlank
<1> QED BY <1>4, <1>5

LEMMA LinkedKept ==
  ASSUME HasDomain, TypeOK, Aimed, FreshApart, HostFirst, CommitsInOrder, Grown, Linked, [Next]_vars
  PROVE  Linked'
<1>1. ASSUME Steady, LinkStays, UNCHANGED hook PROVE Linked'
  BY <1>1, ServedSteady, WaitSteady DEF Linked
<1>2. CASE PanelDies
  BY <1>2 DEF PanelDies, Idle, Linked, LinkServed, LinkWaits, NoteWaits, Serves
<1>3. ASSUME NEW h \in Hooks, Receive(h) \/ HookStep(h) PROVE Linked'
  BY <1>3, HookLinked, NewLinked
<1>4. CASE Opened \/ Pushed \/ Closed \/ Lose \/ UNCHANGED vars
  <2>1. UNCHANGED <<hook, link, child>>
    BY <1>4 DEF Opened, Pushed, Closed, Happens, Lose, vars
  <2> QED BY <1>1, <2>1, StillSteady, EvenLink DEF Linked
<1>5. ASSUME NEW c \in Children, UserRemoves(c) \/ Expire(c) \/ Cleanup(c) \/ Build(c) \/ DeployEnds(c)
      PROVE  Linked'
  <2>1. Steady /\ UNCHANGED hook
    BY <1>5, OuterSteady, OuterCalm
  <2>2. CASE UserRemoves(c) \/ Cleanup(c)
    BY <1>1, <2>1, <2>2, GoneLink DEF UserRemoves, Cleanup, Linked
  <2>3. CASE Expire(c) \/ DeployEnds(c)
    <3>1. \A d \in Children : child'[d].preview = child[d].preview
      BY <2>3 DEF Expire, DeployEnds, TypeOK, Child
    <3> QED BY <1>1, <2>1, <2>3, <3>1, EvenLink DEF Expire, DeployEnds, Linked
  <2>4. CASE Build(c)
    <3> DEFINE k == [child[c] EXCEPT !.deploy = "building", !.cloned = pr.head]
    <3>1. k.preview = child[c].preview
      BY DEF TypeOK, Child
    <3>2. child' = [child EXCEPT ![c] = k] /\ UNCHANGED link
      BY <2>4 DEF Build
    <3> HIDE DEF k
    <3>3. \A d \in Children : child'[d].preview = child[d].preview
      BY <3>1, <3>2 DEF TypeOK
    <3> QED BY <1>1, <2>1, <3>2, <3>3, EvenLink DEF Linked
  <2> QED BY <1>5, <2>2, <2>3, <2>4
<1> QED BY <1>2, <1>3, <1>4, <1>5 DEF Next

\* The commit a link shows was built, or will be by a build already queued: in whatever order
\* events, redeploys, removals and new links of the pull request are handled.
THEOREM LinkedCommitBuilt == Spec => []CommitIsBuilt
<1> DEFINE Inv == /\ TypeOK /\ Aimed /\ FreshApart /\ HostFirst /\ CommitsInOrder /\ Grown
                  /\ HasDomain => Linked
<1>1. Init => Inv
  <2> SUFFICES ASSUME Init PROVE Inv
    OBVIOUS
  <2>1. TypeOK /\ Aimed /\ FreshApart /\ HostFirst
    BY PreviewInit DEF Init, FreshApart, HostFirst, Fresh, Idle, NoChild
  <2>2. CommitsInOrder
    BY DEF Init, CommitsInOrder, Idle
  <2>3. Grown
    BY DEF Init, Grown, Idle, NoChild, Started
  <2>4. Linked
    BY DEF Init, Linked, LinkServed, LinkWaits, NoteWaits, Idle
  <2> QED BY <2>1, <2>2, <2>3, <2>4
<1>2. Inv /\ [Next]_vars => Inv'
  <2> SUFFICES ASSUME Inv, [Next]_vars PROVE Inv'
    OBVIOUS
  <2>1. (TypeOK /\ Aimed /\ FreshApart /\ HostFirst)'
    BY TypesKept, AimedKept, FreshKept, HostKept
  <2>2. (CommitsInOrder /\ Grown)'
    BY OrderKept, GrownKept
  <2>3. HasDomain => Linked'
    BY LinkedKept
  <2> QED BY <2>1, <2>2, <2>3
<1>3. Inv => CommitIsBuilt
  BY DEF Linked, LinkServed, CommitIsBuilt, Serves
<1> QED BY <1>1, <1>2, <1>3, PTL DEF Spec
==============================================================================

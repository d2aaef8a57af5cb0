------------------------------ MODULE Previews ------------------------------
(***************************************************************************)
(* Preview environments of one pull request: the webhook handlers of       *)
(* git-webhook.service.ts with the statements of preview.service.ts they   *)
(* call, the cleanup worker, and the deploys of the child services as far  *)
(* as they decide which commit is built.                                   *)
(*                                                                         *)
(* The host delivers events in any order, loses or repeats them; several   *)
(* handlers run at once.  A panel that dies ends its handlers, while the   *)
(* deploys in the queue go on after its restart.                           *)
(***************************************************************************)
EXTENDS Naturals, FiniteSets

CONSTANTS
  Hooks,      \* slots for webhook requests in progress
  Children,   \* the child services that can be created: a bound
  None,       \* no link, no child
  HasDomain,  \* the parent has a domain
  MaxEvents,  \* bound: events of the pull request
  MaxFaults   \* bound: deliveries lost or repeated, deaths of the panel

ASSUME NoChildAssumption == None \notin Children
ASSUME DomainAssumption == HasDomain \in BOOLEAN
ASSUME PreviewBoundsAssumption == MaxEvents \in Nat /\ MaxFaults \in Nat

VARIABLES
  pr,      \* the pull request: open or not, and its newest commit
  events,  \* how many events it had
  mail,    \* deliveries on their way
  hook,    \* the webhook requests
  link,    \* the row of pr_preview_links
  child,   \* the child services with their preview row, domain and deploy
  faults   \* history: what the bound counts

prVars == <<pr, events, faults>>
vars == <<prVars, mail, hook, link, child>>

-----------------------------------------------------------------------------
Commits == 0..MaxEvents

Delivery == [no : Commits, action : {"upsert", "delete"}, sha : Commits]
NoEvent  == [no |-> 0, action |-> "upsert", sha |-> 0]

\* existing, target: the link a request found and the preview it works on.
Hook == [pc : {"idle", "read", "redeploy", "note", "create", "flag", "domain", "row",
               "deploy", "link", "remove", "unlink"},
         event : Delivery, existing : Children \cup {None}, target : Children \cup {None}]
Idle == [pc |-> "idle", event |-> NoEvent, existing |-> None, target |-> None]

\* A link is known by the child that was created with it.
Link == [id : Children, preview : Children \cup {None}, sha : Commits]

\* hidden: previewOf is set.  preview: the row of preview_environments.  cloned: the commit
\* of the last build.  The lock of a deploy is held while deploy is not "none".
Child == [used : BOOLEAN, service : BOOLEAN, hidden : BOOLEAN, host : BOOLEAN, preview : BOOLEAN,
          due : BOOLEAN, deploy : {"none", "queued", "building"}, cloned : Commits]
NoChild == [used |-> FALSE, service |-> FALSE, hidden |-> FALSE, host |-> FALSE,
            preview |-> FALSE, due |-> FALSE, deploy |-> "none", cloned |-> 0]

TypeOK ==
  /\ pr \in [open : BOOLEAN, head : Commits] /\ events \in Commits
  /\ mail \subseteq Delivery
  /\ hook \in [Hooks -> Hook]
  /\ link = None \/ link \in Link
  /\ child \in [Children -> Child]
  /\ faults \in 0..MaxFaults

Init ==
  /\ pr = [open |-> FALSE, head |-> 0] /\ events = 0
  /\ mail = {}
  /\ hook = [h \in Hooks |-> Idle]
  /\ link = None
  /\ child = [c \in Children |-> NoChild]
  /\ faults = 0

-----------------------------------------------------------------------------
(* The pull request and its deliveries.                                    *)

Fault == faults < MaxFaults /\ faults' = faults + 1

Happens(action, head) ==
  /\ events < MaxEvents
  /\ events' = events + 1
  /\ mail' = mail \cup {[no |-> events + 1, action |-> action, sha |-> head]}
  /\ UNCHANGED <<faults, hook, link, child>>

\* parseGithub and parseGitlab: opened and reopened, new commits, closed and merged.
Opened == LET head == IF events = 0 THEN 1 ELSE pr.head IN
  /\ ~pr.open
  /\ pr' = [open |-> TRUE, head |-> head]
  /\ Happens("upsert", head)

Pushed ==
  /\ pr.open
  /\ pr' = [pr EXCEPT !.head = events + 1]
  /\ Happens("upsert", events + 1)

Closed ==
  /\ pr.open
  /\ pr' = [pr EXCEPT !.open = FALSE]
  /\ Happens("delete", pr.head)

Goto(h, pc) == hook' = [hook EXCEPT ![h].pc = pc]

Ends(h) == hook' = [hook EXCEPT ![h] = Idle]

Receive(h) ==
  /\ hook[h].pc = "idle"
  /\ \E d \in mail :
       /\ hook' = [hook EXCEPT ![h] = [Idle EXCEPT !.pc = "read", !.event = d]]
       /\ \/ mail' = mail \ {d} /\ UNCHANGED faults
          \/ Fault /\ UNCHANGED mail
  /\ UNCHANGED <<pr, events, link, child>>

Lose ==
  /\ Fault
  /\ \E d \in mail : mail' = mail \ {d}
  /\ UNCHANGED <<pr, events, hook, link, child>>

-----------------------------------------------------------------------------
(* upsertPreview.  A statement that is refused ends the request where it is. *)

\* The link, its preview if that still exists (previewId is set to null with it), and the parent.
ReadForUpsert(h) ==
  LET found == link # None IN
  /\ hook[h].pc = "read" /\ hook[h].event.action = "upsert"
  /\ hook' = [hook EXCEPT ![h] =
       [@ EXCEPT !.pc       = IF found /\ link.preview # None THEN "redeploy" ELSE "create",
                 !.existing = IF found THEN link.id ELSE None,
                 !.target   = IF found THEN link.preview ELSE None]]
  /\ UNCHANGED <<prVars, mail, link, child>>

\* Mutant: a refused deploy is taken for a repeated one.
RefusedNoted(h) == Goto(h, "note")

\* Mutant: it is left for a retry that nobody makes.
RefusedWaits(h) == Goto(h, "retry")

\* The deploy lock is held: 409.
Refused(h) == Ends(h)

Redeploy(h) ==
  LET c == hook[h].target IN
  /\ hook[h].pc = "redeploy"
  /\ IF child[c].preview /\ child[c].deploy = "none"
     THEN child' = [child EXCEPT ![c].deploy = "queued"] /\ Goto(h, "note")
     ELSE UNCHANGED child /\ Refused(h)
  /\ UNCHANGED <<prVars, mail, link>>

\* Found again by its id: a link that was deleted and inserted anew is another row.
StillLinked(h) == link # None /\ link.id = hook[h].existing

NoteCommit(h) ==
  /\ hook[h].pc = "note"
  /\ link' = IF StillLinked(h) THEN [link EXCEPT !.sha = hook[h].event.sha] ELSE link
  /\ Ends(h)
  /\ UNCHANGED <<prVars, mail, child>>

Unused == {c \in Children : ~child[c].used}

\* services.create may refuse the clone, by the quota of the project for one.
CreateService(h) ==
  /\ hook[h].pc = "create"
  /\ \/ /\ Unused # {}
        /\ LET c == CHOOSE d \in Unused : TRUE IN
             /\ child' = [child EXCEPT ![c] = [NoChild EXCEPT !.used = TRUE, !.service = TRUE]]
             /\ hook' = [hook EXCEPT ![h] = [@ EXCEPT !.pc = "flag", !.target = c]]
     \/ UNCHANGED child /\ Ends(h)
  /\ UNCHANGED <<prVars, mail, link>>

FlagAsPreview(h) ==
  /\ hook[h].pc = "flag"
  /\ child' = [child EXCEPT ![hook[h].target].hidden = TRUE]
  /\ Goto(h, IF HasDomain THEN "domain" ELSE "row")
  /\ UNCHANGED <<prVars, mail, link>>

\* Mutant: hosts are not unique.
HostNeverTaken == FALSE

\* suggestHost makes one host of the branch, and domains.host is unique.
HostTaken == \E c \in Children : child[c].host

SetDomain(h) ==
  /\ hook[h].pc = "domain"
  /\ IF HostTaken
     THEN UNCHANGED child /\ Ends(h)
     ELSE child' = [child EXCEPT ![hook[h].target].host = TRUE] /\ Goto(h, "row")
  /\ UNCHANGED <<prVars, mail, link>>

InsertPreview(h) ==
  /\ hook[h].pc = "row"
  /\ child' = [child EXCEPT ![hook[h].target].preview = TRUE]
  /\ Goto(h, "deploy")
  /\ UNCHANGED <<prVars, mail, link>>

FirstDeploy(h) ==
  LET c == hook[h].target IN
  /\ hook[h].pc = "deploy"
  /\ IF child[c].service /\ child[c].deploy = "none"
     THEN child' = [child EXCEPT ![c].deploy = "queued"] /\ Goto(h, "link")
     ELSE UNCHANGED child /\ Ends(h)
  /\ UNCHANGED <<prVars, mail, link>>

\* The foreign key wants the preview to be there, and the pull request has one link.
SaveLink(h) ==
  LET c == hook[h].target  sha == hook[h].event.sha IN
  /\ hook[h].pc = "link"
  /\ link' = CASE ~child[c].preview -> link
               [] child[c].preview /\ StillLinked(h) -> [link EXCEPT !.preview = c, !.sha = sha]
               [] child[c].preview /\ link = None /\ hook[h].existing = None
                    -> [id |-> c, preview |-> c, sha |-> sha]
               [] OTHER -> link
  /\ Ends(h)
  /\ UNCHANGED <<prVars, mail, child>>

-----------------------------------------------------------------------------
(* destroyPreview, and the other ways a preview ends.                      *)

ReadForDelete(h) ==
  /\ hook[h].pc = "read" /\ hook[h].event.action = "delete"
  /\ IF link = None
     THEN Ends(h)
     ELSE hook' = [hook EXCEPT ![h] = [@ EXCEPT !.pc = "remove", !.existing = link.id,
                                                !.target = link.preview]]
  /\ UNCHANGED <<prVars, mail, link, child>>

\* services.remove: the row of the service goes, whatever the agent answers, and takes the
\* domain and the preview with it; the link loses its preview.
Gone(c) ==
  /\ child' = [child EXCEPT ![c] = [NoChild EXCEPT !.used = TRUE]]
  /\ link' = IF link # None /\ link.preview = c THEN [link EXCEPT !.preview = None] ELSE link

RemovePreview(h) ==
  LET c == hook[h].target IN
  /\ hook[h].pc = "remove"
  /\ IF c # None /\ child[c].preview THEN Gone(c) ELSE UNCHANGED <<child, link>>
  /\ Goto(h, "unlink")
  /\ UNCHANGED <<prVars, mail>>

DeleteLink(h) ==
  /\ hook[h].pc = "unlink"
  /\ link' = IF StillLinked(h) THEN None ELSE link
  /\ Ends(h)
  /\ UNCHANGED <<prVars, mail, child>>

UserRemoves(c) ==
  /\ child[c].preview
  /\ Gone(c)
  /\ UNCHANGED <<prVars, mail, hook>>

\* The time to live ends; nothing prolongs it.
Expire(c) ==
  /\ child[c].preview /\ ~child[c].due
  /\ child' = [child EXCEPT ![c].due = TRUE]
  /\ UNCHANGED <<prVars, mail, hook, link>>

\* Mutant: the worker looks for previews through their links.
DueLinked(c) == child[c].preview /\ child[c].due /\ link # None /\ link.preview = c

Due(c) == child[c].preview /\ child[c].due

\* cleanupExpired reads the rows first, but a row that is due stays due.
Cleanup(c) ==
  /\ Due(c)
  /\ Gone(c)
  /\ UNCHANGED <<prVars, mail, hook>>

-----------------------------------------------------------------------------
(* Deploys of the children, and the panel.                                 *)

\* The build clones the tip of the branch, whichever event asked for it.
Build(c) ==
  /\ child[c].deploy = "queued"
  /\ child' = [child EXCEPT ![c] = [@ EXCEPT !.deploy = "building", !.cloned = pr.head]]
  /\ UNCHANGED <<prVars, mail, hook, link>>

DeployEnds(c) ==
  /\ child[c].deploy = "building"
  /\ child' = [child EXCEPT ![c].deploy = "none"]
  /\ UNCHANGED <<prVars, mail, hook, link>>

PanelDies ==
  /\ Fault
  /\ hook' = [h \in Hooks |-> Idle]
  /\ UNCHANGED <<pr, events, mail, link, child>>

-----------------------------------------------------------------------------
HookStep(h) ==
  \/ ReadForUpsert(h) \/ Redeploy(h) \/ NoteCommit(h)
  \/ CreateService(h) \/ FlagAsPreview(h) \/ SetDomain(h) \/ InsertPreview(h) \/ FirstDeploy(h)
  \/ SaveLink(h)
  \/ ReadForDelete(h) \/ RemovePreview(h) \/ DeleteLink(h)

Next ==
  \/ Opened \/ Pushed \/ Closed \/ Lose \/ PanelDies
  \/ \E h \in Hooks : Receive(h) \/ HookStep(h)
  \/ \E c \in Children : UserRemoves(c) \/ Expire(c) \/ Cleanup(c) \/ Build(c) \/ DeployEnds(c)

Spec == Init /\ [][Next]_vars

\* Requests go on, time passes, and the worker is woken by its repeatable job.
FairSpec ==
  /\ Spec
  /\ \A h \in Hooks : WF_vars(HookStep(h))
  /\ \A c \in Children : WF_vars(Expire(c)) /\ WF_vars(Cleanup(c))

-----------------------------------------------------------------------------
(* Properties.                                                             *)

\* Two deliveries handled at once never leave two previews of the pull request, when the
\* parent has a domain: the second creation fails at the host the first one took.
OnePreview ==
  HasDomain => \A c, d \in Children : child[c].preview /\ child[d].preview => c = d

\* The commit the link shows is the one its preview was built from, an older one, or one
\* that a queued build will still clone, in whatever order events, redeploys, removals and
\* new links are handled.  It takes the domain: two previews at once could be linked the
\* wrong way round.
CommitIsBuilt ==
  HasDomain /\ link # None /\ link.preview # None =>
    \/ child[link.preview].deploy = "queued"
    \/ child[link.preview].cloned >= link.sha

\* Every preview ends, linked or not: it is "torn down manually or automatically once its
\* TTL lapses" (preview.service.ts:28-29).
PreviewsEnd == \A c \in Children : child[c].preview ~> ~child[c].preview
=============================================================================

--------------------------- MODULE SerialDeploys ---------------------------
(***************************************************************************)
(* What the deploy pipeline promises about the history of one service:     *)
(* deployments take turns, only the one whose turn it is changes its row   *)
(* or the release the service shows, and a row says SUCCESS only while     *)
(* the release it brought is the one that is shown.                        *)
(***************************************************************************)
CONSTANTS Deployments, Releases, Nobody

VARIABLES
  turn,     \* the deployment that is in progress, or Nobody
  status,   \* what the rows of the deployments say
  release,  \* what the row of the service shows
  shown     \* the deployment in progress has brought that release

serialVars == <<turn, status, release, shown>>

SerialInit ==
  /\ turn = Nobody
  /\ status = [d \in Deployments |-> "NONE"]
  /\ release \in Releases
  /\ shown = FALSE

Says(to) == turn # Nobody /\ status' = [status EXCEPT ![turn] = to]

Accept(d) ==
  /\ turn = Nobody /\ status[d] = "NONE"
  /\ turn' = d
  /\ UNCHANGED <<status, release, shown>>

Insert == Says("QUEUED") /\ status[turn] = "NONE" /\ UNCHANGED <<turn, release, shown>>

Advance == ~shown /\ (Says("BUILDING") \/ Says("DEPLOYING")) /\ UNCHANGED <<turn, release, shown>>

Publish ==
  /\ turn # Nobody /\ status[turn] = "DEPLOYING" /\ ~shown
  /\ release' \in Releases /\ shown' = TRUE
  /\ UNCHANGED <<turn, status>>

Succeed ==
  /\ shown /\ status[turn] = "DEPLOYING"
  /\ Says("SUCCESS") /\ shown' \in BOOLEAN
  /\ UNCHANGED <<turn, release>>

Fail == ~shown /\ Says("FAILED") /\ UNCHANGED <<turn, release, shown>>

\* The deployment has nothing more to say, or it is cut off and begins again.
Close == shown' = FALSE /\ UNCHANGED <<turn, status, release>>

End == turn' = Nobody /\ ~shown /\ UNCHANGED <<status, release, shown>>

\* The service is deleted, with its rows.
Delete ==
  /\ status' = [d \in Deployments |-> "NONE"] /\ shown' = FALSE
  /\ UNCHANGED <<turn, release>>

SerialNext ==
  \/ \E d \in Deployments : Accept(d)
  \/ Insert \/ Advance \/ Publish \/ Succeed \/ Fail \/ Close \/ End \/ Delete

Serial == SerialInit /\ [][SerialNext]_serialVars
=============================================================================

---------------------------- MODULE KeyRollover ----------------------------
(***************************************************************************)
(* What the rotation of a shared secret between two parties promises.  One *)
(* party presents the secret "presented", the other accepts a set of       *)
(* secrets; an empty set is a party that was never provisioned.  New       *)
(* secrets are accepted before they are presented, and an old one is       *)
(* dropped only when it is not presented any more.                         *)
(***************************************************************************)
CONSTANT Secrets

VARIABLES presented, accepted

kvars == <<presented, accepted>>

RolloverInit == presented \in Secrets /\ accepted \in {{}, {presented}}

\* Before the first secret is agreed on, the presenting party may choose again.
Provision ==
  /\ accepted = {}
  /\ \/ presented' \in Secrets /\ UNCHANGED accepted
     \/ accepted' = {presented} /\ UNCHANGED presented

\* A new secret is accepted besides the one in use; other pending ones are dropped.
Stage == \E s \in Secrets : presented \in accepted /\ accepted' = {presented, s} /\ UNCHANGED presented

Switch == presented' \in accepted /\ UNCHANGED accepted

Narrow == presented \in accepted' /\ accepted' \subseteq accepted /\ UNCHANGED presented

RolloverNext == Provision \/ Stage \/ Switch \/ Narrow

Rollover == RolloverInit /\ [][RolloverNext]_kvars

\* The parties never lose each other.
InTouch == accepted = {} \/ presented \in accepted
=============================================================================

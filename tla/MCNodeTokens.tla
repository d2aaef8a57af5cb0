---------------------------- MODULE MCNodeTokens ----------------------------
(* Instances of NodeTokens for TLC.                                        *)
EXTENDS NodeTokens, TLC

Up      == {"up"}
NewOrUp == {"new", "up"}
=============================================================================

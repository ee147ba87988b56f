------------------------- MODULE MCVotingExecution -------------------------
(***************************************************************************)
(* Instances of VotingExecution for TLC: one vote, made by n1.             *)
(***************************************************************************)
EXTENDS VotingExecution, TLC

CONSTANT n1 \* the proposer

Members == <<"members">>
Reshape == <<"reshape">>
AllEyes == <<Eye>>
ByFirst == <<n1>>

(* The others are alike. *)
Symmetry == Permutations(Node \ {n1})
=============================================================================

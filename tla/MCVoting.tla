----------------------------- MODULE MCVoting -----------------------------
(***************************************************************************)
(* Voting for TLC: either two members propose the same change and nobody   *)
(* restarts, or there is a single vote and a node restarts.                *)
(***************************************************************************)
EXTENDS Voting

CONSTANTS n1, n2

VARIABLE scenario

MCvars == <<vars, scenario>>

MCInit == Init /\ scenario \in {"rivals", "restart"}

Rivals == scenario = "rivals" /\ Next /\ restarts' = 0 /\ UNCHANGED scenario

Alone == /\ scenario = "restart"
         /\ Next
         /\ \A v, w \in proposed' : v = w
         /\ UNCHANGED scenario

MCNext == Rivals \/ Alone

(* The part of Fairness by which n2 learns what n1 knows.  In the first    *)
(* scenario the bound on what is in flight keeps it from being fair.       *)
LearnsFrom(n, p) ==
  /\ \A m \in Node : WF_vars(Index(m)) /\ WF_vars(Arrive(m))
  /\ SF_vars(Synchronize(n, p)) /\ SF_vars(AskHeard(n, p)) /\ WF_vars(RecordHeard(n, p))

MCSpec == MCInit /\ [][MCNext]_MCvars /\ LearnsFrom(n2, n1)

LoneApprovalSpreads == scenario = "restart" => SpreadsTo(n2, n1)
=============================================================================

---------------------------- MODULE VoteOutcome ----------------------------
(***************************************************************************)
(* What the execution of votes promises: the network decides at most one   *)
(* transaction for a vote, and every node that holds the vote for executed *)
(* holds that transaction for its execution, from then on.                 *)
(***************************************************************************)
CONSTANTS Node, Vote, Choice, None

VARIABLES
  decided,   \* decided[v]: the transaction that executes v for good
  learned    \* learned[n][v]: the transaction n has v executed by

vars == <<decided, learned>>

TypeOK == /\ decided \in [Vote -> Choice \cup {None}]
          /\ learned \in [Node -> [Vote -> Choice \cup {None}]]

Init == /\ decided = [v \in Vote |-> None]
        /\ learned = [n \in Node |-> [v \in Vote |-> None]]

(* The chain settles on the executions of some votes. *)
Decide == /\ decided' \in [Vote -> Choice \cup {None}]
          /\ \A v \in Vote : decided[v] # None => decided'[v] = decided[v]
          /\ UNCHANGED learned

(* A node takes over what was decided. *)
Learn(n, v) == /\ learned[n][v] = None
               /\ decided[v] # None
               /\ learned' = [learned EXCEPT ![n][v] = decided[v]]
               /\ UNCHANGED decided

Next == Decide \/ \E n \in Node, v \in Vote : Learn(n, v)

Spec == Init /\ [][Next]_vars
=============================================================================

------------------------------ MODULE MCStorm ------------------------------
(***************************************************************************)
(* Instances of Storm for TLC: node 1 is the host, 3 joins.                *)
(***************************************************************************)
EXTENDS Storm

(* A new network of all three; 3 in the place of 2. *)
Networks == {{}, {1, 3}}
Foundation == {{}}
OnceWhenFounding == [t \in Networks |-> IF t = {} THEN 1 ELSE 0]
=============================================================================

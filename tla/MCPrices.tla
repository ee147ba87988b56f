------------------------------ MODULE MCPrices ------------------------------
(* An instance of Prices in which the attester's clock is the faster one. *)
EXTENDS Prices
FirstAhead == [n \in Node |-> IF n = 1 THEN MaxSkew ELSE 0]
=============================================================================

------------------------------ MODULE MCLedger ------------------------------
(***************************************************************************)
(* Instances of Ledger for TLC.  Deposits d and e fund the Treasury, u and *)
(* v are exchanges of member 1 that spend e and return most of it, bad     *)
(* spends e without a marker and mig migrates the members.                 *)
(***************************************************************************)
EXTENDS Ledger

Outpoints == {"d", "e", "change", "rest"}

Values == [o \in Outpoints |-> IF o \in {"d", "e"} THEN 7 ELSE 5]

Inputs == [t \in Tx |-> IF t \in {"u", "v", "bad"} THEN {"e"} ELSE {}]

Outputs == [t \in Tx |-> CASE t = "d" -> {"d"}
                           [] t = "e" -> {"e"}
                           [] t = "u" -> {"change"}
                           [] t = "v" -> {"rest"}
                           [] OTHER -> {}]

Markers == [t \in Tx |-> IF t \in {"u", "v"} THEN 1 ELSE 0]

(* Deposit e belongs to member 2 alone. *)
Tags == [t \in Tx |-> IF t = "e" THEN 2 ELSE 0]
=============================================================================

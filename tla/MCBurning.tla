----------------------------- MODULE MCBurning -----------------------------
(***************************************************************************)
(* Instances of Burning for TLC.                                           *)
(***************************************************************************)
EXTENDS Burning

(* Items 1 and 2 were issued for one request. *)
SharedReserve == <<1, 1, 2>>
OwnReserve == <<1, 2>>
=============================================================================

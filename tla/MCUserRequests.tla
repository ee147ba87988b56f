--------------------------- MODULE MCUserRequests ---------------------------
(***************************************************************************)
(* Instances of UserRequests for TLC.  The first two requests may offer    *)
(* the same output, the third one the burn reserve of the first.           *)
(***************************************************************************)
EXTENDS UserRequests

CONSTANTS a, b, feed

SharedAndReserve == <<{a}, {a, b}, {1}>>
Separate == <<{a}, {b}>>
SecondPriced == <<None, feed, None>>
NonePriced == <<None, None>>
MixedSizes == <<1, 2, 1>>
UnitSizes == <<1, 1>>
=============================================================================

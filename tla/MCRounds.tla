------------------------------ MODULE MCRounds ------------------------------
(***************************************************************************)
(* Instances of Rounds for TLC.                                            *)
(***************************************************************************)
EXTENDS Rounds

(* Batches with the least fee, with more, in two coins, and too large ones. *)
Batch(owner, kinds, fees) == [owner |-> owner, kinds |-> kinds, fees |-> fees]

First == Batch(1, <<"tick">>, <<MinimumFee(1)>>)
Rich == Batch(2, <<"tick", "verifier">>, <<MinimumFee(1), MinimumFee(1) + 1>>)
Verified == Batch(1, <<"verifier">>, <<MinimumFee(1)>>)
Heavy == Batch(2, <<"verifier", "tick", "tick">>, <<MinimumFee(2), MinimumFee(1)>>)
Alone == Batch(2, <<"tick", "tick", "tick", "tick", "tick">>, <<MinimumFee(5)>>)
TooLarge == Batch(2, <<"tick", "tick", "tick", "tick", "tick">>,
                  <<MinimumFee(2), MinimumFee(2), MinimumFee(1), MinimumFee(1)>>)

Queue == {<<Rich>>, <<Verified>>, <<First, First>>, <<First, Rich>>, <<Rich, Verified>>,
          <<First, Heavy>>, <<TooLarge, Alone>>, <<First, First, Heavy>>}
=============================================================================

----------------------------- MODULE MCSigning -----------------------------
(***************************************************************************)
(* Signing for TLC in a network of three, whose branches are its pairs.    *)
(* Either a call is made twice over one link and may time out, or one call *)
(* races two branches, whose other signers hold different rates, before    *)
(* anything times out.                                                     *)
(***************************************************************************)
EXTENDS Signing, TLC

VARIABLE scenario

ThreeNodes == 1 .. 3

(* Node 1 signs the same content in every call. *)
SameCaller == [c \in Call |-> 1]
SameRequest == [c \in Call |-> "tx"]

(* Node 3 holds another rate than the requestor, node 2 the same. *)
OtherRate == [n \in Node |-> IF n = 3 THEN "other" ELSE "rate"]

PairLinks == {{1, 2}}
AllPairs == {{m, n} : m, n \in Node} \ {{n} : n \in Node}

(* Nothing tells the calls apart. *)
Symmetry == Permutations(Call)

MCInit == \/ scenario = "retry" /\ Init
          \/ scenario = "race" /\ Started(AllPairs)

Retry == scenario = "retry" /\ Next /\ UNCHANGED scenario

Race == /\ scenario = "race"
        /\ \/ \E c \in Call : CallStep(c)
           \/ \E n, m \in Node : Handle(n, m)
           \/ \E o \in sending : SendFromHandle(o)
        /\ \E c \in Call : calls'[c] = "idle"
        /\ UNCHANGED scenario

MCNext == Retry \/ Race

MCSpec == MCInit /\ [][MCNext]_<<vars, scenario>>
=============================================================================

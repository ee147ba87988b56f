-------------------------- MODULE MCSigningFaults --------------------------
(***************************************************************************)
(* An instance of Signing for TLC: one call over one link, which is lost,  *)
(* between nodes that refuse and restart.                                  *)
(***************************************************************************)
EXTENDS Signing

ThreeNodes == 1 .. 3
FirstNode == [c \in Call |-> 1]
OneContent == [c \in Call |-> "tx"]
OneRate == [n \in Node |-> "rate"]
OneLink == {{1, 2}}
=============================================================================

---------------------------- MODULE MCMessageTurn ----------------------------
(* Instances of MessageTurn for TLC. *)
EXTENDS MessageTurn, TLC

MCKey == [branch : Branch, model : Model]
MCSymmetry == Permutations(Request)
==============================================================================

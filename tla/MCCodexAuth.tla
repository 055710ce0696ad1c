----------------------------- MODULE MCCodexAuth -----------------------------
(* Two requests of the serving process, and the preflight of a second one. *)
EXTENDS CodexAuth, TLC

CONSTANTS c1, c2, c3

MCCall      == {c1, c2, c3}
MCKindOf    == [c \in MCCall |-> IF c = c3 THEN "start" ELSE "message"]
MCProcessOf == [c \in MCCall |-> IF c = c3 THEN "other" ELSE "serving"]

(* The two requests do the same. *)
MCSymmetry == Permutations({c1, c2})
=============================================================================

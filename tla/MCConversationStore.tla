-------------------------- MODULE MCConversationStore --------------------------
(* Small instances of ConversationStore. *)
EXTENDS ConversationStore, TLC

CONSTANTS p1, p2, t1, t2, t3, h1, h2

(* Two turns in the first process, the third in the second. *)
MCHome == (t1 :> p1) @@ (t2 :> p1) @@ (t3 :> p2)
(* Each of two turns in its own process. *)
MCHomeTwo == (t1 :> p1) @@ (t2 :> p2)

(* The same last user message with two tails, another conversation, and a     *)
(* request without text.                                                      *)
MCFingerprint ==
  { [lastUser |-> h1, tail |-> h1], [lastUser |-> h1, tail |-> h2] }
MCFingerprintOne == { [lastUser |-> h1, tail |-> h1] }
MCFingerprintAll == MCFingerprint \cup { [lastUser |-> None, tail |-> None] }

MCSymmetry == Permutations(Branch)
===============================================================================

----------------------------- MODULE ExclusiveTurn -----------------------------
(***************************************************************************)
(* What the main-turn lease promises, without saying how: for every        *)
(* transport identity the visible turns run one at a time, and only the    *)
(* turn whose turn it is can be committed, once.                           *)
(***************************************************************************)
CONSTANTS Key, Request, None

VARIABLES
  holder,     (* the request running a visible turn for each identity *)
  committed   (* the visible turns in the conversation store          *)

vars == <<holder, committed>>

Init ==
  /\ holder = [k \in Key |-> None]
  /\ committed = {}

Begin(k, r) ==
  /\ holder[k] = None
  /\ holder' = [holder EXCEPT ![k] = r]
  /\ UNCHANGED committed

CommitTurn(k, r) ==
  /\ holder[k] = r
  /\ r \notin committed
  /\ committed' = committed \cup {r}
  /\ UNCHANGED holder

End(k) ==
  /\ holder[k] # None
  /\ holder' = [holder EXCEPT ![k] = None]
  /\ UNCHANGED committed

(* A restart ends every turn at once. *)
Restart ==
  /\ holder' = [k \in Key |-> None]
  /\ UNCHANGED committed

Next ==
  \/ \E k \in Key, r \in Request : Begin(k, r) \/ CommitTurn(k, r)
  \/ \E k \in Key : End(k)
  \/ Restart

Spec == Init /\ [][Next]_vars
===============================================================================

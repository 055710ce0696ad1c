------------------------------ MODULE LeaseStore ------------------------------
(***************************************************************************)
(* MainTurnLeaseStore (gateway-http-anthropic/src/lib.rs): at most one     *)
(* main-turn lease per transport identity, in a map behind one mutex.      *)
(* Every method is a single atomic step, so each is an operator from one   *)
(* value of the map to the next.  The previous response id kept in a lease *)
(* is only echoed in the busy answer and is left out.                      *)
(***************************************************************************)

CONSTANTS
  Key,       (* transport identities: ConversationTransportIdentity::key   *)
  Request,   (* gateway request ids, minted fresh for each request         *)
  Chain,     (* WebSocket chain ids                                        *)
  None       (* an absent request id or chain id                           *)

ASSUME NoneAssumption == None \notin Request /\ None \notin Chain

(* MainTurnLeaseState *)
AbortStates ==
  { "client_aborted_before_first_event", "client_aborted_after_visible_output",
    "backend_failed_before_commit", "commit_suppressed_after_abort" }
LeaseState == {"in_flight", "completed_committed"} \cup AbortStates

(* Only an in-flight lease may commit. *)
AllowsCommit(state) == state = "in_flight"

(* The lease record, and the value of the map at a key that holds none. *)
Lease   == [requestID : Request, chain : Chain \cup {None}, state : LeaseState]
NoLease == [requestID |-> None, chain |-> None, state |-> "absent"]

LeaseMap == [Key -> Lease \cup {NoLease}]
NoLeases == [k \in Key |-> NoLease]

Busy(leases, k)    == leases[k] # NoLease
Owns(leases, k, r) == leases[k].requestID = r

(* acquire: callers guard it with ~Busy. *)
Acquired(leases, k, r) ==
  [leases EXCEPT ![k] = [requestID |-> r, chain |-> None, state |-> "in_flight"]]

(* release: drops the lease if it is still this request's.  The state that   *)
(* mark_state writes just before is gone with it; callers keep it as fate.   *)
Released(leases, k, r) ==
  IF Owns(leases, k, r) THEN [leases EXCEPT ![k] = NoLease] ELSE leases

(* promote_websocket_chain: nothing to record is a success. *)
Promotable(leases, k, r, chain) ==
  chain # None => Owns(leases, k, r) /\ AllowsCommit(leases[k].state)

Promoted(leases, k, r, chain) ==
  IF chain # None /\ Promotable(leases, k, r, chain)
  THEN [leases EXCEPT ![k].chain = chain]
  ELSE leases

(* validate_for_commit: the gate before a commit.  Both chains absent, or    *)
(* both present and equal; it changes nothing.                               *)
ValidForCommit(leases, k, r, chain) ==
  /\ Owns(leases, k, r)
  /\ AllowsCommit(leases[k].state)
  /\ leases[k].chain = chain
===============================================================================

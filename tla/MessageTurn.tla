------------------------------ MODULE MessageTurn ------------------------------
(***************************************************************************)
(* POST /v1/messages as gateway-http-anthropic/src/lib.rs runs it: many    *)
(* requests at once, each a future that selects a branch, decides the      *)
(* transport, takes the main-turn lease, calls the backend over a pooled   *)
(* WebSocket chain, relays the answer and commits the turn behind the      *)
(* lease gate.  A future can be dropped wherever it awaits: its            *)
(* MainTurnLeaseGuard then gives the lease back.                           *)
(*                                                                         *)
(* One action is one stretch of code between two points where another      *)
(* future can be seen: a mutex taken, an await, a call into the store.     *)
(* Requests without a Claude session take no lease and commit nothing;     *)
(* only requests with one are modelled, and they always use the pool.      *)
(***************************************************************************)
EXTENDS LeaseStore

CONSTANTS
  Branch,     (* conversation branches, of all Claude sessions  *)
  Model       (* resolved backend model and reasoning effort    *)

(* The identity of a visible main turn, and the key of the WebSocket session *)
(* of every request on that branch and model: an offshoot borrows the        *)
(* session of the visible conversation                                       *)
(* (websocket_transport_identity_for_branch).                                *)
ASSUME KeyAssumption   == Key \subseteq [branch : Branch, model : Model]
ASSUME ChainAssumption == Chain = Request  (* a chain is named by the request that opened it *)

VARIABLES
  pc,          (* where each request's future is                                    *)
  plan,        (* PreparedConversationBranch and MessageTransportSelection          *)
  leases,      (* MainTurnLeaseStore                                                *)
  live,        (* the live WebSocket chain of each session key                      *)
  served,      (* the chain that carries a request: response_websocket_chain_id     *)
  checkpoint,  (* openai_checkpoint.response_id of each branch on disk, named by    *)
               (* the request that the backend answered with it                     *)
  assoc,       (* OpenAiChainCheckpointStore: which chain produced a response       *)
  answer,      (* the backend's answer: open; completed with a response id; bare,   *)
               (* completed without one; failed                                     *)
  visible,     (* visible_output_sent                                               *)
  client,      (* connected, or gone                                                *)
  committed,   (* the turn, or the offshoot checkpoint, is in the conversation store*)
  fate         (* the state the request's lease ended in                            *)

turnVars  == <<pc, plan>>
chainVars == <<live, served, assoc>>
storeVars == <<checkpoint, committed>>
leaseVars == <<leases, fate>>
vars == <<turnVars, chainVars, storeVars, answer, visible, client, leaseVars>>

--------------------------------------------------------------------------------
Plan == [key : Key, main : BOOLEAN, stream : BOOLEAN,
         previous : Request \cup {None}, delta : BOOLEAN]
NoPlan == None

KeyOf(r)     == plan[r].key
IsMain(r)    == plan[r].main        (* should_acquire_visible_main_lease *)
IsStream(r)  == plan[r].stream
LiveChain(r) == live[KeyOf(r)]

Waiting   == {"sending", "dialing", "opening", "relaying", "draining"}
Committing == {"promote", "validate", "commit", "associate", "finish"}
Holding   == Waiting \cup Committing
Active    == Holding \cup {"selected", "planned"}
Finished  == {"refused", "done", "dead"}
Stage     == Active \cup Finished \cup {"new"}

Goto(r, stage) == pc' = [pc EXCEPT ![r] = stage]

(* release_with_state, on the lease of a visible turn; the guard does it at  *)
(* most once.                                                                *)
ReleaseLease(r, state) ==
  IF IsMain(r) /\ fate[r] = "none"
  THEN /\ leases' = Released(leases, KeyOf(r), r)
       /\ fate' = [fate EXCEPT ![r] = state]
  ELSE UNCHANGED leaseVars

(* Drop for MainTurnLeaseGuard *)
AbortState(r) ==
  IF visible[r] THEN "client_aborted_after_visible_output"
                ELSE "client_aborted_before_first_event"
DropGuard(r) == ReleaseLease(r, AbortState(r))

--------------------------------------------------------------------------------
Init ==
  /\ pc         = [r \in Request |-> "new"]
  /\ plan       = [r \in Request |-> NoPlan]
  /\ leases     = NoLeases
  /\ live       = [k \in Key |-> None]
  /\ served     = [r \in Request |-> None]
  /\ checkpoint = [b \in Branch |-> None]
  /\ assoc      = {}
  /\ answer     = [r \in Request |-> "open"]
  /\ visible    = [r \in Request |-> FALSE]
  /\ client     = [r \in Request |-> "connected"]
  /\ committed  = [r \in Request |-> FALSE]
  /\ fate       = [r \in Request |-> "none"]

--------------------------------------------------------------------------------
(* Before the backend call. *)

(* The checkpoints a visible turn may continue from: the head of the branch, *)
(* or after a rewind the one of an earlier turn.                             *)
Checkpoints(b) ==
  {s \in Request : committed[s] /\ IsMain(s) /\ answer[s] = "completed" /\ KeyOf(s).branch = b}

(* prepare_conversation_branch: a snapshot, read without the session lock.   *)
(* An offshoot needs a branch with a checkpoint to borrow its context from.  *)
SelectBranch(r) ==
  /\ pc[r] = "new"
  /\ \E k \in Key, main \in BOOLEAN, stream \in BOOLEAN, p \in Request \cup {None} :
       /\ IF main THEN p \in Checkpoints(k.branch) \cup {None}
                  ELSE p = checkpoint[k.branch] /\ p # None
       /\ plan' = [plan EXCEPT ![r] = [key |-> k, main |-> main, stream |-> stream,
                                       previous |-> p, delta |-> FALSE]]
  /\ Goto(r, "selected")
  /\ UNCHANGED <<chainVars, storeVars, answer, visible, client, leaseVars>>

(* The error returns before the lease is taken: no branch, a failed command, *)
(* no credentials, a request that cannot be translated, no transport; or the *)
(* future is dropped while a command runs.                                   *)
Refuse(r) ==
  /\ pc[r] \in {"new", "selected"}
  /\ Goto(r, "refused")
  /\ UNCHANGED <<plan, chainVars, storeVars, answer, visible, client, leaseVars>>

(* websocket_chain_decision_for_branch: the checkpoint is associated with    *)
(* the chain that is live now.  Associations are looked up under the         *)
(* identity of the visible conversation, so an offshoot's never count.       *)
ChainMatches(r) ==
  /\ plan[r].previous # None
  /\ LiveChain(r) # None
  /\ [key |-> KeyOf(r), main |-> TRUE, response |-> plan[r].previous,
      chain |-> LiveChain(r)] \in assoc

(* select_transport: a delta needs a matching chain, and full is chosen for  *)
(* other reasons too (drift, compaction, nothing to send).                   *)
SelectTransport(r) ==
  /\ pc[r] = "selected"
  /\ \E delta \in BOOLEAN :
       /\ delta => ChainMatches(r)
       /\ plan' = [plan EXCEPT ![r].delta = delta]
  /\ Goto(r, "planned")
  /\ UNCHANGED <<chainVars, storeVars, answer, visible, client, leaseVars>>

(* Mutant: the lease is taken without looking for one in flight. *)
AcquireLeaseUnchecked(r) ==
  /\ pc[r] = "planned"
  /\ IsMain(r)
  /\ Goto(r, "sending")
  /\ leases' = Acquired(leases, KeyOf(r), r)
  /\ UNCHANGED <<plan, fate, chainVars, storeVars, answer, visible, client>>

(* acquire_visible_main_lease: when it is busy the request is refused.       *)
AcquireLease(r) ==
  /\ pc[r] = "planned"
  /\ IsMain(r)
  /\ IF Busy(leases, KeyOf(r))
     THEN Goto(r, "refused") /\ UNCHANGED leases
     ELSE Goto(r, "sending") /\ leases' = Acquired(leases, KeyOf(r), r)
  /\ UNCHANGED <<plan, fate, chainVars, storeVars, answer, visible, client>>

SkipLease(r) ==
  /\ pc[r] = "planned"
  /\ ~IsMain(r)
  /\ Goto(r, "sending")
  /\ UNCHANGED <<plan, chainVars, storeVars, answer, visible, client, leaseVars>>

--------------------------------------------------------------------------------
(* The backend call: send_attempt of the pool, up to the first event of a    *)
(* stream or the whole answer of a unary call.                               *)

ReuseChain(r) ==
  /\ pc[r] = "sending"
  /\ LiveChain(r) # None
  /\ served' = [served EXCEPT ![r] = LiveChain(r)]
  /\ Goto(r, "opening")
  /\ UNCHANGED <<plan, live, assoc, storeVars, answer, visible, client, leaseVars>>

StartDial(r) ==
  /\ pc[r] = "sending"
  /\ LiveChain(r) = None
  /\ ~plan[r].delta
  /\ Goto(r, "dialing")
  /\ UNCHANGED <<plan, chainVars, storeVars, answer, visible, client, leaseVars>>

(* The dial awaits outside the pool's mutex: two dials of one key may be     *)
(* under way and the pool keeps the last.                                    *)
DialDone(r) ==
  /\ pc[r] = "dialing"
  /\ served' = [served EXCEPT ![r] = r]
  /\ live'   = [live EXCEPT ![KeyOf(r)] = r]
  /\ Goto(r, "opening")
  /\ UNCHANGED <<plan, assoc, storeVars, answer, visible, client, leaseVars>>

(* Mutant: the error return does not drop the guard. *)
SendFailsHoldingLease(r) ==
  /\ pc[r] \in {"sending", "dialing", "opening"}
  /\ answer' = [answer EXCEPT ![r] = "failed"]
  /\ Goto(r, "done")
  /\ UNCHANGED <<plan, chainVars, storeVars, visible, client, leaseVars>>

(* Any error before a stream opens or a unary answer is complete.  A unary   *)
(* call releases the lease as failed; the streaming path returns with `?`    *)
(* and leaves it to the guard.  A rejected delta evicts the session.         *)
SendFails(r) ==
  /\ pc[r] \in {"sending", "dialing", "opening"}
  /\ answer' = [answer EXCEPT ![r] = "failed"]
  /\ IF IsStream(r) THEN DropGuard(r) ELSE ReleaseLease(r, "backend_failed_before_commit")
  /\ live' \in {live} \cup (IF plan[r].delta THEN {[live EXCEPT ![KeyOf(r)] = None]} ELSE {})
  /\ Goto(r, "done")
  /\ UNCHANGED <<plan, served, assoc, storeVars, visible, client>>

StreamOpens(r) ==
  /\ pc[r] = "opening"
  /\ IsStream(r)
  /\ Goto(r, "promote")
  /\ UNCHANGED <<plan, chainVars, storeVars, answer, visible, client, leaseVars>>

UnaryAnswered(r) ==
  /\ pc[r] = "opening"
  /\ ~IsStream(r)
  /\ \E a \in {"completed", "bare"} : answer' = [answer EXCEPT ![r] = a]
  /\ Goto(r, "promote")
  /\ UNCHANGED <<plan, chainVars, storeVars, visible, client, leaseVars>>

(* promote_unary_websocket_chain, promote_stream_websocket_chain *)
PromoteChain(r) ==
  /\ pc[r] = "promote"
  /\ IF IsMain(r) => Promotable(leases, KeyOf(r), r, served[r])
     THEN /\ leases' = IF IsMain(r) THEN Promoted(leases, KeyOf(r), r, served[r]) ELSE leases
          /\ Goto(r, IF IsStream(r) THEN "relaying" ELSE "validate")
          /\ UNCHANGED fate
     ELSE DropGuard(r) /\ Goto(r, "done")
  /\ UNCHANGED <<plan, chainVars, storeVars, answer, visible, client>>

--------------------------------------------------------------------------------
(* backend_events_to_anthropic_events, polled by the server. *)

(* An event that maps to something for the client. *)
RelayEvent(r) ==
  /\ pc[r] = "relaying"
  /\ ~visible[r]
  /\ visible' = [visible EXCEPT ![r] = TRUE]
  /\ UNCHANGED <<turnVars, chainVars, storeVars, answer, client, leaseVars>>

(* response.completed, with a response id or without. *)
StreamCompletes(r) ==
  /\ pc[r] = "relaying"
  /\ \E a \in {"completed", "bare"} : answer' = [answer EXCEPT ![r] = a]
  /\ visible' = [visible EXCEPT ![r] = TRUE]
  /\ Goto(r, "validate")
  /\ UNCHANGED <<plan, chainVars, storeVars, client, leaseVars>>

(* response.failed or error: an event like any other for the lease. *)
StreamFails(r) ==
  /\ pc[r] = "relaying"
  /\ answer' = [answer EXCEPT ![r] = "failed"]
  /\ visible' = [visible EXCEPT ![r] = TRUE]
  /\ Goto(r, "draining")
  /\ UNCHANGED <<plan, chainVars, storeVars, client, leaseVars>>

(* An Err item: mark_stream_backend_failure_before_commit. *)
StreamBreaks(r) ==
  /\ pc[r] = "relaying"
  /\ answer' = [answer EXCEPT ![r] = "failed"]
  /\ ReleaseLease(r, "backend_failed_before_commit")
  /\ Goto(r, "draining")
  /\ UNCHANGED <<plan, chainVars, storeVars, visible, client>>

(* The body is finished, or the backend's channel ended without a terminal   *)
(* event: the stream is dropped, and with it the guard.                      *)
StreamEnds(r) ==
  /\ pc[r] \in {"relaying", "draining"}
  /\ DropGuard(r)
  /\ Goto(r, "done")
  /\ UNCHANGED <<plan, chainVars, storeVars, answer, visible, client>>

--------------------------------------------------------------------------------
(* commit_unary_result and maybe_commit_stream_completion: no await from the *)
(* gate to the release, so the future cannot be dropped there.               *)

(* Mutant: the lease is given back before commit_turn instead of after it. *)
ValidateReleasesFirst(r) ==
  /\ pc[r] = "validate"
  /\ ReleaseLease(r, "completed_committed")
  /\ Goto(r, "commit")
  /\ UNCHANGED <<plan, chainVars, storeVars, answer, visible, client>>

Validate(r) ==
  /\ pc[r] = "validate"
  /\ IF IsMain(r) => ValidForCommit(leases, KeyOf(r), r, served[r])
     THEN Goto(r, "commit") /\ UNCHANGED leaseVars
     ELSE /\ ReleaseLease(r, IF IsStream(r) THEN "commit_suppressed_after_abort"
                                            ELSE "backend_failed_before_commit")
          /\ Goto(r, IF IsStream(r) THEN "draining" ELSE "done")
  /\ UNCHANGED <<plan, chainVars, storeVars, answer, visible, client>>

(* After commit_turn: a completed stream without a response id, or one whose *)
(* commit failed, keeps its lease until the stream is dropped.               *)
AfterCommit(r, done) ==
  IF done /\ answer[r] = "completed" THEN "associate"
  ELSE IF IsStream(r) THEN "draining" ELSE "finish"

(* Without a response id the turn is stored but the checkpoint stays.        *)
CommitMain(r) ==
  /\ pc[r] = "commit"
  /\ IsMain(r)
  /\ \/ /\ committed'  = [committed EXCEPT ![r] = TRUE]
        /\ checkpoint' = IF answer[r] = "completed"
                         THEN [checkpoint EXCEPT ![KeyOf(r).branch] = r]
                         ELSE checkpoint
        /\ Goto(r, AfterCommit(r, TRUE))
     \/ /\ Goto(r, AfterCommit(r, FALSE))
        /\ UNCHANGED storeVars
  /\ UNCHANGED <<plan, chainVars, answer, visible, client, leaseVars>>

(* Mutant: the chain is looked up again instead of the one that answered. *)
AssociateLive(r) ==
  /\ pc[r] = "associate"
  /\ assoc' = {a \in assoc : a.response # r}
                \cup {[key |-> KeyOf(r), main |-> IsMain(r), response |-> r, chain |-> LiveChain(r)]}
  /\ Goto(r, "finish")
  /\ UNCHANGED <<plan, live, served, storeVars, answer, visible, client, leaseVars>>

(* OpenAiChainCheckpointStore::associate, under the identity of the request. *)
Associate(r) ==
  /\ pc[r] = "associate"
  /\ assoc' = {a \in assoc : a.response # r}
                \cup {[key |-> KeyOf(r), main |-> IsMain(r), response |-> r, chain |-> served[r]]}
  /\ Goto(r, "finish")
  /\ UNCHANGED <<plan, live, served, storeVars, answer, visible, client, leaseVars>>

(* record_offshoot_checkpoint associates first and then stores; it needs a   *)
(* response id, and a failed store is only logged.                           *)
OffshootAnswered(r) ==
  /\ pc[r] = "commit"
  /\ ~IsMain(r)
  /\ Goto(r, IF answer[r] = "completed" THEN "associate"
             ELSE IF IsStream(r) THEN "draining" ELSE "done")
  /\ UNCHANGED <<plan, chainVars, storeVars, answer, visible, client, leaseVars>>

(* Mutant: an offshoot's response becomes the head of the branch. *)
CommitOffshootAsHead(r) ==
  /\ pc[r] = "finish"
  /\ ~IsMain(r)
  /\ committed' = [committed EXCEPT ![r] = TRUE]
  /\ checkpoint' = [checkpoint EXCEPT ![KeyOf(r).branch] = r]
  /\ Goto(r, IF IsStream(r) THEN "draining" ELSE "done")
  /\ UNCHANGED <<plan, chainVars, answer, visible, client, leaseVars>>

CommitOffshoot(r) ==
  /\ pc[r] = "finish"
  /\ ~IsMain(r)
  /\ committed' \in {committed, [committed EXCEPT ![r] = TRUE]}
  /\ Goto(r, IF IsStream(r) THEN "draining" ELSE "done")
  /\ UNCHANGED <<plan, checkpoint, chainVars, answer, visible, client, leaseVars>>

(* Mutant: a committed stream leaves its release to the guard. *)
FinishTurnForgets(r) ==
  /\ pc[r] = "finish"
  /\ IsMain(r)
  /\ IF IsStream(r) THEN UNCHANGED leaseVars ELSE ReleaseLease(r, "completed_committed")
  /\ Goto(r, IF IsStream(r) THEN "draining" ELSE "done")
  /\ UNCHANGED <<plan, chainVars, storeVars, answer, visible, client>>

(* release_unary_lease and the end of record_stream_checkpoint_commit. *)
FinishTurn(r) ==
  /\ pc[r] = "finish"
  /\ IsMain(r)
  /\ ReleaseLease(r, IF committed[r] THEN "completed_committed"
                                     ELSE "backend_failed_before_commit")
  /\ Goto(r, IF IsStream(r) THEN "draining" ELSE "done")
  /\ UNCHANGED <<plan, chainVars, storeVars, answer, visible, client>>

--------------------------------------------------------------------------------
(* The client, the server, the pool and the process. *)

ClientDisconnects(r) ==
  /\ pc[r] \in Active
  /\ client[r] = "connected"
  /\ client' = [client EXCEPT ![r] = "gone"]
  /\ UNCHANGED <<turnVars, chainVars, storeVars, answer, visible, leaseVars>>

(* Mutant: the guard has no Drop. *)
DropRequestKeepsLease(r) ==
  /\ pc[r] \in Waiting
  /\ client[r] = "gone"
  /\ Goto(r, "done")
  /\ UNCHANGED <<plan, chainVars, storeVars, answer, visible, client, leaseVars>>

(* The server notices that the client is gone and drops the future at the    *)
(* await where it is.                                                        *)
DropRequest(r) ==
  /\ pc[r] \in Waiting
  /\ client[r] = "gone"
  /\ DropGuard(r)
  /\ Goto(r, "done")
  /\ UNCHANGED <<plan, chainVars, storeVars, answer, visible, client>>

(* The socket closes, or the pool evicts the session of a broken stream. *)
ChainDies(k) ==
  /\ live[k] # None
  /\ live' = [live EXCEPT ![k] = None]
  /\ UNCHANGED <<turnVars, served, assoc, storeVars, answer, visible, client, leaseVars>>

(* The process dies and is started again: leases, chains and associations    *)
(* are in memory only, the conversation store is on disk.                    *)
Crash ==
  /\ \E r \in Request : pc[r] \in Active
  /\ pc'     = [r \in Request |-> IF pc[r] \in Active THEN "dead" ELSE pc[r]]
  /\ leases' = NoLeases
  /\ live'   = [k \in Key |-> None]
  /\ assoc'  = {}
  /\ UNCHANGED <<plan, served, storeVars, answer, visible, client, fate>>

--------------------------------------------------------------------------------
Prepare(r) ==
  SelectBranch(r) \/ Refuse(r) \/ SelectTransport(r) \/ AcquireLease(r) \/ SkipLease(r)
Send(r)   == ReuseChain(r) \/ StartDial(r) \/ DialDone(r) \/ SendFails(r)
Open(r)   == StreamOpens(r) \/ UnaryAnswered(r)
Relay(r)  ==
  RelayEvent(r) \/ StreamCompletes(r) \/ StreamFails(r) \/ StreamBreaks(r) \/ StreamEnds(r)
Commit(r) ==
  \/ PromoteChain(r) \/ Validate(r) \/ CommitMain(r) \/ Associate(r)
  \/ OffshootAnswered(r) \/ CommitOffshoot(r) \/ FinishTurn(r)
Step(r) ==
  Prepare(r) \/ Send(r) \/ Open(r) \/ Relay(r) \/ Commit(r) \/ ClientDisconnects(r) \/ DropRequest(r)

AllFinished == (\A r \in Request : pc[r] \in Finished) /\ UNCHANGED vars

Next ==
  \/ \E r \in Request : Step(r)
  \/ \E k \in Key : ChainDies(k)
  \/ Crash
  \/ AllFinished

Spec == Init /\ [][Next]_vars

(***************************************************************************)
(* Fairness.  The runtime polls every future that can take a step.  A      *)
(* request that awaits the backend or the client is not waited for alone:  *)
(* either the awaited thing happens, or the client gives up and the server *)
(* drops the future.  No timeout of the gateway covers a WebSocket answer, *)
(* so nothing weaker is enough.                                            *)
(***************************************************************************)
NoWaitIsForEver ==
  \A r \in Request :
    /\ WF_vars(SelectTransport(r) \/ Refuse(r) \/ AcquireLease(r) \/ SkipLease(r))
    /\ WF_vars(Send(r) \/ Open(r) \/ Relay(r) \/ DropRequest(r))
    /\ WF_vars(Commit(r))

FairSpec == Spec /\ NoWaitIsForEver

--------------------------------------------------------------------------------
(* Properties *)

(* Every variable has its type; a turn that runs has a plan and one that has *)
(* opened its answer names the chain that serves it.                         *)
TypeOK ==
  /\ pc \in [Request -> Stage]
  /\ plan \in [Request -> Plan \cup {NoPlan}]
  /\ \A r \in Request : pc[r] \in Active => plan[r] \in Plan
  /\ leases \in LeaseMap
  /\ live \in [Key -> Chain \cup {None}]
  /\ served \in [Request -> Chain \cup {None}]
  /\ \A r \in Request : pc[r] \in Committing \cup {"opening", "relaying"} => served[r] \in Chain
  /\ checkpoint \in [Branch -> Request \cup {None}]
  /\ assoc \subseteq [key : Key, main : BOOLEAN, response : Request, chain : Chain]
  /\ answer \in [Request -> {"open", "completed", "bare", "failed"}]
  /\ visible \in [Request -> BOOLEAN]
  /\ client \in [Request -> {"connected", "gone"}]
  /\ committed \in [Request -> BOOLEAN]
  /\ fate \in [Request -> LeaseState \cup {"none"}]

(* A visible turn from acquire_visible_main_lease to its release owns the    *)
(* lease of its identity, in flight, and a lease in the map belongs to such  *)
(* a turn: none is stolen, doubled or left behind, wherever the future is    *)
(* dropped (MainTurnLeaseStore and MainTurnLeaseGuard).                      *)
HoldsLease(r) == pc[r] \in Holding /\ IsMain(r) /\ fate[r] = "none"
LeaseMatchesHolder ==
  /\ \A r \in Request : HoldsLease(r) =>
       Owns(leases, KeyOf(r), r) /\ leases[KeyOf(r)].state = "in_flight"
  /\ \A k \in Key : Busy(leases, k) =>
       \E r \in Request : Owns(leases, k, r) /\ HoldsLease(r) /\ KeyOf(r) = k

(* A turn whose lease ended in an abort or failure state is not in the       *)
(* conversation store, unless the backend completed it without a response    *)
(* id: release_with_state, Drop and commit_turn agree on what happened.      *)
AbortedLeaseNeverCommits ==
  \A r \in Request : fate[r] \in AbortStates /\ committed[r] => answer[r] = "bare"

(* The registry links a response to the chain that carried it, although      *)
(* other requests open, lose and replace the live chain of the key meanwhile *)
(* (associate is given response_websocket_chain_id).                         *)
AssociationIsTruthful == \A a \in assoc : a.chain = served[a.response]

(* The head of a branch is the response of a committed visible turn of that  *)
(* branch: an offshoot's response never becomes the parent of the next       *)
(* visible message (record_offshoot_checkpoint, commit_turn).                *)
HeadIsVisible ==
  \A b \in Branch : checkpoint[b] # None => checkpoint[b] \in Checkpoints(b)

(* Every lease is free again and again: no path of a turn ends without       *)
(* releasing it, however client and backend fail.                            *)
LeaseAlwaysFreedAgain == \A k \in Key : []<>(~Busy(leases, k))

(* A turn that became the head of its branch ends its lease as committed,    *)
(* or dies with the process: its client never reads it as aborted            *)
(* (record_stream_checkpoint_commit, release_unary_lease).                   *)
CommittedTurnEndsCommitted ==
  \A r \in Request :
    (committed[r] /\ answer[r] = "completed" /\ IsMain(r))
      ~> (fate[r] = "completed_committed" \/ pc[r] = "dead")

(* The lease as the rest of the system may think of it. *)
Exclusive == INSTANCE ExclusiveTurn WITH
  holder    <- [k \in Key |-> leases[k].requestID],
  committed <- {r \in Request : committed[r] /\ IsMain(r)}
ImplementsExclusiveTurn == Exclusive!Spec

(* Statement of the design document that the code does not keep              *)

(* "Gateway must not send the stored checkpoint as previous_response_id"     *)
(* when the live chain is not the one its response is associated with        *)
(* (conversation-state-management.mdx:87-100): a delta leaves on the chain   *)
(* of its checkpoint.                                                        *)
DeltaOnAssociatedChain ==
  \A r \in Request :
    plan[r] # NoPlan /\ plan[r].delta /\ served[r] # None => served[r] = served[plan[r].previous]
===============================================================================

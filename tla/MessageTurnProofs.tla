--------------------------- MODULE MessageTurnProofs ---------------------------
(***************************************************************************)
(* Theorems about MessageTurn, for every set of requests, keys, branches   *)
(* and models: type correctness, the lease excludes, an aborted lease and  *)
(* a commit exclude each other, the head of a branch is a visible turn,    *)
(* the chain registry tells the truth, and the turn pipeline implements    *)
(* ExclusiveTurn.                                                          *)
(***************************************************************************)
EXTENDS MessageTurn, TLAPS

(* What a release leaves behind is a lease map again. *)
LEMMA ReleaseType ==
  ASSUME leases \in LeaseMap, fate \in [Request -> LeaseState \cup {"none"}],
         NEW r \in Request, plan[r] \in Plan,
         NEW t \in LeaseState, ReleaseLease(r, t)
  PROVE  /\ leases' \in LeaseMap
         /\ fate' \in [Request -> LeaseState \cup {"none"}]
<1>1. KeyOf(r) \in Key
  BY DEF KeyOf, Plan
<1>2. CASE IsMain(r) /\ fate[r] = "none"
  BY <1>1, <1>2 DEF ReleaseLease, Released, LeaseMap
<1>3. CASE ~(IsMain(r) /\ fate[r] = "none")
  BY <1>3 DEF ReleaseLease, leaseVars
<1>4. QED
  BY <1>2, <1>3

LEMMA DropIsRelease ==
  ASSUME NEW r \in Request, DropGuard(r)
  PROVE  \E t \in AbortStates : ReleaseLease(r, t)
BY DEF DropGuard, AbortState, AbortStates

(* Every way a turn gives its lease back is a release in some state. *)
Releasing(r) ==
  \/ SendFails(r) \/ StreamBreaks(r) \/ StreamEnds(r) \/ FinishTurn(r) \/ DropRequest(r)

LEMMA ReleasingReleases ==
  ASSUME TypeOK, NEW r \in Request, Releasing(r)
  PROVE  /\ \E t \in LeaseState : ReleaseLease(r, t)
         /\ pc[r] \in Holding /\ pc'[r] \in {"draining", "done"}
         /\ \A s \in Request : s # r => pc'[s] = pc[s]
         /\ pc' \in [Request -> Stage]
         /\ UNCHANGED <<plan, served, assoc, storeVars, visible, client>>
<1>1. AbortStates \subseteq LeaseState
  BY DEF LeaseState
<1>2. \E t \in LeaseState : ReleaseLease(r, t)
  BY <1>1, DropIsRelease DEF Releasing, SendFails, StreamBreaks, StreamEnds, FinishTurn,
     DropRequest, LeaseState, AbortStates
<1>3. /\ pc[r] \in Holding /\ pc'[r] \in {"draining", "done"}
      /\ \A s \in Request : s # r => pc'[s] = pc[s]
      /\ pc' \in [Request -> Stage]
  BY DEF Releasing, SendFails, StreamBreaks, StreamEnds, FinishTurn, DropRequest, Goto,
     Holding, Waiting, Committing, Active, Finished, Stage, TypeOK
<1>4. UNCHANGED <<plan, served, assoc, storeVars, visible, client>>
  BY DEF Releasing, SendFails, StreamBreaks, StreamEnds, FinishTurn, DropRequest, chainVars
<1>5. QED
  BY <1>2, <1>3, <1>4

(* TypeOK is an invariant of the turn pipeline. *)
THEOREM TypeCorrect == Spec => []TypeOK
<1>1. Init => TypeOK
  BY DEF Init, TypeOK, NoLeases, LeaseMap, Stage, Active, Holding, Waiting, Committing,
     Finished, NoPlan
<1>2. TypeOK /\ [Next]_vars => TypeOK'
  <2> SUFFICES ASSUME TypeOK, [Next]_vars PROVE TypeOK'
    OBVIOUS
  <2> USE DEF Stage, Active, Holding, Waiting, Committing, Finished, Goto
  <2>1. ASSUME NEW r \in Request, Step(r) PROVE TypeOK'
    <3>1. CASE SelectBranch(r)
      <4>1. PICK k \in Key, m \in BOOLEAN, b \in BOOLEAN, p \in Request \cup {None} :
              plan' = [plan EXCEPT ![r] = [key |-> k, main |-> m, stream |-> b,
                                           previous |-> p, delta |-> FALSE]]
        BY <3>1 DEF SelectBranch
      <4>2. [key |-> k, main |-> m, stream |-> b, previous |-> p, delta |-> FALSE] \in Plan
        BY DEF Plan
      <4>3. QED
        BY <3>1, <4>1, <4>2 DEF SelectBranch, TypeOK, chainVars, storeVars, leaseVars
    <3>2. CASE Refuse(r)
      BY <3>2 DEF Refuse, TypeOK, chainVars, storeVars, leaseVars
    <3>3. CASE SelectTransport(r)
      <4>1. PICK d \in BOOLEAN : plan' = [plan EXCEPT ![r] = [plan[r] EXCEPT !.delta = d]]
        BY <3>3 DEF SelectTransport
      <4>2. plan[r] \in Plan
        BY <3>3 DEF SelectTransport, TypeOK
      <4>3. [plan[r] EXCEPT !.delta = d] \in Plan
        BY <4>2 DEF Plan
      <4>4. QED
        BY <3>3, <4>1, <4>3 DEF SelectTransport, TypeOK, chainVars, storeVars, leaseVars
    <3>4. CASE AcquireLease(r)
      <4>1. KeyOf(r) \in Key
        BY <3>4 DEF AcquireLease, TypeOK, KeyOf, Plan
      <4>2. leases' \in LeaseMap
        BY <3>4, <4>1, NoneAssumption
           DEF AcquireLease, Acquired, TypeOK, LeaseMap, Lease, LeaseState
      <4>3. QED
        BY <3>4, <4>2 DEF AcquireLease, TypeOK, chainVars, storeVars
    <3>5. CASE SkipLease(r)
      BY <3>5 DEF SkipLease, TypeOK, chainVars, storeVars, leaseVars
    <3>6. CASE ReuseChain(r)
      <4>1. LiveChain(r) \in Chain
        BY <3>6 DEF ReuseChain, TypeOK, LiveChain, KeyOf, Plan
      <4>2. QED
        BY <3>6, <4>1 DEF ReuseChain, TypeOK, storeVars, leaseVars
    <3>7. CASE StartDial(r)
      BY <3>7 DEF StartDial, TypeOK, chainVars, storeVars, leaseVars
    <3>8. CASE DialDone(r)
      BY <3>8, ChainAssumption DEF DialDone, TypeOK, KeyOf, Plan, storeVars, leaseVars
    <3>9. CASE Releasing(r)
      <4>1. PICK t \in LeaseState : ReleaseLease(r, t)
        BY <3>9, ReleasingReleases
      <4>2. plan[r] \in Plan
        BY <3>9, ReleasingReleases DEF TypeOK
      <4>3. leases' \in LeaseMap /\ fate' \in [Request -> LeaseState \cup {"none"}]
        BY <4>1, <4>2, ReleaseType DEF TypeOK
      <4>4. answer' \in [Request -> {"open", "completed", "bare", "failed"}]
        BY <3>9 DEF Releasing, SendFails, StreamBreaks, StreamEnds, FinishTurn, DropRequest, TypeOK
      <4>5. live' \in [Key -> Chain \cup {None}]
        <5>1. KeyOf(r) \in Key
          BY <4>2 DEF KeyOf, Plan
        <5>2. live' = live \/ live' = [live EXCEPT ![KeyOf(r)] = None]
          BY <3>9 DEF Releasing, SendFails, StreamBreaks, StreamEnds, FinishTurn, DropRequest,
             chainVars
        <5>3. QED
          BY <5>1, <5>2 DEF TypeOK
      <4>6. /\ pc' \in [Request -> Stage] /\ pc'[r] \in {"draining", "done"}
            /\ \A s \in Request : s # r => pc'[s] = pc[s]
            /\ UNCHANGED <<plan, served, assoc, storeVars, visible, client>>
        BY <3>9, ReleasingReleases
      <4>7. QED
        BY <4>2, <4>3, <4>4, <4>5, <4>6 DEF TypeOK, storeVars
    <3>10. CASE StreamOpens(r)
      BY <3>10 DEF StreamOpens, TypeOK, chainVars, storeVars, leaseVars
    <3>11. CASE UnaryAnswered(r)
      BY <3>11 DEF UnaryAnswered, TypeOK, chainVars, storeVars, leaseVars
    <3>12. CASE PromoteChain(r)
      <4>1. plan[r] \in Plan /\ KeyOf(r) \in Key /\ served[r] \in Chain
        BY <3>12 DEF PromoteChain, TypeOK, KeyOf, Plan
      <4>2. leases' \in LeaseMap /\ fate' \in [Request -> LeaseState \cup {"none"}]
        <5>1. CASE DropGuard(r)
          <6>1. PICK t \in LeaseState : ReleaseLease(r, t)
            BY <5>1, DropIsRelease DEF LeaseState
          <6>2. QED
            BY <4>1, <6>1, ReleaseType DEF TypeOK
        <5>2. CASE /\ leases' \in {leases, Promoted(leases, KeyOf(r), r, served[r])}
                   /\ UNCHANGED fate
          <6>1. leases[KeyOf(r)] = NoLease => ~Promotable(leases, KeyOf(r), r, served[r])
            BY <4>1, NoneAssumption DEF Promotable, Owns, NoLease
          <6>2. QED
            BY <4>1, <5>2, <6>1 DEF Promoted, TypeOK, LeaseMap, Lease
        <5>3. QED
          BY <3>12, <5>1, <5>2 DEF PromoteChain
      <4>3. /\ pc' \in [Request -> Stage]
            /\ \A s \in Request : pc'[s] = IF s = r THEN pc'[r] ELSE pc[s]
        BY <3>12 DEF PromoteChain, TypeOK
      <4>4. QED
        BY <3>12, <4>1, <4>2, <4>3 DEF PromoteChain, TypeOK, chainVars, storeVars
    <3>13. CASE RelayEvent(r)
      BY <3>13 DEF RelayEvent, TypeOK, turnVars, chainVars, storeVars, leaseVars
    <3>14. CASE StreamCompletes(r)
      BY <3>14 DEF StreamCompletes, TypeOK, chainVars, storeVars, leaseVars
    <3>15. CASE StreamFails(r)
      BY <3>15 DEF StreamFails, TypeOK, chainVars, storeVars, leaseVars
    <3>16. CASE Validate(r)
      <4>1. plan[r] \in Plan
        BY <3>16 DEF Validate, TypeOK
      <4>2. leases' \in LeaseMap /\ fate' \in [Request -> LeaseState \cup {"none"}]
        BY <3>16, <4>1, ReleaseType DEF Validate, TypeOK, leaseVars, LeaseState, AbortStates
      <4>3. QED
        BY <3>16, <4>2 DEF Validate, TypeOK, chainVars, storeVars
    <3>17. CASE CommitMain(r)
      <4>1. KeyOf(r).branch \in Branch
        BY <3>17, KeyAssumption DEF CommitMain, TypeOK, KeyOf, Plan
      <4>2. /\ checkpoint' \in {checkpoint, [checkpoint EXCEPT ![KeyOf(r).branch] = r]}
            /\ committed' \in {committed, [committed EXCEPT ![r] = TRUE]}
        BY <3>17 DEF CommitMain, storeVars
      <4>3. checkpoint \in [Branch -> Request \cup {None}] /\ committed \in [Request -> BOOLEAN]
        BY DEF TypeOK
      <4>4. checkpoint' \in [Branch -> Request \cup {None}]
        BY ONLY <4>1, <4>2, <4>3, r \in Request
      <4>5. committed' \in [Request -> BOOLEAN]
        BY ONLY <4>2, <4>3, r \in Request
      <4>6. QED
        BY <3>17, <4>4, <4>5 DEF CommitMain, AfterCommit, TypeOK, chainVars, leaseVars
    <3>18. CASE Associate(r)
      <4>1. plan[r] \in Plan /\ served[r] \in Chain
        BY <3>18 DEF Associate, TypeOK
      <4>2. assoc' \subseteq [key : Key, main : BOOLEAN, response : Request, chain : Chain]
        BY <3>18, <4>1 DEF Associate, TypeOK, KeyOf, IsMain, Plan
      <4>3. QED
        BY <3>18, <4>2 DEF Associate, TypeOK, storeVars, leaseVars
    <3>19. CASE OffshootAnswered(r)
      BY <3>19 DEF OffshootAnswered, TypeOK, chainVars, storeVars, leaseVars
    <3>20. CASE CommitOffshoot(r)
      <4>1. committed' \in [Request -> BOOLEAN]
        BY <3>20 DEF CommitOffshoot, TypeOK
      <4>2. QED
        BY <3>20, <4>1 DEF CommitOffshoot, TypeOK, chainVars, leaseVars
    <3>21. CASE ClientDisconnects(r)
      BY <3>21 DEF ClientDisconnects, TypeOK, turnVars, chainVars, storeVars, leaseVars
    <3>22. QED
      BY <2>1, <3>1, <3>2, <3>3, <3>4, <3>5, <3>6, <3>7, <3>8, <3>9, <3>10, <3>11, <3>12,
         <3>13, <3>14, <3>15, <3>16, <3>17, <3>18, <3>19, <3>20, <3>21
         DEF Step, Prepare, Send, Open, Relay, Commit, Releasing
  <2>2. ASSUME NEW k \in Key, ChainDies(k) PROVE TypeOK'
    BY <2>2 DEF ChainDies, TypeOK, turnVars, storeVars, leaseVars
  <2>3. CASE Crash
    BY <2>3 DEF Crash, NoLeases, LeaseMap, TypeOK, storeVars
  <2>4. CASE UNCHANGED vars
    BY <2>4 DEF TypeOK, vars, turnVars, chainVars, storeVars, leaseVars
  <2>5. QED
    BY <2>1, <2>2, <2>3, <2>4 DEF Next, AllFinished
<1>3. QED
  BY <1>1, <1>2, PTL DEF Spec

--------------------------------------------------------------------------------
(* A request's step leaves the records of the other requests alone. *)
LEMMA OthersKept ==
  ASSUME TypeOK, NEW r \in Request, NEW s \in Request, s # r, Step(r)
  PROVE  /\ pc'[s] = pc[s] /\ plan'[s] = plan[s] /\ answer'[s] = answer[s]
         /\ committed'[s] = committed[s] /\ fate'[s] = fate[s] /\ served'[s] = served[s]
<1> USE DEF Goto, turnVars, chainVars, storeVars, leaseVars, TypeOK
<1>1. ASSUME NEW t, ReleaseLease(r, t) PROVE fate'[s] = fate[s]
  BY <1>1 DEF ReleaseLease
<1>2. CASE Prepare(r)
  BY <1>2 DEF Prepare, SelectBranch, Refuse, SelectTransport, AcquireLease, SkipLease
<1>3. CASE Releasing(r)
  <2>1. fate'[s] = fate[s]
    BY <1>1, <1>3, ReleasingReleases
  <2>2. answer'[s] = answer[s]
    BY <1>3 DEF Releasing, SendFails, StreamBreaks, StreamEnds, FinishTurn, DropRequest
  <2>3. QED
    BY <1>3, <2>1, <2>2, ReleasingReleases
<1>4. CASE ReuseChain(r) \/ StartDial(r) \/ DialDone(r) \/ Open(r)
  BY <1>4 DEF ReuseChain, StartDial, DialDone, Open, StreamOpens, UnaryAnswered
<1>5. CASE RelayEvent(r) \/ StreamCompletes(r) \/ StreamFails(r)
  BY <1>5 DEF RelayEvent, StreamCompletes, StreamFails
<1>6. CASE PromoteChain(r)
  <2>1. fate'[s] = fate[s]
    BY <1>1, <1>6, DropIsRelease DEF PromoteChain
  <2>2. QED
    BY <1>6, <2>1 DEF PromoteChain
<1>7. CASE Validate(r)
  <2>1. fate'[s] = fate[s]
    BY <1>1, <1>7 DEF Validate
  <2>2. QED
    BY <1>7, <2>1 DEF Validate
<1>8. CASE CommitMain(r) \/ Associate(r) \/ OffshootAnswered(r) \/ CommitOffshoot(r)
  BY <1>8 DEF CommitMain, Associate, OffshootAnswered, CommitOffshoot
<1>9. CASE ClientDisconnects(r)
  BY <1>9 DEF ClientDisconnects
<1>10. QED
  BY <1>2, <1>3, <1>4, <1>5, <1>6, <1>7, <1>8, <1>9
     DEF Step, Send, Relay, Commit, Releasing

--------------------------------------------------------------------------------
(* The gate. *)

(* Committing comes after the gate; a lease ends only behind it or for good; *)
(* and a committed turn with a response id has its lease ended before the    *)
(* future can be dropped again: the strengthening that makes                 *)
(* AbortedLeaseNeverCommits inductive.                                       *)
OrderOf(r) ==
  /\ committed[r] => /\ pc[r] \in {"associate", "finish", "draining", "done", "dead"}
                     /\ answer[r] \in {"completed", "bare"}
  /\ fate[r] # "none" => IsMain(r) /\ pc[r] \in {"draining", "done", "dead"}
  /\ pc[r] = "draining" /\ committed[r] /\ answer[r] = "completed" /\ IsMain(r)
        => fate[r] # "none"
  /\ pc[r] \in {"validate", "commit", "associate", "finish"} => answer[r] \in {"completed", "bare"}
  /\ pc[r] = "promote" /\ ~IsStream(r) => answer[r] \in {"completed", "bare"}
  /\ fate[r] \in AbortStates /\ committed[r] => answer[r] = "bare"
CommitOrder == \A r \in Request : OrderOf(r)

LEMMA CommitOrderInitially == Init => CommitOrder
BY DEF Init, CommitOrder, OrderOf, AbortStates

(* A release keeps the order if it is not an abort after a commit with a     *)
(* response id.                                                              *)
LEMMA ReleaseKeepsOrder ==
  ASSUME NEW r \in Request, TypeOK, OrderOf(r), NEW t \in LeaseState,
         ReleaseLease(r, t), pc'[r] \in {"draining", "done"},
         UNCHANGED <<plan, committed>>,
         committed[r] => answer'[r] = answer[r],
         committed[r] /\ answer[r] = "completed" /\ IsMain(r) /\ fate[r] = "none" =>
           t = "completed_committed"
  PROVE  OrderOf(r)'
<1>1. IsMain(r)' = IsMain(r)
  BY DEF IsMain
<1>2. IF IsMain(r) /\ fate[r] = "none" THEN fate'[r] = t ELSE fate'[r] = fate[r]
  BY DEF ReleaseLease, leaseVars, TypeOK
<1>3. t # "none" /\ "completed_committed" \notin AbortStates
  BY DEF LeaseState, AbortStates
<1>4. QED
  BY <1>1, <1>2, <1>3 DEF OrderOf, AbortStates

LEMMA StepKeepsOrder ==
  ASSUME TypeOK, CommitOrder, NEW r \in Request, Step(r)
  PROVE  OrderOf(r)'
<1> USE DEF Goto, turnVars, chainVars, storeVars, leaseVars
<1>1. OrderOf(r)
  BY DEF CommitOrder
<1>2. CASE Prepare(r)
  BY <1>1, <1>2 DEF Prepare, SelectBranch, Refuse, SelectTransport, AcquireLease, SkipLease, OrderOf,
     TypeOK, AbortStates
<1>3. CASE Releasing(r)
  <2>1. /\ pc'[r] \in {"draining", "done"} /\ UNCHANGED <<plan, committed>>
        /\ pc[r] \in Holding
    BY <1>3, ReleasingReleases
  <2>2. committed[r] => answer'[r] = answer[r]
    BY <1>1, <1>3 DEF Releasing, SendFails, StreamBreaks, StreamEnds, FinishTurn, DropRequest, OrderOf
  <2>3. CASE FinishTurn(r) /\ committed[r]
    BY <1>1, <2>1, <2>2, <2>3, ReleaseKeepsOrder DEF FinishTurn, LeaseState
  <2>4. CASE ~(FinishTurn(r) /\ committed[r])
    <3>1. committed[r] /\ answer[r] = "completed" /\ IsMain(r) => fate[r] # "none"
      BY <1>1, <1>3, <2>4 DEF Releasing, SendFails, StreamBreaks, StreamEnds, FinishTurn,
         DropRequest, Waiting, OrderOf
    <3>2. PICK t \in LeaseState : ReleaseLease(r, t)
      BY <1>3, ReleasingReleases
    <3>3. QED
      BY <1>1, <2>1, <2>2, <3>1, <3>2, ReleaseKeepsOrder
  <2>5. QED
    BY <2>3, <2>4
<1>4. CASE ReuseChain(r) \/ StartDial(r) \/ DialDone(r) \/ Open(r)
  BY <1>1, <1>4 DEF ReuseChain, StartDial, DialDone, Open, StreamOpens, UnaryAnswered, OrderOf, TypeOK,
     IsMain, IsStream
<1>5. CASE RelayEvent(r) \/ StreamCompletes(r) \/ StreamFails(r)
  BY <1>1, <1>5 DEF RelayEvent, StreamCompletes, StreamFails, OrderOf, TypeOK, IsMain, IsStream
<1>6. CASE PromoteChain(r)
  <2>1. pc[r] = "promote" /\ UNCHANGED <<plan, committed, answer>>
    BY <1>6 DEF PromoteChain
  <2>2. CASE DropGuard(r) /\ pc' = [pc EXCEPT ![r] = "done"]
    <3>1. PICK t \in LeaseState : ReleaseLease(r, t)
      BY <2>2, DropIsRelease DEF LeaseState
    <3>2. pc'[r] = "done" /\ ~committed[r]
      BY <1>1, <2>1, <2>2 DEF TypeOK, OrderOf
    <3>3. QED
      BY <1>1, <2>1, <3>1, <3>2, ReleaseKeepsOrder
  <2>3. CASE UNCHANGED fate /\ pc' = [pc EXCEPT ![r] = IF IsStream(r) THEN "relaying" ELSE "validate"]
    BY <1>1, <2>1, <2>3 DEF OrderOf, TypeOK, IsMain, IsStream
  <2>4. QED
    BY <1>6, <2>2, <2>3 DEF PromoteChain
<1>7. CASE Validate(r)
  <2>1. pc[r] = "validate" /\ ~committed[r] /\ UNCHANGED <<plan, committed, answer>>
    BY <1>1, <1>7 DEF Validate, OrderOf
  <2>2. CASE pc' = [pc EXCEPT ![r] = "commit"] /\ UNCHANGED leaseVars
    BY <1>1, <2>1, <2>2 DEF OrderOf, TypeOK, IsMain, IsStream
  <2>3. CASE ~(pc' = [pc EXCEPT ![r] = "commit"] /\ UNCHANGED leaseVars)
    <3>1. PICK t \in LeaseState : ReleaseLease(r, t)
      BY <1>7, <2>3 DEF Validate, LeaseState, AbortStates
    <3>2. pc'[r] \in {"draining", "done"}
      BY <1>7, <2>3 DEF Validate, TypeOK
    <3>3. QED
      BY <1>1, <2>1, <3>1, <3>2, ReleaseKeepsOrder
  <2>4. QED
    BY <2>2, <2>3
<1>8. CASE CommitMain(r)
  <2>1. /\ pc[r] = "commit" /\ IsMain(r) /\ UNCHANGED <<plan, answer, fate>>
        /\ answer[r] \in {"completed", "bare"} /\ fate[r] = "none"
    BY <1>1, <1>8 DEF CommitMain, OrderOf
  <2>2. \/ pc'[r] = "associate"
        \/ pc'[r] \in {"draining", "finish"} /\ (answer[r] = "bare" \/ ~committed'[r])
    BY <1>1, <1>8, <2>1 DEF CommitMain, AfterCommit, TypeOK, OrderOf
  <2>3. QED
    BY <2>1, <2>2 DEF OrderOf, IsMain, IsStream, AbortStates
<1>9. CASE Associate(r) \/ OffshootAnswered(r) \/ CommitOffshoot(r)
  <2>1. /\ pc[r] \in {"commit", "associate", "finish"} /\ UNCHANGED <<plan, answer, fate>>
        /\ answer[r] \in {"completed", "bare"} /\ fate[r] = "none"
    BY <1>1, <1>9 DEF Associate, OffshootAnswered, CommitOffshoot, OrderOf
  <2>2. \/ pc'[r] \in {"associate", "finish"}
        \/ pc'[r] \in {"draining", "done"} /\ ~IsMain(r)
    BY <1>9 DEF Associate, OffshootAnswered, CommitOffshoot, TypeOK
  <2>3. committed'[r] => pc'[r] \in {"associate", "finish", "draining", "done"}
    BY <1>1, <1>9, <2>1, <2>2 DEF OrderOf
  <2>4. QED
    BY <2>1, <2>2, <2>3 DEF OrderOf, IsMain, IsStream, AbortStates
<1>10. CASE ClientDisconnects(r)
  BY <1>1, <1>10 DEF ClientDisconnects, OrderOf, IsMain, IsStream
<1>11. QED
  BY <1>2, <1>3, <1>4, <1>5, <1>6, <1>7, <1>8, <1>9, <1>10
     DEF Step, Send, Relay, Commit, Releasing

LEMMA CommitOrderPreserved == TypeOK /\ CommitOrder /\ [Next]_vars => CommitOrder'
<1> SUFFICES ASSUME TypeOK, CommitOrder, [Next]_vars PROVE CommitOrder'
  OBVIOUS
<1>1. ASSUME NEW r \in Request, Step(r) PROVE CommitOrder'
  <2>1. ASSUME NEW s \in Request, s # r PROVE OrderOf(s)'
    BY <1>1, <2>1, OthersKept DEF CommitOrder, OrderOf, IsMain, IsStream
  <2>2. QED
    BY <1>1, <2>1, StepKeepsOrder DEF CommitOrder
<1>2. ASSUME NEW k \in Key, ChainDies(k) PROVE CommitOrder'
  BY <1>2 DEF ChainDies, CommitOrder, OrderOf, IsMain, IsStream, turnVars, storeVars, leaseVars
<1>3. CASE Crash
  BY <1>3 DEF Crash, CommitOrder, OrderOf, IsMain, IsStream, storeVars, Active, Holding, Waiting,
     Committing, TypeOK
<1>4. CASE UNCHANGED vars
  BY <1>4 DEF CommitOrder, OrderOf, IsMain, IsStream, vars, turnVars, chainVars, storeVars, leaseVars
<1>5. QED
  BY <1>1, <1>2, <1>3, <1>4 DEF Next, AllFinished

(* A turn whose lease ended in an abort or failure state is not in the       *)
(* conversation store, unless it completed without a response id.            *)
THEOREM AbortsNeverCommit == Spec => []AbortedLeaseNeverCommits
<1>1. CommitOrder => AbortedLeaseNeverCommits
  BY DEF CommitOrder, OrderOf, AbortedLeaseNeverCommits
<1>2. QED
  BY <1>1, CommitOrderInitially, CommitOrderPreserved, TypeCorrect, PTL DEF Spec

--------------------------------------------------------------------------------
(* The lease excludes. *)

(* A step that leaves the leases and their holders alone. *)
LEMMA SameHolders ==
  ASSUME LeaseMatchesHolder,
         \A k \in Key : /\ leases'[k].requestID = leases[k].requestID
                        /\ leases'[k].state = leases[k].state
                        /\ leases'[k] = NoLease <=> leases[k] = NoLease,
         \A s \in Request : HoldsLease(s) => KeyOf(s) \in Key,
         \A s \in Request : HoldsLease(s)' <=> HoldsLease(s),
         \A s \in Request : HoldsLease(s) => KeyOf(s)' = KeyOf(s)
  PROVE  LeaseMatchesHolder'
<1>1. \A s \in Request : HoldsLease(s)' =>
        (Owns(leases, KeyOf(s), s) /\ leases[KeyOf(s)].state = "in_flight")'
  BY DEF LeaseMatchesHolder, Owns
<1>2. \A k \in Key : Busy(leases, k)' =>
        \E s \in Request : (Owns(leases, k, s) /\ HoldsLease(s) /\ KeyOf(s) = k)'
  BY DEF LeaseMatchesHolder, Owns, Busy
<1>3. QED
  BY <1>1, <1>2 DEF LeaseMatchesHolder

(* A release, whoever's turn it is, keeps leases and holders in step. *)
LEMMA ReleaseMatches ==
  ASSUME TypeOK, LeaseMatchesHolder, NEW r \in Request, NEW t \in LeaseState,
         pc[r] \in Holding, ReleaseLease(r, t), UNCHANGED plan,
         \A s \in Request : s # r => pc'[s] = pc[s]
  PROVE  LeaseMatchesHolder'
<1>1. KeyOf(r) \in Key /\ \A s \in Request : KeyOf(s)' = KeyOf(s) /\ IsMain(s)' = IsMain(s)
  BY DEF TypeOK, Active, Plan, KeyOf, IsMain
<1>2. CASE IsMain(r) /\ fate[r] = "none"
  <2>1. /\ leases[KeyOf(r)].requestID = r
        /\ leases' = [leases EXCEPT ![KeyOf(r)] = NoLease]
    BY <1>2 DEF LeaseMatchesHolder, HoldsLease, Owns, ReleaseLease, Released
  <2>2. fate' = [fate EXCEPT ![r] = t] /\ t # "none"
    BY <1>2 DEF ReleaseLease, LeaseState, AbortStates
  <2>3. \A s \in Request : HoldsLease(s)' <=> HoldsLease(s) /\ s # r
    BY <1>1, <2>2 DEF HoldsLease, TypeOK
  <2>4. \A s \in Request : HoldsLease(s) /\ s # r => KeyOf(s) # KeyOf(r)
    BY <2>1 DEF LeaseMatchesHolder, Owns
  <2>5. leases'[KeyOf(r)] = NoLease /\ \A k \in Key : k # KeyOf(r) => leases'[k] = leases[k]
    BY <1>1, <2>1 DEF TypeOK, LeaseMap
  <2>6. \A s \in Request : HoldsLease(s) => KeyOf(s) \in Key
    BY DEF HoldsLease, TypeOK, Active, Plan, KeyOf
  <2>7. \A s \in Request : HoldsLease(s)' =>
          (Owns(leases, KeyOf(s), s) /\ leases[KeyOf(s)].state = "in_flight")'
    BY <1>1, <2>3, <2>4, <2>5, <2>6 DEF LeaseMatchesHolder, Owns
  <2>8. \A k \in Key : Busy(leases, k)' =>
          \E s \in Request : (Owns(leases, k, s) /\ HoldsLease(s) /\ KeyOf(s) = k)'
    BY <1>1, <2>3, <2>5 DEF LeaseMatchesHolder, Owns, Busy
  <2>9. QED
    BY <2>7, <2>8 DEF LeaseMatchesHolder
<1>3. CASE ~(IsMain(r) /\ fate[r] = "none")
  <2>1. UNCHANGED <<leases, fate>>
    BY <1>3 DEF ReleaseLease, leaseVars
  <2>2. \A s \in Request : HoldsLease(s)' <=> HoldsLease(s)
    BY <1>1, <1>3, <2>1 DEF HoldsLease
  <2>3. \A s \in Request : HoldsLease(s) => KeyOf(s) \in Key
    BY DEF HoldsLease, TypeOK, Active, Plan, KeyOf
  <2>4. QED
    BY <1>1, <2>1, <2>2, <2>3, SameHolders
<1>4. QED
  BY <1>2, <1>3

LEMMA AcquireMatches ==
  ASSUME TypeOK, CommitOrder, LeaseMatchesHolder, NEW r \in Request, AcquireLease(r)
  PROVE  LeaseMatchesHolder'
<1>1. /\ KeyOf(r) \in Key /\ fate[r] = "none" /\ UNCHANGED <<plan, fate>>
      /\ pc[r] = "planned" /\ IsMain(r)
  BY DEF AcquireLease, TypeOK, Active, Plan, KeyOf, CommitOrder, OrderOf
<1>2. \A s \in Request : KeyOf(s)' = KeyOf(s) /\ IsMain(s)' = IsMain(s)
  BY <1>1 DEF KeyOf, IsMain
<1>3. \A s \in Request : HoldsLease(s) => KeyOf(s) \in Key
  BY DEF HoldsLease, TypeOK, Active, Plan, KeyOf
<1>4. CASE Busy(leases, KeyOf(r))
  <2>1. pc' = [pc EXCEPT ![r] = "refused"] /\ UNCHANGED leases
    BY <1>4 DEF AcquireLease, Goto
  <2>2. \A s \in Request : HoldsLease(s)' <=> HoldsLease(s)
    BY <1>1, <1>2, <2>1 DEF HoldsLease, TypeOK, Holding, Waiting, Committing
  <2>3. QED
    BY <1>2, <1>3, <2>1, <2>2, SameHolders
<1>5. CASE ~Busy(leases, KeyOf(r))
  <2>1. /\ pc' = [pc EXCEPT ![r] = "sending"]
        /\ leases' = [leases EXCEPT ![KeyOf(r)] =
                         [requestID |-> r, chain |-> None, state |-> "in_flight"]]
    BY <1>5 DEF AcquireLease, Goto, Acquired
  <2>2. /\ leases'[KeyOf(r)] = [requestID |-> r, chain |-> None, state |-> "in_flight"]
        /\ \A k \in Key : k # KeyOf(r) => leases'[k] = leases[k]
    BY <1>1, <2>1 DEF TypeOK, LeaseMap
  <2>3. \A s \in Request : HoldsLease(s)' <=> HoldsLease(s) \/ s = r
    BY <1>1, <1>2, <2>1 DEF HoldsLease, TypeOK, Holding, Waiting, Committing
  <2>4. \A s \in Request : HoldsLease(s) => KeyOf(s) # KeyOf(r)
    BY <1>5, NoneAssumption DEF LeaseMatchesHolder, Owns, Busy, NoLease
  <2>5. \A s \in Request : HoldsLease(s)' =>
          (Owns(leases, KeyOf(s), s) /\ leases[KeyOf(s)].state = "in_flight")'
    BY <1>2, <1>3, <2>2, <2>3, <2>4 DEF LeaseMatchesHolder, Owns
  <2>6. \A k \in Key : Busy(leases, k)' =>
          \E s \in Request : (Owns(leases, k, s) /\ HoldsLease(s) /\ KeyOf(s) = k)'
    <3>1. Owns(leases, KeyOf(r), r)' /\ HoldsLease(r)' /\ KeyOf(r)' = KeyOf(r)
      BY <1>2, <2>2, <2>3 DEF Owns
    <3>2. ASSUME NEW k \in Key, k # KeyOf(r), Busy(leases, k)'
          PROVE  \E s \in Request : (Owns(leases, k, s) /\ HoldsLease(s) /\ KeyOf(s) = k)'
      BY <1>2, <2>2, <2>3, <3>2 DEF LeaseMatchesHolder, Owns, Busy
    <3>3. QED
      BY <1>2, <2>2, <2>3, <3>2 DEF Owns
  <2>7. QED
    BY <2>5, <2>6 DEF LeaseMatchesHolder
<1>6. QED
  BY <1>4, <1>5

(* A step of one turn that releases nothing, acquires nothing and changes    *)
(* nobody's lease.                                                           *)
LEMMA StepMatches ==
  ASSUME TypeOK, CommitOrder, LeaseMatchesHolder, NEW r \in Request, Step(r)
  PROVE  LeaseMatchesHolder'
<1> USE DEF Goto, turnVars, chainVars, storeVars, leaseVars
<1>1. CASE Releasing(r)
  BY <1>1, ReleasingReleases, ReleaseMatches
<1>2. CASE AcquireLease(r)
  BY <1>2, AcquireMatches
<1>3. \A s \in Request : s # r => pc'[s] = pc[s]
  BY OthersKept
<1>4. CASE Validate(r) /\ pc'[r] # "commit"
  <2>1. pc[r] \in Holding /\ UNCHANGED plan
    BY <1>4 DEF Validate, Holding, Committing
  <2>2. PICK t \in LeaseState : ReleaseLease(r, t)
    BY <1>4 DEF Validate, LeaseState, AbortStates, TypeOK
  <2>3. QED
    BY <1>3, <2>1, <2>2, ReleaseMatches
<1>5. CASE PromoteChain(r) /\ DropGuard(r)
  <2>1. pc[r] \in Holding /\ UNCHANGED plan
    BY <1>5 DEF PromoteChain, Holding, Committing
  <2>2. PICK t \in LeaseState : ReleaseLease(r, t)
    BY <1>5, DropIsRelease DEF LeaseState
  <2>3. QED
    BY <1>3, <2>1, <2>2, ReleaseMatches
<1>6. CASE ~Releasing(r) /\ ~AcquireLease(r) /\ ~(Validate(r) /\ pc'[r] # "commit")
           /\ ~(PromoteChain(r) /\ DropGuard(r))
  <2>1. CASE SelectBranch(r) \/ Refuse(r) \/ SelectTransport(r) \/ SkipLease(r)
    <3>1. UNCHANGED leases /\ ~HoldsLease(r)
      BY <2>1 DEF SelectBranch, Refuse, SelectTransport, SkipLease, HoldsLease, Holding, Waiting, Committing
    <3>2. ~HoldsLease(r)'
      BY <2>1 DEF SelectBranch, Refuse, SelectTransport, SkipLease, HoldsLease, Holding, Waiting,
         Committing, TypeOK, IsMain
    <3>3. \A s \in Request : s # r => HoldsLease(s)' = HoldsLease(s) /\ KeyOf(s)' = KeyOf(s)
      BY OthersKept DEF HoldsLease, IsMain, KeyOf
    <3>4. \A s \in Request : HoldsLease(s) => KeyOf(s) \in Key
      BY DEF HoldsLease, TypeOK, Active, Plan, KeyOf
    <3>5. QED
      BY <3>1, <3>2, <3>3, <3>4, SameHolders
  <2>2. CASE ~(SelectBranch(r) \/ Refuse(r) \/ SelectTransport(r) \/ SkipLease(r))
    <3>0. \/ ReuseChain(r) \/ StartDial(r) \/ DialDone(r) \/ Open(r)
          \/ RelayEvent(r) \/ StreamCompletes(r) \/ StreamFails(r)
          \/ PromoteChain(r) \/ Validate(r) \/ CommitMain(r) \/ Associate(r)
          \/ OffshootAnswered(r) \/ CommitOffshoot(r) \/ ClientDisconnects(r)
      BY <1>6, <2>2 DEF Step, Prepare, Send, Relay, Commit, Releasing
    <3>1. /\ UNCHANGED <<plan, fate>>
          /\ IsMain(r) => (pc[r] \in Holding <=> pc'[r] \in Holding)
      <4> USE DEF Holding, Waiting, Committing, TypeOK
      <4>1. CASE ReuseChain(r) \/ StartDial(r) \/ DialDone(r) \/ Open(r) \/ ClientDisconnects(r)
        BY <4>1 DEF ReuseChain, StartDial, DialDone, Open, StreamOpens, UnaryAnswered, ClientDisconnects
      <4>2. CASE RelayEvent(r) \/ StreamCompletes(r) \/ StreamFails(r)
        BY <4>2 DEF RelayEvent, StreamCompletes, StreamFails
      <4>3. CASE PromoteChain(r) \/ Validate(r)
        BY <1>6, <4>3 DEF PromoteChain, Validate
      <4>4. CASE CommitMain(r) \/ Associate(r) \/ OffshootAnswered(r) \/ CommitOffshoot(r)
        BY <4>4 DEF CommitMain, AfterCommit, Associate, OffshootAnswered, CommitOffshoot
      <4>5. QED
        BY <3>0, <4>1, <4>2, <4>3, <4>4
    <3>3. \A k \in Key : /\ leases'[k].requestID = leases[k].requestID
                         /\ leases'[k].state = leases[k].state
                         /\ leases'[k] = NoLease <=> leases[k] = NoLease
      <4>1. leases' = leases \/ leases' = Promoted(leases, KeyOf(r), r, served[r])
        BY <1>6, <3>0 DEF Open, ReuseChain, StartDial, DialDone, StreamOpens, UnaryAnswered,
           RelayEvent, StreamCompletes, StreamFails, PromoteChain, Validate, CommitMain, Associate,
           OffshootAnswered, CommitOffshoot, ClientDisconnects, TypeOK
      <4>2. QED
        BY <4>1, NoneAssumption DEF Promoted, Promotable, Owns, TypeOK, LeaseMap, Lease, NoLease
    <3>4. \A s \in Request : (HoldsLease(s)' <=> HoldsLease(s)) /\ KeyOf(s)' = KeyOf(s)
      BY <1>3, <3>1 DEF HoldsLease, IsMain, KeyOf
    <3>5. \A s \in Request : HoldsLease(s) => KeyOf(s) \in Key
      BY DEF HoldsLease, TypeOK, Active, Plan, KeyOf
    <3>6. QED
      BY <3>3, <3>4, <3>5, SameHolders
  <2>3. QED
    BY <2>1, <2>2
<1>7. QED
  BY <1>1, <1>2, <1>4, <1>5, <1>6

(* A visible turn owns the lease of its identity from the moment it takes it *)
(* until it gives it back, and every lease belongs to such a turn.           *)
THEOREM LeaseExcludes == Spec => []LeaseMatchesHolder
<1>1. Init => LeaseMatchesHolder
  BY DEF Init, LeaseMatchesHolder, HoldsLease, Holding, Waiting, Committing, Busy, NoLeases
<1>2. TypeOK /\ CommitOrder /\ LeaseMatchesHolder /\ [Next]_vars => LeaseMatchesHolder'
  <2> SUFFICES ASSUME TypeOK, CommitOrder, LeaseMatchesHolder, [Next]_vars
               PROVE  LeaseMatchesHolder'
    OBVIOUS
  <2>1. ASSUME NEW r \in Request, Step(r) PROVE LeaseMatchesHolder'
    BY <2>1, StepMatches
  <2>2. ASSUME NEW k \in Key, ChainDies(k) PROVE LeaseMatchesHolder'
    BY <2>2 DEF ChainDies, LeaseMatchesHolder, HoldsLease, KeyOf, IsMain, Owns, Busy, turnVars, leaseVars
  <2>3. CASE Crash
    BY <2>3 DEF Crash, LeaseMatchesHolder, HoldsLease, Holding, Waiting, Committing, Active, NoLeases,
       Busy, TypeOK
  <2>4. CASE UNCHANGED vars
    BY <2>4 DEF LeaseMatchesHolder, HoldsLease, KeyOf, IsMain, Owns, Busy, vars, turnVars, leaseVars
  <2>5. QED
    BY <2>1, <2>2, <2>3, <2>4 DEF Next, AllFinished
<1>3. QED
  BY <1>1, <1>2, CommitOrderInitially, CommitOrderPreserved, TypeCorrect, PTL DEF Spec

--------------------------------------------------------------------------------
(* The turn pipeline implements ExclusiveTurn. *)

(* A release by its holder ends the holder's turn, or is no step at all.     *)
LEMMA ReleaseEndsTurn ==
  ASSUME TypeOK, LeaseMatchesHolder, NEW r \in Request, NEW t \in LeaseState,
         pc[r] \in Holding, ReleaseLease(r, t), UNCHANGED <<plan, committed>>
  PROVE  [Exclusive!Next]_(Exclusive!vars)
<1>1. KeyOf(r) \in Key
  BY DEF TypeOK, Active, Plan, KeyOf
<1>2. CASE IsMain(r) /\ fate[r] = "none"
  <2>1. PICK k \in Key : k = KeyOf(r)
    BY <1>1
  <2>2. leases[k].requestID = r /\ leases' = [leases EXCEPT ![k] = NoLease]
    BY <1>2, <2>1 DEF LeaseMatchesHolder, HoldsLease, ReleaseLease, Released, Owns
  <2>3. [j \in Key |-> leases'[j].requestID] =
        [[j \in Key |-> leases[j].requestID] EXCEPT ![k] = None]
    BY <2>2 DEF TypeOK, LeaseMap, NoLease
  <2>4. {s \in Request : committed[s] /\ IsMain(s)}' = {s \in Request : committed[s] /\ IsMain(s)}
    BY DEF IsMain
  <2>5. Exclusive!End(k)
    BY <2>2, <2>3, <2>4, NoneAssumption DEF Exclusive!End
  <2>6. QED
    BY <2>5 DEF Exclusive!Next
<1>3. CASE ~(IsMain(r) /\ fate[r] = "none")
  BY <1>3 DEF ReleaseLease, leaseVars, Exclusive!vars, IsMain
<1>4. QED
  BY <1>2, <1>3

(* A step that leaves the owners of the leases and the committed visible     *)
(* turns alone is a stutter of ExclusiveTurn.                                *)
LEMMA SameOwnersStutter ==
  ASSUME \A k \in Key : leases'[k].requestID = leases[k].requestID,
         {s \in Request : committed'[s] /\ IsMain(s)'} = {s \in Request : committed[s] /\ IsMain(s)}
  PROVE  UNCHANGED Exclusive!vars
BY DEF Exclusive!vars

LEMMA StepImplementsNext ==
  ASSUME TypeOK, LeaseMatchesHolder, CommitOrder, NEW r \in Request, Step(r)
  PROVE  [Exclusive!Next]_(Exclusive!vars)
<1> USE DEF turnVars, chainVars, storeVars, leaseVars
<1>1. CASE Releasing(r)
  BY <1>1, ReleasingReleases, ReleaseEndsTurn DEF storeVars
<1>2. CASE (Validate(r) \/ PromoteChain(r)) /\ \E t \in LeaseState : ReleaseLease(r, t)
  <2>1. pc[r] \in Holding /\ UNCHANGED <<plan, committed>>
    BY <1>2 DEF Validate, PromoteChain, Holding, Committing
  <2>2. QED
    BY <1>2, <2>1, ReleaseEndsTurn
<1>3. CASE (Validate(r) \/ PromoteChain(r)) /\ ~\E t \in LeaseState : ReleaseLease(r, t)
  <2>1. UNCHANGED <<plan, committed>>
    BY <1>3 DEF Validate, PromoteChain
  <2>2. leases' = leases \/ leases' = Promoted(leases, KeyOf(r), r, served[r])
    <3>1. CASE Validate(r)
      BY <1>3, <3>1 DEF Validate, LeaseState, AbortStates
    <3>2. CASE PromoteChain(r)
      BY <1>3, <3>2, DropIsRelease DEF PromoteChain, LeaseState
    <3>3. QED
      BY <1>3, <3>1, <3>2
  <2>3. \A k \in Key : leases'[k].requestID = leases[k].requestID
    BY <2>2 DEF Promoted, TypeOK, LeaseMap, Lease, NoLease
  <2>4. QED
    BY <2>1, <2>3, SameOwnersStutter DEF IsMain
<1>4. CASE AcquireLease(r)
  <2>1. KeyOf(r) \in Key /\ UNCHANGED <<plan, committed>>
    BY <1>4 DEF AcquireLease, TypeOK, Active, Plan, KeyOf
  <2>2. CASE Busy(leases, KeyOf(r))
    BY <1>4, <2>1, <2>2, SameOwnersStutter DEF AcquireLease, IsMain
  <2>3. CASE ~Busy(leases, KeyOf(r))
    <3>1. leases[KeyOf(r)].requestID = None
      BY <2>3 DEF Busy, NoLease
    <3>2. leases' = [leases EXCEPT ![KeyOf(r)] =
                       [requestID |-> r, chain |-> None, state |-> "in_flight"]]
      BY <1>4, <2>3 DEF AcquireLease, Acquired
    <3>3. [k \in Key |-> leases'[k].requestID] =
          [[k \in Key |-> leases[k].requestID] EXCEPT ![KeyOf(r)] = r]
      BY <2>1, <3>2 DEF TypeOK, LeaseMap
    <3>4. {s \in Request : committed'[s] /\ IsMain(s)'} =
          {s \in Request : committed[s] /\ IsMain(s)}
      BY <2>1 DEF IsMain
    <3>5. Exclusive!Begin(KeyOf(r), r)
      BY <2>1, <3>1, <3>3, <3>4 DEF Exclusive!Begin
    <3>6. QED
      BY <2>1, <3>5 DEF Exclusive!Next
  <2>4. QED
    BY <2>2, <2>3
<1>5. CASE CommitMain(r)
  <2>1. /\ KeyOf(r) \in Key /\ IsMain(r) /\ UNCHANGED <<plan, leases>>
        /\ leases[KeyOf(r)].requestID = r /\ ~committed[r]
    BY <1>5 DEF CommitMain, TypeOK, Active, Holding, Committing, Plan, KeyOf, LeaseMatchesHolder,
         HoldsLease, Owns, CommitOrder, OrderOf
  <2>2. CASE UNCHANGED committed
    BY <2>1, <2>2, SameOwnersStutter DEF IsMain
  <2>3. CASE committed' = [committed EXCEPT ![r] = TRUE]
    <3>1. {s \in Request : committed'[s] /\ IsMain(s)'} =
          {s \in Request : committed[s] /\ IsMain(s)} \cup {r}
      BY <2>1, <2>3 DEF IsMain, TypeOK
    <3>2. Exclusive!CommitTurn(KeyOf(r), r)
      BY <2>1, <3>1 DEF Exclusive!CommitTurn
    <3>3. QED
      BY <2>1, <3>2 DEF Exclusive!Next
  <2>4. QED
    BY <1>5, <2>2, <2>3 DEF CommitMain
<1>6. CASE CommitOffshoot(r) \/ SelectBranch(r) \/ SelectTransport(r)
  <2>1. /\ UNCHANGED leases
        /\ \A s \in Request : s # r => committed'[s] = committed[s] /\ IsMain(s)' = IsMain(s)
        /\ ~(committed[r] /\ IsMain(r)) /\ ~(committed'[r] /\ IsMain(r)')
    BY <1>6, OthersKept DEF CommitOffshoot, SelectBranch, SelectTransport, CommitOrder, OrderOf, IsMain
  <2>2. {s \in Request : committed'[s] /\ IsMain(s)'} = {s \in Request : committed[s] /\ IsMain(s)}
    BY <2>1
  <2>3. QED
    BY <2>1, <2>2, SameOwnersStutter
<1>7. CASE \/ Refuse(r) \/ SkipLease(r) \/ ReuseChain(r) \/ StartDial(r) \/ DialDone(r)
           \/ Open(r) \/ RelayEvent(r) \/ StreamCompletes(r) \/ StreamFails(r)
           \/ Associate(r) \/ OffshootAnswered(r) \/ ClientDisconnects(r)
  <2>1. UNCHANGED <<plan, leases, committed>>
    BY <1>7 DEF Refuse, SkipLease, ReuseChain, StartDial, DialDone, Open, StreamOpens,
       UnaryAnswered, RelayEvent, StreamCompletes, StreamFails, Associate, OffshootAnswered,
       ClientDisconnects
  <2>2. QED
    BY <2>1, SameOwnersStutter DEF IsMain
<1>8. QED
  BY <1>1, <1>2, <1>3, <1>4, <1>5, <1>6, <1>7
     DEF Step, Prepare, Send, Relay, Commit, Releasing

LEMMA NextImplementsNext ==
  ASSUME TypeOK, LeaseMatchesHolder, CommitOrder, [Next]_vars
  PROVE  [Exclusive!Next]_(Exclusive!vars)
<1>1. ASSUME NEW r \in Request, Step(r) PROVE [Exclusive!Next]_(Exclusive!vars)
  BY <1>1, StepImplementsNext
<1>2. ASSUME NEW k \in Key, ChainDies(k) PROVE [Exclusive!Next]_(Exclusive!vars)
  BY <1>2, SameOwnersStutter DEF ChainDies, IsMain, turnVars, storeVars, leaseVars
<1>3. CASE Crash
  <2>1. /\ UNCHANGED <<plan, committed>>
        /\ \A k \in Key : leases'[k].requestID = None
    BY <1>3 DEF Crash, NoLeases, NoLease, storeVars
  <2>2. Exclusive!Restart
    BY <2>1 DEF Exclusive!Restart, IsMain
  <2>3. QED
    BY <2>2 DEF Exclusive!Next
<1>4. CASE UNCHANGED vars
  BY <1>4, SameOwnersStutter DEF IsMain, vars, turnVars, storeVars, leaseVars
<1>5. QED
  BY <1>1, <1>2, <1>3, <1>4 DEF Next, AllFinished

(* Whatever the requests, keys and chains, the visible turns of an identity  *)
(* run one at a time and only the turn that runs is committed, once.         *)
THEOREM TurnsAreExclusive == Spec => ImplementsExclusiveTurn
<1>1. Init => Exclusive!Init
  BY DEF Init, Exclusive!Init, NoLeases, NoLease
<1>2. QED
  BY <1>1, CommitOrderInitially, CommitOrderPreserved, TypeCorrect, LeaseExcludes,
     NextImplementsNext, PTL DEF Spec, ImplementsExclusiveTurn, Exclusive!Spec

--------------------------------------------------------------------------------
(* Heads of branches, and the chain registry. *)

(* What a committed turn was and how it was answered no longer changes.      *)
LEMMA CommittedStays ==
  ASSUME TypeOK, CommitOrder, NEW r \in Request, Step(r), NEW s \in Request, committed[s]
  PROVE  committed'[s] /\ plan'[s] = plan[s] /\ answer'[s] = answer[s]
<1>1. CASE s # r
  BY <1>1, OthersKept
<1>2. CASE s = r
  <2>1. pc[r] \in {"associate", "finish", "draining", "done", "dead"}
    BY <1>2 DEF CommitOrder, OrderOf
  <2>2. \/ StreamEnds(r) \/ Associate(r) \/ CommitOffshoot(r) \/ FinishTurn(r)
        \/ ClientDisconnects(r) \/ DropRequest(r)
    BY <2>1 DEF Step, Prepare, SelectBranch, Refuse, SelectTransport, AcquireLease, SkipLease,
       Send, ReuseChain, StartDial, DialDone, SendFails, Open, StreamOpens, UnaryAnswered,
       Relay, RelayEvent, StreamCompletes, StreamFails, StreamBreaks, Commit, PromoteChain,
       Validate, CommitMain, OffshootAnswered
  <2>3. QED
    BY <1>2, <2>2 DEF StreamEnds, Associate, CommitOffshoot, FinishTurn, ClientDisconnects,
       DropRequest, turnVars, storeVars, TypeOK
<1>3. QED
  BY <1>1, <1>2

(* The head of a branch is the response of a committed visible turn of that  *)
(* branch, however many offshoots answer and whoever overwrites whom.        *)
THEOREM HeadsAreVisible == Spec => []HeadIsVisible
<1>1. Init => HeadIsVisible
  BY DEF Init, HeadIsVisible
<1>2. TypeOK /\ CommitOrder /\ HeadIsVisible /\ [Next]_vars => HeadIsVisible'
  <2> SUFFICES ASSUME TypeOK, CommitOrder, HeadIsVisible, [Next]_vars PROVE HeadIsVisible'
    OBVIOUS
  <2>1. ASSUME NEW r \in Request, Step(r) PROVE HeadIsVisible'
    <3>1. \A b \in Branch : Checkpoints(b) \subseteq Checkpoints(b)'
      BY <2>1, CommittedStays DEF Checkpoints, IsMain, KeyOf
    <3>2. CASE UNCHANGED checkpoint
      BY <3>1, <3>2 DEF HeadIsVisible
    <3>3. CASE CommitMain(r) /\ ~UNCHANGED checkpoint
      <4>1. /\ checkpoint' = [checkpoint EXCEPT ![KeyOf(r).branch] = r]
            /\ committed' = [committed EXCEPT ![r] = TRUE]
            /\ answer[r] = "completed" /\ IsMain(r) /\ UNCHANGED <<plan, answer>>
        BY <3>3 DEF CommitMain, storeVars
      <4>2. \A b \in Branch : b = KeyOf(r).branch => r \in Checkpoints(b)'
        BY <4>1 DEF Checkpoints, IsMain, KeyOf, TypeOK
      <4>3. \A b \in Branch : checkpoint'[b] = IF b = KeyOf(r).branch THEN r ELSE checkpoint[b]
        BY <4>1 DEF TypeOK
      <4>4. ASSUME NEW b \in Branch, checkpoint'[b] # None PROVE checkpoint'[b] \in Checkpoints(b)'
        <5>1. CASE b = KeyOf(r).branch
          BY <4>2, <4>3, <5>1
        <5>2. CASE b # KeyOf(r).branch
          BY <3>1, <4>3, <4>4, <5>2 DEF HeadIsVisible
        <5>3. QED
          BY <5>1, <5>2
      <4>5. QED
        BY <4>4 DEF HeadIsVisible
    <3>4. Step(r) /\ ~CommitMain(r) => UNCHANGED checkpoint
      <4>1. CASE Releasing(r)
        BY <4>1, ReleasingReleases DEF storeVars
      <4>2. CASE ~Releasing(r)
        BY <2>1, <4>2 DEF Step, Prepare, SelectBranch, Refuse, SelectTransport, AcquireLease, SkipLease,
           Send, ReuseChain, StartDial, DialDone, Open, StreamOpens, UnaryAnswered,
           Relay, RelayEvent, StreamCompletes, StreamFails, Commit, PromoteChain,
           Validate, OffshootAnswered, Associate, CommitOffshoot, ClientDisconnects, Releasing, storeVars
      <4>3. QED
        BY <4>1, <4>2
    <3>5. QED
      BY <2>1, <3>2, <3>3, <3>4
  <2>2. ASSUME NEW k \in Key, ChainDies(k) PROVE HeadIsVisible'
    BY <2>2 DEF ChainDies, HeadIsVisible, Checkpoints, IsMain, KeyOf, turnVars, storeVars
  <2>3. CASE Crash
    BY <2>3 DEF Crash, HeadIsVisible, Checkpoints, IsMain, KeyOf, storeVars
  <2>4. CASE UNCHANGED vars
    BY <2>4 DEF HeadIsVisible, Checkpoints, IsMain, KeyOf, vars, turnVars, storeVars
  <2>5. QED
    BY <2>1, <2>2, <2>3, <2>4 DEF Next, AllFinished
<1>3. QED
  BY <1>1, <1>2, CommitOrderInitially, CommitOrderPreserved, TypeCorrect, PTL DEF Spec

(* A request with an association has left the backend behind it, so the      *)
(* chain that carried it no longer changes.                                  *)
AssocInv ==
  \A a \in assoc : /\ pc[a.response] \in {"finish", "draining", "done", "dead"}
                  /\ a.chain = served[a.response]

(* The registry never links a response to a chain that did not carry it.     *)
THEOREM AssociationsAreTruthful == Spec => []AssociationIsTruthful
<1>1. Init => AssocInv
  BY DEF Init, AssocInv
<1>2. TypeOK /\ AssocInv /\ [Next]_vars => AssocInv'
  <2> SUFFICES ASSUME TypeOK, AssocInv, [Next]_vars PROVE AssocInv'
    OBVIOUS
  <2> \A a \in assoc : a.response \in Request
    BY DEF TypeOK
  <2>1. ASSUME NEW r \in Request, Step(r) PROVE AssocInv'
    <3>1. \A s \in Request : pc[s] \in {"finish", "draining", "done", "dead"} =>
            pc'[s] \in {"finish", "draining", "done", "dead"} /\ served'[s] = served[s]
      <4>1. CASE pc[r] \in {"finish", "draining", "done", "dead"}
        <5>1. \/ StreamEnds(r) \/ CommitOffshoot(r) \/ FinishTurn(r)
              \/ ClientDisconnects(r) \/ DropRequest(r)
          BY <2>1, <4>1 DEF Step, Prepare, SelectBranch, Refuse, SelectTransport, AcquireLease, SkipLease,
             Send, ReuseChain, StartDial, DialDone, SendFails, Open, StreamOpens, UnaryAnswered,
             Relay, RelayEvent, StreamCompletes, StreamFails, StreamBreaks, Commit, PromoteChain,
             Validate, CommitMain, Associate, OffshootAnswered
        <5>2. UNCHANGED served /\ pc'[r] \in {"finish", "draining", "done", "dead"}
          BY <4>1, <5>1 DEF StreamEnds, CommitOffshoot, FinishTurn, ClientDisconnects,
             DropRequest, turnVars, chainVars, TypeOK, Goto
        <5>3. QED
          BY <2>1, <5>2, OthersKept
      <4>2. CASE pc[r] \notin {"finish", "draining", "done", "dead"}
        BY <2>1, <4>2, OthersKept
      <4>3. QED
        BY <4>1, <4>2
    <3>2. CASE UNCHANGED assoc
      BY <3>1, <3>2 DEF AssocInv
    <3>3. CASE Associate(r)
      <4>1. UNCHANGED served /\ pc'[r] = "finish"
        BY <3>3 DEF Associate, Goto, TypeOK
      <4>2. \A a \in assoc' : a \in assoc \/ (a.response = r /\ a.chain = served[r])
        BY <3>3 DEF Associate
      <4>3. QED
        BY <3>1, <4>1, <4>2 DEF AssocInv
    <3>4. Step(r) /\ ~Associate(r) => UNCHANGED assoc
      <4>1. CASE Releasing(r)
        BY <4>1, ReleasingReleases
      <4>2. CASE ~Releasing(r)
        BY <2>1, <4>2 DEF Step, Prepare, SelectBranch, Refuse, SelectTransport, AcquireLease, SkipLease,
           Send, ReuseChain, StartDial, DialDone, Open, StreamOpens, UnaryAnswered,
           Relay, RelayEvent, StreamCompletes, StreamFails, Commit, PromoteChain,
           Validate, OffshootAnswered, CommitMain, CommitOffshoot, ClientDisconnects, Releasing, chainVars
      <4>3. QED
        BY <4>1, <4>2
    <3>5. QED
      BY <2>1, <3>2, <3>3, <3>4
  <2>2. ASSUME NEW k \in Key, ChainDies(k) PROVE AssocInv'
    BY <2>2 DEF ChainDies, AssocInv, turnVars
  <2>3. CASE Crash
    BY <2>3 DEF Crash, AssocInv
  <2>4. CASE UNCHANGED vars
    BY <2>4 DEF AssocInv, vars, turnVars, chainVars
  <2>5. QED
    BY <2>1, <2>2, <2>3, <2>4 DEF Next, AllFinished
<1>3. AssocInv => AssociationIsTruthful
  BY DEF AssocInv, AssociationIsTruthful
<1>4. QED
  BY <1>1, <1>2, <1>3, TypeCorrect, PTL DEF Spec
===============================================================================

------------------------ MODULE ConversationStoreProofs ------------------------
(***************************************************************************)
(* Theorems about ConversationStore, for every set of processes, turns and *)
(* branches: type correctness under any policy; under fail_closed the lock *)
(* excludes, no listed branch is forgotten, no update is lost, and the     *)
(* store implements CommitLog.                                             *)
(***************************************************************************)
EXTENDS ConversationStore, TLAPS

Selecting == {"select", "continue", "create"}

(* What an operation's kind and step say of each other and of its turn.       *)
OpControl(p) ==
  LET o == op[p] IN
  Busy(p) =>
    /\ Home[o.turn] = p
    /\ o.step \in {"lock", "load", "quarantine"} =>
         o.kind \in {"select"} \cup FollowUps /\ o.ok
    /\ o.step = "quarantine" => Policy = "quarantine_and_reset"
    /\ o.step = "init" => o.kind = "select" /\ o.ok
    /\ o.step \in {"event", "newline"} => o.kind \in {"create"} \cup FollowUps
    /\ o.step = "branch" => o.kind \in {"continue", "create"} \cup FollowUps
    /\ o.step = "sparse" => o.kind \in {"create", "compact"}
    /\ o.step = "list" => o.kind = "create"
    /\ o.step = "return" /\ o.ok => o.kind # "select"

(* The turn an operation works for waits for it at the stage it was called.   *)
OpTurn(p) ==
  LET o == op[p] IN
  Busy(p) =>
    /\ o.kind \in Selecting => turn[o.turn].stage = "unmatched" /\ turn[o.turn].fp \in Fingerprint
    /\ o.kind \in FollowUps => turn[o.turn].stage \in Ready /\ o.branch = turn[o.turn].branch

(* What it has read, once it is writing.                                      *)
OpContents(p) ==
  LET o == op[p] IN
  Busy(p) =>
    /\ o.kind \in {"continue", "create"} => o.branch \in Branch /\ o.contents \in BranchFile
    /\ o.step \in {"branch", "event", "newline", "sparse"} \/ (o.step = "return" /\ o.ok) =>
         o.contents \in BranchFile

TurnControl(t) ==
  /\ turn[t].stage \in {"new", "unmatched"} => turn[t].branch = None
  /\ turn[t].stage \in Ready \cup {"committed"} =>
       turn[t].branch \in Branch /\ turn[t].fp \in Fingerprint

Control ==
  /\ \A p \in Proc : OpControl(p) /\ OpTurn(p) /\ OpContents(p)
  /\ \A t \in Turn : TurnControl(t)

TypeInv == TypeOK /\ Control

--------------------------------------------------------------------------------
(* A step of one process. *)
StepOf(p) ==
  \/ \E t \in Turn : Find(p, t) \/ Request(p, t)
  \/ Proceed(p)
  \/ WriteFails(p)
  \/ Crash(p)

(* A step of a process leaves the operations of the others, and their turns,  *)
(* alone.                                                                     *)
LEMMA OthersKeep ==
  ASSUME TypeOK, Control, NEW p \in Proc, StepOf(p)
  PROVE  /\ \A q \in Proc : q # p => op'[q] = op[q]
         /\ \A t \in Turn : Home[t] # p => turn'[t] = turn[t]
<1> USE DEF TypeOK, Goto, Fail
<1>0. CASE \E t \in Turn : Find(p, t)
  BY <1>0 DEF Find, FindBranch, FindNothing
<1>1. CASE \E t \in Turn : Request(p, t)
  BY <1>1 DEF Request, SelectOrCreateBranch, CallOnBranch, Enter
<1>2. CASE Lock(p)
  BY <1>2 DEF Lock
<1>3. CASE Load(p)
  BY <1>3 DEF Load, LoadSession, SelectContinues, SelectCreates, SelectRefused, LoadBranch,
              LoadBranchMissing
<1>4. CASE Quarantine(p)
  BY <1>4 DEF Quarantine
<1>5. CASE Write(p)
  BY <1>5 DEF Write, InitSession, WriteBranch, AppendEvent, AppendNewline,
              WriteSparseCheckpoint, ListBranch
<1>6. CASE Return(p)
  <2>1. Home[op[p].turn] = p
    BY <1>6 DEF Return, At, Control, OpControl
  <2>2. QED
    BY <1>6, <2>1 DEF Return
<1>7. CASE WriteFails(p)
  BY <1>7 DEF WriteFails
<1>8. CASE Crash(p)
  BY <1>8 DEF Crash, Running
<1>9. QED
  BY <1>0, <1>1, <1>2, <1>3, <1>4, <1>5, <1>6, <1>7, <1>8 DEF StepOf, Proceed

LEMMA EmptyLedgerType == EmptyLedger \in Ledger
BY DEF EmptyLedger, Ledger

(* An append, whole or torn, leaves a ledger. *)
LEMMA LedgerType ==
  ASSUME NEW l \in Ledger, NEW kind, NEW t \in Turn
  PROVE  /\ Appended(l, kind, t) \in Ledger
         /\ [l EXCEPT !.newline = TRUE] \in Ledger
         /\ Torn(l) \in Ledger
<1>1. [turn |-> t, response |-> t] \in LedgerEntry /\ [turn |-> t, response |-> None] \in LedgerEntry
  BY DEF LedgerEntry
<1>2. Append(l.turns, [turn |-> t, response |-> t]) \in Seq(LedgerEntry)
  BY <1>1 DEF Ledger
<1>3. Append(l.turns, [turn |-> t, response |-> None]) \in Seq(LedgerEntry)
  BY <1>1 DEF Ledger
<1>4. l.turns \in Seq(LedgerEntry) /\ l.pending \in BOOLEAN /\ l.intact \in BOOLEAN
      /\ l.newline \in BOOLEAN /\ l.first \in {"none", "branch_created", "other"}
  BY DEF Ledger
<1>5. Appended(l, kind, t).turns \in Seq(LedgerEntry)
  BY <1>2, <1>3, <1>4 DEF Appended
<1>6. Appended(l, kind, t).first \in {"none", "branch_created", "other"}
  BY <1>4 DEF Appended
<1>7. Appended(l, kind, t) \in Ledger
  BY <1>4, <1>5, <1>6, Zenon DEF Appended, Ledger
<1>8. QED
  BY <1>7, <1>4 DEF Torn, Ledger

(* What an operation makes of branch.json is a branch.json again. *)
LEMMA UpdatedType ==
  ASSUME NEW old \in BranchFile, NEW kind, NEW t \in Turn, NEW fp \in Fingerprint
  PROVE  Updated(old, kind, t, fp) \in BranchFile
BY DEF Updated, BranchFile

(* An operation on a branch starts from the branch.json that is there.        *)
LEMMA LoadBranchStep ==
  ASSUME TypeInv, NEW p \in Proc, LoadBranch(p)
  PROVE  /\ op[p] \in Operation /\ op[p].kind \in FollowUps
         /\ op[p].turn \in Turn /\ op[p].branch \in Branch /\ branch[op[p].branch] \in BranchFile
         /\ \E fp \in Fingerprint, step \in {"event", "branch"} :
              op' = [op EXCEPT ![p].step = step,
                               ![p].contents = Updated(branch[op[p].branch], op[p].kind, op[p].turn, fp)]
<1> USE DEF TypeInv, TypeOK, Control, OpTurn, TurnControl, Busy, At, Idle, Operation, LoadBranch, FollowUps,
            MainCommits, TurnState
<1>1. op[p] \in Operation /\ op[p].kind \in FollowUps /\ op[p].turn \in Turn
  OBVIOUS
<1>2. op[p].branch \in Branch /\ IncomingFp(p) \in Fingerprint
  BY <1>1, StoreNoneAssumption DEF IncomingFp
<1>3. branch[op[p].branch] \in BranchFile
  BY <1>2
<1>4. PICK fp \in IF op[p].kind \in MainCommits THEN {IncomingFp(p)} ELSE Fingerprint,
           step \in CASE op[p].kind \in {"offshoot", "invalidate"} -> {"branch"}
                      [] op[p].kind = "reconcile"                  -> {"event", "branch"}
                      [] OTHER                                     -> {"event"} :
        op' = [op EXCEPT ![p].step = step,
                         ![p].contents = Updated(branch[op[p].branch], op[p].kind, op[p].turn, fp)]
  OBVIOUS
<1>5. fp \in Fingerprint
  BY <1>2
<1>6. step \in {"event", "branch"}
  OBVIOUS
<1>7. QED
  BY <1>1, <1>2, <1>3, <1>4, <1>5, <1>6

(* What one step of p establishes about p's own operation and turns. *)
OwnControl(p) ==
  /\ OpControl(p) /\ OpTurn(p) /\ OpContents(p)
  /\ \A t \in Turn : Home[t] = p => TurnControl(t)

LEMMA OwnStep ==
  ASSUME TypeInv, NEW p \in Proc, StepOf(p)
  PROVE  TypeOK' /\ OwnControl(p)'
<1> USE HomeAssumption, CallsAssumption, StoreNoneAssumption
    DEF TypeInv, TypeOK, Control, OwnControl, OpControl, OpTurn, OpContents, TurnControl, Goto, Fail,
        Busy, At, Idle, Operation, Kind, Step, FollowUps, MainCommits, Selecting, TurnState, Stage,
        Ready, disk
<1>0. ASSUME NEW t \in Turn, FindBranch(p, t) PROVE TypeOK' /\ OwnControl(p)'
  <2>1. PICK b \in Readable, f \in Fingerprint :
          turn' = [turn EXCEPT ![t] = [stage |-> "selected", branch |-> b, fp |-> f,
                                       checkpoint |-> branch[b].checkpoint]]
    BY <1>0 DEF FindBranch
  <2>2. b \in Branch /\ branch[b].checkpoint \in Turn \cup {None}
    BY DEF Readable, Listed, BranchFile
  <2>3. QED
    BY <1>0, <2>1, <2>2 DEF FindBranch
<1>1. ASSUME NEW t \in Turn, FindNothing(p, t) PROVE TypeOK' /\ OwnControl(p)'
  BY <1>1 DEF FindNothing
<1>2. ASSUME NEW t \in Turn, SelectOrCreateBranch(p, t) PROVE TypeOK' /\ OwnControl(p)'
  BY <1>2 DEF SelectOrCreateBranch, Enter
<1>3. ASSUME NEW t \in Turn, CallOnBranch(p, t) PROVE TypeOK' /\ OwnControl(p)'
  <2>1. PICK kind \in FollowUps : Enter(p, t, kind, turn[t].branch)
    BY <1>3 DEF CallOnBranch
  <2>2. turn[t].branch \in Branch /\ turn[t].stage \in Ready
    BY <1>3 DEF CallOnBranch
  <2>3. QED
    BY <1>3, <2>1, <2>2 DEF CallOnBranch, Enter
<1>4. CASE Lock(p)
  BY <1>4 DEF Lock
<1>5. CASE LoadSession(p)
  BY <1>5 DEF LoadSession
<1>6. CASE SelectContinues(p)
  <2> DEFINE contents(b) == [branch[b] EXCEPT !.fp = IncomingFp(p)]
  <2>1. op[p] \in Operation /\ op[p].turn \in Turn /\ IncomingFp(p) \in Fingerprint
    BY <1>6 DEF SelectContinues, IncomingFp
  <2>2. PICK b \in Listed :
          /\ ExactMatches(p) = {b}
          /\ op' = [op EXCEPT ![p].kind = "continue", ![p].step = "branch", ![p].branch = b,
                              ![p].contents = contents(b)]
    BY <1>6 DEF SelectContinues
  <2>3. b \in Branch /\ contents(b) \in BranchFile
    <3>1. b \in Branch /\ branch[b] \in BranchFile
      BY <1>6, <2>2 DEF SelectContinues, Loads, Listed, Valid
    <3>2. QED
      BY ONLY <3>1, <2>1 DEF BranchFile
  <2> HIDE DEF contents
  <2>4. [op[p] EXCEPT !.kind = "continue", !.step = "branch", !.branch = b, !.contents = contents(b)]
          \in Operation
    BY ONLY <2>1, <2>3 DEF Operation, Step, Kind, FollowUps, MainCommits
  <2>5. TypeOK'
    <3>1. op' \in [Proc -> Operation \cup {Idle}]
      BY ONLY <2>2, <2>4, op \in [Proc -> Operation \cup {Idle}]
    <3>2. QED
      BY <1>6, <3>1 DEF SelectContinues
  <2>6. OpControl(p)'
    BY <1>6, <2>1, <2>2, <2>3 DEF SelectContinues
  <2>7. OpTurn(p)'
    BY <1>6, <2>1, <2>2, <2>3 DEF SelectContinues
  <2>8. OpContents(p)'
    BY <1>6, <2>1, <2>2, <2>3 DEF SelectContinues
  <2>9. \A t \in Turn : Home[t] = p => TurnControl(t)'
    BY <1>6 DEF SelectContinues
  <2>10. QED
    BY <2>5, <2>6, <2>7, <2>8, <2>9 DEF OwnControl
<1>7. CASE SelectCreates(p)
  <2>1. op[p] \in Operation /\ op[p].turn \in Turn /\ IncomingFp(p) \in Fingerprint
    BY <1>7 DEF SelectCreates, IncomingFp
  <2>2. PICK b \in Branch \ minted, parent \in Listed \cup {None} :
          /\ minted' = minted \cup {b}
          /\ op' = [op EXCEPT ![p].kind = "create", ![p].branch = b, ![p].step = "branch",
                              ![p].contents = NewBranch(IncomingFp(p), parent),
                              ![p].ids = Listed \cup {b}]
    BY ONLY <1>7 DEF SelectCreates
  <2>3. Listed \subseteq Branch
    BY DEF Listed
  <2>4. NewBranch(IncomingFp(p), parent) \in BranchFile
    BY ONLY <2>1, <2>2, <2>3 DEF NewBranch, BranchFile
  <2>5. [op[p] EXCEPT !.kind = "create", !.branch = b, !.step = "branch",
                      !.contents = NewBranch(IncomingFp(p), parent), !.ids = Listed \cup {b}]
          \in Operation
    BY ONLY <2>1, <2>2, <2>3, <2>4 DEF Operation, Step, Kind, FollowUps, MainCommits
  <2>6. TypeOK'
    <3>1. op' \in [Proc -> Operation \cup {Idle}]
      BY ONLY <2>2, <2>5, op \in [Proc -> Operation \cup {Idle}]
    <3>2. minted' \subseteq Branch
      BY <2>2
    <3>3. QED
      BY <1>7, <3>1, <3>2 DEF SelectCreates
  <2>7. OpControl(p)'
    BY <1>7, <2>1, <2>2, <2>4 DEF SelectCreates
  <2>8. OpTurn(p)'
    <3>1. turn' = turn /\ op'[p].turn = op[p].turn /\ op'[p].kind = "create"
      BY <1>7, <2>2 DEF SelectCreates
    <3>2. turn[op[p].turn].stage = "unmatched"
      BY <1>7, <2>1 DEF SelectCreates
    <3>3. QED
      BY ONLY <3>1, <3>2, <2>1 DEF OpTurn, Selecting, FollowUps, MainCommits, IncomingFp
  <2>9. OpContents(p)'
    BY <1>7, <2>1, <2>2, <2>4 DEF SelectCreates
  <2>10. \A t \in Turn : Home[t] = p => TurnControl(t)'
    BY <1>7 DEF SelectCreates
  <2>11. QED
    BY <2>6, <2>7, <2>8, <2>9, <2>10 DEF OwnControl
<1>8. CASE SelectRefused(p)
  BY <1>8 DEF SelectRefused, Listed
<1>9. CASE LoadBranch(p)
  <2>1. op[p].turn \in Turn /\ op[p].branch \in Branch /\ branch[op[p].branch] \in BranchFile
    BY <1>9, LoadBranchStep
  <2>3. PICK fp \in Fingerprint, step \in {"event", "branch"} :
          op' = [op EXCEPT ![p].step = step,
                           ![p].contents = Updated(branch[op[p].branch], op[p].kind, op[p].turn, fp)]
    BY <1>9, LoadBranchStep
  <2>4. Updated(branch[op[p].branch], op[p].kind, op[p].turn, fp) \in BranchFile
    BY <2>1, UpdatedType
  <2>5. QED
    <3>1. TypeOK'
      <4>1. op[p] \in Operation
        BY <1>9 DEF LoadBranch
      <4>2. [op[p] EXCEPT !.step = step,
                          !.contents = Updated(branch[op[p].branch], op[p].kind, op[p].turn, fp)]
              \in Operation
        BY ONLY <4>1, <2>3, <2>4 DEF Operation, Step
      <4>3. op' \in [Proc -> Operation \cup {Idle}]
        BY ONLY <2>3, <4>2, op \in [Proc -> Operation \cup {Idle}]
      <4>4. QED
        BY <1>9, <4>3 DEF LoadBranch
    <3>2. OpControl(p)'
      BY <1>9, <2>1, <2>3, <2>4 DEF LoadBranch
    <3>3. OpTurn(p)'
      BY <1>9, <2>1, <2>3, <2>4 DEF LoadBranch
    <3>4. OpContents(p)'
      BY <1>9, <2>1, <2>3, <2>4 DEF LoadBranch
    <3>5. \A t \in Turn : Home[t] = p => TurnControl(t)'
      BY <1>9, <2>1, <2>3, <2>4 DEF LoadBranch
    <3>6. QED
      BY <3>1, <3>2, <3>3, <3>4, <3>5 DEF OwnControl
<1>10. CASE LoadBranchMissing(p)
  BY <1>10 DEF LoadBranchMissing
<1>11. CASE Quarantine(p)
  <2>1. TypeOK'
    <3>1. op' \in [Proc -> Operation \cup {Idle}]
      <4>1. op[p] \in Operation /\ op' = [op EXCEPT ![p].step = "load", ![p].retried = TRUE]
        BY <1>11 DEF Quarantine
      <4>2. [op[p] EXCEPT !.step = "load", !.retried = TRUE] \in Operation
        BY ONLY <4>1 DEF Operation, Step
      <4>3. QED
        BY ONLY <4>1, <4>2, op \in [Proc -> Operation \cup {Idle}]
    <3>2. ledger' \in [Branch -> Ledger]
      BY <1>11, EmptyLedgerType DEF Quarantine
    <3>3. branch' \in [Branch -> BranchFile \cup {None}] /\ session' \in (SUBSET Branch) \cup {None}
      BY <1>11 DEF Quarantine
    <3>4. QED
      BY <1>11, <3>1, <3>2, <3>3 DEF Quarantine
  <2>2. OpControl(p)'
    BY <1>11, EmptyLedgerType DEF Quarantine
  <2>3. OpTurn(p)'
    BY <1>11, EmptyLedgerType DEF Quarantine
  <2>4. OpContents(p)'
    BY <1>11, EmptyLedgerType DEF Quarantine
  <2>5. \A t \in Turn : Home[t] = p => TurnControl(t)'
    BY <1>11, EmptyLedgerType DEF Quarantine
  <2>6. QED
    BY <2>1, <2>2, <2>3, <2>4, <2>5 DEF OwnControl
<1>12. CASE InitSession(p)
  BY <1>12 DEF InitSession
<1>13. CASE WriteBranch(p)
  BY <1>13 DEF WriteBranch
<1>14. CASE AppendEvent(p)
  <2>1. op[p].branch \in Branch /\ op[p].turn \in Turn /\ ledger[op[p].branch] \in Ledger
    BY <1>14 DEF AppendEvent
  <2>2. Appended(ledger[op[p].branch], op[p].kind, op[p].turn) \in Ledger
    BY <2>1, LedgerType
  <2>3. ledger' \in [Branch -> Ledger]
    BY <1>14, <2>2 DEF AppendEvent
  <2>4. QED
    BY <1>14, <2>3 DEF AppendEvent
<1>15. CASE AppendNewline(p)
  <2>1. op[p].branch \in Branch /\ op[p].turn \in Turn /\ ledger[op[p].branch] \in Ledger
    BY <1>15 DEF AppendNewline
  <2>2. [ledger[op[p].branch] EXCEPT !.newline = TRUE] \in Ledger
    BY <2>1, LedgerType
  <2>3. ledger' \in [Branch -> Ledger]
    BY <1>15, <2>2 DEF AppendNewline
  <2>4. QED
    BY <1>15, <2>3 DEF AppendNewline
<1>16. CASE WriteSparseCheckpoint(p)
  BY <1>16 DEF WriteSparseCheckpoint
<1>17. CASE ListBranch(p)
  BY <1>17 DEF ListBranch
<1>18. CASE Return(p)
  <2>1. PICK t \in Turn : op[p] \in Operation /\ op[p].turn = t /\ op' = [op EXCEPT ![p] = Idle]
    BY <1>18 DEF Return
  <2>2. op' \in [Proc -> Operation \cup {Idle}] /\ ~Busy(p)'
    BY ONLY <2>1, op \in [Proc -> Operation \cup {Idle}], p \in Proc DEF Busy
  <2>3. UNCHANGED <<disk, faults>>
    BY ONLY <1>18 DEF Return
  <2>4. turn' = [turn EXCEPT ![t] = turn'[t]]
        /\ turn'[t] \in TurnState
        /\ TurnControl(t)'
    <3>1. CASE op[p].ok /\ op[p].kind \in Handing
      <4>1. StageAfter(op[p]) \in Ready
        BY <3>1 DEF Handing, StageAfter
      <4>2. op[p].branch \in Branch /\ op[p].contents.checkpoint \in Turn \cup {None}
        BY <1>18, <3>1 DEF Return, BranchFile, Handing
      <4>3. turn[t].fp \in Fingerprint
        BY <1>18, <2>1, <3>1 DEF Return, Handing
      <4>4. turn' = [turn EXCEPT ![t].stage      = StageAfter(op[p]),
                                 ![t].branch     = op[p].branch,
                                 ![t].checkpoint = op[p].contents.checkpoint]
        BY ONLY <1>18, <2>1, <3>1 DEF Return
      <4>5. turn[t] \in TurnState
        BY ONLY <2>1, turn \in [Turn -> TurnState]
      <4>6. turn'[t] = [turn[t] EXCEPT !.stage      = StageAfter(op[p]),
                                                        !.branch     = op[p].branch,
                                                        !.checkpoint = op[p].contents.checkpoint]
            /\ turn' = [turn EXCEPT ![t] = turn'[t]]
        BY ONLY <2>1, <4>4, turn \in [Turn -> TurnState]
      <4>7. /\ turn'[t].stage = StageAfter(op[p])
            /\ turn'[t].branch = op[p].branch
            /\ turn'[t].fp = turn[t].fp
            /\ turn'[t] \in TurnState
        BY ONLY <4>1, <4>2, <4>5, <4>6 DEF TurnState, Stage
      <4>8. TurnControl(t)'
        BY ONLY <4>1, <4>2, <4>3, <4>7 DEF TurnControl, Ready
      <4>9. QED
        BY ONLY <4>6, <4>7, <4>8
    <3>2. CASE ~(op[p].ok /\ op[p].kind \in Handing)
      <4>1. StageAfter(op[p]) \in {"failed", "committed", "closed"}
        <5>1. CASE ~op[p].ok
          BY <5>1 DEF StageAfter
        <5>2. CASE op[p].ok /\ op[p].kind \in MainCommits
          BY <5>2 DEF StageAfter
        <5>3. CASE op[p].ok /\ op[p].kind \notin MainCommits
          BY <3>2, <5>3 DEF StageAfter, Handing
        <5>4. QED
          BY <5>1, <5>2, <5>3
      <4>2. StageAfter(op[p]) = "committed" => op[p].kind \in FollowUps
        BY <3>2 DEF StageAfter, Handing
      <4>3. op[p].kind \in FollowUps =>
              turn[t].branch \in Branch /\ turn[t].fp \in Fingerprint
        BY <1>18, <2>1 DEF Return
      <4>4. turn' = [turn EXCEPT ![t].stage = StageAfter(op[p])]
        BY ONLY <1>18, <2>1, <3>2 DEF Return
      <4>5. turn[t] \in TurnState
        BY ONLY <2>1, turn \in [Turn -> TurnState]
      <4>6. turn'[t] = [turn[t] EXCEPT !.stage = StageAfter(op[p])]
            /\ turn' = [turn EXCEPT ![t] = turn'[t]]
        BY ONLY <2>1, <4>4, turn \in [Turn -> TurnState]
      <4>7. /\ turn'[t].stage = StageAfter(op[p])
            /\ turn'[t].branch = turn[t].branch
            /\ turn'[t].fp = turn[t].fp
            /\ turn'[t] \in TurnState
        BY ONLY <4>1, <4>5, <4>6 DEF TurnState, Stage
      <4>8. TurnControl(t)'
        BY ONLY <4>1, <4>2, <4>3, <4>7 DEF TurnControl, Ready
      <4>9. QED
        BY ONLY <4>6, <4>7, <4>8
    <3>3. QED
      BY ONLY <3>1, <3>2
  <2>5. TypeOK'
    <3>1. turn' \in [Turn -> TurnState]
      BY ONLY <2>1, <2>4, turn \in [Turn -> TurnState]
    <3>2. QED
      BY <2>2, <2>3, <3>1
  <2>6. OpControl(p)' /\ OpTurn(p)' /\ OpContents(p)'
    BY ONLY <2>2 DEF OpControl, OpTurn, OpContents
  <2>7. \A u \in Turn : Home[u] = p => TurnControl(u)'
    <3>1. \A u \in Turn : u # t => turn'[u] = turn[u]
      BY ONLY <2>1, <2>4, turn \in [Turn -> TurnState]
    <3>2. \A u \in Turn : u # t => TurnControl(u)'
      BY ONLY <3>1, \A v \in Turn : TurnControl(v) DEF TurnControl
    <3>3. QED
      BY ONLY <2>4, <3>2
  <2>8. QED
    BY <2>5, <2>6, <2>7 DEF OwnControl
<1>19. CASE WriteFails(p)
  <2>1. ledger' \in [Branch -> Ledger]
    <3>1. CASE ledger' = ledger
      BY <3>1
    <3>2. CASE ledger' = [ledger EXCEPT ![op[p].branch] = Torn(@)] /\ op[p].step = "event"
      <4>1. op[p].branch \in Branch /\ op[p].turn \in Turn /\ ledger[op[p].branch] \in Ledger
        BY <1>19, <3>2 DEF WriteFails, Inside
      <4>2. QED
        BY <3>2, <4>1, LedgerType
    <3>3. QED
      BY <1>19, <3>1, <3>2 DEF WriteFails
  <2>2. QED
    <3>1. TypeOK'
      <4>1. op' \in [Proc -> Operation \cup {Idle}]
        <5>1. op[p] \in Operation /\ op' = [op EXCEPT ![p].step = "return", ![p].ok = FALSE]
          BY <1>19 DEF WriteFails, Inside
        <5>2. [op[p] EXCEPT !.step = "return", !.ok = FALSE] \in Operation
          BY ONLY <5>1 DEF Operation, Step
        <5>3. QED
          BY ONLY <5>1, <5>2, op \in [Proc -> Operation \cup {Idle}]
      <4>2. QED
        BY <1>19, <2>1, <4>1 DEF WriteFails, Inside
    <3>2. OpControl(p)'
      BY <1>19, <2>1 DEF WriteFails, Inside
    <3>3. OpTurn(p)'
      BY <1>19, <2>1 DEF WriteFails, Inside
    <3>4. OpContents(p)'
      BY <1>19, <2>1 DEF WriteFails, Inside
    <3>5. \A t \in Turn : Home[t] = p => TurnControl(t)'
      BY <1>19, <2>1 DEF WriteFails, Inside
    <3>6. QED
      BY <3>1, <3>2, <3>3, <3>4, <3>5 DEF OwnControl
<1>20. CASE Crash(p)
  <2>1. ledger' \in [Branch -> Ledger]
    <3>1. CASE ledger' = ledger
      BY <3>1
    <3>2. CASE At(p, "event") /\ ledger' = [ledger EXCEPT ![op[p].branch] = Torn(@)]
      <4>1. op[p].branch \in Branch /\ op[p].turn \in Turn /\ ledger[op[p].branch] \in Ledger
        BY <3>2
      <4>2. QED
        BY <3>2, <4>1, LedgerType
    <3>3. QED
      BY <1>20, <3>1, <3>2 DEF Crash
  <2>2. op' = [op EXCEPT ![p] = Idle] /\ UNCHANGED <<session, branch, minted, generation>>
    BY ONLY <1>20 DEF Crash
  <2>3. op' \in [Proc -> Operation \cup {Idle}] /\ ~Busy(p)'
    BY ONLY <2>2, op \in [Proc -> Operation \cup {Idle}], p \in Proc DEF Busy
  <2>4. faults' \in Nat
    BY <1>20 DEF Crash
  <2>5. \A t \in Turn : turn'[t] \in {turn[t], [turn[t] EXCEPT !.stage = "dead"]}
    BY ONLY <1>20 DEF Crash
  <2>6. turn' \in [Turn -> TurnState]
    BY ONLY <1>20, <2>5, turn \in [Turn -> TurnState] DEF Crash, TurnState, Stage
  <2>7. \A t \in Turn : TurnControl(t)'
    BY ONLY <2>5, turn \in [Turn -> TurnState], \A t \in Turn : TurnControl(t)
       DEF TurnControl, TurnState, Ready
  <2>8. OpControl(p)' /\ OpTurn(p)' /\ OpContents(p)'
    BY ONLY <2>3 DEF OpControl, OpTurn, OpContents
  <2>9. TypeOK'
    BY <2>1, <2>2, <2>3, <2>4, <2>6
  <2>10. QED
    BY ONLY <2>7, <2>8, <2>9 DEF OwnControl
<1>21. QED
  BY <1>0, <1>1, <1>2, <1>3, <1>4, <1>5, <1>6, <1>7, <1>8, <1>9, <1>10, <1>11, <1>12, <1>13, <1>14, <1>15, <1>16, <1>17, <1>18, <1>19, <1>20 DEF StepOf, Find, Request, Proceed, Load, Write

LEMMA TypeStep == TypeInv /\ [Next]_vars => TypeInv'
<1>1. CASE UNCHANGED vars
  BY <1>1 DEF vars, disk, TypeInv, TypeOK, Control, OpControl, OpTurn, OpContents, TurnControl, Busy
<1>2. ASSUME TypeInv, NEW p \in Proc, StepOf(p) PROVE TypeInv'
  <2>1. TypeOK' /\ OwnControl(p)'
    BY <1>2, OwnStep
  <2>2. /\ \A q \in Proc : q # p => op'[q] = op[q]
        /\ \A t \in Turn : Home[t] # p => turn'[t] = turn[t]
    BY <1>2, OthersKeep DEF TypeInv
  <2>3. ASSUME NEW q \in Proc, q # p PROVE (OpControl(q) /\ OpTurn(q) /\ OpContents(q))'
    <3>1. op'[q] = op[q] /\ op[q] \in Operation \cup {Idle}
      BY <1>2, <2>2, <2>3 DEF TypeInv, TypeOK
    <3>2. Busy(q) => op[q].turn \in Turn /\ Home[op[q].turn] = q
      BY <1>2, <3>1 DEF TypeInv, Control, OpControl, Busy, Operation
    <3>3. Busy(q) => turn'[op[q].turn] = turn[op[q].turn]
      BY <2>2, <2>3, <3>2
    <3>4. OpControl(q) /\ OpTurn(q) /\ OpContents(q)
      BY <1>2 DEF TypeInv, Control
    <3>5. OpControl(q)' /\ OpContents(q)'
      BY <3>1, <3>4 DEF OpControl, OpContents, Busy
    <3>6. OpTurn(q)'
      BY <3>1, <3>3, <3>4 DEF OpTurn, Busy
    <3>7. QED
      BY <3>5, <3>6
  <2>4. ASSUME NEW t \in Turn, Home[t] # p PROVE TurnControl(t)'
    BY <1>2, <2>2, <2>4 DEF TypeInv, Control, TurnControl
  <2>5. QED
    BY <2>1, <2>3, <2>4 DEF TypeInv, Control, OwnControl
<1>3. QED
  BY <1>1, <1>2 DEF Next, StepOf

LEMMA TypeInit == Init => TypeInv
BY EmptyLedgerType DEF Init, TypeInv, TypeOK, Control, OpControl, OpTurn, OpContents, TurnControl, Busy,
   TurnState, Stage, NewTurn, Ready

(* Type correctness of ConversationStore, for any number of processes, turns  *)
(* and branches and either corruption_policy.                                 *)
THEOREM TypeCorrect == Spec => []TypeOK
<1>1. TypeInv => TypeOK
  BY DEF TypeInv
<1>2. QED
  BY <1>1, TypeInit, TypeStep, PTL DEF Spec

--------------------------------------------------------------------------------
(* Under fail_closed no step moves the session's directory away, and as long  *)
(* as none does, all processes wait for the same lock file.                   *)
NoQuarantine == \A p \in Proc : ~Quarantine(p)

LEMMA ClosedNeverQuarantines == Policy = "fail_closed" /\ TypeInv => NoQuarantine
BY DEF TypeInv, Control, OpControl, NoQuarantine, Quarantine, At

OneLockFile ==
  /\ generation = 0
  /\ \A p \in Proc : Busy(p) => op[p].file = 0

LockInv == TypeInv /\ OneLockFile /\ OneInside

LEMMA LockStep ==
  ASSUME NoQuarantine, LockInv, [Next]_vars
  PROVE  LockInv'
<1> USE DEF LockInv, OneLockFile, OneInside
<1>1. TypeInv'
  BY TypeStep
<1>2. CASE UNCHANGED vars
  BY <1>1, <1>2 DEF vars, disk, Busy, Inside
<1>3. ASSUME NEW p \in Proc, StepOf(p) PROVE LockInv'
  <2>1. \A q \in Proc : q # p => op'[q] = op[q]
    BY <1>3, OthersKeep DEF TypeInv
  <2>2. op[p] \in Operation \cup {Idle} /\ op \in [Proc -> Operation \cup {Idle}]
    BY DEF TypeInv, TypeOK
  <2>3. /\ generation' = 0
        /\ Busy(p)' => op'[p].file = 0
        /\ Inside(p)' => Inside(p) \/ Lock(p)
    <3> USE <1>3, <2>2 DEF Goto, Fail, Busy, At, Inside, Idle, Operation, Step, Kind
    <3>0. CASE \E t \in Turn : Find(p, t)
      BY <3>0 DEF Find, FindBranch, FindNothing, disk
    <3>1. CASE \E t \in Turn : Request(p, t)
      BY <3>1 DEF Request, SelectOrCreateBranch, CallOnBranch, Enter, disk
    <3>2. CASE Lock(p)
      BY <3>2 DEF Lock, disk
    <3>3. CASE Load(p)
      <4>1. CASE LoadSession(p) \/ LoadBranchMissing(p) \/ SelectRefused(p)
        BY <4>1 DEF LoadSession, LoadBranchMissing, SelectRefused, disk
      <4>2. CASE SelectContinues(p)
        BY <4>2 DEF SelectContinues, disk
      <4>3. CASE SelectCreates(p)
        BY <4>3 DEF SelectCreates
      <4>4. CASE LoadBranch(p)
        BY <4>4 DEF LoadBranch, disk
      <4>5. QED
        BY <3>3, <4>1, <4>2, <4>3, <4>4 DEF Load
    <3>4. CASE Quarantine(p)
      BY <3>4 DEF NoQuarantine
    <3>5. CASE Write(p)
      BY <3>5 DEF Write, InitSession, WriteBranch, AppendEvent, AppendNewline,
                  WriteSparseCheckpoint, ListBranch, disk
    <3>6. CASE Return(p)
      BY <3>6 DEF Return, disk
    <3>7. CASE WriteFails(p)
      BY <3>7 DEF WriteFails
    <3>8. CASE Crash(p)
      BY <3>8 DEF Crash, disk
    <3>9. QED
      BY <3>0, <3>1, <3>2, <3>3, <3>4, <3>5, <3>6, <3>7, <3>8 DEF StepOf, Proceed
  <2>4. ASSUME NEW q \in Proc, NEW r \in Proc, Inside(q)', Inside(r)' PROVE q = r
    <3>1. \A s \in Proc : s # p => (Inside(s)' <=> Inside(s))
      BY <2>1 DEF Inside, Busy
    <3>2. CASE Lock(p)
      <4>1. \A s \in Proc : ~Inside(s)
        <5>1. At(p, "lock") /\ \A s \in Proc : Inside(s) => op[s].file # op[p].file
          BY <3>2 DEF Lock
        <5>2. QED
          BY <5>1 DEF At, Inside
      <4>2. QED
        BY <2>4, <3>1, <4>1
    <3>3. CASE ~Lock(p)
      BY <2>3, <2>4, <3>1, <3>3
    <3>4. QED
      BY <3>2, <3>3
  <2>5. OneLockFile'
    BY <2>1, <2>3 DEF Busy
  <2>6. QED
    BY <1>1, <2>4, <2>5
<1>4. QED
  BY <1>2, <1>3 DEF Next, StepOf

(* withSessionLock under fail_closed: however many processes share the state  *)
(* root, crash or fail to write, at most one is inside an operation on a      *)
(* session.                                                                   *)
THEOREM LockExcludes == Policy = "fail_closed" => (Spec => []OneInside)
<1> SUFFICES ASSUME Policy = "fail_closed" PROVE Spec => []OneInside
  OBVIOUS
<1>1. Init => LockInv
  BY TypeInit DEF LockInv, OneLockFile, OneInside, Init, Inside, Busy
<1>2. LockInv /\ [Next]_vars => LockInv'
  BY LockStep, ClosedNeverQuarantines DEF LockInv
<1>3. LockInv => OneInside
  BY DEF LockInv
<1>4. QED
  BY <1>1, <1>2, <1>3, PTL DEF Spec
--------------------------------------------------------------------------------
(* What the one process inside knows of the files it is about to write.       *)
InLedger(b, t) == \E i \in 1..Len(ledger[b].turns) : ledger[b].turns[i].turn = t

(* branch.json has been written. *)
Written(o) ==
  \/ o.step \in {"sparse", "list"}
  \/ o.kind = "create" /\ o.step \in {"event", "newline"}
  \/ o.step = "return" /\ o.ok

(* It is still to be written, over one that was read. *)
Rewriting(o) == o.kind # "create" /\ o.step \in {"event", "newline", "branch"}

(* A commit's event is in the ledger. *)
EventWritten(o) ==
  o.kind \in MainCommits /\ (o.step \in {"newline", "branch"} \/ (o.step = "return" /\ o.ok))

WorkFacts(p) ==
  LET o == op[p] IN
  Busy(p) =>
    /\ o.step = "init" => session = None
    /\ o.kind = "create" =>
         /\ Listed \subseteq o.ids
         /\ o.contents.checkpoint = None
         /\ o.step = "branch" => branch[o.branch] = None
    /\ Written(o) => branch[o.branch] = o.contents
    /\ Rewriting(o) =>
         /\ branch[o.branch] \in BranchFile
         /\ o.contents.offshoot =
              IF o.kind = "offshoot" THEN o.turn ELSE branch[o.branch].offshoot
         /\ o.contents.lastTurn =
              IF o.kind \in MainCommits THEN o.turn ELSE branch[o.branch].lastTurn
         /\ o.kind \notin {"commit", "invalidate"} =>
              o.contents.checkpoint = branch[o.branch].checkpoint
         /\ o.kind = "invalidate" => o.contents.checkpoint = None
    /\ o.kind = "commit" /\ (Rewriting(o) \/ Written(o)) => o.contents.checkpoint = o.turn
    /\ EventWritten(o) =>
         /\ ledger[o.branch].turns # <<>>
         /\ LastEntry(ledger[o.branch]).turn = o.turn
         /\ LastEntry(ledger[o.branch]).response = IF o.kind = "commit" THEN o.turn ELSE None

(* A turn is in the ledger of its own branch only, and until its caller knows *)
(* its commit is still at work.                                               *)
LedgerFacts(t) ==
  \A b \in Branch : InLedger(b, t) =>
    /\ turn[t].branch = b
    /\ turn[t].stage \in Ready =>
         LET o == op[Home[t]] IN
         /\ Busy(Home[t]) /\ o.turn = t /\ o.kind \in MainCommits
         /\ o.step \in {"newline", "branch", "return"}

(* A branch id that was not handed out names no file.                         *)
MintedFacts ==
  /\ \A b \in Branch \ minted : ledger[b] = EmptyLedger /\ branch[b] = None
  /\ \A p \in Proc : Busy(p) /\ op[p].branch # None => op[p].branch \in minted
  /\ \A t \in Turn : turn[t].branch # None => turn[t].branch \in minted

StoreInv ==
  /\ LockInv
  /\ MintedFacts
  /\ \A p \in Proc : WorkFacts(p)
  /\ \A t \in Turn : LedgerFacts(t)

(* The only step that adds a turn to a ledger is the append of a commit's     *)
(* event, and without a quarantine nothing takes one away.                     *)
Commits(p) == AppendEvent(p) /\ op[p].kind \in MainCommits

CommitEntry(kind, t) ==
  [turn |-> t, response |-> IF kind = "commit" THEN t ELSE None]

LEMMA AppendedTurns ==
  ASSUME NEW l \in Ledger, NEW kind, NEW t \in Turn
  PROVE  /\ kind \in MainCommits =>
              Appended(l, kind, t).turns = Append(l.turns, CommitEntry(kind, t))
         /\ kind \notin MainCommits => Appended(l, kind, t).turns = l.turns
BY DEF Appended, MainCommits, CommitEntry

LEMMA TurnsEffect ==
  ASSUME TypeInv, NEW p \in Proc, ~Quarantine(p), StepOf(p), NEW b \in Branch
  PROVE  \/ ledger'[b].turns = ledger[b].turns /\ ~(Commits(p) /\ b = op[p].branch)
         \/ /\ Commits(p) /\ b = op[p].branch
            /\ ledger'[b].turns = Append(ledger[b].turns, CommitEntry(op[p].kind, op[p].turn))
<1>1. ledger[b] \in Ledger /\ ledger \in [Branch -> Ledger]
  BY DEF TypeInv, TypeOK
<1>2. CASE AppendEvent(p)
  <2>1. op[p].turn \in Turn
    BY <1>2 DEF AppendEvent, At, Busy, TypeInv, TypeOK, Operation
  <2>2. ledger' = [ledger EXCEPT ![op[p].branch] = Appended(@, op[p].kind, op[p].turn)]
    BY <1>2 DEF AppendEvent
  <2>3. CASE b = op[p].branch
    <3>1. ledger'[b] = Appended(ledger[b], op[p].kind, op[p].turn)
      BY <1>1, <2>2, <2>3
    <3>2. QED
      BY <1>1, <1>2, <2>1, <2>3, <3>1, AppendedTurns DEF Commits
  <2>4. CASE b # op[p].branch
    BY <1>1, <2>2, <2>4
  <2>5. QED
    BY <2>3, <2>4
<1>3. CASE ~AppendEvent(p) /\ ledger'[b].turns = ledger[b].turns
  BY <1>3 DEF Commits
<1>4. CASE AppendNewline(p)
  BY <1>1, <1>4 DEF AppendNewline, Ledger, At, Commits, AppendEvent
<1>5. CASE WriteFails(p)
  <2>1. op'[p].step = "return"
    BY <1>5 DEF WriteFails, Fail, Inside, Busy, TypeInv, TypeOK, Operation
  <2>2. ~AppendEvent(p)
    BY <2>1 DEF AppendEvent, Goto, At, Busy, TypeInv, TypeOK, Operation
  <2>3. Torn(ledger[b]).turns = ledger[b].turns
    BY <1>1 DEF Torn, Ledger
  <2>4. ledger'[b] \in {ledger[b], Torn(ledger[b])}
    BY <1>1, <1>5 DEF WriteFails
  <2>5. QED
    BY <2>2, <2>3, <2>4 DEF Commits
<1>6. CASE ledger' = ledger
  BY <1>6, <1>2, <1>3
<1>7. CASE Crash(p) /\ ledger' # ledger
  <2>1. ~AppendEvent(p)
    BY <1>7 DEF AppendEvent, Crash, Goto, Busy, At, Idle, TypeInv, TypeOK, Operation
  <2>2. Torn(ledger[b]).turns = ledger[b].turns
    BY <1>1 DEF Torn, Ledger
  <2>3. ledger'[b] \in {ledger[b], Torn(ledger[b])}
    BY <1>1, <1>7 DEF Crash
  <2>4. QED
    BY <2>1, <2>2, <2>3 DEF Commits
<1>8. QED
  <2>1. CASE \E t \in Turn : Find(p, t) \/ Request(p, t)
    BY <1>6, <2>1 DEF Find, FindBranch, FindNothing, Request, SelectOrCreateBranch, CallOnBranch, disk
  <2>2. CASE Lock(p) \/ Return(p)
    BY <1>6, <2>2 DEF Lock, Return, disk
  <2>3. CASE Load(p)
    BY <1>6, <2>3 DEF Load, LoadSession, SelectContinues, SelectCreates, SelectRefused, LoadBranch,
                LoadBranchMissing, disk
  <2>4. CASE Quarantine(p)
    BY <2>4
  <2>5. CASE Write(p)
    BY <1>2, <1>4, <1>6, <2>5 DEF Write, InitSession, WriteBranch, WriteSparseCheckpoint, ListBranch, disk
  <2>6. QED
    BY <1>5, <1>6, <1>7, <2>1, <2>2, <2>3, <2>4, <2>5 DEF StepOf, Proceed

LEMMA InLedgerEffect ==
  ASSUME TypeInv, NEW p \in Proc, ~Quarantine(p), StepOf(p), NEW b \in Branch, NEW t \in Turn
  PROVE  InLedger(b, t)' <=> InLedger(b, t) \/ (Commits(p) /\ b = op[p].branch /\ t = op[p].turn)
<1>1. ledger[b].turns \in Seq(LedgerEntry)
  BY DEF TypeInv, TypeOK, Ledger
<1>2. CASE ledger'[b].turns = ledger[b].turns /\ ~(Commits(p) /\ b = op[p].branch)
  BY <1>2 DEF InLedger
<1>3. CASE ledger'[b].turns = Append(ledger[b].turns, CommitEntry(op[p].kind, op[p].turn))
           /\ Commits(p) /\ b = op[p].branch
  <2> DEFINE s == ledger[b].turns
             e == CommitEntry(op[p].kind, op[p].turn)
  <2>1. /\ Len(Append(s, e)) = Len(s) + 1 /\ Len(s) \in Nat
        /\ \A i \in 1..Len(s) : Append(s, e)[i] = s[i]
        /\ Append(s, e)[Len(s) + 1] = e
    BY <1>1
  <2>2. e.turn = op[p].turn
    BY DEF CommitEntry
  <2>3. InLedger(b, t)' <=> InLedger(b, t) \/ t = op[p].turn
    <3>1. ledger'[b].turns = Append(s, e)
      BY <1>3
    <3> HIDE DEF e
    <3>2. QED
      BY ONLY <3>1, <2>1, <2>2 DEF InLedger
  <2>4. QED
    BY <1>3, <2>3
<1>4. QED
  BY <1>2, <1>3, TurnsEffect

--------------------------------------------------------------------------------
(* Steps of a process outside the lock leave the disk alone. *)
LEMMA OutsideKeepsDisk ==
  ASSUME TypeInv, NEW p \in Proc, StepOf(p), ~Inside(p)
  PROVE  UNCHANGED disk
<1>1. CASE \E t \in Turn : Find(p, t) \/ Request(p, t)
  BY <1>1 DEF Find, FindBranch, FindNothing, Request, SelectOrCreateBranch, CallOnBranch
<1>2. CASE Lock(p) \/ Crash(p)
  BY <1>2 DEF Lock, Crash, At, Inside, disk
<1>3. CASE Load(p) \/ Quarantine(p) \/ Write(p) \/ Return(p) \/ WriteFails(p)
  BY <1>3 DEF Load, LoadSession, SelectContinues, SelectCreates, SelectRefused, LoadBranch,
     LoadBranchMissing, Quarantine, Write, InitSession, WriteBranch, AppendEvent, AppendNewline,
     WriteSparseCheckpoint, ListBranch, Return, WriteFails, At, Inside
<1>4. QED
  BY <1>1, <1>2, <1>3 DEF StepOf, Proceed

(* branch.json changes only where it is written, and then to what the writer  *)
(* holds.                                                                     *)
LEMMA BranchEffect ==
  ASSUME TypeInv, NEW p \in Proc, ~Quarantine(p), StepOf(p), NEW b \in Branch
  PROVE  \/ branch'[b] = branch[b]
         \/ WriteBranch(p) /\ b = op[p].branch /\ branch'[b] = op[p].contents
<1>1. branch \in [Branch -> BranchFile \cup {None}]
  BY DEF TypeInv, TypeOK
<1>2. CASE WriteBranch(p)
  BY <1>1, <1>2 DEF WriteBranch
<1>3. CASE Quarantine(p)
  BY <1>3
<1>4. CASE ~WriteBranch(p) /\ ~Quarantine(p)
  <2>1. branch' = branch
    <3>1. CASE \E t \in Turn : Find(p, t) \/ Request(p, t)
      BY <3>1 DEF Find, FindBranch, FindNothing, Request, SelectOrCreateBranch, CallOnBranch, disk
    <3>2. CASE Lock(p) \/ Return(p) \/ Crash(p) \/ WriteFails(p)
      BY <3>2 DEF Lock, Return, Crash, WriteFails, disk
    <3>3. CASE Load(p)
      BY <3>3 DEF Load, LoadSession, SelectContinues, SelectCreates, SelectRefused, LoadBranch,
                  LoadBranchMissing, disk
    <3>4. CASE Write(p)
      BY <1>4, <3>4 DEF Write, InitSession, AppendEvent, AppendNewline, WriteSparseCheckpoint, ListBranch,
                         disk
    <3>5. QED
      BY <1>4, <3>1, <3>2, <3>3, <3>4 DEF StepOf, Proceed
  <2>2. QED
    BY <2>1
<1>5. QED
  BY <1>2, <1>3, <1>4

(* session.json grows: it is made empty when there is none, and then written  *)
(* with what was listed and one branch more.                                  *)
LEMMA SessionEffect ==
  ASSUME StoreInv, NEW p \in Proc, ~Quarantine(p), StepOf(p)
  PROVE  \/ session' = session
         \/ InitSession(p) /\ session = None /\ session' = {}
         \/ ListBranch(p) /\ Listed \subseteq op[p].ids /\ session' = op[p].ids
<1>1. CASE InitSession(p)
  BY <1>1 DEF InitSession, At, StoreInv, WorkFacts
<1>2. CASE ListBranch(p)
  BY <1>2 DEF ListBranch, At, StoreInv, LockInv, TypeInv, Control, OpControl, WorkFacts
<1>3. CASE Quarantine(p)
  BY <1>3
<1>4. CASE ~InitSession(p) /\ ~ListBranch(p) /\ ~Quarantine(p)
  <2>1. CASE \E t \in Turn : Find(p, t) \/ Request(p, t)
    BY <2>1 DEF Find, FindBranch, FindNothing, Request, SelectOrCreateBranch, CallOnBranch, disk
  <2>2. CASE Lock(p) \/ Return(p) \/ Crash(p) \/ WriteFails(p)
    BY <2>2 DEF Lock, Return, Crash, WriteFails, disk
  <2>3. CASE Load(p)
    BY <2>3 DEF Load, LoadSession, SelectContinues, SelectCreates, SelectRefused, LoadBranch,
                LoadBranchMissing, disk
  <2>4. CASE Write(p)
    BY <1>4, <2>4 DEF Write, WriteBranch, AppendEvent, AppendNewline, WriteSparseCheckpoint, disk
  <2>5. QED
    BY <1>4, <2>1, <2>2, <2>3, <2>4 DEF StepOf, Proceed
<1>5. QED
  BY <1>1, <1>2, <1>3, <1>4

(* Each step leaves its process with the knowledge of the files it needs to   *)
(* write on.                                                                  *)
LEMMA OwnWork ==
  ASSUME StoreInv, NEW p \in Proc, ~Quarantine(p), StepOf(p)
  PROVE  WorkFacts(p)'
<1>1. /\ op \in [Proc -> Operation \cup {Idle}] /\ op[p] \in Operation \cup {Idle}
      /\ branch \in [Branch -> BranchFile \cup {None}] /\ ledger \in [Branch -> Ledger]
  BY DEF StoreInv, LockInv, TypeInv, TypeOK
<1>2. OpControl(p) /\ OpTurn(p) /\ OpContents(p) /\ WorkFacts(p)
  BY DEF StoreInv, LockInv, TypeInv, Control
<1>3. TypeInv
  BY DEF StoreInv, LockInv
<1> USE DEF WorkFacts, Written, Rewriting, EventWritten, Goto, Fail, Busy, At, Idle, Operation, FollowUps,
            MainCommits, disk, Listed
<1>0. CASE \E t \in Turn : Find(p, t)
  BY <1>2, <1>0 DEF Find, FindBranch, FindNothing
<1>4. CASE \E t \in Turn : Request(p, t)
  BY <1>1, <1>4, CallsAssumption DEF Request, SelectOrCreateBranch, CallOnBranch, Enter
<1>5. CASE Lock(p)
  BY <1>1, <1>2, <1>5 DEF Lock, OpControl
<1>6. CASE LoadSession(p)
  BY <1>1, <1>2, <1>6 DEF LoadSession
<1>7. CASE SelectContinues(p)
  <2>1. PICK b \in Listed :
          /\ Valid(b)
          /\ op' = [op EXCEPT ![p].kind = "continue", ![p].step = "branch", ![p].branch = b,
                              ![p].contents = [branch[b] EXCEPT !.fp = IncomingFp(p)]]
    BY <1>7 DEF SelectContinues, Loads
  <2>2. b \in Branch /\ branch[b] \in BranchFile
    BY <1>1, <1>3, <2>1 DEF TypeInv, TypeOK, Valid
  <2>3. op'[p].kind = "continue" /\ op'[p].step = "branch" /\ op'[p].branch = b
        /\ op'[p].contents = [branch[b] EXCEPT !.fp = IncomingFp(p)]
    BY <1>1, <1>7, <2>1 DEF SelectContinues
  <2>4. /\ op'[p].contents.checkpoint = branch[b].checkpoint
        /\ op'[p].contents.offshoot = branch[b].offshoot
        /\ op'[p].contents.lastTurn = branch[b].lastTurn
    BY <2>2, <2>3 DEF BranchFile
  <2>5. branch' = branch
    BY <1>7 DEF SelectContinues
  <2>6. QED
    BY <2>2, <2>3, <2>4, <2>5
<1>8. CASE SelectCreates(p)
  <2>1. PICK b \in Branch \ minted, parent \in Listed \cup {None} :
          op' = [op EXCEPT ![p].kind = "create", ![p].branch = b,
                           ![p].step = "branch",
                           ![p].contents = NewBranch(IncomingFp(p), parent),
                           ![p].ids = Listed \cup {b}]
    BY <1>8 DEF SelectCreates
  <2>2. branch[b] = None
    BY <2>1 DEF StoreInv, MintedFacts
  <2>3. session' = session /\ branch' = branch
    BY <1>8 DEF SelectCreates
  <2>4. /\ op'[p].kind = "create" /\ op'[p].branch = b
        /\ op'[p].step = "branch"
        /\ op'[p].contents = NewBranch(IncomingFp(p), parent) /\ op'[p].ids = Listed \cup {b}
    <3>1. op[p] \in Operation
      BY <1>1, <1>8 DEF SelectCreates
    <3>2. QED
      BY ONLY <3>1, <2>1, <1>1, p \in Proc DEF Operation
  <2>5. op'[p].contents.checkpoint = None /\ Listed \subseteq op'[p].ids
    BY <2>4 DEF NewBranch
  <2>6. Listed' = Listed
    BY <2>3
  <2>7. QED
    BY ONLY <2>2, <2>3, <2>4, <2>5, <2>6
       DEF WorkFacts, Written, Rewriting, EventWritten, MainCommits
<1>9. CASE SelectRefused(p) \/ LoadBranchMissing(p)
  BY <1>1, <1>2, <1>9 DEF SelectRefused, LoadBranchMissing, OpControl
<1>10. CASE LoadBranch(p)
  <2>1. PICK fp \in Fingerprint, step \in {"event", "branch"} :
          op' = [op EXCEPT ![p].step = step,
                           ![p].contents = Updated(branch[op[p].branch], op[p].kind, op[p].turn, fp)]
    BY <1>3, <1>10, LoadBranchStep
  <2>2. op[p] \in Operation /\ op[p].kind \in FollowUps /\ op[p].branch \in Branch
        /\ branch[op[p].branch] \in BranchFile
    BY <1>3, <1>10, LoadBranchStep
  <2>3. op'[p].contents = Updated(branch[op[p].branch], op[p].kind, op[p].turn, fp)
        /\ op'[p].kind = op[p].kind /\ op'[p].turn = op[p].turn /\ op'[p].branch = op[p].branch
        /\ op'[p].step \in {"event", "branch"}
    BY <1>1, <1>10, <2>1 DEF LoadBranch
  <2> DEFINE old == branch[op[p].branch]
             new == op'[p].contents
  <2>4. /\ new.offshoot = IF op[p].kind = "offshoot" THEN op[p].turn ELSE old.offshoot
        /\ new.lastTurn = IF op[p].kind \in MainCommits THEN op[p].turn ELSE old.lastTurn
        /\ op[p].kind \notin {"commit", "invalidate"} => new.checkpoint = old.checkpoint
        /\ op[p].kind = "invalidate" => new.checkpoint = None
        /\ op[p].kind = "commit" => new.checkpoint = op[p].turn
    <3>1. CASE op[p].kind \in {"commit", "commit_bare"}
      BY <2>2, <2>3, <3>1 DEF Updated, BranchFile
    <3>2. CASE op[p].kind \in {"offshoot", "compact", "invalidate"}
      BY <2>2, <2>3, <3>2 DEF Updated, BranchFile
    <3>3. CASE op[p].kind \in {"side", "reconcile"}
      BY <2>2, <2>3, <3>3 DEF Updated, BranchFile
    <3>4. QED
      BY <2>2, <3>1, <3>2, <3>3
  <2>5. branch' = branch
    BY <1>10 DEF LoadBranch
  <2>6. op'[p].kind \notin {"create", "continue"}
    BY <2>2, <2>3
  <2>7. op[p].kind \in MainCommits => op'[p].step = "event"
    <3>1. CASE op[p].kind \in MainCommits
      BY <1>1, <1>10, <2>2, <3>1 DEF LoadBranch
    <3>2. QED
      BY <3>1
  <2>8. QED
    BY ONLY <2>2, <2>3, <2>4, <2>5, <2>6, <2>7 DEF WorkFacts, Busy, Written, Rewriting, EventWritten
<1>11. CASE Quarantine(p)
  BY <1>11
<1>12. CASE InitSession(p)
  BY <1>1, <1>2, <1>12 DEF InitSession, OpControl
<1>13. CASE WriteBranch(p)
  <2>1. session' = session /\ ledger' = ledger /\ op' = [op EXCEPT ![p].step =
           CASE op[p].kind = "create"  -> "event"
             [] op[p].kind = "compact" -> "sparse"
             [] OTHER                  -> "return"]
    BY <1>13 DEF WriteBranch
  <2>2. op[p] \in Operation /\ op[p].step = "branch" /\ op[p].kind \in {"continue", "create"} \cup FollowUps
    BY <1>1, <1>2, <1>13 DEF WriteBranch, OpControl
  <2>3. /\ op'[p] = [op[p] EXCEPT !.step = op'[p].step]
        /\ op'[p].step \in {"event", "sparse", "return"}
        /\ op'[p].step = "event" => op[p].kind = "create"
    BY <1>1, <2>1, <2>2
  <2>4. op[p].branch \in Branch
    BY <1>2, <1>3, <2>2 DEF OpContents, OpTurn, TypeInv, Control, TurnControl
  <2>5. branch'[op[p].branch] = op[p].contents
    BY <1>1, <1>13, <2>4 DEF WriteBranch
  <2>6. QED
    BY <1>2, <2>1, <2>2, <2>3, <2>5
<1>14. CASE AppendEvent(p)
  <2>1. session' = session /\ branch' = branch /\ op' = [op EXCEPT ![p].step = "newline"]
    BY <1>14 DEF AppendEvent
  <2>2. op[p] \in Operation /\ op[p].step = "event" /\ op[p].kind \in {"create"} \cup FollowUps
    BY <1>1, <1>2, <1>14 DEF AppendEvent, OpControl
  <2>3. op'[p] = [op[p] EXCEPT !.step = "newline"]
    BY <1>1, <2>1
  <2>4. op[p].branch \in Branch
    BY <1>2, <1>3, <2>2 DEF OpContents, OpTurn, TypeInv, Control, TurnControl
  <2>5. op[p].kind \in MainCommits =>
          /\ ledger'[op[p].branch].turns # <<>>
          /\ LastEntry(ledger'[op[p].branch]) = CommitEntry(op[p].kind, op[p].turn)
    <3>1. PICK b \in Branch : b = op[p].branch
      BY <2>4
    <3>2. op[p].kind \in MainCommits =>
            ledger'[b].turns = Append(ledger[b].turns, CommitEntry(op[p].kind, op[p].turn))
      BY <1>3, <1>14, <3>1, TurnsEffect DEF Commits
    <3>3. ledger[b].turns \in Seq(LedgerEntry)
      BY <1>1 DEF Ledger
    <3>4. \A e : Append(ledger[b].turns, e) # <<>>
                 /\ Append(ledger[b].turns, e)[Len(Append(ledger[b].turns, e))] = e
      BY <3>3
    <3>5. QED
      BY <3>1, <3>2, <3>4 DEF LastEntry
  <2>6. QED
    BY <1>2, <2>1, <2>2, <2>3, <2>5 DEF CommitEntry
<1>15. CASE AppendNewline(p)
  <2>1. session' = session /\ branch' = branch /\ op' = [op EXCEPT ![p].step =
           IF op[p].kind = "create" THEN "sparse" ELSE "branch"]
    BY <1>15 DEF AppendNewline
  <2>2. op[p] \in Operation /\ op[p].step = "newline" /\ op[p].kind \in {"create"} \cup FollowUps
    BY <1>1, <1>2, <1>15 DEF AppendNewline, OpControl
  <2>3. op'[p] = [op[p] EXCEPT !.step = IF op[p].kind = "create" THEN "sparse" ELSE "branch"]
    BY <1>1, <2>1
  <2>4. op[p].branch \in Branch
    BY <1>2, <1>3, <2>2 DEF OpContents, OpTurn, TypeInv, Control, TurnControl
  <2>5. ledger'[op[p].branch].turns = ledger[op[p].branch].turns
    BY <1>1, <1>15, <2>4 DEF AppendNewline, Ledger
  <2>6. /\ op'[p].kind = op[p].kind /\ op'[p].branch = op[p].branch /\ op'[p].ids = op[p].ids
        /\ op'[p].contents = op[p].contents /\ op'[p].turn = op[p].turn
    BY ONLY <2>2, <2>3 DEF Operation
  <2>7. LastEntry(ledger[op[p].branch])' = LastEntry(ledger[op[p].branch])
    BY ONLY <2>5, <2>6 DEF LastEntry
  <2>8. Busy(p) /\ WorkFacts(p)
    BY <1>2, <1>15 DEF AppendNewline
  <2>9. Listed' = Listed
    BY <2>1
  <2>10. op'[p].step = IF op[p].kind = "create" THEN "sparse" ELSE "branch"
    BY ONLY <2>2, <2>3 DEF Operation
  <2>11. /\ Written(op'[p]) = Written(op[p]) /\ Rewriting(op'[p]) = Rewriting(op[p])
         /\ EventWritten(op'[p]) = EventWritten(op[p])
    BY ONLY <2>2, <2>6, <2>10 DEF Written, Rewriting, EventWritten, FollowUps, MainCommits
  <2> HIDE DEF Written, Rewriting, EventWritten
  <2>12. QED
    BY ONLY <2>1, <2>5, <2>6, <2>7, <2>8, <2>9, <2>10, <2>11 DEF WorkFacts
<1>16. CASE WriteSparseCheckpoint(p)
  BY <1>1, <1>2, <1>16 DEF WriteSparseCheckpoint, OpControl
<1>17. CASE ListBranch(p)
  BY <1>1, <1>2, <1>17 DEF ListBranch, OpControl
<1>18. CASE Return(p) \/ Crash(p)
  BY <1>1, <1>18 DEF Return, Crash
<1>19. CASE WriteFails(p)
  <2>1. session' = session /\ op[p] \in Operation
        /\ op' = [op EXCEPT ![p].step = "return", ![p].ok = FALSE]
    BY <1>1, <1>19 DEF WriteFails, Inside
  <2>2. /\ op'[p].kind = op[p].kind /\ op'[p].branch = op[p].branch /\ op'[p].ids = op[p].ids
        /\ op'[p].contents = op[p].contents /\ op'[p].step = "return"
    BY <1>1, <1>19 DEF WriteFails, Inside
  <2>3. ~op'[p].ok
    BY <1>1, <1>19 DEF WriteFails, Inside
  <2>4. Listed' = Listed
    BY <2>1
  <2>5. Busy(p) /\ WorkFacts(p)
    BY <1>2, <1>19 DEF WriteFails, Inside
  <2>6. QED
    BY ONLY <2>2, <2>3, <2>4, <2>5 DEF WorkFacts, Written, Rewriting, EventWritten
<1>20. QED
  BY <1>0, <1>4, <1>5, <1>6, <1>7, <1>8, <1>9, <1>10, <1>11, <1>12, <1>13, <1>14, <1>15, <1>16, <1>17, <1>18,
     <1>19 DEF StepOf, Proceed, Load, Write

(* The others are at most waiting for the lock, or nothing changes for them.  *)
LEMMA OthersWork ==
  ASSUME StoreInv, NEW p \in Proc, StepOf(p), NEW q \in Proc, q # p
  PROVE  WorkFacts(q)'
<1>1. op'[q] = op[q]
  BY OthersKeep DEF StoreInv, LockInv, TypeInv
<1>2. WorkFacts(q) /\ OpControl(q)
  BY DEF StoreInv, LockInv, TypeInv, Control
<1>3. CASE Inside(p)
  <2>1. Busy(q) => op[q].step = "lock"
    BY <1>3 DEF StoreInv, LockInv, OneInside, Inside
  <2>2. Busy(q) => op[q].kind \notin {"create", "continue"}
    BY <1>2, <2>1 DEF OpControl, FollowUps, MainCommits
  <2>3. QED
    BY <1>1, <2>1, <2>2 DEF WorkFacts, Written, Rewriting, EventWritten, Busy
<1>4. CASE ~Inside(p)
  <2>1. UNCHANGED disk
    BY <1>4, OutsideKeepsDisk DEF StoreInv, LockInv
  <2>2. session' = session /\ branch' = branch /\ ledger' = ledger
    BY <2>1 DEF disk
  <2>3. QED
    BY <1>1, <1>2, <2>2 DEF WorkFacts, Written, Rewriting, EventWritten, Busy, Listed, LastEntry
<1>5. QED
  BY <1>3, <1>4

(* A turn's stage, branch and fingerprint change only by what its own process *)
(* does for it.                                                               *)
LEMMA StageEffect ==
  ASSUME TypeInv, NEW p \in Proc, StepOf(p), NEW t \in Turn
  PROVE  \/ turn'[t].stage = turn[t].stage /\ turn'[t].branch = turn[t].branch
            /\ turn'[t].checkpoint = turn[t].checkpoint
         \/ Crash(p) /\ Home[t] = p /\ turn'[t].stage = "dead" /\ turn'[t].branch = turn[t].branch
            /\ turn'[t].checkpoint = turn[t].checkpoint
            /\ turn[t].stage # "committed"
         \/ Find(p, t) /\ turn[t].stage = "new" /\ turn'[t].stage \in {"unmatched", "selected"}
         \/ Return(p) /\ t = op[p].turn /\ op[p].ok /\ op[p].kind \in Handing
            /\ turn'[t].stage = StageAfter(op[p]) /\ turn'[t].branch = op[p].branch
            /\ turn'[t].checkpoint = op[p].contents.checkpoint
         \/ Return(p) /\ t = op[p].turn /\ ~(op[p].ok /\ op[p].kind \in Handing)
            /\ turn'[t].stage = StageAfter(op[p]) /\ turn'[t].branch = turn[t].branch
            /\ turn'[t].checkpoint = turn[t].checkpoint
<1>1. turn \in [Turn -> TurnState] /\ turn[t] \in TurnState
  BY DEF TypeInv, TypeOK
<1>2. CASE Return(p) /\ t = op[p].turn
  <2>1. CASE op[p].ok /\ op[p].kind \in Handing
    <3>1. turn' = [turn EXCEPT ![op[p].turn].stage      = StageAfter(op[p]),
                               ![op[p].turn].branch     = op[p].branch,
                               ![op[p].turn].checkpoint = op[p].contents.checkpoint]
      BY ONLY <1>2, <2>1 DEF Return
    <3>2. turn'[t] = [turn[t] EXCEPT !.stage      = StageAfter(op[p]),
                                     !.branch     = op[p].branch,
                                     !.checkpoint = op[p].contents.checkpoint]
      BY ONLY <1>1, <1>2, <3>1, t \in Turn
    <3>3. turn'[t].stage = StageAfter(op[p]) /\ turn'[t].branch = op[p].branch
          /\ turn'[t].checkpoint = op[p].contents.checkpoint
      BY ONLY <1>1, <3>2 DEF TurnState
    <3>4. QED
      BY ONLY <1>2, <2>1, <3>3
  <2>2. CASE ~(op[p].ok /\ op[p].kind \in Handing)
    <3>1. turn' = [turn EXCEPT ![op[p].turn].stage = StageAfter(op[p])]
      BY <1>2, <2>2 DEF Return
    <3>2. QED
      BY <1>1, <1>2, <2>2, <3>1 DEF TurnState
  <2>3. QED
    BY <2>1, <2>2
<1>3. CASE Return(p) /\ t # op[p].turn
  BY <1>1, <1>3 DEF Return
<1>4. CASE Crash(p)
  <2>1. Running(t, p) => Home[t] = p
    BY DEF Running
  <2>2. Running(t, p) => turn[t].stage # "committed"
    BY DEF Running, Ready
  <2>3. QED
    BY <1>1, <1>4, <2>1, <2>2 DEF Crash, TurnState
<1>5. CASE \E u \in Turn : Request(p, u)
  BY <1>1, <1>5 DEF Request, SelectOrCreateBranch, CallOnBranch, TurnState
<1>7. CASE \E u \in Turn : Find(p, u)
  <2>1. PICK u \in Turn : Find(p, u)
    BY <1>7
  <2>2. CASE u = t
    BY <1>1, <2>1, <2>2 DEF Find, FindBranch, FindNothing, TurnState
  <2>3. CASE u # t
    BY <1>1, <2>1, <2>3 DEF Find, FindBranch, FindNothing, TurnState
  <2>4. QED
    BY <2>2, <2>3
<1>6. CASE Lock(p) \/ Load(p) \/ Quarantine(p) \/ Write(p) \/ WriteFails(p)
  BY <1>6 DEF Lock, Load, LoadSession, SelectContinues, SelectCreates, SelectRefused, LoadBranch,
     LoadBranchMissing, Quarantine, Write, InitSession, WriteBranch, AppendEvent, AppendNewline,
     WriteSparseCheckpoint, ListBranch, WriteFails
<1>8. QED
  BY <1>2, <1>3, <1>4, <1>5, <1>6, <1>7 DEF StepOf, Proceed

(* A commit that is in the ledger goes on to the caller: its process ends the *)
(* line, writes branch.json and returns, or fails, or dies.                   *)
LEMMA CommitGoesOn ==
  ASSUME TypeInv, NEW p \in Proc, StepOf(p), Busy(p), op[p].kind \in MainCommits,
         op[p].step \in {"newline", "branch", "return"}
  PROVE  \/ turn'[op[p].turn].stage \notin Ready
         \/ /\ Busy(p)' /\ op'[p].turn = op[p].turn /\ op'[p].kind = op[p].kind
            /\ op'[p].step \in {"newline", "branch", "return"}
<1>1. /\ op \in [Proc -> Operation \cup {Idle}] /\ op[p] \in Operation /\ op[p].turn \in Turn
      /\ turn \in [Turn -> TurnState] /\ Home[op[p].turn] = p
  BY DEF TypeInv, TypeOK, Busy, Operation, Control, OpControl
<1>2. op[p].step \notin {"lock", "load", "quarantine", "init", "event", "sparse", "list"}
  OBVIOUS
<1>3. CASE Crash(p)
  BY <1>1, <1>3 DEF Crash, Running, TurnState, Ready
<1>0. CASE \E t \in Turn : Find(p, t)
  BY <1>1, <1>0 DEF Find, FindBranch, FindNothing, Busy
<1>4. CASE Return(p)
  <2>1. op[p].kind \notin Handing /\ StageAfter(op[p]) \in {"failed", "committed"}
    <3>1. op[p].kind \notin Handing
      BY DEF MainCommits, Handing
    <3>2. CASE ~op[p].ok
      BY <3>1, <3>2 DEF StageAfter
    <3>3. CASE op[p].ok
      BY <3>1, <3>3 DEF StageAfter, Handing
    <3>4. QED
      BY <3>1, <3>2, <3>3
  <2>2. QED
    BY <1>1, <1>4, <2>1 DEF Return, TurnState, Ready
<1>5. CASE WriteBranch(p)
  BY <1>1, <1>5 DEF WriteBranch, Goto, Busy, Idle, Operation, MainCommits
<1>6. CASE AppendNewline(p)
  BY <1>1, <1>6 DEF AppendNewline, Goto, Busy, Idle, Operation, MainCommits
<1>7. CASE WriteFails(p)
  BY <1>1, <1>7 DEF WriteFails, Fail, Busy, Idle, Operation
<1>8. QED
  BY <1>0, <1>2, <1>3, <1>4, <1>5, <1>6, <1>7 DEF StepOf, Proceed, Load, Write, Request,
     SelectOrCreateBranch, CallOnBranch, Enter, Lock, LoadSession, SelectContinues, SelectCreates,
     SelectRefused, LoadBranch, LoadBranchMissing, Quarantine, InitSession, AppendEvent,
     WriteSparseCheckpoint, ListBranch, At

LEMMA LedgerStep ==
  ASSUME StoreInv, NEW p \in Proc, ~Quarantine(p), StepOf(p), NEW t \in Turn
  PROVE  LedgerFacts(t)'
<1>1. TypeInv /\ LedgerFacts(t) /\ TurnControl(t) /\ OpControl(p) /\ OpTurn(p)
  BY DEF StoreInv, LockInv, TypeInv, Control
<1> SUFFICES ASSUME NEW b \in Branch, InLedger(b, t)'
             PROVE  /\ turn'[t].branch = b
                    /\ turn'[t].stage \in Ready =>
                         /\ Busy(Home[t])' /\ op'[Home[t]].turn = t /\ op'[Home[t]].kind \in MainCommits
                         /\ op'[Home[t]].step \in {"newline", "branch", "return"}
  BY DEF LedgerFacts
<1>2. Home[t] \in Proc
  BY HomeAssumption
<1>3. CASE InLedger(b, t)
  <2>1. turn[t].branch = b
    BY <1>1, <1>3 DEF LedgerFacts
  <2>2. /\ turn[t].stage # "new"
        /\ Return(p) /\ t = op[p].turn /\ op[p].kind \in Handing =>
             op[p].kind = "compact" /\ op[p].branch = b
    <3>1. turn[t].stage \notin {"new", "unmatched"}
      BY <1>1, <2>1, StoreNoneAssumption DEF TurnControl
    <3>2. QED
      BY <1>1, <2>1, <3>1 DEF Return, At, OpTurn, Selecting, Handing, FollowUps
  <2>3. StageAfter(op[p]) \in Ready => op[p].ok /\ op[p].kind \in Handing
    <3>1. CASE ~op[p].ok
      BY <3>1 DEF StageAfter, Ready
    <3>2. CASE op[p].ok
      BY <3>2 DEF StageAfter, Ready, Handing, MainCommits
    <3>3. QED
      BY <3>1, <3>2
  <2>4. turn'[t].branch = b
    BY <1>1, <2>1, <2>2, StageEffect
  <2>5. ASSUME turn'[t].stage \in Ready
        PROVE  /\ Busy(Home[t])' /\ op'[Home[t]].turn = t /\ op'[Home[t]].kind \in MainCommits
               /\ op'[Home[t]].step \in {"newline", "branch", "return"}
    <3>1. turn[t].stage \in Ready
      <4>1. CASE Return(p) /\ t = op[p].turn
        BY <1>1, <2>2, <2>3, <2>5, <4>1, StageEffect DEF Return, At, OpTurn, FollowUps, Ready
      <4>2. CASE ~(Return(p) /\ t = op[p].turn)
        BY <1>1, <2>2, <2>5, <4>2, StageEffect DEF Ready
      <4>3. QED
        BY <4>1, <4>2
    <3>2. /\ Busy(Home[t]) /\ op[Home[t]].turn = t /\ op[Home[t]].kind \in MainCommits
          /\ op[Home[t]].step \in {"newline", "branch", "return"}
      BY <1>1, <1>3, <3>1 DEF LedgerFacts
    <3>3. CASE Home[t] = p
      BY <1>1, <2>5, <3>2, <3>3, CommitGoesOn
    <3>4. CASE Home[t] # p
      <4>1. op'[Home[t]] = op[Home[t]]
        BY <1>1, <1>2, <3>4, OthersKeep DEF TypeInv
      <4>2. QED
        BY <3>2, <4>1 DEF Busy
    <3>5. QED
      BY <3>3, <3>4
  <2>6. QED
    BY <2>4, <2>5
<1>4. CASE Commits(p) /\ b = op[p].branch /\ t = op[p].turn
  <2>1. op[p] \in Operation /\ op[p].kind \in FollowUps /\ Home[t] = p /\ turn' = turn
    BY <1>1, <1>4 DEF Commits, AppendEvent, At, Busy, TypeInv, TypeOK, OpControl, FollowUps
  <2>2. turn[t].branch = b
    BY <1>1, <1>4, <2>1 DEF OpTurn, Commits, AppendEvent, At
  <2>3. op' = [op EXCEPT ![p].step = "newline"]
    BY <1>4 DEF Commits, AppendEvent, Goto
  <2>4. op'[p] = [op[p] EXCEPT !.step = "newline"]
    BY <1>1, <2>3 DEF TypeInv, TypeOK
  <2>5. QED
    BY <1>4, <2>1, <2>2, <2>4 DEF Busy, Operation, Idle, Commits
<1>5. QED
  BY <1>1, <1>3, <1>4, InLedgerEffect

LEMMA MintedStep ==
  ASSUME TypeInv, MintedFacts, NEW p \in Proc, StepOf(p)
  PROVE  MintedFacts'
<1>1. /\ TypeInv /\ MintedFacts /\ OpControl(p) /\ OpTurn(p) /\ OpContents(p)
      /\ op \in [Proc -> Operation \cup {Idle}] /\ op[p] \in Operation \cup {Idle}
      /\ branch \in [Branch -> BranchFile \cup {None}] /\ ledger \in [Branch -> Ledger]
  BY DEF TypeInv, TypeOK, Control
<1> DEFINE TearsEvent == (WriteFails(p) /\ op[p].step = "event") \/ (Crash(p) /\ At(p, "event"))
<1>2. minted \subseteq minted'
  <2>1. CASE SelectCreates(p)
    BY <2>1 DEF SelectCreates
  <2>2. CASE ~SelectCreates(p)
    BY <2>2 DEF StepOf, Proceed, Find, FindBranch, FindNothing, Request, SelectOrCreateBranch, CallOnBranch,
       Lock, Load, LoadSession, SelectContinues, SelectRefused, LoadBranch, LoadBranchMissing, Quarantine, Write,
       InitSession, WriteBranch, AppendEvent, AppendNewline, WriteSparseCheckpoint, ListBranch, Return,
       WriteFails, Crash, disk
  <2>3. QED
    BY <2>1, <2>2
<1>3. ASSUME NEW b \in Branch \ minted' PROVE ledger'[b] = EmptyLedger /\ branch'[b] = None
  <2>1. b \notin minted /\ ledger[b] = EmptyLedger /\ branch[b] = None
    BY <1>1, <1>2, <1>3 DEF MintedFacts
  <2>2. WriteBranch(p) \/ AppendEvent(p) \/ AppendNewline(p) \/ TearsEvent => op[p].branch \in minted
    <3>1. ASSUME Busy(p), op[p].step \in {"branch", "event", "newline"} PROVE op[p].branch \in Branch
      BY <1>1, <3>1 DEF OpControl, OpContents, OpTurn, TypeInv, Control, TurnControl, Busy, Operation
    <3>2. QED
      BY <1>1, <3>1, StoreNoneAssumption
         DEF WriteBranch, AppendEvent, AppendNewline, WriteFails, Crash, At, Inside, MintedFacts
  <2>3. branch'[b] = branch[b]
    <3>1. CASE Quarantine(p)
      BY <2>1, <3>1 DEF Quarantine
    <3>2. CASE ~Quarantine(p)
      BY <1>1, <2>1, <2>2, <3>2, BranchEffect
    <3>3. QED
      BY <3>1, <3>2
  <2>4. ledger'[b] = ledger[b]
    <3>1. CASE AppendEvent(p) \/ AppendNewline(p) \/ TearsEvent
      <4>1. op[p].branch # b
        BY <2>1, <2>2, <3>1
      <4>2. QED
        BY <1>1, <3>1, <4>1 DEF AppendEvent, AppendNewline, WriteFails, Crash
    <3>2. CASE Quarantine(p)
      BY <2>1, <3>2 DEF Quarantine
    <3>3. CASE ~(AppendEvent(p) \/ AppendNewline(p) \/ TearsEvent \/ Quarantine(p))
      <4>1. ledger' = ledger
        <5>1. CASE Load(p)
          BY <5>1 DEF Load, LoadSession, SelectContinues, SelectCreates, SelectRefused, LoadBranch,
                      LoadBranchMissing, disk
        <5>2. CASE \E t \in Turn : Find(p, t) \/ Request(p, t)
          BY <5>2 DEF Find, FindBranch, FindNothing, Request, SelectOrCreateBranch, CallOnBranch, disk
        <5>3. CASE Lock(p) \/ Return(p) \/ Crash(p) \/ WriteFails(p)
          BY <3>3, <5>3 DEF Lock, Return, Crash, WriteFails, disk
        <5>4. CASE Write(p)
          BY <3>3, <5>4 DEF Write, InitSession, WriteBranch, WriteSparseCheckpoint, ListBranch, disk
        <5>5. QED
          BY <3>3, <5>1, <5>2, <5>3, <5>4 DEF StepOf, Proceed
      <4>2. QED
        BY <4>1
    <3>4. QED
      BY <3>1, <3>2, <3>3
  <2>5. QED
    BY <2>1, <2>3, <2>4
<1>4. ASSUME NEW q \in Proc, Busy(q)', op'[q].branch # None PROVE op'[q].branch \in minted'
  <2>1. CASE q # p
    <3>1. op'[q] = op[q]
      BY <1>1, <2>1, OthersKeep DEF TypeInv
    <3>2. QED
      BY <1>1, <1>2, <1>4, <3>1 DEF MintedFacts, Busy
  <2>2. CASE q = p
    <3>1. CASE Busy(p) /\ op'[p].branch = op[p].branch
      BY <1>1, <1>2, <1>4, <2>2, <3>1 DEF MintedFacts
    <3>2. CASE \E t \in Turn : Request(p, t)
      <4>1. PICK t \in Turn : Request(p, t)
        BY <3>2
      <4>2. op'[p].branch = None \/ op'[p].branch = turn[t].branch
        BY <1>1, <4>1 DEF Request, SelectOrCreateBranch, CallOnBranch, Enter
      <4>3. QED
        BY <1>1, <1>2, <1>4, <2>2, <4>2 DEF MintedFacts
    <3>3. CASE SelectContinues(p)
      <4>1. PICK b \in Listed : Valid(b) /\ op'[p].branch = b
        BY <1>1, <3>3 DEF SelectContinues, Loads, At, Busy, Idle, Operation
      <4>2. b \in Branch /\ branch[b] # None
        BY <1>1, <4>1 DEF Valid, TypeInv, TypeOK, Listed
      <4>3. QED
        BY <1>1, <1>2, <2>2, <4>1, <4>2 DEF MintedFacts
    <3>4. CASE SelectCreates(p)
      BY <1>1, <2>2, <3>4 DEF SelectCreates, At, Busy, Idle, Operation
    <3>5. CASE Return(p) \/ Crash(p)
      BY <1>1, <1>4, <2>2, <3>5 DEF Return, Crash, Busy
    <3>6. CASE Lock(p) \/ LoadSession(p) \/ SelectRefused(p) \/ LoadBranch(p) \/ LoadBranchMissing(p)
      <4>1. CASE LoadBranch(p)
        <5>1. op[p] \in Operation /\ op[p] # Idle
          BY <1>1, <4>1 DEF LoadBranch, At, Busy
        <5>2. PICK fp \in Fingerprint, step \in {"event", "branch"} :
                op' = [op EXCEPT ![p].step = step,
                       ![p].contents = Updated(branch[op[p].branch], op[p].kind, op[p].turn, fp)]
          BY <1>1, <4>1, LoadBranchStep
        <5>3. op'[p].branch = op[p].branch
          BY ONLY <1>1, <5>1, <5>2, p \in Proc DEF Operation
        <5>4. QED
          BY <3>1, <5>1, <5>3 DEF Busy
      <4>2. CASE Lock(p) \/ LoadSession(p) \/ SelectRefused(p) \/ LoadBranchMissing(p)
        BY <1>1, <3>1, <4>2 DEF Lock, LoadSession, SelectRefused, LoadBranchMissing, Goto, Fail, At,
           Busy, Idle, Operation
      <4>3. QED
        BY <3>6, <4>1, <4>2
    <3>7. CASE Quarantine(p)
      BY <1>1, <3>1, <3>7 DEF Quarantine, At, Busy, Operation
    <3>8. CASE Write(p)
      BY <1>1, <3>1, <3>8 DEF Write, InitSession, WriteBranch, AppendEvent, AppendNewline,
         WriteSparseCheckpoint, ListBranch, Goto, At, Busy, Idle, Operation
    <3>9. CASE WriteFails(p)
      BY <1>1, <3>1, <3>9 DEF WriteFails, Inside, Fail, Busy, Idle, Operation
    <3>10. CASE \E t \in Turn : Find(p, t)
      BY <1>1, <1>2, <1>4, <2>2, <3>10 DEF Find, FindBranch, FindNothing, MintedFacts, Busy
    <3>11. QED
      BY <3>2, <3>3, <3>4, <3>5, <3>6, <3>7, <3>8, <3>9, <3>10 DEF StepOf, Proceed, Load
  <2>3. QED
    BY <2>1, <2>2
<1>5. ASSUME NEW t \in Turn, turn'[t].branch # None PROVE turn'[t].branch \in minted'
  <2>1. \/ turn'[t].branch = turn[t].branch
        \/ Busy(p) /\ turn'[t].branch = op[p].branch
        \/ Find(p, t)
    <3>1. Return(p) => Busy(p)
      BY DEF Return, At
    <3>2. QED
      BY <1>1, <1>5, <3>1, StageEffect
  <2>2. CASE Find(p, t)
    <3>1. turn'[t].branch = turn[t].branch \/ turn'[t].branch \in Readable
      BY <1>1, <2>2 DEF Find, FindBranch, FindNothing, TypeInv, TypeOK, TurnState
    <3>2. \A b \in Readable : b \in Branch /\ branch[b] # None
      BY <1>1 DEF Readable, Listed, TypeInv, TypeOK
    <3>3. QED
      BY <1>1, <1>2, <1>5, <3>1, <3>2 DEF MintedFacts
  <2>3. QED
    BY <1>1, <1>2, <1>5, <2>1, <2>2 DEF MintedFacts
<1>6. QED
  BY <1>3, <1>4, <1>5 DEF MintedFacts

LEMMA StoreStep == NoQuarantine /\ StoreInv /\ [Next]_vars => StoreInv'
<1> SUFFICES ASSUME NoQuarantine, StoreInv, [Next]_vars PROVE StoreInv'
  OBVIOUS
<1>1. LockInv'
  BY LockStep DEF StoreInv
<1>2. CASE UNCHANGED vars
  <2>1. ASSUME NEW q \in Proc PROVE WorkFacts(q)'
    BY <1>2 DEF vars, disk, StoreInv, WorkFacts, Written, Rewriting, EventWritten, Busy, Listed
  <2>2. QED
    BY <1>1, <1>2, <2>1 DEF vars, disk, StoreInv, MintedFacts, LedgerFacts, Busy, InLedger
<1>3. ASSUME NEW p \in Proc, StepOf(p) PROVE StoreInv'
  <2>1. \A q \in Proc : WorkFacts(q)'
    BY <1>3, OwnWork, OthersWork DEF NoQuarantine
  <2>2. \A t \in Turn : LedgerFacts(t)'
    BY <1>3, LedgerStep DEF NoQuarantine
  <2>3. MintedFacts'
    BY <1>3, MintedStep DEF StoreInv, LockInv
  <2>4. QED
    BY <1>1, <2>1, <2>2, <2>3 DEF StoreInv
<1>4. QED
  BY <1>2, <1>3 DEF Next, StepOf

LEMMA StoreInit == Init => StoreInv
<1> SUFFICES ASSUME Init PROVE StoreInv
  OBVIOUS
<1>1. \A p \in Proc : ~Busy(p)
  BY DEF Init, Busy
<1>2. LockInv
  BY <1>1, TypeInit DEF Init, LockInv, OneLockFile, OneInside, Inside
<1>3. \A b \in Branch, t \in Turn : ~InLedger(b, t)
  BY DEF Init, InLedger, EmptyLedger
<1>4. QED
  BY <1>1, <1>2, <1>3 DEF Init, StoreInv, MintedFacts, WorkFacts, LedgerFacts, NewTurn

--------------------------------------------------------------------------------
(* session.json is written from what was read under the same lock, so no      *)
(* process ever drops a branch another one listed, whatever crashes or fails  *)
(* in between (fail_closed).                                                  *)
THEOREM BranchesStayListed == Policy = "fail_closed" => (Spec => ListedForEver)
<1> SUFFICES ASSUME Policy = "fail_closed" PROVE Spec => ListedForEver
  OBVIOUS
<1>0. StoreInv => NoQuarantine
  BY ClosedNeverQuarantines DEF StoreInv, LockInv
<1>1. StoreInv /\ [Next]_vars => StoreInv' /\ [session # None => session' # None /\ session \subseteq session']_vars
  <2>1. ASSUME StoreInv, NEW p \in Proc, StepOf(p), session # None
        PROVE  session' # None /\ session \subseteq session'
    <3>1. CASE ListBranch(p) /\ Listed \subseteq op[p].ids /\ session' = op[p].ids
      <4>1. op[p].ids \in SUBSET Branch
        BY <2>1, <3>1 DEF ListBranch, At, Busy, StoreInv, LockInv, TypeInv, TypeOK, Operation
      <4>2. op[p].ids # None
        BY <4>1, StoreNoneAssumption
      <4>3. QED
        BY <2>1, <3>1, <4>2 DEF Listed
    <3>2. QED
      BY <1>0, <2>1, <3>1, SessionEffect DEF NoQuarantine
  <2>2. QED
    BY <1>0, <2>1, StoreStep DEF Next, StepOf
<1>2. QED
  BY <1>1, StoreInit, PTL DEF Spec, ListedForEver

(* An operation rewrites all of branch.json and yet changes only the fields   *)
(* it owns: no commit, offshoot or selection undoes another's write           *)
(* (fail_closed).                                                             *)
THEOREM UpdatesSurvive == Policy = "fail_closed" => (Spec => NoLostUpdate)
<1> SUFFICES ASSUME Policy = "fail_closed" PROVE Spec => NoLostUpdate
  OBVIOUS
<1> DEFINE Owned(b) ==
      branch[b] # None /\ branch'[b] # None =>
        /\ branch'[b].offshoot # branch[b].offshoot =>
             \E t \in Turn : branch'[b].offshoot = t /\ turn[t].stage \in Ready
        /\ branch'[b].lastTurn # branch[b].lastTurn =>
             \E t \in Turn : branch'[b].lastTurn = t /\ turn[t].stage \in Ready
<1>0. StoreInv => NoQuarantine
  BY ClosedNeverQuarantines DEF StoreInv, LockInv
<1>1. ASSUME StoreInv, NEW p \in Proc, StepOf(p), NEW b \in Branch PROVE Owned(b)
  <2>1. CASE branch'[b] = branch[b]
    BY <2>1
  <2>2. CASE WriteBranch(p) /\ b = op[p].branch /\ branch'[b] = op[p].contents /\ branch[b] # None
    <3>1. Busy(p) /\ op[p].step = "branch" /\ op[p] \in Operation /\ op[p].turn \in Turn
      BY <1>1, <2>2 DEF WriteBranch, At, Busy, StoreInv, LockInv, TypeInv, TypeOK, Operation
    <3>2. op[p].kind # "create"
      BY <1>1, <2>2, <3>1 DEF StoreInv, WorkFacts
    <3>3. /\ op[p].contents.offshoot = IF op[p].kind = "offshoot" THEN op[p].turn ELSE branch[b].offshoot
          /\ op[p].contents.lastTurn = IF op[p].kind \in MainCommits THEN op[p].turn ELSE branch[b].lastTurn
      BY <1>1, <2>2, <3>1, <3>2 DEF StoreInv, WorkFacts, Rewriting
    <3>4. op[p].kind \in {"offshoot"} \cup MainCommits => turn[op[p].turn].stage \in Ready
      BY <1>1, <3>1 DEF StoreInv, LockInv, TypeInv, Control, OpTurn, FollowUps
    <3>5. QED
      BY <2>2, <3>1, <3>3, <3>4
  <2>3. QED
    BY <1>0, <1>1, <2>1, <2>2, BranchEffect DEF StoreInv, LockInv, NoQuarantine
<1>2. StoreInv /\ [Next]_vars => StoreInv' /\ [\A b \in Branch : Owned(b)]_vars
  <2>1. StoreInv /\ Next => \A b \in Branch : Owned(b)
    BY <1>1 DEF Next, StepOf
  <2>2. QED
    BY <1>0, <2>1, StoreStep
<1>3. QED
  BY <1>2, StoreInit, PTL DEF Spec, NoLostUpdate

--------------------------------------------------------------------------------
(* Refinement of CommitLog: the append of a commit's event is Commit, the     *)
(* write of its branch.json Publish, an invalidation's Invalidate, the return *)
(* of a commit Acknowledge, and a turn is handed a branch when it finds one   *)
(* or when its selection or compaction returns.                               *)
AcksWith(p, t) == Return(p) /\ t = op[p].turn /\ op[p].ok /\ op[p].kind \in MainCommits

LEMMA AckEffect ==
  ASSUME TypeInv, NEW p \in Proc, StepOf(p), NEW t \in Turn
  PROVE  turn'[t].stage = "committed" <=> turn[t].stage = "committed" \/ AcksWith(p, t)
<1>1. Return(p) => Busy(p) /\ op[p] \in Operation /\ op[p].turn \in Turn
  BY DEF Return, At, Busy, TypeInv, TypeOK, Operation
<1>2. Return(p) => turn[op[p].turn].stage # "committed"
  BY <1>1 DEF TypeInv, Control, OpTurn, Operation, Kind, Selecting, Ready
<1>3. StageAfter(op[p]) = "committed" <=> op[p].ok /\ op[p].kind \in MainCommits
  <2>1. CASE ~op[p].ok
    BY <2>1 DEF StageAfter
  <2>2. CASE op[p].ok
    BY <2>2 DEF StageAfter, MainCommits
  <2>3. QED
    BY <2>1, <2>2
<1>4. CASE Return(p) /\ t = op[p].turn
  <2>1. turn'[t].stage = StageAfter(op[p])
    <3>1. turn \in [Turn -> TurnState]
      BY DEF TypeInv, TypeOK
    <3>2. CASE op[p].ok /\ op[p].kind \in Handing
      BY <1>4, <3>1, <3>2 DEF Return, TurnState
    <3>3. CASE ~(op[p].ok /\ op[p].kind \in Handing)
      <4>1. turn' = [turn EXCEPT ![op[p].turn].stage = StageAfter(op[p])]
        BY <1>4, <3>3 DEF Return
      <4>2. QED
        BY <1>4, <3>1, <4>1 DEF TurnState
    <3>4. QED
      BY <3>2, <3>3
  <2>2. QED
    BY <1>2, <1>3, <1>4, <2>1 DEF AcksWith
<1>5. CASE ~(Return(p) /\ t = op[p].turn)
  BY <1>5, StageEffect DEF AcksWith
<1>6. QED
  BY <1>4, <1>5

LEMMA PromiseInit == Init => Promise!Init
BY DEF Init, Promise!Init, EmptyLedger, NewTurn, Handed, HeadOf, Promise!Unhanded

LogOf   == [b \in Branch |-> ledger[b].turns]
Heads   == [b \in Branch |-> HeadOf(b)]
Acked   == {t \in Turn : turn[t].stage = "committed"}
Handeds == [t \in Turn |-> Handed(t)]

(* What leaves the variables of the promise alone. *)
LEMMA LogKept ==
  ASSUME TypeInv, NEW p \in Proc, ~Quarantine(p), StepOf(p), ~Commits(p)
  PROVE  LogOf' = LogOf
<1>1. \A b \in Branch : ledger'[b].turns = ledger[b].turns
  BY TurnsEffect
<1>2. QED
  BY <1>1 DEF LogOf

LEMMA AckedKept ==
  ASSUME TypeInv, NEW p \in Proc, StepOf(p), \A t \in Turn : ~AcksWith(p, t)
  PROVE  Acked' = Acked
BY AckEffect DEF Acked

Hands(p, t) ==
  \/ Find(p, t)
  \/ Return(p) /\ t = op[p].turn /\ op[p].ok /\ op[p].kind \in Handing

LEMMA HandedKept ==
  ASSUME TypeInv, NEW p \in Proc, StepOf(p), NEW t \in Turn, ~Hands(p, t)
  PROVE  Handed(t)' = Handed(t)
<1>1. turn'[t].branch = turn[t].branch /\ turn'[t].checkpoint = turn[t].checkpoint
  BY StageEffect DEF Hands
<1>2. QED
  BY <1>1 DEF Handed

(* Handing a turn its branch with the branch's head is Hand. *)
LEMMA HandStep ==
  ASSUME NEW t \in Turn, NEW b \in Branch, TypeInv, turn[t].branch \in {None, b},
         turn'[t].branch = b, turn'[t].checkpoint = HeadOf(b),
         \A u \in Turn : u # t => Handed(u)' = Handed(u),
         LogOf' = LogOf, Heads' = Heads, Acked' = Acked
  PROVE  Promise!Hand(t, b)
<1>1. b # None
  BY StoreNoneAssumption
<1>2. Handed(t)' = [branch |-> b, checkpoint |-> HeadOf(b)]
  BY <1>1 DEF Handed
<1>3. Handeds' = [Handeds EXCEPT ![t] = [branch |-> b, checkpoint |-> HeadOf(b)]]
  BY <1>2 DEF Handeds
<1>4. Handeds[t].branch \in {None, b}
  BY DEF Handeds, Handed
<1>5. Heads[b] = HeadOf(b)
  BY DEF Heads
<1>6. QED
  BY <1>3, <1>4, <1>5 DEF Promise!Hand, LogOf, Heads, Acked, Handeds

LEMMA FindStep ==
  ASSUME StoreInv, NEW p \in Proc, ~Quarantine(p), NEW t \in Turn, Find(p, t)
  PROVE  Promise!Next \/ UNCHANGED Promise!vars
<1>1. TypeInv /\ StepOf(p) /\ UNCHANGED disk /\ op' = op
  BY DEF StoreInv, LockInv, StepOf, Find, FindBranch, FindNothing
<1>2. /\ LogOf' = LogOf /\ Heads' = Heads
      /\ \A u \in Turn : ~AcksWith(p, u)
  <2>1. LogOf' = LogOf /\ Heads' = Heads
    BY <1>1 DEF LogOf, Heads, HeadOf, disk
  <2>2. op' = op /\ ~Return(p)
    BY <1>1 DEF Return, At, Busy, TypeInv, TypeOK
  <2>3. QED
    BY <2>1, <2>2 DEF AcksWith
<1>3. Acked' = Acked
  BY <1>1, <1>2, AckedKept
<1>4. turn[t].stage = "new" /\ turn[t].branch = None
  <2>1. turn[t].stage = "new"
    BY DEF Find, FindBranch, FindNothing
  <2>2. QED
    BY <1>1, <2>1 DEF TypeInv, Control, TurnControl
<1>5. \A u \in Turn : u # t => turn'[u] = turn[u]
  BY <1>1 DEF Find, FindBranch, FindNothing, TypeInv, TypeOK
<1>6. \A u \in Turn : u # t => Handed(u)' = Handed(u)
  BY <1>5 DEF Handed
<1>7. CASE FindBranch(p, t)
  <2>1. PICK b \in Readable, f \in Fingerprint :
          turn' = [turn EXCEPT ![t] = [stage |-> "selected", branch |-> b, fp |-> f,
                                       checkpoint |-> branch[b].checkpoint]]
    BY <1>7 DEF FindBranch
  <2>2. b \in Branch /\ HeadOf(b) = branch[b].checkpoint
    BY <1>1 DEF Readable, Listed, TypeInv, TypeOK, HeadOf
  <2>3. turn'[t].branch = b /\ turn'[t].checkpoint = branch[b].checkpoint
    BY <1>1, <2>1 DEF TypeInv, TypeOK
  <2>4. Promise!Hand(t, b)
    BY <1>1, <1>2, <1>3, <1>4, <1>6, <2>2, <2>3, HandStep
  <2>5. QED
    BY <2>2, <2>4 DEF Promise!Next
<1>8. CASE FindNothing(p, t)
  <2>1. turn'[t].branch = turn[t].branch /\ turn'[t].checkpoint = turn[t].checkpoint
    BY <1>1, <1>8 DEF FindNothing, TypeInv, TypeOK, TurnState
  <2>2. Handeds' = Handeds
    BY <1>6, <2>1 DEF Handeds, Handed
  <2>3. QED
    BY <1>2, <1>3, <2>2 DEF Promise!vars, LogOf, Heads, Acked, Handeds
<1>9. QED
  BY <1>7, <1>8 DEF Find

LEMMA CommitStep ==
  ASSUME StoreInv, NEW p \in Proc, ~Quarantine(p), StepOf(p), Commits(p)
  PROVE  Promise!Next
<1>1. TypeInv
  BY DEF StoreInv, LockInv
<1>2. /\ Busy(p) /\ op[p].step = "event" /\ op[p] \in Operation /\ op[p].kind \in FollowUps
      /\ op[p].kind \in MainCommits /\ turn' = turn /\ branch' = branch
  BY <1>1 DEF Commits, AppendEvent, At, Busy, TypeInv, TypeOK, FollowUps
<1>3. OpControl(p) /\ OpTurn(p) /\ \A t \in Turn : TurnControl(t) /\ LedgerFacts(t)
  BY <1>1 DEF StoreInv, TypeInv, Control
<1>4. PICK t \in Turn : t = op[p].turn
  BY <1>2 DEF Operation
<1>5. turn[t].stage \in Ready /\ turn[t].branch = op[p].branch /\ Home[t] = p
  BY <1>2, <1>3, <1>4 DEF OpControl, OpTurn
<1>6. PICK b \in Branch : b = op[p].branch
  BY <1>3, <1>5 DEF TurnControl
<1>7. Handed(t).branch = b
  BY <1>5, <1>6, StoreNoneAssumption DEF Handed
<1>8. ~InLedger(b, t)
  BY <1>2, <1>3, <1>5 DEF LedgerFacts
<1>9. ~Promise!Logged(b, t)
  BY <1>8 DEF Promise!Logged, InLedger
<1>10. PICK r \in {t, None} : ledger'[b].turns = Append(ledger[b].turns, [turn |-> t, response |-> r])
  BY <1>1, <1>4, <1>6, TurnsEffect DEF CommitEntry
<1>11. \A c \in Branch : c # b => ledger'[c].turns = ledger[c].turns
  BY <1>1, <1>6, TurnsEffect
<1>12. LogOf' = [LogOf EXCEPT ![b] = Append(@, [turn |-> t, response |-> r])]
  BY <1>10, <1>11 DEF LogOf
<1>13. Handeds' = Handeds /\ Acked' = Acked /\ Heads' = Heads
  BY <1>2 DEF Handeds, Handed, Acked, Heads, HeadOf
<1>14. Promise!Commit(t, b)
  BY <1>7, <1>9, <1>12, <1>13 DEF Promise!Commit, LogOf, Handeds, Acked, Heads
<1>15. QED
  BY <1>14 DEF Promise!Next

(* The write of branch.json moves the head of its branch, or leaves it.       *)
LEMMA WriteStep ==
  ASSUME StoreInv, NEW p \in Proc, ~Quarantine(p), WriteBranch(p)
  PROVE  Promise!Next \/ UNCHANGED Promise!vars
<1>1. TypeInv /\ StepOf(p) /\ WorkFacts(p) /\ OpControl(p) /\ OpContents(p) /\ OpTurn(p)
  BY DEF StoreInv, LockInv, TypeInv, Control, StepOf, Proceed, Write
<1>2. Busy(p) /\ op[p] \in Operation /\ op[p].step = "branch" /\ op[p].contents \in BranchFile
  BY <1>1 DEF WriteBranch, At, Busy, TypeInv, TypeOK, OpContents
<1>3. PICK b \in Branch, t \in Turn : b = op[p].branch /\ t = op[p].turn
  BY <1>1, <1>2 DEF OpControl, OpContents, OpTurn, TypeInv, Control, TurnControl, Operation, FollowUps
<1>4. branch' = [branch EXCEPT ![b] = op[p].contents] /\ turn' = turn /\ ledger' = ledger
  BY <1>3 DEF WriteBranch
<1>5. LogOf' = LogOf /\ Acked' = Acked /\ Handeds' = Handeds
  BY <1>4 DEF LogOf, Acked, Handeds, Handed
<1>6. HeadOf(b)' = op[p].contents.checkpoint /\ \A c \in Branch : c # b => HeadOf(c)' = HeadOf(c)
  <2>1. op[p].contents # None
    BY <1>2, FileNoneAssumption
  <2>2. QED
    BY <1>1, <1>4, <2>1 DEF HeadOf, TypeInv, TypeOK
<1>7. Heads' = [Heads EXCEPT ![b] = op[p].contents.checkpoint]
  BY <1>6 DEF Heads
<1>8. CASE op[p].kind = "commit"
  <2>1. op[p].contents.checkpoint = t
    BY <1>1, <1>2, <1>3, <1>8 DEF WorkFacts, Rewriting
  <2>2. ledger[b].turns # <<>> /\ LastEntry(ledger[b]).turn = t /\ LastEntry(ledger[b]).response = t
    BY <1>1, <1>2, <1>3, <1>8 DEF WorkFacts, EventWritten, MainCommits
  <2>3. Promise!Latest(b).turn = t /\ Promise!Latest(b).response = t
    BY <2>2 DEF Promise!Latest, LastEntry
  <2>4. Promise!Publish(t, b)
    BY <1>5, <1>7, <2>1, <2>3 DEF Promise!Publish, LogOf, Handeds, Acked, Heads
  <2>5. QED
    BY <2>4 DEF Promise!Next
<1>9. CASE op[p].kind = "invalidate"
  <2>1. op[p].contents.checkpoint = None
    BY <1>1, <1>2, <1>9 DEF WorkFacts, Rewriting
  <2>2. Promise!Invalidate(b)
    BY <1>5, <1>7, <2>1 DEF Promise!Invalidate, LogOf, Handeds, Acked, Heads
  <2>3. QED
    BY <2>2 DEF Promise!Next
<1>10. CASE op[p].kind \notin {"commit", "invalidate"}
  <2>1. op[p].contents.checkpoint = HeadOf(b)
    <3>1. CASE op[p].kind = "create"
      BY <1>1, <1>2, <1>3, <3>1 DEF WorkFacts, HeadOf
    <3>2. CASE op[p].kind # "create"
      <4>1. branch[b] \in BranchFile /\ op[p].contents.checkpoint = branch[b].checkpoint
        BY <1>1, <1>2, <1>3, <1>10, <3>2 DEF WorkFacts, Rewriting
      <4>2. QED
        BY <4>1, FileNoneAssumption DEF HeadOf
    <3>3. QED
      BY <3>1, <3>2
  <2>2. Heads' = Heads
    BY <1>7, <2>1 DEF Heads
  <2>3. QED
    BY <1>5, <2>2 DEF Promise!vars, LogOf, Heads, Acked, Handeds
<1>11. QED
  BY <1>8, <1>9, <1>10

LEMMA ReturnStep ==
  ASSUME StoreInv, NEW p \in Proc, ~Quarantine(p), Return(p)
  PROVE  Promise!Next \/ UNCHANGED Promise!vars
<1>1. TypeInv /\ StepOf(p) /\ WorkFacts(p) /\ OpControl(p) /\ OpContents(p) /\ OpTurn(p)
      /\ \A t \in Turn : TurnControl(t)
  BY DEF StoreInv, LockInv, TypeInv, Control, StepOf, Proceed
<1>2. Busy(p) /\ op[p] \in Operation /\ op[p].step = "return" /\ UNCHANGED disk
  BY <1>1 DEF Return, At, Busy, TypeInv, TypeOK
<1>3. PICK t \in Turn : t = op[p].turn
  BY <1>2 DEF Operation
<1>4. LogOf' = LogOf /\ Heads' = Heads
  BY <1>2 DEF LogOf, Heads, HeadOf, disk
<1>5. ~Find(p, t) /\ \A u \in Turn : u # t => ~Hands(p, u)
  <2>1. op' # op
    BY <1>1, <1>2 DEF Return, Busy, TypeInv, TypeOK, Idle
  <2>2. \A u \in Turn : ~Find(p, u)
    BY <2>1 DEF Find, FindBranch, FindNothing
  <2>3. QED
    BY <1>3, <2>2 DEF Hands
<1>6. \A u \in Turn : u # t => Handed(u)' = Handed(u)
  BY <1>1, <1>5, HandedKept
<1>7. CASE op[p].ok /\ op[p].kind \in Handing
  <2>1. PICK b \in Branch : b = op[p].branch
    <3>1. CASE op[p].kind \in {"continue", "create"}
      BY <1>1, <1>2, <3>1 DEF OpContents
    <3>2. CASE op[p].kind = "compact"
      BY <1>1, <1>2, <1>3, <3>2 DEF OpTurn, TurnControl, FollowUps
    <3>3. QED
      BY <1>7, <3>1, <3>2 DEF Handing
  <2>2. turn[t].branch \in {None, b}
    BY <1>1, <1>2, <1>3, <1>7, <2>1 DEF OpTurn, TurnControl, Handing, FollowUps, Selecting
  <2>3. turn'[t].branch = b /\ turn'[t].checkpoint = op[p].contents.checkpoint
    <3>1. turn' = [turn EXCEPT ![t].stage = StageAfter(op[p]), ![t].branch = b,
                               ![t].checkpoint = op[p].contents.checkpoint]
      BY <1>3, <1>7, <2>1 DEF Return
    <3>2. turn \in [Turn -> TurnState]
      BY <1>1 DEF TypeInv, TypeOK
    <3>3. QED
      BY ONLY <3>1, <3>2, t \in Turn DEF TurnState
  <2>4. op[p].contents.checkpoint = HeadOf(b)
    <3>1. branch[b] = op[p].contents
      BY <1>1, <1>2, <1>7, <2>1 DEF WorkFacts, Written
    <3>2. branch[b] # None
      BY <1>1, <1>2, <1>7, <3>1, FileNoneAssumption DEF OpContents
    <3>3. QED
      BY <3>1, <3>2 DEF HeadOf
  <2>5. Acked' = Acked
    BY <1>1, <1>7, AckedKept DEF AcksWith, Handing, MainCommits
  <2>6. Promise!Hand(t, b)
    BY <1>1, <1>4, <1>6, <2>2, <2>3, <2>4, <2>5, HandStep
  <2>7. QED
    BY <2>6 DEF Promise!Next
<1>8. CASE op[p].ok /\ op[p].kind \in MainCommits
  <2>1. turn[t].branch = op[p].branch /\ op[p].branch \in Branch
    BY <1>1, <1>2, <1>3, <1>8 DEF OpTurn, FollowUps, TurnControl
  <2>2. PICK b \in Branch : b = op[p].branch
    BY <2>1
  <2>3. Handed(t).branch = b
    BY <2>1, <2>2, StoreNoneAssumption DEF Handed
  <2>4. /\ ledger[b].turns # <<>> /\ LastEntry(ledger[b]).turn = t
        /\ LastEntry(ledger[b]).response = IF op[p].kind = "commit" THEN t ELSE None
    BY <1>1, <1>2, <1>3, <1>8, <2>2 DEF WorkFacts, EventWritten
  <2>5. op[p].kind = "commit" => branch[b].checkpoint = t
    BY <1>1, <1>2, <1>3, <1>8, <2>2 DEF WorkFacts, Written
  <2>6. op[p].kind = "commit" => HeadOf(b) = t
    <3>1. branch[b] = op[p].contents /\ op[p].contents # None
      BY <1>1, <1>2, <1>8, <2>2, FileNoneAssumption DEF WorkFacts, Written, OpContents
    <3>2. QED
      BY <2>5, <3>1 DEF HeadOf
  <2>7. Promise!Latest(b).turn = t /\ (Promise!Latest(b).response # None => op[p].kind = "commit")
    BY <2>4 DEF Promise!Latest, LastEntry
  <2>8. Handed(t)' = Handed(t)
    BY <1>1, <1>5, <1>8, HandedKept DEF Hands, Handing, MainCommits
  <2>9. Handeds' = Handeds
    BY <1>6, <2>8 DEF Handeds
  <2>10. Acked' = Acked \cup {t}
    BY <1>1, <1>3, <1>8, AckEffect DEF Acked, AcksWith
  <2>11. Promise!Acknowledge(t, b)
    BY <1>4, <2>3, <2>6, <2>7, <2>9, <2>10 DEF Promise!Acknowledge, LogOf, Heads, Acked, Handeds
  <2>12. QED
    BY <2>11 DEF Promise!Next
<1>9. CASE ~(op[p].ok /\ op[p].kind \in Handing \cup MainCommits)
  <2>1. Acked' = Acked
    BY <1>1, <1>9, AckedKept DEF AcksWith
  <2>2. Handed(t)' = Handed(t)
    BY <1>1, <1>5, <1>9, HandedKept DEF Hands
  <2>3. Handeds' = Handeds
    BY <1>6, <2>2 DEF Handeds
  <2>4. QED
    BY <1>4, <2>1, <2>3 DEF Promise!vars, LogOf, Heads, Acked, Handeds
<1>10. QED
  BY <1>7, <1>8, <1>9

LEMMA PromiseStep ==
  ASSUME NoQuarantine, StoreInv, [Next]_vars
  PROVE  [Promise!Next]_(Promise!vars)
<1>1. CASE UNCHANGED vars
  BY <1>1 DEF vars, disk, Promise!vars, Handed, HeadOf
<1>2. ASSUME NEW p \in Proc, StepOf(p) PROVE Promise!Next \/ UNCHANGED Promise!vars
  <2>1. CASE \E t \in Turn : Find(p, t)
    BY <1>2, <2>1, FindStep DEF NoQuarantine
  <2>2. CASE Commits(p)
    BY <1>2, <2>2, CommitStep DEF NoQuarantine
  <2>3. CASE WriteBranch(p)
    BY <2>3, WriteStep DEF NoQuarantine
  <2>4. CASE Return(p)
    BY <2>4, ReturnStep DEF NoQuarantine
  <2>5. CASE (\A t \in Turn : ~Find(p, t)) /\ ~Commits(p) /\ ~WriteBranch(p) /\ ~Return(p)
    <3>1. TypeInv
      BY DEF StoreInv, LockInv
    <3>2. LogOf' = LogOf
      BY <1>2, <2>5, <3>1, LogKept DEF NoQuarantine
    <3>3. Acked' = Acked
      BY <1>2, <2>5, <3>1, AckedKept DEF AcksWith
    <3>4. Handeds' = Handeds
      BY <1>2, <2>5, <3>1, HandedKept DEF Hands, Handeds
    <3>5. \A b \in Branch : branch'[b] = branch[b]
      BY <1>2, <2>5, <3>1, BranchEffect DEF NoQuarantine
    <3>6. Heads' = Heads
      BY <3>5 DEF Heads, HeadOf
    <3>7. QED
      BY <3>2, <3>3, <3>4, <3>6 DEF Promise!vars, LogOf, Heads, Acked, Handeds
  <2>6. QED
    BY <2>1, <2>2, <2>3, <2>4, <2>5
<1>3. QED
  BY <1>1, <1>2 DEF Next, StepOf

(* The store keeps CommitLog's promise through crashes and failed writes      *)
(* (fail_closed): what a caller was told is committed is in the ledger for    *)
(* good, and no turn is handed a checkpoint that is not its branch's latest.  *)
THEOREM KeepsPromise == Policy = "fail_closed" => (Spec => ImplementsCommitLog)
<1> SUFFICES ASSUME Policy = "fail_closed" PROVE Spec => ImplementsCommitLog
  OBVIOUS
<1>1. StoreInv /\ [Next]_vars => StoreInv' /\ [Promise!Next]_(Promise!vars)
  BY StoreStep, PromiseStep, ClosedNeverQuarantines DEF StoreInv, LockInv
<1>2. QED
  BY <1>1, StoreInit, PromiseInit, PTL DEF Spec, ImplementsCommitLog, Promise!Spec
===============================================================================

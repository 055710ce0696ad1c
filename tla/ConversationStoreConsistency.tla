---------------------- MODULE ConversationStoreConsistency ----------------------
(***************************************************************************)
(* Theorems about what a session's files say of each other: a listed       *)
(* branch has both its files, whatever crashes (fail_closed); as long as   *)
(* nothing crashes or fails they agree whenever nobody is writing, so that *)
(* no session is quarantined; and a session that was quarantined recovers. *)
(***************************************************************************)
EXTENDS ConversationStoreProofs

(* branch.json says what the ledger says. *)
Agrees(f, l) ==
  /\ l.intact
  /\ l.first = "branch_created"
  /\ f.lastTurn   = LastEntry(l).turn
  /\ f.checkpoint = LastEntry(l).response
  /\ f.pending    = l.pending

(* A creation holds the list it read and its own branch, and knows how far    *)
(* the files of that branch are.                                              *)
CreateFacts(p) ==
  LET o == op[p] IN
  Busy(p) /\ o.kind = "create" =>
    /\ o.step # "return" => o.ids \subseteq Listed \cup {o.branch}
    /\ o.step \in {"branch", "event"} => ledger[o.branch] = EmptyLedger
    /\ o.step \in {"newline", "sparse", "list"} => ledger[o.branch].first = "branch_created"

CompleteInv == ListedIsComplete /\ \A p \in Proc : CreateFacts(p)

--------------------------------------------------------------------------------
(* A step of an operation moves its program counter and nothing else. *)
LEMMA GotoKeeps ==
  ASSUME TypeOK, NEW p \in Proc, Busy(p), NEW s, Goto(p, s)
  PROVE  /\ op[p] \in Operation /\ Busy(p)'
         /\ op'[p].step = s /\ op'[p].kind = op[p].kind /\ op'[p].turn = op[p].turn
         /\ op'[p].branch = op[p].branch /\ op'[p].contents = op[p].contents
         /\ op'[p].ids = op[p].ids /\ op'[p].ok = op[p].ok
<1>1. op[p] \in Operation
  BY DEF TypeOK, Busy
<1>2. op'[p] = [op[p] EXCEPT !.step = s]
  BY DEF TypeOK, Goto
<1>3. Busy(p)'
  BY ONLY <1>1, <1>2 DEF Busy, Idle, Operation, Kind, FollowUps, MainCommits
<1>4. QED
  BY ONLY <1>1, <1>2, <1>3 DEF Operation

(* Where an operation that writes is, its branch is one. *)
LEMMA WritersBranch ==
  ASSUME TypeInv, NEW p \in Proc, Busy(p),
         op[p].step \in {"branch", "event", "newline", "sparse", "list"}
  PROVE  op[p] \in Operation /\ op[p].branch \in Branch /\ op[p].turn \in Turn
<1>1. op[p] \in Operation
  BY DEF TypeInv, TypeOK, Busy
<1>2. OpControl(p) /\ OpTurn(p) /\ OpContents(p) /\ \A t \in Turn : TurnControl(t)
  BY DEF TypeInv, Control
<1>3. op[p].turn \in Turn
  BY <1>1 DEF Operation
<1>4. CASE op[p].kind \in {"continue", "create"}
  BY <1>1, <1>2, <1>3, <1>4 DEF OpContents
<1>5. CASE op[p].kind \in FollowUps
  BY <1>1, <1>2, <1>3, <1>5 DEF OpTurn, TurnControl
<1>6. QED
  BY <1>1, <1>2, <1>3, <1>4, <1>5 DEF OpControl, FollowUps

(* A ledger changes only by an event, its newline, or the first part of an    *)
(* event that was not written to the end.                                     *)
LEMMA LedgerEffect ==
  ASSUME TypeInv, NEW p \in Proc, ~Quarantine(p), StepOf(p), NEW b \in Branch
  PROVE  \/ ledger'[b] = ledger[b]
         \/ AppendEvent(p) /\ b = op[p].branch
            /\ ledger'[b] = Appended(ledger[b], op[p].kind, op[p].turn)
         \/ AppendNewline(p) /\ b = op[p].branch /\ ledger'[b] = [ledger[b] EXCEPT !.newline = TRUE]
         \/ (WriteFails(p) \/ Crash(p)) /\ ledger'[b] = Torn(ledger[b])
<1>1. ledger \in [Branch -> Ledger]
  BY DEF TypeInv, TypeOK
<1>2. CASE AppendEvent(p)
  BY <1>1, <1>2 DEF AppendEvent
<1>3. CASE AppendNewline(p)
  BY <1>1, <1>3 DEF AppendNewline
<1>4. CASE WriteFails(p)
  BY <1>1, <1>4 DEF WriteFails
<1>5. CASE Crash(p)
  BY <1>1, <1>5 DEF Crash
<1>6. CASE ~AppendEvent(p) /\ ~AppendNewline(p) /\ ~WriteFails(p) /\ ~Crash(p)
  <2>1. CASE \E t \in Turn : Find(p, t) \/ Request(p, t)
    BY <2>1 DEF Find, FindBranch, FindNothing, Request, SelectOrCreateBranch, CallOnBranch, disk
  <2>2. CASE Lock(p) \/ Return(p)
    BY <2>2 DEF Lock, Return, disk
  <2>3. CASE Load(p)
    BY <2>3 DEF Load, LoadSession, SelectContinues, SelectCreates, SelectRefused, LoadBranch,
                LoadBranchMissing, disk
  <2>4. CASE Quarantine(p)
    BY <2>4
  <2>5. CASE Write(p)
    BY <1>6, <2>5 DEF Write, InitSession, WriteBranch, WriteSparseCheckpoint, ListBranch, disk
  <2>6. QED
    BY <1>6, <2>1, <2>2, <2>3, <2>4, <2>5 DEF StepOf, Proceed
<1>7. QED
  BY <1>2, <1>3, <1>4, <1>5, <1>6

(* The first line of a ledger is written once. *)
LEMMA FirstStays ==
  ASSUME TypeInv, NEW p \in Proc, ~Quarantine(p), StepOf(p), NEW b \in Branch,
         ledger[b].first = "branch_created"
  PROVE  ledger'[b].first = "branch_created"
<1>1. ledger[b] \in Ledger
  BY DEF TypeInv, TypeOK
<1>2. Torn(ledger[b]).first = "branch_created"
  BY <1>1 DEF Torn, Ledger
<1>3. [ledger[b] EXCEPT !.newline = TRUE].first = "branch_created"
  BY <1>1 DEF Ledger
<1>4. Appended(ledger[b], op[p].kind, op[p].turn).first = "branch_created"
  BY DEF Appended
<1>5. QED
  BY <1>2, <1>3, <1>4, LedgerEffect

LEMMA OwnCreate ==
  ASSUME StoreInv, CompleteInv, NEW p \in Proc, ~Quarantine(p), StepOf(p)
  PROVE  CreateFacts(p)'
<1>1. TypeInv /\ TypeOK /\ WorkFacts(p) /\ CreateFacts(p) /\ OpControl(p)
  BY DEF StoreInv, LockInv, TypeInv, Control, CompleteInv
<1>2. op \in [Proc -> Operation \cup {Idle}] /\ ledger \in [Branch -> Ledger]
  BY <1>1 DEF TypeOK
<1> SUFFICES ASSUME Busy(p)', op'[p].kind = "create"
             PROVE  /\ op'[p].step # "return" => op'[p].ids \subseteq Listed' \cup {op'[p].branch}
                    /\ op'[p].step \in {"branch", "event"} => ledger'[op'[p].branch] = EmptyLedger
                    /\ op'[p].step \in {"newline", "sparse", "list"} =>
                         ledger'[op'[p].branch].first = "branch_created"
  BY DEF CreateFacts
<1>3. CASE SelectCreates(p)
  <2>1. PICK b \in Branch \ minted, parent \in Listed \cup {None} :
          op' = [op EXCEPT ![p].kind = "create", ![p].branch = b,
                           ![p].step = "branch",
                           ![p].contents = NewBranch(IncomingFp(p), parent),
                           ![p].ids = Listed \cup {b}]
    BY ONLY <1>3 DEF SelectCreates
  <2>2. op[p] \in Operation
    BY <1>2, <1>3 DEF SelectCreates, At, Busy
  <2>3. op'[p].branch = b /\ op'[p].step = "branch" /\ op'[p].ids = Listed \cup {b}
    BY ONLY <1>2, <2>1, <2>2, p \in Proc DEF Operation
  <2>4. session' = session /\ ledger' = ledger
    BY <1>3 DEF SelectCreates
  <2>5. ledger[b] = EmptyLedger
    BY <2>1 DEF StoreInv, MintedFacts
  <2>6. QED
    BY <2>3, <2>4, <2>5 DEF Listed
<1>4. CASE WriteBranch(p)
  <2>1. Busy(p) /\ op[p].step = "branch" /\ UNCHANGED <<session, ledger>>
    BY <1>4 DEF WriteBranch, At
  <2>2. Goto(p, CASE op[p].kind = "create"  -> "event"
                  [] op[p].kind = "compact" -> "sparse"
                  [] OTHER                  -> "return")
    BY <1>4 DEF WriteBranch
  <2>3. op[p].kind = "create" /\ op'[p].step = "event" /\ op'[p].branch = op[p].branch
        /\ op'[p].ids = op[p].ids
    BY ONLY <1>1, <2>1, <2>2, GotoKeeps, op'[p].kind = "create", p \in Proc
  <2>4. QED
    BY <1>1, <2>1, <2>3 DEF CreateFacts, Listed
<1>5. CASE AppendEvent(p)
  <2>1. Busy(p) /\ op[p].step = "event" /\ session' = session /\ Goto(p, "newline")
    BY <1>5 DEF AppendEvent, At
  <2>2. op[p].kind = "create" /\ op'[p].step = "newline" /\ op'[p].branch = op[p].branch
        /\ op'[p].ids = op[p].ids
    BY ONLY <1>1, <2>1, GotoKeeps, op'[p].kind = "create", p \in Proc
  <2>3. PICK b \in Branch : b = op[p].branch
    BY <1>1, <2>1, WritersBranch
  <2>4. ledger'[b] = Appended(ledger[b], op[p].kind, op[p].turn) /\ ledger[b] = EmptyLedger
    BY <1>1, <1>2, <1>5, <2>1, <2>2, <2>3 DEF AppendEvent, CreateFacts
  <2>5. ledger'[b].first = "branch_created"
    BY ONLY <2>2, <2>4 DEF Appended, EmptyLedger
  <2>6. QED
    BY <1>1, <2>1, <2>2, <2>3, <2>5 DEF CreateFacts, Listed
<1>6. CASE AppendNewline(p) \/ WriteSparseCheckpoint(p)
  <2>1. Busy(p) /\ op[p].step \in {"newline", "sparse"} /\ session' = session
        /\ \E s : Goto(p, s) /\ (op[p].kind = "create" => s \in {"sparse", "list"})
    BY <1>6 DEF AppendNewline, WriteSparseCheckpoint, At, disk
  <2>2. op[p].kind = "create" /\ op'[p].step \in {"sparse", "list"} /\ op'[p].branch = op[p].branch
        /\ op'[p].ids = op[p].ids
    <3>1. PICK s : Goto(p, s) /\ (op[p].kind = "create" => s \in {"sparse", "list"})
      BY <2>1
    <3>2. QED
      BY ONLY <1>1, <2>1, <3>1, GotoKeeps, op'[p].kind = "create", p \in Proc
  <2>3. PICK b \in Branch : b = op[p].branch
    BY <1>1, <2>1, WritersBranch
  <2>4. ledger'[b].first = "branch_created"
    BY <1>1, <2>1, <2>2, <2>3, FirstStays DEF CreateFacts
  <2>5. QED
    BY <1>1, <2>1, <2>2, <2>3, <2>4 DEF CreateFacts, Listed
<1>7. CASE ListBranch(p) \/ WriteFails(p)
  <2>1. op'[p].step = "return"
    BY <1>1, <1>2, <1>7 DEF ListBranch, WriteFails, Goto, Fail, At, Inside, Busy, Operation
  <2>2. QED
    BY <2>1
<1>8. CASE \E t \in Turn : Find(p, t)
  <2>1. op' = op /\ UNCHANGED <<session, ledger>>
    BY <1>8 DEF Find, FindBranch, FindNothing, disk
  <2>2. QED
    BY <1>1, <2>1 DEF CreateFacts, Busy, Listed
<1>9. CASE ~(\E t \in Turn : Find(p, t)) /\ ~SelectCreates(p) /\ ~WriteBranch(p) /\ ~AppendEvent(p)
           /\ ~AppendNewline(p) /\ ~WriteSparseCheckpoint(p) /\ ~ListBranch(p) /\ ~WriteFails(p)
  <2>1. CASE \E t \in Turn : Request(p, t)
    BY <1>2, <2>1, CallsAssumption DEF Request, SelectOrCreateBranch, CallOnBranch, Enter, FollowUps, MainCommits
  <2>2. CASE Lock(p) \/ LoadSession(p) \/ SelectRefused(p) \/ LoadBranchMissing(p) \/ InitSession(p)
    BY <1>1, <1>2, <2>2 DEF Lock, LoadSession, SelectRefused, LoadBranchMissing, InitSession, Goto, Fail,
       At, Busy, Operation, OpControl, FollowUps, MainCommits
  <2>3. CASE LoadBranch(p)
    <3>1. op'[p].kind = op[p].kind /\ op[p].kind \in FollowUps
      <4>1. op[p] \in Operation /\ op[p].kind \in FollowUps
        BY <1>1, <2>3, LoadBranchStep
      <4>2. PICK fp \in Fingerprint, step \in {"event", "branch"} :
              op' = [op EXCEPT ![p].step = step,
                     ![p].contents = Updated(branch[op[p].branch], op[p].kind, op[p].turn, fp)]
        BY <1>1, <2>3, LoadBranchStep
      <4>3. QED
        BY ONLY <1>2, <4>1, <4>2, p \in Proc DEF Operation
    <3>2. QED
      BY <3>1 DEF FollowUps, MainCommits
  <2>4. CASE SelectContinues(p)
    BY <1>2, <2>4 DEF SelectContinues, At, Busy, Operation
  <2>5. CASE Quarantine(p)
    BY <2>5
  <2>6. CASE Return(p) \/ Crash(p)
    BY <1>2, <2>6 DEF Return, Crash, Busy
  <2>7. QED
    BY <1>9, <2>1, <2>2, <2>3, <2>4, <2>5, <2>6 DEF StepOf, Proceed, Load, Write
<1>10. QED
  BY <1>3, <1>4, <1>5, <1>6, <1>7, <1>8, <1>9

(* Those who wait for the lock have created nothing yet. *)
LEMMA OthersCreate ==
  ASSUME StoreInv, CompleteInv, NEW p \in Proc, StepOf(p), NEW q \in Proc, q # p
  PROVE  CreateFacts(q)'
<1>1. op'[q] = op[q] /\ OpControl(q) /\ CreateFacts(q) /\ TypeInv
  BY OthersKeep DEF StoreInv, LockInv, TypeInv, Control, CompleteInv
<1>2. CASE Inside(p)
  <2>1. Busy(q) => op[q].step = "lock"
    BY <1>2 DEF StoreInv, LockInv, OneInside, Inside
  <2>2. Busy(q) => op[q].kind # "create"
    BY <1>1, <2>1 DEF OpControl, FollowUps, MainCommits
  <2>3. QED
    BY <1>1, <2>2 DEF CreateFacts, Busy
<1>3. CASE ~Inside(p)
  <2>1. session' = session /\ ledger' = ledger
    BY <1>1, <1>3, OutsideKeepsDisk DEF disk
  <2>2. QED
    BY <1>1, <2>1 DEF CreateFacts, Busy, Listed
<1>4. QED
  BY <1>2, <1>3

(* Only a creation at its last write lists a branch, its own. *)
LEMMA ListedEffect ==
  ASSUME StoreInv, CompleteInv, NEW p \in Proc, ~Quarantine(p), StepOf(p), NEW b \in Listed'
  PROVE  \/ b \in Listed
         \/ ListBranch(p) /\ b = op[p].branch /\ op[p].kind = "create"
<1>1. ListBranch(p) => Busy(p) /\ op[p].kind = "create" /\ op[p].step = "list"
  BY DEF ListBranch, At, StoreInv, LockInv, TypeInv, Control, OpControl
<1>2. ListBranch(p) => op[p].ids \subseteq Listed \cup {op[p].branch}
  BY <1>1 DEF CompleteInv, CreateFacts
<1>3. CASE session' = session
  BY <1>3 DEF Listed
<1>4. CASE session' = {}
  BY <1>4 DEF Listed
<1>5. CASE ListBranch(p) /\ session' = op[p].ids
  BY <1>1, <1>2, <1>5 DEF Listed
<1>6. QED
  BY <1>3, <1>4, <1>5, SessionEffect

LEMMA CompleteStep ==
  ASSUME StoreInv, CompleteInv, NEW p \in Proc, ~Quarantine(p), StepOf(p)
  PROVE  CompleteInv'
<1>1. TypeInv
  BY DEF StoreInv, LockInv
<1>2. ASSUME NEW b \in Listed' PROVE branch'[b] # None /\ ledger'[b].first = "branch_created"
  <2>1. CASE b \in Listed
    <3>1. b \in Branch
      BY <1>1, <2>1 DEF Listed, TypeInv, TypeOK
    <3>2. branch[b] # None /\ ledger[b].first = "branch_created"
      BY <2>1 DEF CompleteInv, ListedIsComplete
    <3>3. WriteBranch(p) => op[p].contents # None
      BY <1>1, FileNoneAssumption DEF WriteBranch, At, TypeInv, Control, OpContents
    <3>4. QED
      BY <1>1, <3>1, <3>2, <3>3, BranchEffect, FirstStays
  <2>2. CASE ListBranch(p) /\ b = op[p].branch /\ op[p].kind = "create"
    <3>1. Busy(p) /\ op[p].step = "list" /\ UNCHANGED <<branch, ledger>>
      BY <2>2 DEF ListBranch, At
    <3>2. op[p].contents \in BranchFile \/ op[p].contents = None
      BY <1>1, <3>1 DEF TypeInv, TypeOK, Busy, Operation
    <3>3. branch[b] = op[p].contents
      BY <2>2, <3>1 DEF StoreInv, WorkFacts, Written
    <3>4. branch[b] # None
      BY <1>1, <2>2, <3>1, <3>3, FileNoneAssumption DEF TypeInv, Control, OpContents
    <3>5. ledger[b].first = "branch_created"
      BY <2>2, <3>1 DEF CompleteInv, CreateFacts
    <3>6. QED
      BY <3>1, <3>4, <3>5
  <2>3. QED
    BY <2>1, <2>2, ListedEffect
<1>3. \A q \in Proc : CreateFacts(q)'
  BY OwnCreate, OthersCreate
<1>4. QED
  BY <1>2, <1>3 DEF CompleteInv, ListedIsComplete

LEMMA CompleteInit == Init => CompleteInv
BY DEF Init, CompleteInv, ListedIsComplete, CreateFacts, Listed, Busy

(* create_branch writes session.json last: whatever crashes or fails, a       *)
(* branch it lists has its branch.json and a ledger that begins with the line *)
(* of its creation (fail_closed).                                             *)
THEOREM ListingComesLast == Policy = "fail_closed" => (Spec => []ListedIsComplete)
<1> SUFFICES ASSUME Policy = "fail_closed" PROVE Spec => []ListedIsComplete
  OBVIOUS
<1> DEFINE Inv == StoreInv /\ CompleteInv
<1>1. Init => Inv
  BY StoreInit, CompleteInit
<1>2. Inv /\ [Next]_vars => Inv'
  <2>1. Inv => NoQuarantine
    BY ClosedNeverQuarantines DEF StoreInv, LockInv
  <2>2. CASE UNCHANGED vars
    BY <2>1, <2>2, StoreStep DEF vars, disk, CompleteInv, ListedIsComplete, CreateFacts, Listed, Busy
  <2>3. ASSUME Inv, NEW p \in Proc, StepOf(p) PROVE CompleteInv'
    BY <2>1, <2>3, CompleteStep DEF NoQuarantine
  <2>4. QED
    BY <2>1, <2>2, <2>3, StoreStep DEF Next, StepOf
<1>3. Inv => ListedIsComplete
  BY DEF CompleteInv
<1> HIDE DEF Inv
<1>4. QED
  BY <1>1, <1>2, <1>3, PTL DEF Spec

--------------------------------------------------------------------------------
(* What an operation is about to write agrees with the ledger, as it is or as *)
(* its event will leave it.                                                   *)
EventAhead(o) == o.step = "event" \/ (o.kind = "create" /\ o.step = "branch")
FileAhead(o)  == o.step \in {"sparse", "list"} \/ (o.kind # "create" /\ o.step = "branch")

WorkAgrees(p) ==
  LET o == op[p] IN
  Busy(p) /\ (o.kind = "create" \/ o.branch \in Listed) =>
    /\ EventAhead(o) => /\ ledger[o.branch].newline
                        /\ Agrees(o.contents, Appended(ledger[o.branch], o.kind, o.turn))
    /\ o.step = "newline" => Agrees(o.contents, ledger[o.branch])
    /\ FileAhead(o) => ledger[o.branch].newline /\ Agrees(o.contents, ledger[o.branch])

(* The files of a listed branch agree, unless one process is between its      *)
(* event and its branch.json.                                                 *)
Between(p, b) ==
  Busy(p) /\ op[p].branch = b /\ op[p].kind # "create" /\ op[p].step \in {"newline", "branch"}

AgreeInv ==
  /\ \A b \in Listed : (Valid(b) /\ ledger[b].newline) \/ \E p \in Proc : Between(p, b)
  /\ \A p \in Proc : WorkAgrees(p)

CallFacts == \A p \in Proc : Busy(p) => op[p].kind \in Selecting \cup Calls

NoneQuarantines == \A p \in Proc : ~At(p, "quarantine")

CleanInv ==
  /\ TypeInv
  /\ CallFacts
  /\ faults = 0 => StoreInv /\ NoneQuarantines /\ CompleteInv /\ AgreeInv

(* What the operations make of branch.json and ledger agrees again. *)
LEMMA NewAgrees ==
  ASSUME NEW fp, NEW parent, NEW t
  PROVE  Agrees(NewBranch(fp, parent), Appended(EmptyLedger, "create", t))
<1> DEFINE l == Appended(EmptyLedger, "create", t)
<1>1. /\ l.turns = <<>> /\ l.first = "branch_created" /\ l.pending = FALSE /\ l.intact = TRUE
  BY DEF Appended, EmptyLedger, MainCommits
<1>2. LastEntry(l) = NoEntry
  BY <1>1 DEF LastEntry
<1> HIDE DEF l
<1>3. Agrees(NewBranch(fp, parent), l)
  <2>1. LastEntry(l).turn = None /\ LastEntry(l).response = None
    BY ONLY <1>2 DEF NoEntry
  <2>2. /\ NewBranch(fp, parent).lastTurn = None /\ NewBranch(fp, parent).checkpoint = None
        /\ NewBranch(fp, parent).pending = FALSE
    BY ONLY DEF NewBranch
  <2>3. QED
    BY ONLY <1>1, <2>1, <2>2 DEF Agrees
<1>4. QED
  BY <1>3 DEF l

LEMMA NewlineAgrees ==
  ASSUME NEW l \in Ledger, NEW f
  PROVE  /\ Agrees(f, [l EXCEPT !.newline = TRUE]) <=> Agrees(f, l)
         /\ [l EXCEPT !.newline = TRUE].newline
<1>1. /\ [l EXCEPT !.newline = TRUE].turns = l.turns /\ [l EXCEPT !.newline = TRUE].first = l.first
      /\ [l EXCEPT !.newline = TRUE].pending = l.pending
      /\ [l EXCEPT !.newline = TRUE].intact = l.intact /\ [l EXCEPT !.newline = TRUE].newline
  BY DEF Ledger
<1>2. QED
  BY <1>1 DEF Agrees, LastEntry

(* The calls that keep branch.json and ledger together: a commit without a    *)
(* response id and an invalidation do not.                                    *)
PlainCalls == Calls \cap {"commit_bare", "invalidate"} = {}
Plain      == FollowUps \ {"commit_bare", "invalidate"}

LEMMA UpdateAgrees ==
  ASSUME NEW f \in BranchFile, NEW l \in Ledger, Agrees(f, l), l.newline, NEW kind \in Plain,
         NEW t \in Turn, NEW fp \in Fingerprint
  PROVE  /\ kind # "offshoot" => Agrees(Updated(f, kind, t, fp), Appended(l, kind, t))
         /\ kind \in {"offshoot", "reconcile"} => Agrees(Updated(f, kind, t, fp), l)
<1> DEFINE g == Updated(f, kind, t, fp)
           m == Appended(l, kind, t)
<1>1. m.intact /\ m.first = "branch_created"
  BY DEF Appended, Agrees
<1>2. CASE kind = "commit"
  <2>1. g.lastTurn = t /\ g.checkpoint = t /\ g.pending = FALSE
    BY <1>2 DEF Updated, BranchFile
  <2>2. m.turns = Append(l.turns, [turn |-> t, response |-> t]) /\ m.pending = FALSE
    BY <1>2 DEF Appended, MainCommits
  <2>3. LastEntry(m) = [turn |-> t, response |-> t]
    BY <2>2 DEF LastEntry, Ledger
  <2> HIDE DEF g, m
  <2>4. Agrees(g, m)
    <3>1. LastEntry(m).turn = t /\ LastEntry(m).response = t
      BY ONLY <2>3
    <3>2. g.pending = m.pending
      BY ONLY <2>1, <2>2
    <3>3. QED
      BY ONLY <1>1, <2>1, <3>1, <3>2 DEF Agrees
  <2>5. QED
    BY <1>2, <2>4 DEF g, m
<1>3. CASE kind # "commit"
  <2>1. kind \in {"side", "offshoot", "reconcile", "compact"}
    BY <1>3 DEF Plain, FollowUps, MainCommits
  <2>2. g.lastTurn = f.lastTurn /\ g.checkpoint = f.checkpoint
        /\ g.pending = (kind = "compact" \/ f.pending)
    <3>1. CASE kind = "compact"
      BY <3>1 DEF Updated, BranchFile
    <3>2. CASE kind = "offshoot"
      BY <3>2 DEF Updated, BranchFile
    <3>3. CASE kind \in {"side", "reconcile"}
      BY <3>3 DEF Updated, BranchFile
    <3>4. QED
      BY <2>1, <3>1, <3>2, <3>3
  <2>3. m.turns = l.turns /\ m.pending = (kind = "compact" \/ l.pending)
    <3>1. kind \notin MainCommits /\ kind # "commit_bare"
      BY <2>1 DEF MainCommits
    <3>2. m.turns = l.turns
      BY <1>3, <3>1 DEF Appended
    <3>3. m.pending = (kind = "compact" \/ l.pending)
      BY <3>1, Zenon DEF Appended
    <3>4. QED
      BY <3>2, <3>3
  <2>4. LastEntry(m) = LastEntry(l)
    BY <2>3 DEF LastEntry
  <2> HIDE DEF g, m
  <2>5. Agrees(g, m)
    BY <1>1, <2>2, <2>3, <2>4 DEF Agrees
  <2>6. kind # "compact" => Agrees(g, l)
    <3>1. l.pending \in BOOLEAN /\ f.pending \in BOOLEAN
      BY DEF Ledger, BranchFile
    <3>2. QED
      BY <2>2, <3>1 DEF Agrees
  <2>7. QED
    BY <2>1, <2>5, <2>6 DEF g, m
<1>4. QED
  BY <1>2, <1>3

(* Where one process is inside and has not written an event, every listed     *)
(* branch agrees.                                                             *)
LEMMA LoadedAgree ==
  ASSUME StoreInv, AgreeInv, NEW p \in Proc, At(p, "load"), NEW b \in Listed
  PROVE  Valid(b) /\ ledger[b].newline
<1>1. ASSUME NEW q \in Proc, Between(q, b) PROVE FALSE
  <2>1. Inside(q) /\ Inside(p)
    BY <1>1 DEF Between, Inside, At
  <2>2. q = p
    BY <2>1 DEF StoreInv, LockInv, OneInside
  <2>3. QED
    BY <1>1, <2>2 DEF Between, At
<1>2. QED
  BY <1>1 DEF AgreeInv

LEMMA NoFault ==
  ASSUME TypeOK, NEW p \in Proc, StepOf(p), faults' = 0
  PROVE  faults = 0 /\ ~WriteFails(p) /\ ~Crash(p)
<1>1. ~WriteFails(p) /\ ~Crash(p)
  BY DEF TypeOK, WriteFails, Crash
<1>2. faults' = faults
  BY <1>1 DEF StepOf, Find, FindBranch, FindNothing, Request, SelectOrCreateBranch, CallOnBranch, Proceed,
     Lock, Load, LoadSession, SelectContinues, SelectCreates, SelectRefused, LoadBranch, LoadBranchMissing,
     Quarantine, Write, InitSession, WriteBranch, AppendEvent, AppendNewline, WriteSparseCheckpoint,
     ListBranch, Return
<1>3. QED
  BY <1>1, <1>2

(* An operation that writes no event has no event ahead, and the others have  *)
(* one.                                                                       *)
LEMMA LoadBranchAhead ==
  ASSUME TypeInv, CallFacts, PlainCalls, NEW p \in Proc, LoadBranch(p)
  PROVE  /\ op[p] \in Operation /\ op[p].kind \in Plain
         /\ op[p].turn \in Turn /\ op[p].branch \in Branch /\ branch[op[p].branch] \in BranchFile
         /\ Busy(p)' /\ op'[p].kind = op[p].kind /\ op'[p].turn = op[p].turn
         /\ op'[p].branch = op[p].branch
         /\ \E fp \in Fingerprint :
              op'[p].contents = Updated(branch[op[p].branch], op[p].kind, op[p].turn, fp)
         /\ \/ op'[p].step = "event" /\ op[p].kind # "offshoot"
            \/ op'[p].step = "branch" /\ op[p].kind \in {"offshoot", "reconcile"}
<1>1. /\ op[p] \in Operation /\ op[p].kind \in FollowUps
      /\ op[p].turn \in Turn /\ op[p].branch \in Branch /\ branch[op[p].branch] \in BranchFile
  BY LoadBranchStep
<1>2. op[p].kind \in Plain
  <2>1. op[p].kind \in Calls
    BY <1>1 DEF CallFacts, LoadBranch, At, Selecting, FollowUps, MainCommits
  <2>2. QED
    BY <1>1, <2>1 DEF PlainCalls, Plain
<1>3. PICK fp \in Fingerprint, step \in {"event", "branch"} :
        op' = [op EXCEPT ![p].step = step,
                         ![p].contents = Updated(branch[op[p].branch], op[p].kind, op[p].turn, fp)]
  BY LoadBranchStep
<1>4. PICK f \in IF op[p].kind \in MainCommits THEN {IncomingFp(p)} ELSE Fingerprint,
           s \in CASE op[p].kind \in {"offshoot", "invalidate"} -> {"branch"}
                      [] op[p].kind = "reconcile"                  -> {"event", "branch"}
                      [] OTHER                                     -> {"event"} :
        op' = [op EXCEPT ![p].step = s,
                         ![p].contents = Updated(branch[op[p].branch], op[p].kind, op[p].turn, f)]
  BY DEF LoadBranch
<1>5. op \in [Proc -> Operation \cup {Idle}]
  BY DEF TypeInv, TypeOK
<1> DEFINE new == Updated(branch[op[p].branch], op[p].kind, op[p].turn, fp)
<1>6. op'[p] = [op[p] EXCEPT !.step = step, !.contents = new] /\ op'[p].step = s
  <2>1. op'[p] = [op[p] EXCEPT !.step = step, !.contents = new]
    BY ONLY <1>3, <1>5, p \in Proc
  <2>2. op'[p].step = s
    BY ONLY <1>1, <1>4, <1>5, p \in Proc DEF Operation
  <2>3. QED
    BY <2>1, <2>2
<1>7. /\ op'[p].kind = op[p].kind /\ op'[p].turn = op[p].turn /\ op'[p].branch = op[p].branch
      /\ op'[p].contents = new /\ Busy(p)'
  BY ONLY <1>1, <1>6 DEF Operation, Busy, Idle, FollowUps, MainCommits
<1>8. \/ op'[p].step = "event" /\ op[p].kind # "offshoot"
      \/ op'[p].step = "branch" /\ op[p].kind \in {"offshoot", "reconcile"}
  <2>1. CASE op[p].kind = "offshoot"
    BY <1>4, <1>6, <2>1
  <2>2. CASE op[p].kind = "reconcile"
    BY <1>4, <1>6, <2>2
  <2>3. CASE op[p].kind \notin {"offshoot", "reconcile", "invalidate"}
    BY <1>4, <1>6, <2>3
  <2>4. QED
    BY <1>2, <2>1, <2>2, <2>3 DEF Plain
<1>9. QED
  BY <1>1, <1>2, <1>7, <1>8

LEMMA OwnAgrees ==
  ASSUME StoreInv, CompleteInv, AgreeInv, CallFacts, PlainCalls,
         NEW p \in Proc, ~Quarantine(p), StepOf(p), faults' = 0
  PROVE  WorkAgrees(p)'
<1>1. /\ TypeInv /\ TypeOK /\ WorkFacts(p) /\ CreateFacts(p) /\ WorkAgrees(p) /\ OpControl(p)
      /\ ~WriteFails(p) /\ ~Crash(p)
  BY NoFault DEF StoreInv, LockInv, TypeInv, Control, CompleteInv, AgreeInv
<1>2. op \in [Proc -> Operation \cup {Idle}] /\ ledger \in [Branch -> Ledger]
  BY <1>1 DEF TypeOK
<1>3. CASE op'[p].step \in {"lock", "load", "init", "quarantine", "return", "idle"}
  BY <1>3 DEF WorkAgrees, EventAhead, FileAhead
<1>4. CASE \E t \in Turn : Find(p, t)
  <2>1. op' = op /\ UNCHANGED disk
    BY <1>4 DEF Find, FindBranch, FindNothing
  <2>2. session' = session /\ ledger' = ledger
    BY <2>1 DEF disk
  <2>3. QED
    BY <1>1, <2>1, <2>2 DEF WorkAgrees, Busy, Listed
<1>5. CASE SelectContinues(p)
  <2>1. PICK b \in Listed :
          op' = [op EXCEPT ![p].kind = "continue", ![p].step = "branch", ![p].branch = b,
                           ![p].contents = [branch[b] EXCEPT !.fp = IncomingFp(p)]]
    BY <1>5 DEF SelectContinues
  <2>2. At(p, "load") /\ op[p] \in Operation /\ session' = session /\ ledger' = ledger
    BY <1>2, <1>5 DEF SelectContinues, At, Busy, disk
  <2>3. Valid(b) /\ ledger[b].newline
    BY <2>2, LoadedAgree
  <2> DEFINE new == [branch[b] EXCEPT !.fp = IncomingFp(p)]
  <2>4. op'[p].kind = "continue" /\ op'[p].step = "branch" /\ op'[p].branch = b /\ op'[p].contents = new
    BY ONLY <1>2, <2>1, <2>2, p \in Proc DEF Operation
  <2>5. branch[b] \in BranchFile
    BY <1>1, <2>3 DEF Listed, TypeOK, Valid
  <2>6. new.lastTurn = branch[b].lastTurn /\ new.checkpoint = branch[b].checkpoint
        /\ new.pending = branch[b].pending
    BY <2>5 DEF BranchFile
  <2> HIDE DEF new
  <2>7. Agrees(new, ledger[b])
    BY <2>3, <2>6 DEF Agrees, Valid
  <2>8. QED
    BY ONLY <2>2, <2>3, <2>4, <2>7 DEF WorkAgrees, EventAhead, FileAhead
<1>6. CASE SelectCreates(p)
  <2>1. PICK b \in Branch \ minted, parent \in Listed \cup {None} :
          op' = [op EXCEPT ![p].kind = "create", ![p].branch = b,
                           ![p].step = "branch",
                           ![p].contents = NewBranch(IncomingFp(p), parent),
                           ![p].ids = Listed \cup {b}]
    BY ONLY <1>6 DEF SelectCreates
  <2>2. op[p] \in Operation /\ ledger' = ledger
    BY <1>2, <1>6 DEF SelectCreates, At, Busy
  <2>3. op'[p].kind = "create" /\ op'[p].branch = b /\ op'[p].step = "branch"
        /\ op'[p].contents = NewBranch(IncomingFp(p), parent)
    BY ONLY <1>2, <2>1, <2>2, p \in Proc DEF Operation
  <2>4. ledger[b] = EmptyLedger
    BY <2>1 DEF StoreInv, MintedFacts
  <2>5. ledger[b].newline /\ Agrees(op'[p].contents, Appended(ledger[b], "create", op'[p].turn))
    BY <2>3, <2>4, NewAgrees DEF EmptyLedger
  <2>6. QED
    BY ONLY <2>2, <2>3, <2>5 DEF WorkAgrees, EventAhead, FileAhead
<1>7. CASE LoadBranch(p)
  <2>1. session' = session /\ ledger' = ledger /\ At(p, "load")
    BY <1>7 DEF LoadBranch, disk
  <2>2. PICK b \in Branch : b = op[p].branch
    BY <1>1, <1>7, LoadBranchAhead
  <2>3. PICK kind \in Plain : kind = op[p].kind
    BY <1>1, <1>7, LoadBranchAhead
  <2>4. PICK t \in Turn : t = op[p].turn
    BY <1>1, <1>7, LoadBranchAhead
  <2>5. /\ branch[b] \in BranchFile
        /\ op'[p].kind = kind /\ op'[p].turn = t /\ op'[p].branch = b
        /\ \/ op'[p].step = "event" /\ kind # "offshoot"
           \/ op'[p].step = "branch" /\ kind \in {"offshoot", "reconcile"}
    BY <1>1, <1>7, <2>2, <2>3, <2>4, LoadBranchAhead
  <2>6. PICK fp \in Fingerprint : op'[p].contents = Updated(branch[b], kind, t, fp)
    BY <1>1, <1>7, <2>2, <2>3, <2>4, LoadBranchAhead
  <2>7. kind # "create"
    BY DEF Plain, FollowUps, MainCommits
  <2>8. ASSUME b \in Listed
        PROVE  /\ ledger[b].newline
               /\ kind # "offshoot" => Agrees(op'[p].contents, Appended(ledger[b], kind, t))
               /\ kind \in {"offshoot", "reconcile"} => Agrees(op'[p].contents, ledger[b])
    <3>1. Valid(b) /\ ledger[b].newline
      BY <2>1, <2>8, LoadedAgree
    <3>2. Agrees(branch[b], ledger[b]) /\ ledger[b] \in Ledger
      BY <1>2, <3>1 DEF Agrees, Valid
    <3>3. QED
      BY <2>5, <2>6, <3>1, <3>2, UpdateAgrees
  <2>9. Listed' = Listed
    BY <2>1 DEF Listed
  <2>10. QED
    BY ONLY <2>1, <2>5, <2>7, <2>8, <2>9 DEF WorkAgrees, EventAhead, FileAhead
<1>8. CASE WriteBranch(p)
  <2>1. Busy(p) /\ op[p].step = "branch" /\ session' = session /\ ledger' = ledger
    BY <1>8 DEF WriteBranch, At
  <2>2. Goto(p, CASE op[p].kind = "create"  -> "event"
                  [] op[p].kind = "compact" -> "sparse"
                  [] OTHER                  -> "return")
    BY <1>8 DEF WriteBranch
  <2>3. /\ op'[p].step = CASE op[p].kind = "create"  -> "event"
                           [] op[p].kind = "compact" -> "sparse"
                           [] OTHER                  -> "return"
        /\ op'[p].kind = op[p].kind /\ op'[p].turn = op[p].turn
        /\ op'[p].branch = op[p].branch /\ op'[p].contents = op[p].contents
    BY ONLY <1>1, <2>1, <2>2, GotoKeeps, p \in Proc
  <2>4. Listed' = Listed
    BY <2>1 DEF Listed
  <2>5. CASE op[p].kind = "create"
    BY <1>1, <2>1, <2>3, <2>4, <2>5 DEF WorkAgrees, EventAhead, FileAhead
  <2>6. CASE op[p].kind = "compact"
    BY <1>1, <2>1, <2>3, <2>4, <2>6 DEF WorkAgrees, EventAhead, FileAhead
  <2>7. CASE op[p].kind \notin {"create", "compact"}
    BY <1>3, <2>3, <2>7
  <2>8. QED
    BY <2>5, <2>6, <2>7
<1>9. CASE AppendEvent(p)
  <2>1. Busy(p) /\ op[p].step = "event" /\ session' = session /\ Goto(p, "newline")
    BY <1>9 DEF AppendEvent, At
  <2>2. /\ op'[p].step = "newline" /\ op'[p].kind = op[p].kind /\ op'[p].turn = op[p].turn
        /\ op'[p].branch = op[p].branch /\ op'[p].contents = op[p].contents
    BY ONLY <1>1, <2>1, GotoKeeps, p \in Proc
  <2>3. PICK b \in Branch : b = op[p].branch
    BY <1>1, <2>1, WritersBranch
  <2>4. ledger'[b] = Appended(ledger[b], op[p].kind, op[p].turn)
    BY <1>2, <1>9, <2>3 DEF AppendEvent
  <2>5. Listed' = Listed
    BY <2>1 DEF Listed
  <2>6. QED
    BY ONLY <1>1, <2>1, <2>2, <2>3, <2>4, <2>5 DEF WorkAgrees, EventAhead, FileAhead
<1>10. CASE AppendNewline(p)
  <2>1. Busy(p) /\ op[p].step = "newline" /\ session' = session
        /\ Goto(p, IF op[p].kind = "create" THEN "sparse" ELSE "branch")
    BY <1>10 DEF AppendNewline, At
  <2>2. /\ op'[p].step = IF op[p].kind = "create" THEN "sparse" ELSE "branch"
        /\ op'[p].kind = op[p].kind /\ op'[p].turn = op[p].turn
        /\ op'[p].branch = op[p].branch /\ op'[p].contents = op[p].contents
    BY ONLY <1>1, <2>1, GotoKeeps, p \in Proc
  <2>3. PICK b \in Branch : b = op[p].branch
    BY <1>1, <2>1, WritersBranch
  <2>4. ledger'[b] = [ledger[b] EXCEPT !.newline = TRUE] /\ ledger[b] \in Ledger
    BY <1>2, <1>10, <2>3 DEF AppendNewline
  <2>5. ledger'[b].newline /\ (Agrees(op[p].contents, ledger'[b]) <=> Agrees(op[p].contents, ledger[b]))
    BY <2>4, NewlineAgrees
  <2>6. Listed' = Listed
    BY <2>1 DEF Listed
  <2>7. QED
    BY ONLY <1>1, <2>1, <2>2, <2>3, <2>5, <2>6 DEF WorkAgrees, EventAhead, FileAhead
<1>11. CASE WriteSparseCheckpoint(p)
  <2>1. Busy(p) /\ op[p].step = "sparse" /\ session' = session /\ ledger' = ledger
        /\ Goto(p, IF op[p].kind = "create" THEN "list" ELSE "return")
    BY <1>11 DEF WriteSparseCheckpoint, At, disk
  <2>2. /\ op'[p].step = IF op[p].kind = "create" THEN "list" ELSE "return"
        /\ op'[p].kind = op[p].kind /\ op'[p].turn = op[p].turn
        /\ op'[p].branch = op[p].branch /\ op'[p].contents = op[p].contents
    BY ONLY <1>1, <2>1, GotoKeeps, p \in Proc
  <2>3. Listed' = Listed
    BY <2>1 DEF Listed
  <2>4. QED
    BY ONLY <1>1, <2>1, <2>2, <2>3 DEF WorkAgrees, EventAhead, FileAhead
<1>12. CASE \E t \in Turn : Request(p, t)
  BY <1>2, <1>3, <1>12 DEF Request, SelectOrCreateBranch, CallOnBranch, Enter
<1>13. CASE Lock(p) \/ LoadSession(p) \/ SelectRefused(p) \/ LoadBranchMissing(p) \/ InitSession(p)
            \/ ListBranch(p)
  BY <1>1, <1>2, <1>3, <1>13 DEF Lock, LoadSession, SelectRefused, LoadBranchMissing, InitSession,
     ListBranch, Goto, Fail, At, Busy, Operation, OpControl
<1>14. CASE Quarantine(p)
  BY <1>14
<1>15. CASE Return(p)
  BY <1>2, <1>3, <1>15 DEF Return, Idle
<1>16. QED
  BY <1>1, <1>4, <1>5, <1>6, <1>7, <1>8, <1>9, <1>10, <1>11, <1>12, <1>13, <1>14, <1>15
     DEF StepOf, Proceed, Load, Write

LEMMA OthersAgree ==
  ASSUME StoreInv, AgreeInv, NEW p \in Proc, StepOf(p), NEW q \in Proc, q # p
  PROVE  WorkAgrees(q)'
<1>1. op'[q] = op[q] /\ WorkAgrees(q) /\ TypeInv
  BY OthersKeep DEF StoreInv, LockInv, TypeInv, AgreeInv
<1>2. CASE Inside(p)
  <2>1. Busy(q) => op[q].step = "lock"
    BY <1>2 DEF StoreInv, LockInv, OneInside, Inside
  <2>2. QED
    BY <1>1, <2>1 DEF WorkAgrees, Busy, EventAhead, FileAhead
<1>3. CASE ~Inside(p)
  <2>1. session' = session /\ ledger' = ledger
    BY <1>1, <1>3, OutsideKeepsDisk DEF disk
  <2>2. QED
    BY <1>1, <2>1 DEF WorkAgrees, Busy, Listed
<1>4. QED
  BY <1>2, <1>3

(* A step leaves the files of every listed branch in agreement, or between    *)
(* its own event and its own branch.json.                                     *)
LEMMA ListedAgree ==
  ASSUME StoreInv, CompleteInv, AgreeInv, NEW p \in Proc, ~Quarantine(p), StepOf(p), faults' = 0,
         NEW b \in Listed'
  PROVE  (Valid(b)' /\ ledger'[b].newline) \/ \E q \in Proc : Between(q, b)'
<1>1. /\ TypeInv /\ TypeOK /\ WorkFacts(p) /\ CreateFacts(p) /\ WorkAgrees(p) /\ OpControl(p)
      /\ OpContents(p) /\ ~WriteFails(p) /\ ~Crash(p)
  BY NoFault DEF StoreInv, LockInv, TypeInv, Control, CompleteInv, AgreeInv
<1>2. /\ op \in [Proc -> Operation \cup {Idle}] /\ ledger \in [Branch -> Ledger]
      /\ branch \in [Branch -> BranchFile \cup {None}]
  BY <1>1 DEF TypeOK
<1>3. CASE b \notin Listed
  <2>1. ListBranch(p) /\ b = op[p].branch /\ op[p].kind = "create"
    BY <1>3, ListedEffect
  <2>2. Busy(p) /\ op[p].step = "list" /\ UNCHANGED <<branch, ledger>>
    BY <2>1 DEF ListBranch, At
  <2>3. branch[b] = op[p].contents /\ op[p].contents \in BranchFile
    BY <1>1, <2>1, <2>2 DEF WorkFacts, Written, OpContents
  <2>4. ledger[b].newline /\ Agrees(op[p].contents, ledger[b])
    BY <1>1, <2>1, <2>2 DEF WorkAgrees, FileAhead
  <2>5. QED
    BY <2>2, <2>3, <2>4, FileNoneAssumption DEF Valid, Agrees
<1>4. CASE b \in Listed
  <2>1. b \in Branch /\ branch[b] # None /\ ledger[b].first = "branch_created"
    BY <1>1, <1>4 DEF Listed, TypeOK, CompleteInv, ListedIsComplete
  <2>2. CASE AppendEvent(p) /\ b = op[p].branch
    <3>1. Busy(p) /\ op[p].step = "event" /\ Goto(p, "newline")
      BY <2>2 DEF AppendEvent, At
    <3>2. op[p].kind # "create"
      BY <1>1, <2>1, <2>2, <3>1 DEF CreateFacts, EmptyLedger
    <3>3. Between(p, b)'
      BY <1>1, <2>2, <3>1, <3>2, GotoKeeps DEF Between
    <3>4. QED
      BY <3>3
  <2>3. CASE AppendNewline(p) /\ b = op[p].branch
    <3>1. /\ Busy(p) /\ op[p].step = "newline" /\ branch' = branch
          /\ Goto(p, IF op[p].kind = "create" THEN "sparse" ELSE "branch")
          /\ ledger'[b] = [ledger[b] EXCEPT !.newline = TRUE]
      BY <1>2, <2>1, <2>3 DEF AppendNewline, At
    <3>2. CASE op[p].kind # "create"
      <4>1. Between(p, b)'
        BY <1>1, <2>3, <3>1, <3>2, GotoKeeps DEF Between
      <4>2. QED
        BY <4>1
    <3>3. CASE op[p].kind = "create"
      <4>1. ~\E q \in Proc : Between(q, b)
        <5>1. ASSUME NEW q \in Proc, Between(q, b) PROVE FALSE
          <6>1. Inside(p) /\ Inside(q)
            BY <3>1, <5>1 DEF Between, Inside
          <6>2. p = q
            BY <6>1 DEF StoreInv, LockInv, OneInside
          <6>3. QED
            BY <3>3, <5>1, <6>2 DEF Between
        <5>2. QED
          BY <5>1
      <4>2. Valid(b)
        BY <1>4, <4>1 DEF AgreeInv
      <4>3. Agrees(branch[b], ledger'[b]) /\ ledger'[b].newline
        <5>1. ledger[b] \in Ledger /\ Agrees(branch[b], ledger[b])
          BY <1>2, <2>1, <4>2 DEF Valid, Agrees
        <5>2. QED
          BY <3>1, <5>1, NewlineAgrees
      <4>4. QED
        BY <2>1, <3>1, <4>3 DEF Valid, Agrees
    <3>4. QED
      BY <3>2, <3>3
  <2>4. CASE WriteBranch(p) /\ b = op[p].branch
    <3>1. Busy(p) /\ op[p].step = "branch" /\ ledger' = ledger /\ branch'[b] = op[p].contents
      BY <1>2, <2>1, <2>4 DEF WriteBranch, At
    <3>2. op[p].kind # "create"
      BY <1>1, <2>1, <2>4, <3>1 DEF WorkFacts
    <3>3. ledger[b].newline /\ Agrees(op[p].contents, ledger[b])
      BY <1>1, <1>4, <2>4, <3>1, <3>2 DEF WorkAgrees, FileAhead
    <3>4. op[p].contents # None
      BY <1>1, <3>1, FileNoneAssumption DEF OpContents
    <3>5. QED
      BY <3>1, <3>3, <3>4 DEF Valid, Agrees
  <2>5. CASE ~(b = op[p].branch /\ (AppendEvent(p) \/ AppendNewline(p) \/ WriteBranch(p)))
    <3>1. ledger'[b] = ledger[b]
      BY <1>1, <2>1, <2>5, LedgerEffect
    <3>2. branch'[b] = branch[b]
      BY <1>1, <2>1, <2>5, BranchEffect
    <3>3. CASE Valid(b) /\ ledger[b].newline
      BY <3>1, <3>2, <3>3 DEF Valid
    <3>4. ASSUME NEW q \in Proc, Between(q, b) PROVE Between(q, b)'
      <4>1. op'[q] = op[q]
        <5>1. CASE q # p
          BY <1>1, <5>1, OthersKeep DEF TypeInv
        <5>2. CASE q = p
          <6>1. op[p].step \in {"newline", "branch"} /\ b = op[p].branch /\ Busy(p)
            BY <3>4, <5>2 DEF Between
          <6>2. \E t \in Turn : Find(p, t)
            BY <1>1, <2>5, <6>1 DEF StepOf, Request, SelectOrCreateBranch, CallOnBranch, Enter, Proceed,
               Lock, Load, LoadSession, SelectContinues, SelectCreates, SelectRefused, LoadBranch,
               LoadBranchMissing, Quarantine, Write, InitSession, AppendEvent, WriteSparseCheckpoint,
               ListBranch, Return, At
          <6>3. op' = op
            BY <6>2 DEF Find, FindBranch, FindNothing
          <6>4. QED
            BY <5>2, <6>3
        <5>3. QED
          BY <5>1, <5>2
      <4>2. QED
        BY <3>4, <4>1 DEF Between, Busy
    <3>5. QED
      BY <1>4, <3>3, <3>4 DEF AgreeInv
  <2>6. QED
    BY <2>2, <2>3, <2>4, <2>5
<1>5. QED
  BY <1>3, <1>4

(* A selection that finds every listed branch in agreement quarantines none.  *)
LEMMA StillNoneQuarantines ==
  ASSUME StoreInv, NoneQuarantines, AgreeInv, NEW p \in Proc, StepOf(p)
  PROVE  NoneQuarantines'
<1>1. TypeInv /\ TypeOK /\ op \in [Proc -> Operation \cup {Idle}]
  BY DEF StoreInv, LockInv, TypeInv, TypeOK
<1>2. ASSUME NEW q \in Proc, q # p PROVE ~At(q, "quarantine")'
  BY <1>1, <1>2, OthersKeep DEF TypeInv, NoneQuarantines, At, Busy
<1>3. ASSUME At(p, "quarantine")' PROVE FALSE
  <2>1. CASE \E t \in Turn : Find(p, t)
    BY <1>3, <2>1 DEF Find, FindBranch, FindNothing, NoneQuarantines, At, Busy
  <2>2. CASE \E t \in Turn : Request(p, t)
    BY <1>1, <1>3, <2>2 DEF Request, SelectOrCreateBranch, CallOnBranch, Enter, At
  <2>3. CASE SelectRefused(p)
    BY <2>3, LoadedAgree DEF SelectRefused
  <2>4. CASE Lock(p) \/ LoadSession(p) \/ LoadBranchMissing(p) \/ WriteFails(p)
    BY <1>1, <1>3, <2>4 DEF Lock, LoadSession, LoadBranchMissing, WriteFails, Goto, Fail, Inside, At, Busy,
       Operation
  <2>5. CASE SelectContinues(p)
    BY <1>1, <1>3, <2>5 DEF SelectContinues, At, Busy, Operation
  <2>6. CASE SelectCreates(p)
    BY <1>1, <1>3, <2>6 DEF SelectCreates, At, Busy, Operation
  <2>7. CASE LoadBranch(p)
    <3>1. op[p] \in Operation
      BY <1>1, <2>7, LoadBranchStep
    <3>2. PICK fp \in Fingerprint, step \in {"event", "branch"} :
            op' = [op EXCEPT ![p].step = step,
                   ![p].contents = Updated(branch[op[p].branch], op[p].kind, op[p].turn, fp)]
      BY <1>1, <2>7, LoadBranchStep
    <3>3. op'[p].step = step
      BY ONLY <1>1, <3>1, <3>2, p \in Proc DEF Operation
    <3>4. QED
      BY <1>3, <3>3 DEF At
  <2>8. CASE Quarantine(p)
    BY <2>8 DEF Quarantine, NoneQuarantines
  <2>9. CASE Write(p)
    BY <1>1, <1>3, <2>9 DEF Write, InitSession, WriteBranch, AppendEvent, AppendNewline,
       WriteSparseCheckpoint, ListBranch, Goto, At, Busy, Operation
  <2>10. CASE Return(p) \/ Crash(p)
    BY <1>1, <1>3, <2>10 DEF Return, Crash, At, Busy
  <2>11. QED
    BY <2>1, <2>2, <2>3, <2>4, <2>5, <2>6, <2>7, <2>8, <2>9, <2>10 DEF StepOf, Proceed, Load
<1>4. QED
  BY <1>2, <1>3 DEF NoneQuarantines

LEMMA CallStep ==
  ASSUME TypeInv, CallFacts, NEW p \in Proc, StepOf(p)
  PROVE  CallFacts'
<1>1. TypeOK /\ op \in [Proc -> Operation \cup {Idle}]
  BY DEF TypeInv, TypeOK
<1>2. ASSUME NEW q \in Proc, q # p PROVE Busy(q)' => op'[q].kind \in Selecting \cup Calls
  BY <1>2, OthersKeep DEF TypeInv, CallFacts, Busy
<1>3. ASSUME Busy(p)' PROVE op'[p].kind \in Selecting \cup Calls
  <2>1. CASE \E t \in Turn : Find(p, t)
    BY <1>3, <2>1 DEF Find, FindBranch, FindNothing, CallFacts, Busy
  <2>2. CASE \E t \in Turn : Request(p, t)
    BY <1>1, <1>3, <2>2 DEF Request, SelectOrCreateBranch, CallOnBranch, Enter, Selecting
  <2>3. CASE SelectContinues(p) \/ SelectCreates(p)
    <3>1. op[p] \in Operation
      BY <1>1, <2>3 DEF SelectContinues, SelectCreates, At, Busy
    <3>2. CASE SelectContinues(p)
      <4>1. PICK b \in Listed :
              op' = [op EXCEPT ![p].kind = "continue", ![p].step = "branch", ![p].branch = b,
                               ![p].contents = [branch[b] EXCEPT !.fp = IncomingFp(p)]]
        BY <3>2 DEF SelectContinues
      <4>2. op'[p].kind = "continue"
        BY ONLY <1>1, <3>1, <4>1, p \in Proc DEF Operation
      <4>3. QED
        BY <4>2 DEF Selecting
    <3>3. CASE SelectCreates(p)
      <4>1. PICK b \in Branch \ minted, parent \in Listed \cup {None} :
              op' = [op EXCEPT ![p].kind = "create", ![p].branch = b,
                               ![p].step = "branch",
                               ![p].contents = NewBranch(IncomingFp(p), parent),
                               ![p].ids = Listed \cup {b}]
        BY ONLY <3>3 DEF SelectCreates
      <4>2. op'[p].kind = "create"
        BY ONLY <1>1, <3>1, <4>1, p \in Proc DEF Operation
      <4>3. QED
        BY <4>2 DEF Selecting
    <3>4. QED
      BY <2>3, <3>2, <3>3
  <2>4. CASE LoadBranch(p)
    <3>1. op[p] \in Operation /\ Busy(p)
      BY <2>4, LoadBranchStep DEF LoadBranch, At
    <3>2. PICK fp \in Fingerprint, step \in {"event", "branch"} :
            op' = [op EXCEPT ![p].step = step,
                   ![p].contents = Updated(branch[op[p].branch], op[p].kind, op[p].turn, fp)]
      BY <2>4, LoadBranchStep
    <3>3. op'[p].kind = op[p].kind
      BY ONLY <1>1, <3>1, <3>2, p \in Proc DEF Operation
    <3>4. QED
      BY <3>1, <3>3 DEF CallFacts
  <2>5. CASE Lock(p) \/ LoadSession(p) \/ SelectRefused(p) \/ LoadBranchMissing(p) \/ WriteFails(p)
    BY <1>1, <2>5 DEF Lock, LoadSession, SelectRefused, LoadBranchMissing, WriteFails, Goto, Fail, Inside,
       At, Busy, Operation, CallFacts
  <2>6. CASE Quarantine(p)
    BY <1>1, <2>6 DEF Quarantine, At, Busy, Operation, CallFacts
  <2>7. CASE Write(p)
    BY <1>1, <2>7 DEF Write, InitSession, WriteBranch, AppendEvent, AppendNewline,
       WriteSparseCheckpoint, ListBranch, Goto, At, Busy, Operation, CallFacts
  <2>8. CASE Return(p) \/ Crash(p)
    BY <1>1, <1>3, <2>8 DEF Return, Crash, Busy
  <2>9. QED
    BY <2>1, <2>2, <2>3, <2>4, <2>5, <2>6, <2>7, <2>8 DEF StepOf, Proceed, Load
<1>4. QED
  BY <1>2, <1>3 DEF CallFacts

LEMMA CleanInit == Init => CleanInv
<1> SUFFICES ASSUME Init PROVE CleanInv
  OBVIOUS
<1>1. \A p \in Proc : ~Busy(p)
  BY DEF Init, Busy
<1>2. CallFacts /\ NoneQuarantines /\ AgreeInv
  BY <1>1 DEF Init, CallFacts, NoneQuarantines, AgreeInv, WorkAgrees, Listed, At
<1>3. QED
  BY <1>2, TypeInit, StoreInit, CompleteInit DEF CleanInv

LEMMA CleanStep == PlainCalls /\ CleanInv /\ [Next]_vars => CleanInv'
<1> SUFFICES ASSUME PlainCalls, CleanInv, [Next]_vars PROVE CleanInv'
  OBVIOUS
<1>1. TypeInv'
  BY TypeStep DEF CleanInv
<1>2. CASE UNCHANGED vars
  <2>1. CallFacts'
    BY <1>2 DEF vars, CleanInv, CallFacts, Busy
  <2>2. ASSUME faults' = 0 PROVE StoreInv' /\ NoneQuarantines' /\ CompleteInv' /\ AgreeInv'
    <3>1. faults = 0 /\ StoreInv /\ NoneQuarantines /\ CompleteInv /\ AgreeInv
      BY <1>2, <2>2 DEF vars, CleanInv
    <3>2. StoreInv'
      BY <3>1, StoreStep DEF NoneQuarantines, NoQuarantine, Quarantine
    <3>3. NoneQuarantines' /\ CompleteInv'
      BY <1>2, <3>1 DEF vars, disk, NoneQuarantines, At, CompleteInv, ListedIsComplete, CreateFacts, Listed, Busy
    <3>4. AgreeInv'
      <4>1. op' = op /\ session' = session /\ branch' = branch /\ ledger' = ledger
        BY <1>2 DEF vars, disk
      <4>2. QED
        BY <3>1, <4>1 DEF AgreeInv, Valid, Between, WorkAgrees, Listed, Busy
    <3>5. QED
      BY <3>2, <3>3, <3>4
  <2>3. QED
    BY <1>1, <2>1, <2>2 DEF CleanInv
<1>3. ASSUME NEW p \in Proc, StepOf(p) PROVE CleanInv'
  <2>1. CallFacts'
    BY <1>3, CallStep DEF CleanInv
  <2>2. ASSUME faults' = 0 PROVE StoreInv' /\ NoneQuarantines' /\ CompleteInv' /\ AgreeInv'
    <3>1. faults = 0
      BY <1>3, <2>2, NoFault DEF CleanInv, TypeInv
    <3>2. StoreInv /\ NoneQuarantines /\ CompleteInv /\ AgreeInv /\ CallFacts
      BY <3>1 DEF CleanInv
    <3>0. NoQuarantine
      BY <3>2 DEF NoneQuarantines, NoQuarantine, Quarantine
    <3>3. StoreInv'
      BY <3>0, <3>2, StoreStep
    <3>4. NoneQuarantines' /\ CompleteInv'
      BY <1>3, <3>0, <3>2, StillNoneQuarantines, CompleteStep DEF NoQuarantine
    <3>5. \A b \in Listed' : (Valid(b)' /\ ledger'[b].newline) \/ \E q \in Proc : Between(q, b)'
      BY <1>3, <2>2, <3>0, <3>2, ListedAgree DEF NoQuarantine
    <3>6. \A q \in Proc : WorkAgrees(q)'
      BY <1>3, <2>2, <3>0, <3>2, OwnAgrees, OthersAgree DEF NoQuarantine
    <3>7. AgreeInv'
      BY <3>5, <3>6 DEF AgreeInv
    <3>8. QED
      BY <3>3, <3>4, <3>7
  <2>3. QED
    BY <1>1, <2>1, <2>2 DEF CleanInv
<1>4. QED
  BY <1>2, <1>3 DEF Next, StepOf

(* Under either corruption_policy: as long as nothing crashed and no write    *)
(* failed, whoever gets the session's lock finds that every listed branch     *)
(* passes validation, if no turn was committed without a response id and no   *)
(* checkpoint was invalidated.                                                *)
THEOREM FilesAgree == PlainCalls => (Spec => []ConsistentBetweenOperations)
<1> SUFFICES ASSUME PlainCalls PROVE Spec => []ConsistentBetweenOperations
  OBVIOUS
<1>1. CleanInv /\ [Next]_vars => CleanInv'
  BY CleanStep
<1>2. CleanInv => ConsistentBetweenOperations
  <2> SUFFICES ASSUME CleanInv, faults = 0, \A p \in Proc : ~Inside(p), NEW b \in Listed PROVE Valid(b)
    BY DEF ConsistentBetweenOperations, Loads
  <2>1. \A p \in Proc : ~Between(p, b)
    BY DEF Between, Inside
  <2>2. QED
    BY <2>1 DEF CleanInv, AgreeInv
<1>3. QED
  BY <1>1, <1>2, CleanInit, PTL DEF Spec

(* Under quarantine_and_reset a session is only ever moved away after a crash *)
(* or a failed write, however its turns overlap and whatever order their      *)
(* processes get the lock in (with the same calls).                           *)
THEOREM FaultsQuarantine == PlainCalls => (Spec => []QuarantineNeedsFault)
<1> SUFFICES ASSUME PlainCalls PROVE Spec => []QuarantineNeedsFault
  OBVIOUS
<1>1. CleanInv /\ [Next]_vars => CleanInv'
  BY CleanStep
<1>2. CleanInv => QuarantineNeedsFault
  BY DEF CleanInv, StoreInv, LockInv, OneLockFile, QuarantineNeedsFault
<1>3. QED
  BY <1>1, <1>2, CleanInit, PTL DEF Spec

--------------------------------------------------------------------------------
(* The lock files: a process holds one that was at the path, those who hold   *)
(* the same one exclude each other, and who quarantined holds one that is     *)
(* gone.                                                                      *)
FileFacts ==
  /\ \A p \in Proc : Busy(p) => op[p].file \in 0..generation
  /\ \A p, q \in Proc : Inside(p) /\ Inside(q) /\ op[p].file = op[q].file => p = q
  /\ \A p \in Proc : Busy(p) /\ op[p].retried => op[p].file < generation /\ op[p].step # "lock"

(* In the directory that replaces the first quarantined one, whoever is in    *)
(* it: what is listed, or about to be, has its branch.json.                   *)
FilesBehind(p) ==
  LET o == op[p] IN
  Busy(p) /\ o.kind = "create" =>
    /\ o.step # "return" => \A c \in o.ids \ {o.branch} : branch[c] # None
    /\ o.step \in {"event", "newline", "sparse", "list"} => branch[o.branch] # None

ListedExist == (\A b \in Listed : branch[b] # None) /\ \A p \in Proc : FilesBehind(p)

(* While the process that quarantined is about to select again, one other may *)
(* be at work in the new directory, and all files agree but those it writes.  *)
Retrying(p) == Busy(p) /\ op[p].retried /\ op[p].step \in {"load", "init"}

Working(q, b) ==
  /\ Busy(q) /\ op[q].branch = b
  /\ op[q].step \in IF op[q].kind = "create" THEN {"event", "newline"} ELSE {"newline", "branch"}

WorksAfresh(q) ==
  LET o == op[q] IN
  Busy(q) =>
    /\ EventAhead(o) => /\ ledger[o.branch].newline
                        /\ Agrees(o.contents, Appended(ledger[o.branch], o.kind, o.turn))
    /\ o.step = "newline" \/ (o.kind # "create" /\ o.step = "branch") =>
         Agrees(o.contents, ledger[o.branch])
    /\ o.kind # "create" /\ o.step = "branch" => ledger[o.branch].newline
    /\ o.kind = "create" /\ o.step \in {"event", "newline"} => branch[o.branch] = o.contents

AllAgree ==
  /\ \A b \in Branch : branch[b] # None =>
       (Valid(b) /\ ledger[b].newline) \/ \E q \in Proc : Working(q, b)
  /\ \A q \in Proc : WorksAfresh(q)

RecoverInv ==
  /\ CleanInv
  /\ MintedFacts
  /\ FileFacts
  /\ generation = 0 => StoreInv /\ CompleteInv
  /\ generation = 1 => ListedExist
  /\ generation = 1 /\ faults < 2 /\ (\E p \in Proc : Retrying(p)) => AllAgree

(* What a step does to the lock file and the retry of its own operation.      *)
LEMMA OwnFile ==
  ASSUME TypeInv, NEW p \in Proc, StepOf(p), Busy(p)'
  PROVE  /\ generation' = IF Quarantine(p) THEN generation + 1 ELSE generation
         /\ \/ Busy(p) /\ op'[p].file = op[p].file
               /\ (Inside(p)' => Inside(p) \/ Lock(p))
               /\ (Quarantine(p) => op[p].step = "quarantine" /\ op'[p].step = "load"
                                    /\ op'[p].retried)
               /\ (~Quarantine(p) => op'[p].retried = op[p].retried)
               /\ (op[p].step # "lock" => op'[p].step # "lock")
            \/ op'[p].file = generation /\ op'[p].step = "lock" /\ ~op'[p].retried /\ ~Quarantine(p)
<1>1. TypeOK /\ op \in [Proc -> Operation \cup {Idle}] /\ OpControl(p) /\ generation \in Nat
  BY DEF TypeInv, TypeOK, Control
<1>2. CASE \E t \in Turn : Find(p, t)
  BY <1>1, <1>2 DEF Find, FindBranch, FindNothing, disk, Busy, Inside, Quarantine
<1>3. CASE \E t \in Turn : Request(p, t)
  BY <1>1, <1>3 DEF Request, SelectOrCreateBranch, CallOnBranch, Enter, disk, Quarantine
<1>4. CASE Lock(p)
  BY <1>1, <1>4 DEF Lock, Goto, At, Busy, Inside, disk, Quarantine, Operation, Idle
<1>5. CASE LoadSession(p) \/ SelectRefused(p) \/ LoadBranchMissing(p)
  BY <1>1, <1>5 DEF LoadSession, SelectRefused, LoadBranchMissing, Goto, Fail, At, Busy, Inside, disk,
     Quarantine, Operation, Idle
<1>6. CASE SelectContinues(p)
  BY <1>1, <1>6 DEF SelectContinues, At, Busy, Inside, disk, Quarantine, Operation, Idle
<1>7. CASE SelectCreates(p)
  <2>1. op[p] \in Operation /\ op[p] # Idle /\ op[p].step = "load" /\ generation' = generation
    BY <1>1, <1>7 DEF SelectCreates, At, Busy
  <2>2. PICK b \in Branch \ minted, parent \in Listed \cup {None} :
          op' = [op EXCEPT ![p].kind = "create", ![p].branch = b,
                           ![p].step = "branch",
                           ![p].contents = NewBranch(IncomingFp(p), parent),
                           ![p].ids = Listed \cup {b}]
    BY ONLY <1>7 DEF SelectCreates
  <2>3. op'[p].file = op[p].file /\ op'[p].retried = op[p].retried /\ op'[p].step = "branch"
    BY ONLY <1>1, <2>1, <2>2, p \in Proc DEF Operation
  <2>4. QED
    BY <2>1, <2>3 DEF Busy, Inside, Quarantine, At
<1>8. CASE LoadBranch(p)
  <2>1. op[p] \in Operation /\ op[p] # Idle /\ op[p].step = "load" /\ generation' = generation
    BY <1>1, <1>8 DEF LoadBranch, At, Busy, disk
  <2>2. PICK fp \in Fingerprint, step \in {"event", "branch"} :
          op' = [op EXCEPT ![p].step = step,
                 ![p].contents = Updated(branch[op[p].branch], op[p].kind, op[p].turn, fp)]
    BY <1>8, LoadBranchStep
  <2>3. op'[p].file = op[p].file /\ op'[p].retried = op[p].retried /\ op'[p].step = step
    BY ONLY <1>1, <2>1, <2>2, p \in Proc DEF Operation
  <2>4. QED
    BY <2>1, <2>3 DEF Busy, Inside, Quarantine, At
<1>9. CASE Quarantine(p)
  <2>1. op[p] \in Operation /\ op[p] # Idle /\ op[p].step = "quarantine" /\ generation' = generation + 1
        /\ op' = [op EXCEPT ![p].step = "load", ![p].retried = TRUE]
    BY <1>1, <1>9 DEF Quarantine, At, Busy
  <2>2. op'[p].file = op[p].file /\ op'[p].retried /\ op'[p].step = "load"
    BY ONLY <1>1, <2>1, p \in Proc DEF Operation
  <2>3. QED
    BY <1>9, <2>1, <2>2 DEF Busy, Inside
<1>10. CASE Write(p)
  BY <1>1, <1>10 DEF Write, InitSession, WriteBranch, AppendEvent, AppendNewline, WriteSparseCheckpoint,
     ListBranch, Goto, At, Busy, Inside, disk, Quarantine, Operation, Idle
<1>11. CASE Return(p) \/ Crash(p)
  BY <1>1, <1>11 DEF Return, Crash, Busy
<1>12. CASE WriteFails(p)
  BY <1>1, <1>12 DEF WriteFails, Fail, Busy, Inside, Quarantine, Operation, Idle
<1>13. QED
  BY <1>2, <1>3, <1>4, <1>5, <1>6, <1>7, <1>8, <1>9, <1>10, <1>11, <1>12 DEF StepOf, Proceed, Load

LEMMA GenerationStep ==
  ASSUME TypeInv, NEW p \in Proc, StepOf(p)
  PROVE  generation' = IF Quarantine(p) THEN generation + 1 ELSE generation
<1>1. CASE Busy(p)'
  BY <1>1, OwnFile
<1>2. CASE ~Busy(p)'
  <2>1. ~Quarantine(p)
    BY <1>2 DEF Quarantine, At, Busy, TypeInv, TypeOK, Operation, Idle
  <2>2. generation' = generation
    BY <2>1 DEF StepOf, Find, FindBranch, FindNothing, Request, SelectOrCreateBranch, CallOnBranch, Proceed,
       Lock, Load, LoadSession, SelectContinues, SelectCreates, SelectRefused, LoadBranch, LoadBranchMissing,
       Write, InitSession, WriteBranch, AppendEvent, AppendNewline, WriteSparseCheckpoint, ListBranch, Return,
       WriteFails, Crash, disk
  <2>3. QED
    BY <2>1, <2>2
<1>3. QED
  BY <1>1, <1>2

LEMMA FileStep ==
  ASSUME TypeInv, FileFacts, NEW p \in Proc, StepOf(p)
  PROVE  FileFacts'
<1>1. \A q \in Proc : q # p => op'[q] = op[q]
  BY OthersKeep DEF TypeInv
<1>2. generation' \in {generation, generation + 1} /\ generation \in Nat
  BY GenerationStep DEF TypeInv, TypeOK
<1>3. \A q \in Proc : Busy(q) => op[q].file \in Nat
  BY DEF TypeInv, TypeOK, Busy, Operation
<1>4. ASSUME NEW q \in Proc, Busy(q)' PROVE op'[q].file \in 0..generation'
  <2>1. CASE q # p
    <3>1. Busy(q) /\ op'[q] = op[q]
      BY <1>1, <1>4, <2>1 DEF Busy
    <3>2. QED
      BY <1>2, <1>3, <3>1 DEF FileFacts
  <2>2. CASE q = p
    BY <1>2, <1>3, <1>4, <2>2, OwnFile DEF FileFacts
  <2>3. QED
    BY <2>1, <2>2
<1>5. ASSUME NEW q \in Proc, Busy(q)', op'[q].retried
      PROVE  op'[q].file < generation' /\ op'[q].step # "lock"
  <2>1. CASE q # p
    <3>1. Busy(q) /\ op'[q] = op[q]
      BY <1>1, <1>5, <2>1 DEF Busy
    <3>2. QED
      BY <1>2, <1>3, <1>5, <3>1 DEF FileFacts
  <2>2. CASE q = p
    <3>1. CASE Quarantine(p)
      BY <1>2, <1>3, <1>5, <2>2, <3>1, OwnFile DEF FileFacts
    <3>2. CASE ~Quarantine(p)
      BY <1>2, <1>3, <1>5, <2>2, <3>2, OwnFile DEF FileFacts
    <3>3. QED
      BY <3>1, <3>2
  <2>3. QED
    BY <2>1, <2>2
<1>6. ASSUME NEW q \in Proc, Inside(q)', q # p, Inside(p)', op'[q].file = op'[p].file PROVE FALSE
  <2>1. op'[q] = op[q] /\ Inside(q)
    BY <1>1, <1>6 DEF Inside, Busy
  <2>2. Busy(p)' /\ op'[p].step # "lock"
    BY <1>6 DEF Inside
  <2>3. op'[p].file = op[p].file /\ (Inside(p) \/ Lock(p))
    BY <1>6, <2>2, OwnFile
  <2>4. CASE Inside(p)
    BY <1>6, <2>1, <2>3, <2>4 DEF FileFacts
  <2>5. CASE Lock(p)
    BY <1>6, <2>1, <2>3, <2>5 DEF Lock
  <2>6. QED
    BY <2>3, <2>4, <2>5
<1>7. ASSUME NEW q \in Proc, NEW r \in Proc, Inside(q)', Inside(r)', op'[q].file = op'[r].file
      PROVE  q = r
  <2>1. CASE q # p /\ r # p
    BY <1>1, <1>7, <2>1 DEF FileFacts, Inside, Busy
  <2>2. CASE q = p \/ r = p
    BY <1>6, <1>7, <2>2
  <2>3. QED
    BY <2>1, <2>2
<1>8. QED
  BY <1>4, <1>5, <1>7 DEF FileFacts

(* What is written to session.json, whoever else writes it. *)
LEMMA SessionWrites ==
  ASSUME TypeInv, NEW p \in Proc, ~Quarantine(p), StepOf(p)
  PROVE  \/ session' = session
         \/ InitSession(p) /\ session' = {}
         \/ ListBranch(p) /\ Busy(p) /\ op[p].kind = "create" /\ op[p].step = "list"
            /\ session' = op[p].ids
<1>1. CASE InitSession(p)
  BY <1>1 DEF InitSession
<1>2. CASE ListBranch(p)
  BY <1>2 DEF ListBranch, At, TypeInv, Control, OpControl
<1>3. CASE ~InitSession(p) /\ ~ListBranch(p)
  <2>1. CASE \E t \in Turn : Find(p, t) \/ Request(p, t)
    BY <2>1 DEF Find, FindBranch, FindNothing, Request, SelectOrCreateBranch, CallOnBranch, disk
  <2>2. CASE Lock(p) \/ Return(p) \/ Crash(p) \/ WriteFails(p)
    BY <2>2 DEF Lock, Return, Crash, WriteFails, disk
  <2>3. CASE Load(p)
    BY <2>3 DEF Load, LoadSession, SelectContinues, SelectCreates, SelectRefused, LoadBranch,
                LoadBranchMissing, disk
  <2>4. CASE Write(p)
    BY <1>3, <2>4 DEF Write, WriteBranch, AppendEvent, AppendNewline, WriteSparseCheckpoint, disk
  <2>5. QED
    BY <1>3, <2>1, <2>2, <2>3, <2>4 DEF StepOf, Proceed
<1>4. QED
  BY <1>1, <1>2, <1>3

(* A branch.json stays where it is until the directory is moved. *)
LEMMA FileStays ==
  ASSUME TypeInv, NEW p \in Proc, ~Quarantine(p), StepOf(p), NEW b \in Branch, branch[b] # None
  PROVE  branch'[b] # None
<1>1. WriteBranch(p) => op[p].contents # None
  BY FileNoneAssumption DEF WriteBranch, At, TypeInv, Control, OpContents
<1>2. QED
  BY <1>1, BranchEffect

LEMMA OwnBehind ==
  ASSUME TypeInv, ListedExist, NEW p \in Proc, ~Quarantine(p), StepOf(p)
  PROVE  FilesBehind(p)'
<1>1. /\ TypeOK /\ FilesBehind(p) /\ OpControl(p) /\ OpContents(p)
      /\ op \in [Proc -> Operation \cup {Idle}] /\ branch \in [Branch -> BranchFile \cup {None}]
  BY DEF TypeInv, TypeOK, Control, ListedExist
<1>2. \A b \in Branch : branch[b] # None => branch'[b] # None
  BY FileStays
<1> SUFFICES ASSUME Busy(p)', op'[p].kind = "create"
             PROVE  /\ op'[p].step # "return" =>
                         \A c \in op'[p].ids \ {op'[p].branch} : branch'[c] # None
                    /\ op'[p].step \in {"event", "newline", "sparse", "list"} =>
                         branch'[op'[p].branch] # None
  BY DEF FilesBehind
<1>3. CASE SelectCreates(p)
  <2>1. PICK b \in Branch \ minted, parent \in Listed \cup {None} :
          op' = [op EXCEPT ![p].kind = "create", ![p].branch = b,
                           ![p].step = "branch",
                           ![p].contents = NewBranch(IncomingFp(p), parent),
                           ![p].ids = Listed \cup {b}]
    BY ONLY <1>3 DEF SelectCreates
  <2>2. op[p] \in Operation /\ branch' = branch
    BY <1>1, <1>3 DEF SelectCreates, At, Busy
  <2>3. op'[p].branch = b /\ op'[p].step = "branch" /\ op'[p].ids = Listed \cup {b}
    BY ONLY <1>1, <2>1, <2>2, p \in Proc DEF Operation
  <2>4. QED
    BY <2>2, <2>3 DEF ListedExist
<1>4. CASE \E s : Busy(p) /\ Goto(p, s) /\ op[p].step \notin {"lock", "load", "init", "quarantine"}
                  /\ (s \in {"event", "newline", "sparse", "list"} /\ op[p].step = "branch" => WriteBranch(p))
                  /\ op[p].step # "return"
  <2>1. PICK s : Busy(p) /\ Goto(p, s) /\ op[p].step \notin {"lock", "load", "init", "quarantine"}
                 /\ (s \in {"event", "newline", "sparse", "list"} /\ op[p].step = "branch" => WriteBranch(p))
                 /\ op[p].step # "return"
    BY <1>4
  <2>2. /\ op[p] \in Operation /\ op'[p].step = s /\ op[p].kind = "create"
        /\ op'[p].branch = op[p].branch /\ op'[p].ids = op[p].ids
    BY ONLY <1>1, <2>1, GotoKeeps, op'[p].kind = "create", p \in Proc
  <2>3. op[p].branch \in Branch /\ op[p].ids \subseteq Branch /\ op[p].contents \in BranchFile
    BY <1>1, <2>1, <2>2 DEF OpContents, Operation
  <2>4. \A c \in op[p].ids \ {op[p].branch} : branch'[c] # None
    BY <1>1, <1>2, <2>1, <2>2, <2>3 DEF FilesBehind
  <2>5. op[p].step \in {"event", "newline", "sparse", "list"} => branch'[op[p].branch] # None
    BY <1>1, <1>2, <2>1, <2>2, <2>3 DEF FilesBehind
  <2>6. WriteBranch(p) => branch'[op[p].branch] # None
    BY <1>1, <2>3, FileNoneAssumption DEF WriteBranch
  <2>7. op[p].step \in {"event", "newline", "sparse", "list", "branch"}
    BY <2>1, <2>2 DEF Operation, Step
  <2>8. QED
    BY <2>1, <2>2, <2>4, <2>5, <2>6, <2>7
<1>5. CASE \E t \in Turn : Find(p, t)
  BY <1>1, <1>5 DEF Find, FindBranch, FindNothing, FilesBehind, Busy, disk
<1>6. CASE \E t \in Turn : Request(p, t)
  BY <1>1, <1>6, CallsAssumption DEF Request, SelectOrCreateBranch, CallOnBranch, Enter, FollowUps, MainCommits
<1>7. CASE Lock(p) \/ LoadSession(p) \/ SelectRefused(p) \/ LoadBranchMissing(p) \/ InitSession(p)
  BY <1>1, <1>7 DEF Lock, LoadSession, SelectRefused, LoadBranchMissing, InitSession, Goto, Fail,
     At, Busy, Operation, OpControl, FollowUps, MainCommits
<1>8. CASE LoadBranch(p)
  <2>1. op[p] \in Operation /\ op[p].kind \in FollowUps
    BY <1>8, LoadBranchStep
  <2>2. PICK fp \in Fingerprint, step \in {"event", "branch"} :
          op' = [op EXCEPT ![p].step = step,
                 ![p].contents = Updated(branch[op[p].branch], op[p].kind, op[p].turn, fp)]
    BY <1>8, LoadBranchStep
  <2>3. op'[p].kind = op[p].kind
    BY ONLY <1>1, <2>1, <2>2, p \in Proc DEF Operation
  <2>4. QED
    BY <2>1, <2>3 DEF FollowUps, MainCommits
<1>9. CASE SelectContinues(p)
  BY <1>1, <1>9 DEF SelectContinues, At, Busy, Operation
<1>10. CASE Return(p) \/ Crash(p)
  BY <1>1, <1>10 DEF Return, Crash, Busy
<1>11. CASE WriteFails(p)
  <2>1. op'[p].step = "return"
    BY <1>1, <1>11 DEF WriteFails, Fail, Inside, Busy, Operation
  <2>2. QED
    BY <2>1
<1>12. CASE WriteBranch(p) \/ AppendEvent(p) \/ AppendNewline(p) \/ WriteSparseCheckpoint(p) \/ ListBranch(p)
  <2>1. CASE WriteBranch(p)
    BY <1>4, <2>1 DEF WriteBranch, At
  <2>2. CASE AppendEvent(p)
    BY <1>4, <2>2 DEF AppendEvent, At
  <2>3. CASE AppendNewline(p)
    BY <1>4, <2>3 DEF AppendNewline, At
  <2>4. CASE WriteSparseCheckpoint(p)
    BY <1>4, <2>4 DEF WriteSparseCheckpoint, At
  <2>5. CASE ListBranch(p)
    BY <1>4, <2>5 DEF ListBranch, At
  <2>6. QED
    BY <1>12, <2>1, <2>2, <2>3, <2>4, <2>5
<1>13. QED
  BY <1>3, <1>5, <1>6, <1>7, <1>8, <1>9, <1>10, <1>11, <1>12 DEF StepOf, Proceed, Load, Write

LEMMA ExistStep ==
  ASSUME TypeInv, ListedExist, NEW p \in Proc, ~Quarantine(p), StepOf(p)
  PROVE  ListedExist'
<1>1. \A b \in Branch : branch[b] # None => branch'[b] # None
  BY FileStays
<1>2. Listed \subseteq Branch
  BY DEF TypeInv, TypeOK, Listed
<1>3. ASSUME NEW b \in Listed' PROVE branch'[b] # None
  <2>1. CASE b \in Listed
    BY <1>1, <1>2, <2>1 DEF ListedExist
  <2>2. CASE b \notin Listed
    <3>1. ListBranch(p) /\ Busy(p) /\ op[p].kind = "create" /\ op[p].step = "list" /\ session' = op[p].ids
      BY <1>3, <2>2, SessionWrites DEF Listed
    <3>2. op[p] \in Operation /\ op[p].branch \in Branch /\ op[p].ids \subseteq Branch
      BY <3>1, WritersBranch DEF Operation
    <3>3. b \in op[p].ids
      BY <1>3, <3>1 DEF Listed
    <3>4. branch[b] # None
      BY <3>1, <3>3 DEF ListedExist, FilesBehind
    <3>5. QED
      BY <1>1, <3>2, <3>3, <3>4
  <2>3. QED
    BY <2>1, <2>2
<1>4. ASSUME NEW q \in Proc, q # p PROVE FilesBehind(q)'
  <2>1. op'[q] = op[q] /\ FilesBehind(q)
    BY <1>4, OthersKeep DEF TypeInv, ListedExist
  <2>2. Busy(q) /\ op[q].kind = "create" => op[q].ids \subseteq Branch /\ op[q].branch \in Branch
    BY DEF TypeInv, TypeOK, Control, OpContents, Busy, Operation
  <2>3. QED
    BY <1>1, <2>1, <2>2 DEF FilesBehind, Busy
<1>5. FilesBehind(p)'
  BY OwnBehind
<1>6. QED
  BY <1>3, <1>4, <1>5 DEF ListedExist

(* The first quarantine happens alone, and leaves an empty directory. *)
LEMMA FirstQuarantine ==
  ASSUME StoreInv, NEW p \in Proc, StepOf(p), Quarantine(p)
  PROVE  ListedExist' /\ AllAgree'
<1>1. TypeInv /\ OpControl(p) /\ op \in [Proc -> Operation \cup {Idle}] /\ At(p, "quarantine")
  BY DEF StoreInv, LockInv, TypeInv, TypeOK, Control, Quarantine
<1>2. Listed' = {} /\ \A b \in Branch : branch'[b] = None
  BY DEF Quarantine, Listed
<1>3. \A q \in Proc : q # p => op'[q] = op[q] /\ (Busy(q) => op[q].step = "lock")
  BY <1>1, OthersKeep DEF StoreInv, LockInv, OneInside, Inside, At, TypeInv
<1>4. \A q \in Proc : Busy(q) /\ op[q].step = "lock" => op[q].kind # "create"
  BY <1>1 DEF TypeInv, Control, OpControl, FollowUps, MainCommits
<1>5. op'[p].step = "load" /\ op'[p].kind = op[p].kind /\ op[p].kind # "create"
  <2>1. op[p] \in Operation /\ op' = [op EXCEPT ![p].step = "load", ![p].retried = TRUE]
    BY <1>1 DEF Quarantine, At, Busy
  <2>2. op'[p].step = "load" /\ op'[p].kind = op[p].kind
    BY ONLY <1>1, <2>1, p \in Proc DEF Operation
  <2>3. QED
    BY <1>1, <2>2 DEF At, OpControl, FollowUps, MainCommits
<1>6. \A q \in Proc : FilesBehind(q)'
  BY <1>3, <1>4, <1>5 DEF FilesBehind, Busy
<1>7. \A q \in Proc : WorksAfresh(q)'
  BY <1>3, <1>5 DEF WorksAfresh, EventAhead, Busy
<1>8. QED
  BY <1>2, <1>6, <1>7 DEF ListedExist, AllAgree

(* While the process that quarantined is about to select again, at most one   *)
(* other is in the directory.                                                 *)
LEMMA OneOther ==
  ASSUME TypeInv, FileFacts, generation = 1, NEW r \in Proc, Retrying(r),
         NEW s \in Proc, s # r, Inside(s), NEW q \in Proc, Inside(q)
  PROVE  q \in {r, s}
<1>1. Inside(r) /\ op[r].file \in 0..1 /\ op[r].file < 1
  BY DEF FileFacts, Retrying, Inside
<1>2. op[s].file \in 0..1 /\ op[q].file \in 0..1
  BY DEF FileFacts, Inside
<1>3. op[r].file = 0 /\ op[s].file # 0
  BY <1>1, <1>2 DEF FileFacts
<1>4. op[q].file = 0 \/ op[q].file = op[s].file
  BY <1>2, <1>3
<1>5. QED
  BY <1>1, <1>3, <1>4 DEF FileFacts

(* That one finds every branch.json in agreement with its ledger.             *)
LEMMA LoadedAfresh ==
  ASSUME TypeInv, FileFacts, AllAgree, generation = 1, NEW r \in Proc, Retrying(r),
         NEW s \in Proc, s # r, At(s, "load"), NEW b \in Branch, branch[b] # None
  PROVE  Valid(b) /\ ledger[b].newline
<1>1. ASSUME NEW q \in Proc, Working(q, b) PROVE FALSE
  <2>1. Inside(s) /\ Inside(q)
    BY <1>1 DEF Working, Inside, At
  <2>2. q \in {r, s}
    BY <2>1, OneOther
  <2>3. QED
    BY <1>1, <2>2 DEF Working, Retrying, At
<1>2. QED
  BY <1>1 DEF AllAgree

(* What it makes of them agrees again. *)
LEMMA OwnAfresh ==
  ASSUME TypeInv, FileFacts, MintedFacts, AllAgree, CallFacts, PlainCalls, generation = 1,
         NEW r \in Proc, Retrying(r),
         NEW p \in Proc, p # r, ~Quarantine(p), StepOf(p), ~WriteFails(p), ~Crash(p)
  PROVE  WorksAfresh(p)'
<1>1. TypeOK /\ OpControl(p) /\ WorksAfresh(p)
  BY DEF TypeInv, Control, AllAgree
<1>2. /\ op \in [Proc -> Operation \cup {Idle}] /\ ledger \in [Branch -> Ledger]
      /\ branch \in [Branch -> BranchFile \cup {None}]
  BY <1>1 DEF TypeOK
<1>3. CASE op'[p].step \in {"lock", "load", "init", "quarantine", "sparse", "list", "return", "idle"}
  BY <1>3 DEF WorksAfresh, EventAhead
<1>4. CASE \E t \in Turn : Find(p, t)
  <2>1. op' = op /\ UNCHANGED disk
    BY <1>4 DEF Find, FindBranch, FindNothing
  <2>2. branch' = branch /\ ledger' = ledger
    BY <2>1 DEF disk
  <2>3. QED
    BY <1>1, <2>1, <2>2 DEF WorksAfresh, Busy
<1>5. CASE SelectContinues(p)
  <2>1. PICK b \in Listed :
          op' = [op EXCEPT ![p].kind = "continue", ![p].step = "branch", ![p].branch = b,
                           ![p].contents = [branch[b] EXCEPT !.fp = IncomingFp(p)]]
    BY <1>5 DEF SelectContinues
  <2>2. At(p, "load") /\ op[p] \in Operation /\ ledger' = ledger
    BY <1>2, <1>5 DEF SelectContinues, At, Busy, disk
  <2>3. b \in Branch /\ branch[b] # None
    BY <1>1, <1>5 DEF SelectContinues, Loads, Valid, Listed, TypeOK
  <2>4. Valid(b) /\ ledger[b].newline
    BY <2>2, <2>3, LoadedAfresh
  <2> DEFINE new == [branch[b] EXCEPT !.fp = IncomingFp(p)]
  <2>5. op'[p].kind = "continue" /\ op'[p].step = "branch" /\ op'[p].branch = b /\ op'[p].contents = new
    BY ONLY <1>2, <2>1, <2>2, p \in Proc DEF Operation
  <2>6. branch[b] \in BranchFile
    BY <1>2, <2>3
  <2>7. new.lastTurn = branch[b].lastTurn /\ new.checkpoint = branch[b].checkpoint
        /\ new.pending = branch[b].pending
    BY <2>6 DEF BranchFile
  <2> HIDE DEF new
  <2>8. Agrees(new, ledger[b])
    BY <2>4, <2>7 DEF Agrees, Valid
  <2>9. QED
    BY ONLY <2>2, <2>4, <2>5, <2>8 DEF WorksAfresh, EventAhead
<1>6. CASE SelectCreates(p)
  <2>1. PICK b \in Branch \ minted, parent \in Listed \cup {None} :
          op' = [op EXCEPT ![p].kind = "create", ![p].branch = b,
                           ![p].step = "branch",
                           ![p].contents = NewBranch(IncomingFp(p), parent),
                           ![p].ids = Listed \cup {b}]
    BY ONLY <1>6 DEF SelectCreates
  <2>2. op[p] \in Operation /\ ledger' = ledger
    BY <1>2, <1>6 DEF SelectCreates, At, Busy
  <2>3. op'[p].kind = "create" /\ op'[p].branch = b /\ op'[p].step = "branch"
        /\ op'[p].contents = NewBranch(IncomingFp(p), parent)
    BY ONLY <1>2, <2>1, <2>2, p \in Proc DEF Operation
  <2>4. ledger[b] = EmptyLedger
    BY <2>1 DEF MintedFacts
  <2>5. ledger[b].newline /\ Agrees(op'[p].contents, Appended(ledger[b], "create", op'[p].turn))
    BY <2>3, <2>4, NewAgrees DEF EmptyLedger
  <2>6. QED
    BY ONLY <2>2, <2>3, <2>5 DEF WorksAfresh, EventAhead
<1>7. CASE LoadBranch(p)
  <2>1. ledger' = ledger /\ At(p, "load")
    BY <1>7 DEF LoadBranch, disk
  <2>2. PICK b \in Branch : b = op[p].branch
    BY <1>1, <1>7, LoadBranchAhead
  <2>3. PICK kind \in Plain : kind = op[p].kind
    BY <1>1, <1>7, LoadBranchAhead
  <2>4. PICK t \in Turn : t = op[p].turn
    BY <1>1, <1>7, LoadBranchAhead
  <2>5. /\ branch[b] \in BranchFile
        /\ op'[p].kind = kind /\ op'[p].turn = t /\ op'[p].branch = b
        /\ \/ op'[p].step = "event" /\ kind # "offshoot"
           \/ op'[p].step = "branch" /\ kind \in {"offshoot", "reconcile"}
    BY <1>1, <1>7, <2>2, <2>3, <2>4, LoadBranchAhead
  <2>6. PICK fp \in Fingerprint : op'[p].contents = Updated(branch[b], kind, t, fp)
    BY <1>1, <1>7, <2>2, <2>3, <2>4, LoadBranchAhead
  <2>7. kind # "create"
    BY DEF Plain, FollowUps, MainCommits
  <2>8. Valid(b) /\ ledger[b].newline
    BY <2>1, <2>5, FileNoneAssumption, LoadedAfresh
  <2>9. /\ kind # "offshoot" => Agrees(op'[p].contents, Appended(ledger[b], kind, t))
        /\ kind \in {"offshoot", "reconcile"} => Agrees(op'[p].contents, ledger[b])
    <3>1. Agrees(branch[b], ledger[b]) /\ ledger[b] \in Ledger
      BY <1>2, <2>8 DEF Agrees, Valid
    <3>2. QED
      BY <2>5, <2>6, <2>8, <3>1, UpdateAgrees
  <2>10. QED
    BY ONLY <2>1, <2>5, <2>7, <2>8, <2>9 DEF WorksAfresh, EventAhead
<1>8. CASE WriteBranch(p)
  <2>1. Busy(p) /\ op[p].step = "branch" /\ ledger' = ledger
    BY <1>8 DEF WriteBranch, At
  <2>2. Goto(p, CASE op[p].kind = "create"  -> "event"
                  [] op[p].kind = "compact" -> "sparse"
                  [] OTHER                  -> "return")
    BY <1>8 DEF WriteBranch
  <2>3. /\ op'[p].step = CASE op[p].kind = "create"  -> "event"
                           [] op[p].kind = "compact" -> "sparse"
                           [] OTHER                  -> "return"
        /\ op'[p].kind = op[p].kind /\ op'[p].turn = op[p].turn
        /\ op'[p].branch = op[p].branch /\ op'[p].contents = op[p].contents
    BY ONLY <1>1, <2>1, <2>2, GotoKeeps, p \in Proc
  <2>4. CASE op[p].kind = "create"
    <3>1. PICK b \in Branch : b = op[p].branch
      BY <2>1, WritersBranch
    <3>2. branch'[b] = op[p].contents
      BY <1>2, <1>8, <3>1 DEF WriteBranch
    <3>3. op'[p].step = "event"
      BY ONLY <2>3, <2>4
    <3>4. QED
      BY ONLY <1>1, <2>1, <2>3, <2>4, <3>1, <3>2, <3>3 DEF WorksAfresh, EventAhead
  <2>5. CASE op[p].kind # "create"
    BY <1>3, <2>3, <2>5
  <2>6. QED
    BY <2>4, <2>5
<1>9. CASE AppendEvent(p)
  <2>1. Busy(p) /\ op[p].step = "event" /\ branch' = branch /\ Goto(p, "newline")
    BY <1>9 DEF AppendEvent, At
  <2>2. /\ op'[p].step = "newline" /\ op'[p].kind = op[p].kind /\ op'[p].turn = op[p].turn
        /\ op'[p].branch = op[p].branch /\ op'[p].contents = op[p].contents
    BY ONLY <1>1, <2>1, GotoKeeps, p \in Proc
  <2>3. PICK b \in Branch : b = op[p].branch
    BY <2>1, WritersBranch
  <2>4. ledger'[b] = Appended(ledger[b], op[p].kind, op[p].turn)
    BY <1>2, <1>9, <2>3 DEF AppendEvent
  <2>5. QED
    BY ONLY <1>1, <2>1, <2>2, <2>3, <2>4 DEF WorksAfresh, EventAhead
<1>10. CASE AppendNewline(p)
  <2>1. Busy(p) /\ op[p].step = "newline"
        /\ Goto(p, IF op[p].kind = "create" THEN "sparse" ELSE "branch")
    BY <1>10 DEF AppendNewline, At
  <2>2. /\ op'[p].step = IF op[p].kind = "create" THEN "sparse" ELSE "branch"
        /\ op'[p].kind = op[p].kind /\ op'[p].turn = op[p].turn
        /\ op'[p].branch = op[p].branch /\ op'[p].contents = op[p].contents
    BY ONLY <1>1, <2>1, GotoKeeps, p \in Proc
  <2>3. PICK b \in Branch : b = op[p].branch
    BY <2>1, WritersBranch
  <2>4. ledger'[b] = [ledger[b] EXCEPT !.newline = TRUE] /\ ledger[b] \in Ledger
    BY <1>2, <1>10, <2>3 DEF AppendNewline
  <2>5. ledger'[b].newline /\ (Agrees(op[p].contents, ledger'[b]) <=> Agrees(op[p].contents, ledger[b]))
    BY <2>4, NewlineAgrees
  <2>6. QED
    BY ONLY <1>1, <2>1, <2>2, <2>3, <2>5 DEF WorksAfresh, EventAhead
<1>11. CASE \E t \in Turn : Request(p, t)
  BY <1>2, <1>3, <1>11 DEF Request, SelectOrCreateBranch, CallOnBranch, Enter
<1>12. CASE Lock(p) \/ LoadSession(p) \/ SelectRefused(p) \/ LoadBranchMissing(p) \/ InitSession(p)
            \/ ListBranch(p) \/ WriteSparseCheckpoint(p)
  BY <1>1, <1>2, <1>3, <1>12 DEF Lock, LoadSession, SelectRefused, LoadBranchMissing, InitSession,
     ListBranch, WriteSparseCheckpoint, Goto, Fail, At, Busy, Operation, OpControl
<1>13. CASE Return(p)
  BY <1>2, <1>3, <1>13 DEF Return, Idle
<1>14. QED
  BY <1>4, <1>5, <1>6, <1>7, <1>8, <1>9, <1>10, <1>11, <1>12, <1>13
     DEF StepOf, Proceed, Load, Write

(* Its step leaves the two files of every branch in agreement, or is between  *)
(* its writes of one.                                                         *)
LEMMA FilesAfresh ==
  ASSUME TypeInv, AllAgree, NEW p \in Proc, ~Quarantine(p), StepOf(p), ~WriteFails(p), ~Crash(p),
         NEW b \in Branch, branch'[b] # None
  PROVE  (Valid(b)' /\ ledger'[b].newline) \/ \E q \in Proc : Working(q, b)'
<1>1. TypeOK /\ WorksAfresh(p) /\ OpContents(p) /\ OpControl(p)
  BY DEF TypeInv, Control, AllAgree
<1>2. /\ op \in [Proc -> Operation \cup {Idle}] /\ ledger \in [Branch -> Ledger]
      /\ branch \in [Branch -> BranchFile \cup {None}]
  BY <1>1 DEF TypeOK
<1>3. CASE AppendEvent(p) /\ b = op[p].branch
  <2>1. Busy(p) /\ op[p].step = "event" /\ Goto(p, "newline")
    BY <1>3 DEF AppendEvent, At
  <2>2. Working(p, b)'
    BY <1>1, <1>3, <2>1, GotoKeeps DEF Working
  <2>3. QED
    BY <2>2
<1>4. CASE AppendNewline(p) /\ b = op[p].branch
  <2>1. /\ Busy(p) /\ op[p].step = "newline" /\ branch' = branch
        /\ Goto(p, IF op[p].kind = "create" THEN "sparse" ELSE "branch")
        /\ ledger'[b] = [ledger[b] EXCEPT !.newline = TRUE]
    BY <1>2, <1>4 DEF AppendNewline, At
  <2>2. CASE op[p].kind # "create"
    <3>1. Working(p, b)'
      BY <1>1, <1>4, <2>1, <2>2, GotoKeeps DEF Working
    <3>2. QED
      BY <3>1
  <2>3. CASE op[p].kind = "create"
    <3>1. branch[b] = op[p].contents /\ Agrees(op[p].contents, ledger[b])
      BY <1>1, <1>4, <2>1, <2>3 DEF WorksAfresh
    <3>2. ledger[b] \in Ledger
      BY <1>2
    <3>3. Agrees(branch[b], ledger'[b]) /\ ledger'[b].newline
      BY <2>1, <3>1, <3>2, NewlineAgrees
    <3>4. QED
      BY <2>1, <3>3 DEF Valid, Agrees
  <2>4. QED
    BY <2>2, <2>3
<1>5. CASE WriteBranch(p) /\ b = op[p].branch
  <2>1. Busy(p) /\ op[p].step = "branch" /\ ledger' = ledger /\ branch'[b] = op[p].contents
    BY <1>2, <1>5 DEF WriteBranch, At
  <2>2. Goto(p, CASE op[p].kind = "create"  -> "event"
                  [] op[p].kind = "compact" -> "sparse"
                  [] OTHER                  -> "return")
    BY <1>5 DEF WriteBranch
  <2>3. CASE op[p].kind = "create"
    <3>1. Goto(p, "event")
      BY ONLY <2>2, <2>3
    <3>2. Working(p, b)'
      BY <1>1, <1>5, <2>1, <2>3, <3>1, GotoKeeps DEF Working
    <3>3. QED
      BY <3>2
  <2>4. CASE op[p].kind # "create"
    <3>1. ledger[b].newline /\ Agrees(op[p].contents, ledger[b])
      BY <1>1, <1>5, <2>1, <2>4 DEF WorksAfresh
    <3>2. QED
      BY <2>1, <3>1 DEF Valid, Agrees
  <2>5. QED
    BY <2>3, <2>4
<1>6. CASE ~(b = op[p].branch /\ (AppendEvent(p) \/ AppendNewline(p) \/ WriteBranch(p)))
  <2>1. ledger'[b] = ledger[b]
    BY <1>6, LedgerEffect
  <2>2. branch'[b] = branch[b]
    BY <1>6, BranchEffect
  <2>3. CASE Valid(b) /\ ledger[b].newline
    BY <2>1, <2>2, <2>3 DEF Valid
  <2>4. ASSUME NEW q \in Proc, Working(q, b) PROVE Working(q, b)'
    <3>1. op'[q] = op[q]
      <4>1. CASE q # p
        BY <4>1, OthersKeep DEF TypeInv
      <4>2. CASE q = p
        <5>1. op[p].step \in {"event", "newline", "branch"} /\ b = op[p].branch /\ Busy(p)
          BY <2>4, <4>2 DEF Working
        <5>2. \E t \in Turn : Find(p, t)
          BY <1>6, <5>1 DEF StepOf, Request, SelectOrCreateBranch, CallOnBranch, Enter, Proceed,
             Lock, Load, LoadSession, SelectContinues, SelectCreates, SelectRefused, LoadBranch,
             LoadBranchMissing, Quarantine, Write, InitSession, AppendEvent, WriteSparseCheckpoint,
             ListBranch, Return, At
        <5>3. op' = op
          BY <5>2 DEF Find, FindBranch, FindNothing
        <5>4. QED
          BY <4>2, <5>3
      <4>3. QED
        BY <4>1, <4>2
    <3>2. QED
      BY <2>4, <3>1 DEF Working, Busy
  <2>5. QED
    BY <2>2, <2>3, <2>4 DEF AllAgree
<1>7. QED
  BY <1>3, <1>4, <1>5, <1>6

(* What an operation has read leads it to a write. *)
LEMMA WritesNext ==
  ASSUME TypeInv, NEW p \in Proc, SelectContinues(p) \/ SelectCreates(p) \/ LoadBranch(p)
  PROVE  op'[p].step \in {"branch", "event"}
<1>1. op \in [Proc -> Operation \cup {Idle}] /\ op[p] \in Operation
  BY DEF SelectContinues, SelectCreates, LoadBranch, At, Busy, TypeInv, TypeOK
<1>2. CASE SelectContinues(p)
  <2>1. PICK b \in Listed :
          op' = [op EXCEPT ![p].kind = "continue", ![p].step = "branch", ![p].branch = b,
                           ![p].contents = [branch[b] EXCEPT !.fp = IncomingFp(p)]]
    BY <1>2 DEF SelectContinues
  <2>2. QED
    BY ONLY <1>1, <2>1, p \in Proc DEF Operation
<1>3. CASE SelectCreates(p)
  <2>1. PICK b \in Branch \ minted, parent \in Listed \cup {None} :
          op' = [op EXCEPT ![p].kind = "create", ![p].branch = b,
                           ![p].step = "branch",
                           ![p].contents = NewBranch(IncomingFp(p), parent),
                           ![p].ids = Listed \cup {b}]
    BY ONLY <1>3 DEF SelectCreates
  <2>2. QED
    BY ONLY <1>1, <2>1, p \in Proc DEF Operation
<1>4. CASE LoadBranch(p)
  <2>1. PICK fp \in Fingerprint, step \in {"event", "branch"} :
          op' = [op EXCEPT ![p].step = step,
                 ![p].contents = Updated(branch[op[p].branch], op[p].kind, op[p].turn, fp)]
    BY <1>4, LoadBranchStep
  <2>2. QED
    BY ONLY <1>1, <2>1, p \in Proc DEF Operation
<1>5. QED
  BY <1>2, <1>3, <1>4

(* Nobody becomes a retrying process but by a quarantine, and until it has    *)
(* selected it writes no branch.                                              *)
LEMMA StillRetrying ==
  ASSUME TypeInv, FileFacts, NEW p \in Proc, ~Quarantine(p), StepOf(p), ~WriteFails(p), ~Crash(p),
         NEW r \in Proc, Retrying(r)'
  PROVE  Retrying(r) /\ (r = p => branch' = branch /\ ledger' = ledger)
<1>1. TypeOK /\ op \in [Proc -> Operation \cup {Idle}] /\ OpControl(p)
  BY DEF TypeInv, TypeOK, Control
<1>2. CASE r # p
  BY <1>2, OthersKeep DEF TypeInv, Retrying, Busy
<1>3. CASE r = p
  <2>1. Busy(p)' /\ op'[p].retried /\ op'[p].step \in {"load", "init"}
    BY <1>3 DEF Retrying
  <2>2. CASE \E t \in Turn : Find(p, t)
    BY <1>3, <2>2 DEF Find, FindBranch, FindNothing, Retrying, Busy, disk
  <2>3. CASE \E t \in Turn : Request(p, t)
    BY <1>1, <2>1, <2>3 DEF Request, SelectOrCreateBranch, CallOnBranch, Enter
  <2>4. CASE Lock(p)
    <3>1. Busy(p) /\ op[p].step = "lock" /\ op'[p].step = "load"
      BY <1>1, <2>4 DEF Lock, Goto, At, Busy, Operation
    <3>2. Busy(p) /\ op[p].retried
      BY <2>1, <2>4, <3>1, OwnFile
    <3>3. QED
      BY <3>1, <3>2 DEF FileFacts
  <2>5. CASE LoadSession(p)
    BY <1>1, <1>3, <2>1, <2>5 DEF LoadSession, Goto, At, Busy, Operation, Retrying, disk
  <2>6. CASE InitSession(p)
    BY <1>1, <1>3, <2>1, <2>6 DEF InitSession, Goto, At, Busy, Operation, Retrying
  <2>7. CASE SelectRefused(p) \/ LoadBranchMissing(p)
    BY <1>1, <2>1, <2>7 DEF SelectRefused, LoadBranchMissing, Goto, Fail, At, Busy, Operation
  <2>8. CASE SelectContinues(p) \/ SelectCreates(p)
    BY <2>1, <2>8, WritesNext
  <2>9. CASE LoadBranch(p)
    BY <2>1, <2>9, WritesNext
  <2>10. CASE Write(p) /\ ~InitSession(p)
    BY <1>1, <2>1, <2>10 DEF Write, WriteBranch, AppendEvent, AppendNewline, WriteSparseCheckpoint,
       ListBranch, Goto, At, Busy, Operation
  <2>11. CASE Return(p)
    BY <1>1, <2>1, <2>11 DEF Return, Busy
  <2>12. QED
    BY <2>2, <2>3, <2>4, <2>5, <2>6, <2>7, <2>8, <2>9, <2>10, <2>11 DEF StepOf, Proceed, Load
<1>4. QED
  BY <1>2, <1>3

LEMMA AfreshStep ==
  ASSUME TypeInv, FileFacts, MintedFacts, AllAgree, CallFacts, PlainCalls, generation = 1,
         NEW p \in Proc, ~Quarantine(p), StepOf(p), ~WriteFails(p), ~Crash(p),
         NEW r \in Proc, Retrying(r)'
  PROVE  AllAgree'
<1>1. Retrying(r) /\ (r = p => branch' = branch /\ ledger' = ledger)
  BY StillRetrying
<1>2. \A q \in Proc : q # p => op'[q] = op[q]
  BY OthersKeep DEF TypeInv
<1>3. WorksAfresh(r)'
  BY DEF Retrying, WorksAfresh, EventAhead
<1>4. ASSUME NEW q \in Proc PROVE WorksAfresh(q)'
  <2>1. CASE q = p /\ p # r
    BY <1>1, <2>1, OwnAfresh
  <2>2. CASE q # p /\ q # r /\ branch' = branch /\ ledger' = ledger
    BY <1>2, <2>2 DEF AllAgree, WorksAfresh, Busy
  <2>3. CASE q # p /\ q # r /\ ~(branch' = branch /\ ledger' = ledger)
    <3>1. Inside(p) /\ p # r
      BY <1>1, <2>3, OutsideKeepsDisk DEF disk
    <3>2. ~Inside(q)
      BY <1>1, <2>3, <3>1, OneOther
    <3>3. QED
      BY <1>2, <2>3, <3>2 DEF WorksAfresh, EventAhead, Inside, Busy
  <2>4. QED
    BY <1>3, <2>1, <2>2, <2>3
<1>5. ASSUME NEW b \in Branch, branch'[b] # None
      PROVE  (Valid(b)' /\ ledger'[b].newline) \/ \E q \in Proc : Working(q, b)'
  BY <1>5, FilesAfresh
<1>6. QED
  BY <1>4, <1>5 DEF AllAgree

--------------------------------------------------------------------------------
LEMMA RecoverInit == Init => RecoverInv
<1> SUFFICES ASSUME Init PROVE RecoverInv
  OBVIOUS
<1>1. generation = 0 /\ \A p \in Proc : ~Busy(p)
  BY DEF Init, Busy
<1>2. CleanInv /\ StoreInv /\ CompleteInv /\ MintedFacts
  BY CleanInit, StoreInit, CompleteInit DEF StoreInv
<1>3. FileFacts
  BY <1>1 DEF FileFacts, Inside
<1>4. QED
  BY <1>1, <1>2, <1>3 DEF RecoverInv

LEMMA RecoverStep == PlainCalls /\ RecoverInv /\ [Next]_vars => RecoverInv'
<1> SUFFICES ASSUME PlainCalls, RecoverInv, [Next]_vars PROVE RecoverInv'
  OBVIOUS
<1>1. CleanInv' /\ TypeInv /\ CallFacts
  BY CleanStep DEF RecoverInv, CleanInv
<1>2. CASE UNCHANGED vars
  <2>1. /\ op' = op /\ session' = session /\ branch' = branch /\ ledger' = ledger /\ minted' = minted
        /\ generation' = generation /\ turn' = turn /\ faults' = faults
    BY <1>2 DEF vars, disk
  <2>2. MintedFacts' /\ FileFacts'
    BY <2>1 DEF RecoverInv, MintedFacts, FileFacts, Inside, Busy
  <2>3. generation' = 0 => StoreInv' /\ CompleteInv'
    <3>1. StoreInv => StoreInv'
      BY <2>1 DEF StoreInv, LockInv, TypeInv, TypeOK, Control, OpControl, OpTurn, OpContents, TurnControl,
         OneLockFile, OneInside, MintedFacts, WorkFacts, Written, Rewriting, EventWritten, LedgerFacts,
         InLedger, Inside, Busy, Listed
    <3>2. CompleteInv => CompleteInv'
      BY <2>1 DEF CompleteInv, ListedIsComplete, CreateFacts, Listed, Busy
    <3>3. QED
      BY <2>1, <3>1, <3>2 DEF RecoverInv
  <2>4. generation' = 1 => ListedExist'
    BY <2>1 DEF RecoverInv, ListedExist, FilesBehind, Listed, Busy
  <2>5. generation' = 1 /\ faults' < 2 /\ (\E p \in Proc : Retrying(p)') => AllAgree'
    <3>1. (\E p \in Proc : Retrying(p)') => \E p \in Proc : Retrying(p)
      BY <2>1 DEF Retrying, Busy
    <3>2. AllAgree => AllAgree'
      BY <2>1 DEF AllAgree, Valid, Working, WorksAfresh, Busy
    <3>3. QED
      BY <2>1, <3>1, <3>2 DEF RecoverInv
  <2>6. QED
    BY <1>1, <2>2, <2>3, <2>4, <2>5 DEF RecoverInv
<1>3. ASSUME NEW p \in Proc, StepOf(p) PROVE RecoverInv'
  <2>1. MintedFacts' /\ FileFacts'
    BY <1>1, <1>3, MintedStep, FileStep DEF RecoverInv
  <2>2. generation \in Nat /\ faults \in Nat
        /\ generation' = IF Quarantine(p) THEN generation + 1 ELSE generation
    BY <1>1, <1>3, GenerationStep DEF TypeInv, TypeOK
  <2>3. CASE generation' = 0
    <3>1. generation = 0 /\ StoreInv /\ CompleteInv
      BY <2>2, <2>3 DEF RecoverInv
    <3>2. NoQuarantine
      BY <2>3, <3>1 DEF NoQuarantine, Quarantine
    <3>3. StoreInv' /\ CompleteInv'
      BY <1>3, <3>1, <3>2, StoreStep, CompleteStep DEF NoQuarantine
    <3>4. QED
      BY <1>1, <2>1, <2>3, <3>3 DEF RecoverInv
  <2>4. CASE generation' = 1 /\ Quarantine(p)
    <3>1. StoreInv
      BY <2>2, <2>4 DEF RecoverInv
    <3>2. ListedExist' /\ AllAgree'
      BY <1>3, <2>4, <3>1, FirstQuarantine
    <3>3. QED
      BY <1>1, <2>1, <2>4, <3>2 DEF RecoverInv
  <2>5. CASE generation' = 1 /\ ~Quarantine(p)
    <3>1. generation = 1 /\ ListedExist
      BY <2>2, <2>5 DEF RecoverInv
    <3>2. ListedExist'
      BY <1>1, <1>3, <2>5, <3>1, ExistStep
    <3>3. ASSUME faults' < 2, NEW r \in Proc, Retrying(r)' PROVE AllAgree'
      <4>1. faults # 0
        BY <3>1 DEF RecoverInv, CleanInv, StoreInv, LockInv, OneLockFile
      <4>2. ~WriteFails(p) /\ ~Crash(p)
        BY <2>2, <3>3, <4>1 DEF WriteFails, Crash
      <4>3. faults < 2
        <5>1. faults' = faults
          BY <1>3, <4>2 DEF StepOf, Find, FindBranch, FindNothing, Request, SelectOrCreateBranch,
             CallOnBranch, Proceed, Lock, Load, LoadSession, SelectContinues, SelectCreates, SelectRefused,
             LoadBranch, LoadBranchMissing, Quarantine, Write, InitSession, WriteBranch, AppendEvent,
             AppendNewline, WriteSparseCheckpoint, ListBranch, Return
        <5>2. QED
          BY <3>3, <5>1
      <4>4. Retrying(r)
        BY <1>1, <1>3, <2>5, <3>3, <4>2, StillRetrying DEF RecoverInv
      <4>5. AllAgree /\ FileFacts /\ MintedFacts
        BY <3>1, <4>3, <4>4 DEF RecoverInv
      <4>6. QED
        BY <1>1, <1>3, <2>5, <3>1, <3>3, <4>2, <4>5, AfreshStep
    <3>4. QED
      BY <1>1, <2>1, <2>5, <3>2, <3>3 DEF RecoverInv
  <2>6. CASE generation' \notin {0, 1}
    BY <1>1, <2>1, <2>6 DEF RecoverInv
  <2>7. QED
    BY <2>3, <2>4, <2>5, <2>6
<1>4. QED
  BY <1>2, <1>3 DEF Next, StepOf

(* Under quarantine_and_reset one crash or failed write never makes a         *)
(* selection fail on what it finds, as long as the session was quarantined at *)
(* most once and nobody else is at work in it: its first try quarantines, and *)
(* in the directory that replaces the old one its second finds nothing wrong, *)
(* whatever other processes did there in between (with the same calls).       *)
THEOREM SessionRecovers ==
  Policy = "quarantine_and_reset" /\ PlainCalls => (Spec => QuarantineRecovers)
<1> SUFFICES ASSUME Policy = "quarantine_and_reset", PlainCalls PROVE Spec => QuarantineRecovers
  OBVIOUS
<1> DEFINE Recovers ==
      \A p \in Proc :
         /\ At(p, "load") /\ op[p].kind = "select" /\ op'[p].step = "return"
         /\ \A q \in Proc \ {p} : ~Inside(q)
         => faults > 1 \/ generation > 1
<1>1. RecoverInv /\ [Next]_vars => RecoverInv'
  BY RecoverStep
<1>2. RecoverInv /\ [Next]_vars => [Recovers]_vars
  <2> SUFFICES ASSUME RecoverInv, NEW s \in Proc, StepOf(s), NEW p \in Proc, At(p, "load"),
                      op[p].kind = "select", op'[p].step = "return",
                      \A q \in Proc \ {p} : ~Inside(q), ~(faults > 1), ~(generation > 1)
               PROVE  FALSE
    BY DEF Next, StepOf
  <2>1. /\ TypeInv /\ op \in [Proc -> Operation \cup {Idle}] /\ op[p] \in Operation
        /\ generation \in {0, 1} /\ faults < 2
    BY DEF RecoverInv, CleanInv, TypeInv, TypeOK, At, Busy
  <2>2. s = p
    BY <2>1, OthersKeep DEF TypeInv, At
  <2>3. SelectRefused(p)
    <3>1. CASE \E t \in Turn : Find(p, t) \/ Request(p, t)
      BY <3>1 DEF Find, FindBranch, FindNothing, Request, SelectOrCreateBranch, CallOnBranch, Enter, At
    <3>2. CASE Lock(p) \/ Quarantine(p) \/ Write(p) \/ Return(p) \/ WriteFails(p)
      BY <3>2 DEF Lock, Quarantine, Write, InitSession, WriteBranch, AppendEvent, AppendNewline,
         WriteSparseCheckpoint, ListBranch, Return, WriteFails, At
    <3>3. CASE Crash(p)
      BY <2>1, <3>3 DEF Crash, Idle
    <3>4. CASE LoadSession(p) \/ SelectContinues(p) \/ SelectCreates(p)
      BY <2>1, <3>4, WritesNext DEF LoadSession, Goto, Operation
    <3>5. CASE LoadBranch(p) \/ LoadBranchMissing(p)
      BY <3>5 DEF LoadBranch, LoadBranchMissing, FollowUps, MainCommits
    <3>6. QED
      BY <2>2, <3>1, <3>2, <3>3, <3>4, <3>5 DEF StepOf, Proceed, Load
  <2>4. PICK b \in Listed : ~Valid(b) /\ (branch[b] = None \/ op[p].retried)
    BY <2>1, <2>3 DEF SelectRefused, Goto, Operation
  <2>5. b \in Branch
    BY <2>1, <2>4 DEF Listed, TypeInv, TypeOK
  <2>6. branch[b] # None
    BY <2>1 DEF RecoverInv, CompleteInv, ListedIsComplete, ListedExist
  <2>7. Busy(p) /\ op[p].retried /\ op[p].file \in 0..generation /\ op[p].file < generation
    BY <2>4, <2>6 DEF RecoverInv, FileFacts, At
  <2>8. generation = 1
    BY <2>1, <2>7
  <2>9. Retrying(p)
    BY <2>7 DEF Retrying, At
  <2>10. AllAgree
    BY <2>1, <2>8, <2>9 DEF RecoverInv
  <2>11. PICK q \in Proc : Working(q, b)
    BY <2>4, <2>5, <2>6, <2>10 DEF AllAgree
  <2>12. q = p
    BY <2>11 DEF Working, Inside
  <2>13. QED
    BY <2>11, <2>12 DEF Working, At
<1> HIDE DEF Recovers
<1>3. Spec => [][Recovers]_vars
  BY <1>1, <1>2, RecoverInit, PTL DEF Spec
<1>4. QED
  BY <1>3 DEF QuarantineRecovers, Recovers
===============================================================================

--------------------------- MODULE ConversationStore ---------------------------
(***************************************************************************)
(* The conversation store of gateway-state/src/conversation.rs: the        *)
(* directory of one Claude session, shared by the tasks of several gateway *)
(* processes, and the way the message handler of gateway-http-anthropic    *)
(* reads it.                                                               *)
(*                                                                         *)
(* A session.json lists the session's branches.  Every branch has a        *)
(* branch.json, replaced as a whole by a rename, and a ledger.jsonl,       *)
(* appended to.  Every operation that writes runs under the session's      *)
(* lock, reads what it needs and then writes several files one after the   *)
(* other; a process can die between any two writes and any write can fail. *)
(* The handler looks for a turn's branch without the lock, and asks the    *)
(* store to select one only when it found none.  Sessions share nothing,   *)
(* so one of them is all the state there is.                               *)
(*                                                                         *)
(* Writes that reached the file survive the death of the process; losing   *)
(* the page cache (power failure) is not modelled.                         *)
(***************************************************************************)
EXTENDS Naturals, Sequences

CONSTANTS
  Proc,         (* gateway processes sharing the state root                       *)
  Turn,         (* turns of the session, over all processes                       *)
  Home,         (* the process each turn runs in                                  *)
  Branch,       (* branch ids: UUIDs, never minted twice                          *)
  Hash,         (* fingerprint hashes                                             *)
  Fingerprint,  (* the fingerprints requests arrive with                          *)
  Calls,        (* what a turn may call after its branch was selected             *)
  Policy,       (* corruption_policy                                              *)
  MaxFaults,    (* bound: crashes and failed writes                               *)
  None          (* an absent value, or a file that does not exist                 *)

MainCommits  == {"commit", "commit_bare"}   (* commit_bare: without a response id  *)
FollowUps    == MainCommits \cup {"side", "offshoot", "reconcile", "compact", "invalidate"}

ASSUME HomeAssumption == Home \in [Turn -> Proc]
ASSUME FingerprintAssumption ==
  Fingerprint \subseteq [lastUser : Hash \cup {None}, tail : Hash \cup {None}]
ASSUME CallsAssumption  == Calls \subseteq FollowUps
ASSUME PolicyAssumption == Policy \in {"fail_closed", "quarantine_and_reset"}
ASSUME BoundAssumption  == MaxFaults \in Nat
ASSUME StoreNoneAssumption ==
  None \notin Turn /\ None \notin Branch /\ None \notin Hash
  /\ \A ids \in SUBSET Branch : ids # None

VARIABLES
  session,     (* branch ids listed in session.json, or None                      *)
  branch,      (* branch.json of each branch, or None                             *)
  ledger,      (* ledger.jsonl of each branch, as validation replays it           *)
  minted,      (* branch ids handed out so far                                    *)
  generation,  (* which .session.lock is at the session's path: a new one after a *)
               (* quarantine moved the directory away                             *)
  op,          (* the operation each process runs on the session                  *)
  turn,        (* each turn's progress, and what selection gave it                *)
  faults       (* crashes and failed writes so far                                *)

disk == <<session, branch, ledger, minted, generation>>
vars == <<disk, op, turn, faults>>

--------------------------------------------------------------------------------
(* branch.json: the fields validation, matching and the callers look at.      *)
(* current_checkpoint_id and openai_checkpoint are only written together, and *)
(* with the same response id, so one field stands for both.                   *)
BranchFile ==
  [lastTurn : Turn \cup {None}, checkpoint : Turn \cup {None}, pending : BOOLEAN,
   fp : Fingerprint, parent : Branch \cup {None}, offshoot : Turn \cup {None}]
ASSUME FileNoneAssumption == None \notin BranchFile

(* ledger.jsonl: its first event, its main turns in order, whether the last   *)
(* main turn was followed by a compaction, whether every line parses, and     *)
(* whether the file ends with a newline.  A response id is named by the turn  *)
(* it answered.                                                               *)
LedgerEntry == [turn : Turn, response : Turn \cup {None}]
Ledger ==
  [first : {"none", "branch_created", "other"}, turns : Seq(LedgerEntry),
   pending : BOOLEAN, intact : BOOLEAN, newline : BOOLEAN]
EmptyLedger ==
  [first |-> "none", turns |-> <<>>, pending |-> FALSE, intact |-> TRUE, newline |-> TRUE]

NoEntry       == [turn |-> None, response |-> None]
LastEntry(l)  == IF l.turns = <<>> THEN NoEntry ELSE l.turns[Len(l.turns)]

(* validate_branch_against_ledger, after both files were read.                *)
Valid(b) ==
  /\ branch[b] # None
  /\ ledger[b].intact
  /\ ledger[b].first = "branch_created"
  /\ branch[b].lastTurn   = LastEntry(ledger[b]).turn
  /\ branch[b].checkpoint = LastEntry(ledger[b]).response
  /\ branch[b].pending    = ledger[b].pending

(* exact_branch_match, ancestor_branch_match: an absent hash matches nothing, *)
(* but two absent tails count as the same tail.                               *)
SameHash(x, y)  == x # None /\ x = y
Exact(f, g)     == SameHash(f.lastUser, g.lastUser) /\ SameHash(f.tail, g.tail)
Ancestor(f, g)  == SameHash(f.lastUser, g.lastUser) /\ f.tail # g.tail

Listed == IF session = None THEN {} ELSE session

--------------------------------------------------------------------------------
(* An operation of process p: what it does, for which turn, the lock file it  *)
(* opened, where it is, and what it has still to write.                       *)
Kind == FollowUps \cup {"select", "continue", "create"}
Step == {"lock", "load", "quarantine", "init", "branch", "event", "newline", "sparse", "list",
         "return"}
Operation ==
  [kind : Kind, turn : Turn, file : Nat, step : Step, branch : Branch \cup {None},
   contents : BranchFile \cup {None}, ids : SUBSET Branch, ok : BOOLEAN, retried : BOOLEAN]
Idle == [kind |-> "none", step |-> "idle"]

Busy(p)   == op[p] # Idle
Inside(p) == Busy(p) /\ op[p].step # "lock"    (* holds the flock *)
At(p, step) == Busy(p) /\ op[p].step = step

Goto(p, step) == op' = [op EXCEPT ![p].step = step]
(* Mutant: a failed operation is tried again and again, under the lock. *)
FailRetrying(p) == op' = [op EXCEPT ![p].step = "load"]

Fail(p)       == op' = [op EXCEPT ![p].step = "return", ![p].ok = FALSE]

(* A turn is unmatched when its handler found no branch, and then selected or *)
(* compacted once it has one.                                                 *)
Ready == {"selected", "compacted"}
Stage == {"new", "unmatched", "committed", "closed", "failed", "dead"} \cup Ready
TurnState ==
  [stage : Stage, branch : Branch \cup {None}, fp : Fingerprint \cup {None},
   checkpoint : Turn \cup {None}]
NewTurn == [stage |-> "new", branch |-> None, fp |-> None, checkpoint |-> None]

Init ==
  /\ session    = None
  /\ branch     = [b \in Branch |-> None]
  /\ ledger     = [b \in Branch |-> EmptyLedger]
  /\ minted     = {}
  /\ generation = 0
  /\ op         = [p \in Proc |-> Idle]
  /\ turn       = [t \in Turn |-> NewTurn]
  /\ faults     = 0

--------------------------------------------------------------------------------
(* with_session_lock.  The process-wide mutex admits one thread of a process  *)
(* at a time; the one it admits makes the directory and opens the lock file   *)
(* that is there now, and then waits for that file's flock.                   *)
Enter(p, t, kind, b) ==
  /\ ~Busy(p)
  /\ Home[t] = p
  /\ op' = [op EXCEPT ![p] =
              [kind |-> kind, turn |-> t, file |-> generation, step |-> "lock", branch |-> b,
               contents |-> None, ids |-> {}, ok |-> TRUE, retried |-> FALSE]]

(* The handler lists the session and reads each branch, taking no lock and    *)
(* validating nothing; it takes one of those it could read.                   *)
Readable == {b \in Listed : branch[b] # None}

FindBranch(p, t) ==
  /\ turn[t].stage = "new"
  /\ Home[t] = p
  /\ \E b \in Readable, f \in Fingerprint :
       turn' = [turn EXCEPT ![t] = [stage |-> "selected", branch |-> b, fp |-> f,
                                    checkpoint |-> branch[b].checkpoint]]
  /\ UNCHANGED <<disk, op, faults>>

FindNothing(p, t) ==
  /\ turn[t].stage = "new"
  /\ Home[t] = p
  /\ Readable = {}
  /\ turn' = [turn EXCEPT ![t].stage = "unmatched"]
  /\ UNCHANGED <<disk, op, faults>>

SelectOrCreateBranch(p, t) ==
  /\ turn[t].stage = "unmatched"
  /\ Enter(p, t, "select", None)
  /\ \E f \in Fingerprint : turn' = [turn EXCEPT ![t].fp = f]
  /\ UNCHANGED <<disk, faults>>

(* commit_turn, commit_offshoot_openai_checkpoint, reconcile_branch_snapshot, *)
(* apply_compaction or invalidate_openai_checkpoint on the branch that the    *)
(* turn was handed; the handler compacts at most once, before it commits.     *)
CallOnBranch(p, t) ==
  /\ turn[t].stage \in Ready
  /\ \E kind \in Calls :
       /\ kind = "compact" => turn[t].stage = "selected"
       /\ Enter(p, t, kind, turn[t].branch)
  /\ UNCHANGED <<disk, turn, faults>>

(* Mutant: the flock is not waited for. *)
LockUnheld(p) ==
  /\ At(p, "lock")
  /\ Goto(p, "load")
  /\ UNCHANGED <<disk, turn, faults>>

Lock(p) ==
  /\ At(p, "lock")
  /\ \A q \in Proc : Inside(q) => op[q].file # op[p].file
  /\ Goto(p, "load")
  /\ UNCHANGED <<disk, turn, faults>>

(* The flock and the mutex are released and the caller sees the result: the   *)
(* branch as the operation left it, for those that hand a turn its branch.    *)
Handing == {"continue", "create", "compact"}
StageAfter(o) ==
  IF ~o.ok THEN "failed"
  ELSE CASE o.kind \in {"continue", "create"} -> "selected"
         [] o.kind = "compact"               -> "compacted"
         [] o.kind \in MainCommits            -> "committed"
         [] OTHER                             -> "closed"

Return(p) ==
  /\ At(p, "return")
  /\ LET o == op[p] IN
       IF o.ok /\ o.kind \in Handing
       THEN turn' = [turn EXCEPT ![o.turn].stage      = StageAfter(o),
                                 ![o.turn].branch     = o.branch,
                                 ![o.turn].checkpoint = o.contents.checkpoint]
       ELSE turn' = [turn EXCEPT ![o.turn].stage = StageAfter(o)]
  /\ op' = [op EXCEPT ![p] = Idle]
  /\ UNCHANGED <<disk, faults>>

--------------------------------------------------------------------------------
(* ensure_session_unlocked: session.json is made if it is not there.          *)
LoadSession(p) ==
  /\ At(p, "load")
  /\ op[p].kind = "select"
  /\ session = None
  /\ Goto(p, "init")
  /\ UNCHANGED <<disk, turn, faults>>

InitSession(p) ==
  /\ At(p, "init")
  /\ session' = {}
  /\ Goto(p, "load")
  /\ UNCHANGED <<branch, ledger, minted, generation, turn, faults>>

(* select_or_create_branch_unlocked: every listed branch is read and          *)
(* validated, one that does not pass fails the whole session.                 *)
Loads == \A b \in Listed : Valid(b)

IncomingFp(p) == turn[op[p].turn].fp
ExactMatches(p)    == {b \in Listed : Exact(branch[b].fp, IncomingFp(p))}
AncestorMatches(p) == {b \in Listed : Ancestor(branch[b].fp, IncomingFp(p))}

SelectContinues(p) ==
  /\ At(p, "load")
  /\ op[p].kind = "select"
  /\ session # None
  /\ Loads
  /\ \E b \in Listed :
       /\ ExactMatches(p) = {b}
       /\ op' = [op EXCEPT ![p].kind = "continue", ![p].step = "branch", ![p].branch = b,
                           ![p].contents = [branch[b] EXCEPT !.fp = IncomingFp(p)]]
  /\ UNCHANGED <<disk, turn, faults>>

(* create_branch_unlocked, up to its first write.                             *)
NewBranch(fp, parent) ==
  [lastTurn |-> None, checkpoint |-> None, pending |-> FALSE, fp |-> fp, parent |-> parent,
   offshoot |-> None]

SelectCreates(p) ==
  /\ At(p, "load")
  /\ op[p].kind = "select"
  /\ session # None
  /\ Loads
  /\ \A b \in Listed : ExactMatches(p) # {b}
  /\ \E b \in Branch \ minted, parent \in Listed \cup {None} :
       /\ IF ExactMatches(p) = {} /\ \E a \in Listed : AncestorMatches(p) = {a}
          THEN AncestorMatches(p) = {parent}    (* forked_from_ancestor *)
          ELSE parent = None                    (* created_initial, _ambiguous or _unmatched *)
       /\ minted' = minted \cup {b}
       /\ op' = [op EXCEPT ![p].kind = "create", ![p].branch = b,
                           ![p].step = "branch",
                           ![p].contents = NewBranch(IncomingFp(p), parent),
                           ![p].ids = Listed \cup {b}]
  /\ UNCHANGED <<session, branch, ledger, generation, turn, faults>>

(* A listed branch is corrupt (a line that does not parse, or files that      *)
(* contradict each other) or missing; only corruption can be quarantined, and *)
(* only once.                                                                 *)
(* Mutant: every branch directory counts, listed or not. *)
SelectRefusedByAny(p) ==
  /\ At(p, "load")
  /\ op[p].kind = "select"
  /\ \E b \in Branch :
       /\ ~Valid(b)
       /\ IF Policy = "quarantine_and_reset" /\ ~op[p].retried
          THEN Goto(p, "quarantine")
          ELSE Fail(p)
  /\ UNCHANGED <<disk, turn, faults>>

SelectRefused(p) ==
  /\ At(p, "load")
  /\ op[p].kind = "select"
  /\ \E b \in Listed :
       /\ ~Valid(b)
       /\ IF branch[b] # None /\ Policy = "quarantine_and_reset" /\ ~op[p].retried
          THEN Goto(p, "quarantine")
          ELSE Fail(p)
  /\ UNCHANGED <<disk, turn, faults>>

(* quarantine_session_unlocked: the directory is renamed away, with the lock  *)
(* file this process holds in it, and the operation is run again.             *)
(* Mutant: session.json stays behind. *)
QuarantineKeepsList(p) ==
  /\ At(p, "quarantine")
  /\ branch'     = [b \in Branch |-> None]
  /\ ledger'     = [b \in Branch |-> EmptyLedger]
  /\ generation' = generation + 1
  /\ op' = [op EXCEPT ![p].step = "load", ![p].retried = TRUE]
  /\ UNCHANGED <<session, minted, turn, faults>>

Quarantine(p) ==
  /\ At(p, "quarantine")
  /\ session'    = None
  /\ branch'     = [b \in Branch |-> None]
  /\ ledger'     = [b \in Branch |-> EmptyLedger]
  /\ generation' = generation + 1
  /\ op' = [op EXCEPT ![p].step = "load", ![p].retried = TRUE]
  /\ UNCHANGED <<minted, turn, faults>>

(* The operations on one branch: branch.json is read but not validated.       *)
(* Mutant: a commit starts branch.json afresh. *)
UpdatedAfresh(old, kind, t, fp) ==
  CASE kind = "commit"      -> [old EXCEPT !.fp = fp, !.lastTurn = t, !.checkpoint = t,
                                           !.pending = FALSE, !.offshoot = None]
    [] kind = "commit_bare" -> [old EXCEPT !.fp = fp, !.lastTurn = t, !.offshoot = None]
    [] kind = "offshoot"    -> [old EXCEPT !.offshoot = t]
    [] kind = "compact"     -> [old EXCEPT !.fp = fp, !.pending = TRUE]
    [] kind = "invalidate"  -> [old EXCEPT !.checkpoint = None]
    [] OTHER                -> [old EXCEPT !.fp = fp]

(* Mutant: an offshoot's response becomes the branch's checkpoint. *)
UpdatedByOffshoot(old, kind, t, fp) ==
  CASE kind = "commit"   -> [old EXCEPT !.fp = fp, !.lastTurn = t, !.checkpoint = t]
    [] kind = "offshoot" -> [old EXCEPT !.offshoot = t, !.checkpoint = t]
    [] OTHER             -> old

Updated(old, kind, t, fp) ==
  CASE kind = "commit"      -> [old EXCEPT !.fp = fp, !.lastTurn = t, !.checkpoint = t,
                                           !.pending = FALSE]
    [] kind = "commit_bare" -> [old EXCEPT !.fp = fp, !.lastTurn = t]
    [] kind = "offshoot"    -> [old EXCEPT !.offshoot = t]
    [] kind = "compact"     -> [old EXCEPT !.fp = fp, !.pending = TRUE]
    [] kind = "invalidate"  -> [old EXCEPT !.checkpoint = None]
    [] OTHER                -> [old EXCEPT !.fp = fp]      (* side, reconcile *)

(* commit_turn passes the fingerprints of its request; the callers of the     *)
(* others may pass new ones.  A reconcile that changes nothing appends no     *)
(* event.                                                                     *)
LoadBranch(p) ==
  LET o == op[p] IN
  /\ At(p, "load")
  /\ o.kind \in FollowUps
  /\ branch[o.branch] # None
  /\ \E fp \in IF o.kind \in MainCommits THEN {IncomingFp(p)} ELSE Fingerprint,
        step \in CASE o.kind \in {"offshoot", "invalidate"} -> {"branch"}
                   [] o.kind = "reconcile"                  -> {"event", "branch"}
                   [] OTHER                                 -> {"event"} :
       op' = [op EXCEPT ![p].step = step,
                        ![p].contents = Updated(branch[o.branch], o.kind, o.turn, fp)]
  /\ UNCHANGED <<disk, turn, faults>>

LoadBranchMissing(p) ==
  /\ At(p, "load")
  /\ op[p].kind \in FollowUps
  /\ branch[op[p].branch] = None
  /\ Fail(p)
  /\ UNCHANGED <<disk, turn, faults>>

--------------------------------------------------------------------------------
(* The writes, in the order each operation makes them: a new branch goes      *)
(* branch, event, newline, sparse, list; every other one event, newline and   *)
(* branch, or only branch.                                                    *)

(* Mutant: a new branch is listed before its ledger exists. *)
WriteBranchListed(p) ==
  /\ At(p, "branch")
  /\ branch' = [branch EXCEPT ![op[p].branch] = op[p].contents]
  /\ session' = IF op[p].kind = "create" THEN op[p].ids ELSE session
  /\ Goto(p, CASE op[p].kind = "create"  -> "event"
               [] op[p].kind = "compact" -> "sparse"
               [] OTHER                  -> "return")
  /\ UNCHANGED <<ledger, minted, generation, turn, faults>>

WriteBranch(p) ==
  /\ At(p, "branch")
  /\ branch' = [branch EXCEPT ![op[p].branch] = op[p].contents]
  /\ Goto(p, CASE op[p].kind = "create"  -> "event"
               [] op[p].kind = "compact" -> "sparse"
               [] OTHER                  -> "return")
  /\ UNCHANGED <<session, ledger, minted, generation, turn, faults>>

(* The event's line: appended to the last line if that was never ended, and   *)
(* then neither of the two parses.                                            *)
(* Mutant: the event is tagged with the operation. *)
AppendedTagged(l, kind, t) ==
  [first   |-> IF l.first # "none" THEN l.first ELSE kind,
   turns   |-> IF kind = "commit" THEN Append(l.turns, [turn |-> t, response |-> t]) ELSE l.turns,
   pending |-> FALSE,
   intact  |-> l.intact /\ l.newline,
   newline |-> FALSE]

Appended(l, kind, t) ==
  [first   |-> IF l.first # "none" THEN l.first
               ELSE IF kind = "create" THEN "branch_created" ELSE "other",
   turns   |-> CASE kind = "commit"      -> Append(l.turns, [turn |-> t, response |-> t])
                 [] kind = "commit_bare" -> Append(l.turns, [turn |-> t, response |-> None])
                 [] OTHER                -> l.turns,
   pending |-> kind = "compact" \/ (l.pending /\ kind \notin MainCommits),
   intact  |-> l.intact /\ l.newline,
   newline |-> FALSE]

(* Mutant: branch.json is written before the event. *)
WriteBranchFirst(p) ==
  /\ At(p, "event")
  /\ branch' = [branch EXCEPT ![op[p].branch] = op[p].contents]
  /\ Goto(p, "newline")
  /\ UNCHANGED <<session, ledger, minted, generation, turn, faults>>

AppendEvent(p) ==
  LET o == op[p] IN
  /\ At(p, "event")
  /\ ledger' = [ledger EXCEPT ![o.branch] = Appended(@, o.kind, o.turn)]
  /\ Goto(p, "newline")
  /\ UNCHANGED <<session, branch, minted, generation, turn, faults>>

AppendNewline(p) ==
  /\ At(p, "newline")
  /\ ledger' = [ledger EXCEPT ![op[p].branch].newline = TRUE]
  /\ Goto(p, IF op[p].kind = "create" THEN "sparse" ELSE "branch")
  /\ UNCHANGED <<session, branch, minted, generation, turn, faults>>

(* write_sparse_checkpoint_unlocked: nothing ever reads the file.             *)
WriteSparseCheckpoint(p) ==
  /\ At(p, "sparse")
  /\ Goto(p, IF op[p].kind = "create" THEN "list" ELSE "return")
  /\ UNCHANGED <<disk, turn, faults>>

ListBranch(p) ==
  /\ At(p, "list")
  /\ session' = op[p].ids
  /\ Goto(p, "return")
  /\ UNCHANGED <<branch, ledger, minted, generation, turn, faults>>

--------------------------------------------------------------------------------
(* A write fails (no space, no permission): the rest is skipped and the       *)
(* caller gets the error.  Only the event can leave something behind, the     *)
(* first part of its line: it is serialised straight into the file, in many   *)
(* small writes.                                                              *)
Torn(l) == [l EXCEPT !.intact = FALSE, !.newline = FALSE]

WriteFails(p) ==
  /\ faults < MaxFaults
  /\ Inside(p)
  /\ op[p].step \notin {"load", "return"}
  /\ Fail(p)
  /\ \/ ledger' = ledger
     \/ op[p].step = "event" /\ ledger' = [ledger EXCEPT ![op[p].branch] = Torn(@)]
  /\ faults' = faults + 1
  /\ UNCHANGED <<session, branch, minted, generation, turn>>

(* The process dies with every turn it was running, an event half written;    *)
(* the kernel drops its flock.  It is started again and serves later turns.   *)
Running(t, p) ==
  /\ Home[t] = p
  /\ turn[t].stage \in {"unmatched"} \cup Ready

Crash(p) ==
  /\ faults < MaxFaults
  /\ \E t \in Turn : Running(t, p)
  /\ op' = [op EXCEPT ![p] = Idle]
  /\ turn' = [t \in Turn |-> IF Running(t, p) THEN [turn[t] EXCEPT !.stage = "dead"] ELSE turn[t]]
  /\ faults' = faults + 1
  /\ \/ ledger' = ledger
     \/ At(p, "event") /\ ledger' = [ledger EXCEPT ![op[p].branch] = Torn(@)]
  /\ UNCHANGED <<session, branch, minted, generation>>

--------------------------------------------------------------------------------
Find(p, t)    == FindBranch(p, t) \/ FindNothing(p, t)
Request(p, t) == SelectOrCreateBranch(p, t) \/ CallOnBranch(p, t)

Load(p) ==
  \/ LoadSession(p)
  \/ SelectContinues(p) \/ SelectCreates(p) \/ SelectRefused(p)
  \/ LoadBranch(p) \/ LoadBranchMissing(p)

Write(p) ==
  \/ InitSession(p) \/ WriteBranch(p) \/ AppendEvent(p) \/ AppendNewline(p)
  \/ WriteSparseCheckpoint(p) \/ ListBranch(p)

Proceed(p) == Lock(p) \/ Load(p) \/ Quarantine(p) \/ Write(p) \/ Return(p)

Next ==
  \E p \in Proc :
    \/ \E t \in Turn : Find(p, t) \/ Request(p, t)
    \/ Proceed(p)
    \/ WriteFails(p)
    \/ Crash(p)

Spec == Init /\ [][Next]_vars

(* An operation that was called goes on by itself: file operations return,    *)
(* and the flock is granted when it is free.  Nobody has to make a request.   *)
Fairness == \A p \in Proc : WF_vars(Proceed(p))
FairSpec == Spec /\ Fairness

--------------------------------------------------------------------------------
(* Type invariant. *)
TypeOK ==
  /\ session \in (SUBSET Branch) \cup {None}
  /\ branch \in [Branch -> BranchFile \cup {None}]
  /\ ledger \in [Branch -> Ledger]
  /\ minted \subseteq Branch
  /\ generation \in Nat
  /\ op \in [Proc -> Operation \cup {Idle}]
  /\ turn \in [Turn -> TurnState]
  /\ faults \in Nat

(* The lock excludes: no two processes are inside an operation on the         *)
(* session.                                                                   *)
OneInside == \A p, q \in Proc : Inside(p) /\ Inside(q) => p = q

(* Branches are never forgotten: a branch that reached session.json stays     *)
(* listed, whatever other process writes the file (last writer wins).         *)
ListedForEver == [][session # None => session' # None /\ session \subseteq session']_vars

(* Each operation owns some fields of branch.json and rewrites all of them: a *)
(* turn that is committed never brings back an offshoot checkpoint that was   *)
(* replaced since, an offshoot never an older main checkpoint, and a          *)
(* selection neither.                                                         *)
NoLostUpdate ==
  [][\A b \in Branch : branch[b] # None /\ branch'[b] # None =>
       /\ branch'[b].offshoot # branch[b].offshoot =>
            \E t \in Turn : branch'[b].offshoot = t /\ turn[t].stage \in Ready
       /\ branch'[b].lastTurn # branch[b].lastTurn =>
            \E t \in Turn : branch'[b].lastTurn = t /\ turn[t].stage \in Ready]_vars

(* As long as no process crashed and no write failed, whoever gets the lock   *)
(* finds a session in which every listed branch passes validation.            *)
ConsistentBetweenOperations ==
  faults = 0 /\ (\A p \in Proc : ~Inside(p)) => Loads

(* session.json is written last: whatever crashes or fails, a branch it lists *)
(* has its branch.json, and a ledger that begins with the line of its         *)
(* creation.  The handler, which reads without the lock, relies on it.        *)
ListedIsComplete ==
  \A b \in Listed : branch[b] # None /\ ledger[b].first = "branch_created"

(* A session in which every write succeeded is never quarantined, however its *)
(* turns overlap.                                                             *)
QuarantineNeedsFault == faults = 0 => generation = 0

(* docs/reference/configuration/logs-and-state.md:90: the opt-in mode "will   *)
(* instead quarantine the bad state and start that session fresh": what is    *)
(* moved away is corrupt.                                                     *)
QuarantineOnlyCorrupt == [][generation' # generation => ~Loads]_vars

(* Under quarantine_and_reset a session recovers by itself: one crash or one  *)
(* failed write never makes a selection fail on what it finds, unless another *)
(* process is at work in the directory at that moment.  The rename takes the  *)
(* lock along, so one may be: it works in the directory that replaced the     *)
(* quarantined one, and its files contradict each other while it writes.  A   *)
(* second quarantine, of what looked corrupt because of that, can leave two   *)
(* other processes in one directory, each with a lock of its own, and what    *)
(* they leave behind makes the selection that is tried again fail.            *)
QuarantineRecovers ==
  [][\A p \in Proc :
       /\ At(p, "load") /\ op[p].kind = "select" /\ op'[p].step = "return"
       /\ \A q \in Proc \ {p} : ~Inside(q)
       => faults > 1 \/ generation > 1]_vars

(* Every operation that was called returns to its caller (or its process      *)
(* dies).                                                                     *)
EveryCallReturns == \A p \in Proc : Busy(p) ~> ~Busy(p)

(* The abstract commit log: what the ledgers hold, the checkpoints, who was   *)
(* told, and what was handed out.                                             *)
HeadOf(b) == IF branch[b] = None THEN None ELSE branch[b].checkpoint
Handed(t) ==
  IF turn[t].branch = None THEN [branch |-> None, checkpoint |-> None]
  ELSE [branch |-> turn[t].branch, checkpoint |-> turn[t].checkpoint]

Promise == INSTANCE CommitLog WITH
  log    <- [b \in Branch |-> ledger[b].turns],
  head   <- [b \in Branch |-> HeadOf(b)],
  acked  <- {t \in Turn : turn[t].stage = "committed"},
  handed <- [t \in Turn |-> Handed(t)]

(* Under fail_closed the store keeps the promise of CommitLog through crashes *)
(* and failed writes, although turns read it without the lock: a commit that  *)
(* was reported is in the ledger for good, and a turn is never handed a       *)
(* checkpoint older than one that was reported before.                        *)
ImplementsCommitLog == Promise!Spec

(* docs/runbooks/troubleshooting.md:39: after a crash "with the default       *)
(* fail_closed corruption policy, the gateway refuses to continue that        *)
(* specific session rather than guess at its state": no turn is handed a      *)
(* branch whose files contradict each other while nobody is writing them.     *)
CorruptBranchRefused ==
  [][\A t \in Turn :
       turn'[t].branch # turn[t].branch /\ (\A p \in Proc : ~Inside(p)) =>
         Valid(turn'[t].branch)]_vars
===============================================================================

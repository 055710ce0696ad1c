---------------------------- MODULE BranchSelection ----------------------------
(***************************************************************************)
(* What a request to /v1/messages sends to the backend: the branch of its  *)
(* Claude session it belongs to, and the choice between the whole          *)
(* transcript and a delta on top of a stored response, as                  *)
(* gateway-http-anthropic/src/lib.rs makes it.                             *)
(*                                                                         *)
(* The client sends its whole transcript with every request.  The handler  *)
(* compares it with the snapshots the session's branches hold, one per     *)
(* conversation tab, and looks for a response that was asked with exactly  *)
(* a prefix of it.  Requests overlap: the branches are read without a lock   *)
(* when a request is analysed, and used when it is prepared, sent and      *)
(* committed.                                                              *)
(*                                                                         *)
(* SHA-256 is taken to be injective.  A drift of the request's             *)
(* compatibility fingerprint changes only the logged reason and is left    *)
(* out, as are the branches that cannot be read (ConversationStore has     *)
(* them) and the lease's other outcomes (MessageTurn has them).            *)
(***************************************************************************)
EXTENDS Naturals, Sequences, FiniteSets

CONSTANTS
  Slot,         (* requests in flight at once                                   *)
  Model,        (* resolved backend models                                      *)
  Envelope,     (* what a request says besides its messages (see Envelopes)     *)
  Word,         (* what the text of a message can be                            *)
  Addition,     (* what the user can add to a transcript: sequences of messages *)
  None,         (* an absent value                                              *)
  MaxRequests,  (* bound: requests of the session                               *)
  MaxLength     (* bound: messages in a transcript                              *)

VARIABLES
  transcript,  (* the conversation as the client shows it                        *)
  requests,    (* requests sent so far                                           *)
  request,     (* what each slot's client sent, or None                          *)
  snapshot,    (* the branches as the slot's handler read them                   *)
  plan,        (* PreparedConversationBranch, or None                            *)
  sent,        (* SelectedTransport and the rendered input, or None              *)
  branches,    (* the session's branch.json files, in the order session.json has *)
  responses,   (* every response the backend stores                              *)
  proven,      (* responses associated with the chain now live for their key     *)
  clock        (* now_unix_seconds                                               *)

clientVars == <<transcript, requests, request>>
sideVars   == <<responses, proven>>
vars == <<clientVars, snapshot, plan, sent, branches, sideVars, clock>>

--------------------------------------------------------------------------------
(* Messages.  Text "" stands for text that is blank or absent; tool says that *)
(* the message holds blocks other than text; cached is Claude Code's          *)
(* cache_control marker, which moves to the last message of each request.     *)
Message == [role : {"user", "assistant", "system"}, text : Word, tool : BOOLEAN, cached : BOOLEAN]
Say(role, text) == [role |-> role, text |-> text, tool |-> FALSE, cached |-> FALSE]
ToolResult == [role |-> "user", text |-> "", tool |-> TRUE, cached |-> FALSE]
Answer     == Say("assistant", "answer")
Probe      == Say("user", "probe")      (* the question of an offshoot               *)
Compact    == Say("user", "/compact")
Summary    == Say("user", "summary")    (* what /compact leaves of a conversation    *)

HasText(m)      == m.text # ""
IsSystem(m)     == m.role = "system"
IsAssistant(m)  == m.role = "assistant"
LastOf(s)       == s[Len(s)]
Prefix(s, n)    == SubSeq(s, 1, IF n < Len(s) THEN n ELSE Len(s))

(* The elements of s at the positions I, in their order: SelectSeq in a form  *)
(* that can be reasoned about.                                                *)
Chosen(s, I) ==
  LET kept[n \in 0 .. Len(s)] ==
        IF n = 0 THEN <<>>
        ELSE IF n \in I THEN Append(kept[n - 1], s[n])
        ELSE kept[n - 1]
  IN kept[Len(s)]

(* durable_canonical_message *)
IsDurable(m)      == ~IsSystem(m) /\ (HasText(m) \/ m.tool)
Durable(messages) == Chosen(messages, {i \in DOMAIN messages : IsDurable(messages[i])})

(* canonical_message_value: cache markers do not count. *)
Canonical(messages) == [i \in DOMAIN messages |-> [messages[i] EXCEPT !.cached = FALSE]]

(* classify_canonical_messages: each turn-level system message, with the     *)
(* number of durable messages before it.                                     *)
Operational(messages) ==
  LET placed(i) == [message |-> messages[i], before |-> Len(Durable(Prefix(messages, i)))]
      all       == [i \in DOMAIN messages |-> placed(i)]
  IN Chosen(all, {i \in DOMAIN messages : IsSystem(messages[i])})

(* render_messages_with_operational_context *)
Render(durable, operational, start) ==
  LET later == Chosen(operational, {i \in DOMAIN operational : operational[i].before >= start})
  IN durable \o [i \in DOMAIN later |-> later[i].message]

--------------------------------------------------------------------------------
(* Classification. *)
Envelopes == [readOnly : BOOLEAN, subagent : BOOLEAN, decision : BOOLEAN, structured : BOOLEAN,
              sdk : BOOLEAN, stream : BOOLEAN]

(* is_approved_full_bootstrap_reason, and the reason that is not.             *)
Approved == {"missing_checkpoint", "missing_chain", "mismatching_chain", "model_drift",
             "compaction_reset", "no_prefix_match", "zero_delta_start"}
Reason   == Approved \cup {"uncheckpointed_snapshot_head"}

(* What is kept: branch.json, PreparedConversationBranch, SelectedTransport.  *)
Text        == [role : {"user", "assistant", "system"}, text : Word]
Fingerprint == [lastUser : Word \cup {None}, tail : Seq(Text) \cup {None},
                summary : Seq(Text) \cup {None}]
Checkpoint  == [response : Nat, model : Model]
Turn        == [prefix : Seq(Message), response : Nat, model : Model]
Branch      == [active : Seq(Message), fp : Fingerprint, head : Checkpoint \cup {None},
                turns : SUBSET Turn, pending : BOOLEAN, apart : BOOLEAN, updated : Nat]
Note        == [message : Message, before : Nat]
Request     == [messages : Seq(Message), envelope : Envelope, model : Model]
Plan        == [id : Nat, branch : Branch, active : Seq(Message), main : BOOLEAN,
                operational : Seq(Note), start : Nat, zero : BOOLEAN, fp : Fingerprint]
Transport   == [previous : Nat \cup {None}, why : Reason \cup {None}, live : BOOLEAN,
                input : Seq(Message)]
Item        == [message : Message, output : BOOLEAN]
Response    == [context : Seq(Item), branch : Nat, model : Model]

ASSUME SelectionNoneAssumption ==
  None \notin Nat \cup Word \cup Reason \cup Checkpoint \cup Request \cup Plan \cup Transport
ASSUME WordAssumption     == {"", "probe", "answer", "/compact", "summary"} \subseteq Word
ASSUME EnvelopeAssumption == Envelope \subseteq Envelopes
ASSUME AdditionAssumption == \A a \in Addition : a \in Seq(Message) /\ a # <<>>
ASSUME SlotAssumption     == IsFiniteSet(Slot)
ASSUME SelectionBounds    == MaxRequests \in Nat /\ MaxLength \in Nat

(* A question with no conversation before it. *)
IsShort(messages)   == Len(messages) <= 2
IsOpening(messages) == IsShort(messages) /\ \A i \in DOMAIN messages : ~IsAssistant(messages[i])

(* classify_conversation_request.  decision: a <transcript> with a permission *)
(* question; structured: output_config; sdk: the agent SDK's or the skills    *)
(* preamble.                                                                  *)
RequestKind(e, messages) ==
  IF e.readOnly THEN "local_control"
  ELSE IF e.subagent THEN "subagent_offshoot"
  ELSE IF e.decision /\ ~e.stream /\ IsOpening(messages) THEN "permission_classifier"
  ELSE IF e.structured /\ ~e.stream /\ IsOpening(messages) THEN "hook_evaluator"
  ELSE IF e.sdk /\ IsShort(messages) THEN "unknown_offshoot"
  ELSE "visible_main"

(* branch_fingerprints_from_messages_with_compaction_prefix: the last user    *)
(* text, the last four texts, and for a compaction the texts it summarises:   *)
(* as many as the matched snapshot has messages, or all.                      *)
Fingerprints(messages, compaction, count) ==
  LET said == [i \in DOMAIN messages |-> [role |-> messages[i].role, text |-> messages[i].text]]
      texts == Chosen(said, {i \in DOMAIN messages : HasText(messages[i])})
      users == Chosen(texts, {i \in DOMAIN texts : texts[i].role = "user"})
      tail  == SubSeq(texts, IF Len(texts) > 4 THEN Len(texts) - 3 ELSE 1, Len(texts))
      known == IF count = None THEN texts ELSE Prefix(texts, count)
  IN [lastUser |-> IF users = <<>> THEN None ELSE LastOf(users).text,
      tail     |-> IF tail = <<>> THEN None ELSE tail,
      summary  |-> IF ~compaction \/ known = <<>> THEN None ELSE known]

--------------------------------------------------------------------------------
(* Branches.  head is openai_checkpoint; turns are turn_openai_checkpoints,   *)
(* of which one prefix has at most one.  apart, which no file holds, says     *)
(* that a snapshot of the branch was once replaced without its checkpoint, or *)
(* a delta sent for a transcript that continues no snapshot: from then on a   *)
(* checkpoint of it need not be of the transcript it is stored with.          *)
NewBranch(active, fp) ==
  [active |-> active, fp |-> fp, head |-> None, turns |-> {}, pending |-> FALSE,
   apart |-> FALSE, updated |-> clock]

(* max_by_key on updated_at_unix_seconds: the last of those that tie. *)
Newest(bs, I) ==
  CHOOSE i \in I : \A j \in I : bs[j].updated < bs[i].updated
                                \/ (bs[j].updated = bs[i].updated /\ j <= i)

(* Mutant: a snapshot is a prefix only if the cache markers agree as well. *)
StoredIsPrefixVerbatim(stored, messages) ==
  /\ stored # <<>>
  /\ Len(stored) <= Len(messages)
  /\ stored = Prefix(messages, Len(stored))

(* stored_messages_are_prefix *)
StoredIsPrefix(stored, messages) ==
  /\ stored # <<>>
  /\ Len(stored) <= Len(messages)
  /\ Canonical(stored) = Canonical(Prefix(messages, Len(stored)))

(* best_prefix_matched_branch *)
PrefixMatches(bs, messages) == {i \in DOMAIN bs : StoredIsPrefix(bs[i].active, messages)}
BestPrefix(bs, messages) ==
  LET I       == PrefixMatches(bs, messages)
      longest == {i \in I : \A j \in I : Len(bs[j].active) <= Len(bs[i].active)}
  IN IF I = {} THEN None ELSE Newest(bs, longest)

(* latest_checkpoint_branch, latest_branch *)
WithHead(bs) == {i \in DOMAIN bs : bs[i].head # None}
LatestContext(bs) == IF WithHead(bs) = {} THEN None ELSE Newest(bs, WithHead(bs))

(* durable_branch_match, and the latest branch as the last resort             *)
(* (ambiguous_rebaseline_latest_branch); bs is not empty.                     *)
DurableMatch(bs, messages, compact) ==
  LET best   == BestPrefix(bs, messages)
      latest == LatestContext(bs)
      found(i, start) == [branch |-> i, start |-> start]
  IN IF best # None THEN found(best, Len(bs[best].active))
     ELSE IF latest = None THEN found(Newest(bs, DOMAIN bs), 0)
     ELSE found(latest, IF compact = "command" THEN Len(bs[latest].active) ELSE 0)

(* select_or_create_branch: the one branch whose fingerprints equal the       *)
(* request's, else a new one, which starts from the one branch with the same  *)
(* last user text.                                                            *)
Continued(b, messages, fp) ==
  [b EXCEPT !.active = messages, !.fp = fp, !.apart = @ \/ Canonical(messages) # Canonical(b.active)]

SameText(x, y)  == x # None /\ x = y
Exact(f, g)     == SameText(f.lastUser, g.lastUser) /\ SameText(f.tail, g.tail)
Ancestor(f, g)  == SameText(f.lastUser, g.lastUser) /\ f.tail # g.tail
Selected(bs, messages, fp) ==
  LET exact     == {i \in DOMAIN bs : Exact(bs[i].fp, fp)}
      ancestors == {i \in DOMAIN bs : Ancestor(bs[i].fp, fp)}
      only(I)   == CHOOSE i \in I : TRUE
      created(active, known) ==
        [bs |-> Append(bs, NewBranch(active, fp)), branch |-> Len(bs) + 1, known |-> known]
  IN IF Cardinality(exact) = 1
     THEN [bs |-> [bs EXCEPT ![only(exact)] = Continued(@, messages, fp)],
           branch |-> only(exact), known |-> bs[only(exact)].fp.summary]
     ELSE IF exact = {} /\ Cardinality(ancestors) = 1
     THEN created(bs[only(ancestors)].active, bs[only(ancestors)].fp.summary)
     ELSE created(messages, None)

(* Mutant: a branch that was compacted before is left as it is. *)
MustCompactOnce(compact, known, fp) == compact = "command" /\ known = None

(* apply_compaction_if_needed: not when the summary known is the same one.    *)
MustCompact(compact, known, fp) ==
  compact = "command" /\ (fp.summary = None \/ known # fp.summary)
Compacted(b, fp) == [b EXCEPT !.fp = fp, !.pending = TRUE, !.updated = clock]

--------------------------------------------------------------------------------
Init ==
  /\ transcript = <<>>
  /\ requests   = 0
  /\ request    = [q \in Slot |-> None]
  /\ snapshot   = [q \in Slot |-> <<>>]
  /\ plan       = [q \in Slot |-> None]
  /\ sent       = [q \in Slot |-> None]
  /\ branches   = <<>>
  /\ responses  = <<>>
  /\ proven     = {}
  /\ clock      = 0

--------------------------------------------------------------------------------
(* The client. *)

(* The visible conversation goes on, is sent again, or is rewound to an       *)
(* earlier request or to the answer before one.                               *)
Speaking(messages) == messages = <<>> \/ IsAssistant(LastOf(messages)) \/ LastOf(messages) = Summary
NextTranscripts ==
  LET earlier == {Prefix(transcript, n) : n \in 0 .. Len(transcript)}
      follows(a, m) == a = <<ToolResult>> => m # <<>> /\ IsAssistant(LastOf(m))
  IN (UNION {{m \o a : a \in {x \in Addition : follows(x, m)}}
               : m \in {e \in earlier : Speaking(e)}})
     \cup {e \in earlier : ~Speaking(e)}

(* compaction_context_for_request: the command itself, or a transcript that   *)
(* records one.                                                               *)
CompactionOf(messages) ==
  IF LastOf(messages) = Compact THEN "command"
  ELSE IF Summary \in {messages[i] : i \in DOMAIN messages} THEN "history"
  ELSE "none"

(* Claude Code marks the end of what it sends as cacheable. *)
Marked(messages) == [messages EXCEPT ![Len(messages)].cached = TRUE]

Sends(q, messages, e, model) ==
  /\ request[q] = None
  /\ requests < MaxRequests
  /\ Len(messages) <= MaxLength
  /\ requests' = requests + 1
  /\ request'  = [request EXCEPT ![q] =
                    [messages |-> Marked(messages), envelope |-> e, model |-> model]]
  /\ snapshot' = [snapshot EXCEPT ![q] = branches]     (* load_existing_branches_for_session *)
  /\ UNCHANGED <<plan, sent, branches, sideVars, clock>>

ConversationArrives(q) ==
  \E messages \in NextTranscripts, e \in Envelope, model \in Model :
    /\ RequestKind(e, Durable(messages)) = "visible_main"
    /\ Sends(q, messages, e, model)
    /\ transcript' = messages

(* A question of Claude Code's own, with the conversation or without.         *)
OffshootArrives(q) ==
  \E messages \in {<<Probe>>, Append(transcript, Probe)}, e \in Envelope, model \in Model :
    /\ RequestKind(e, Durable(messages)) # "visible_main"
    /\ Sends(q, messages, e, model)
    /\ UNCHANGED transcript

Reject(q) ==
  /\ request'  = [request EXCEPT ![q] = None]
  /\ snapshot' = [snapshot EXCEPT ![q] = <<>>]
  /\ plan'     = [plan EXCEPT ![q] = None]
  /\ sent'     = [sent EXCEPT ![q] = None]

--------------------------------------------------------------------------------
(* prepare_conversation_branch.  What is committed and matched later is the   *)
(* durable part of the transcript.                                            *)
Arrived(q)  == request[q] # None /\ plan[q] = None
Prepared(q) == plan[q] # None /\ sent[q] = None
InFlight(q) == sent[q] # None

MessagesOf(q) == Durable(request[q].messages)
KindOf(q)     == RequestKind(request[q].envelope, MessagesOf(q))
CompactOf(q)  == CompactionOf(Canonical(request[q].messages))
NoBranchMatches(q) == PrefixMatches(snapshot[q], MessagesOf(q)) = {}

NoBranch(q)   == snapshot[q] = <<>>

(* A /compact that continues no snapshot: if its summary is the known one, it *)
(* is taken for a repetition, and what the latest branch holds for its start. *)
Rebaselined(q) == CompactOf(q) = "command" /\ NoBranchMatches(q)

(* The fingerprints of q: only a snapshot that is a prefix bounds what a      *)
(* compaction summarises.                                                     *)
FingerprintsOf(q) ==
  LET best == BestPrefix(snapshot[q], MessagesOf(q)) IN
  Fingerprints(MessagesOf(q), CompactOf(q) = "command",
               IF best = None THEN None ELSE Len(snapshot[q][best].active))

Planned(q, i, branch, start, zero, main) ==
  plan' = [plan EXCEPT ![q] =
            [id |-> i, branch |-> branch, active |-> MessagesOf(q), main |-> main,
             operational |-> Operational(request[q].messages), start |-> start,
             zero |-> zero, fp |-> FingerprintsOf(q)]]

(* prepare_reconciled_durable_branch: the branch is the one read before, or   *)
(* the one the compaction returned.                                           *)
PrepareMatched(q) ==
  LET match == DurableMatch(snapshot[q], MessagesOf(q), CompactOf(q))
      i     == match.branch
      fp    == FingerprintsOf(q)
      reset == MustCompact(CompactOf(q), snapshot[q][i].fp.summary, fp)
  IN /\ Arrived(q)
     /\ KindOf(q) = "visible_main"
     /\ ~NoBranch(q)
     /\ branches' = IF reset THEN [branches EXCEPT ![i] = Compacted(@, fp)] ELSE branches
     /\ Planned(q, i, IF reset THEN branches'[i] ELSE snapshot[q][i],
                match.start, CompactOf(q) = "history", TRUE)
     /\ UNCHANGED <<clientVars, snapshot, sent, sideVars, clock>>

(* prepare_initial_durable_branch *)
PrepareInitial(q) ==
  LET fp        == FingerprintsOf(q)
      selection == Selected(branches, MessagesOf(q), fp)
      i         == selection.branch
      reset     == MustCompact(CompactOf(q), selection.known, fp)
  IN /\ Arrived(q)
     /\ KindOf(q) = "visible_main"
     /\ NoBranch(q)
     /\ branches' = IF reset THEN [selection.bs EXCEPT ![i] = Compacted(@, fp)] ELSE selection.bs
     /\ Planned(q, i, branches'[i], 0, FALSE, TRUE)
     /\ UNCHANGED <<clientVars, snapshot, sent, sideVars, clock>>

(* prepare_transient_from_latest_context, borrowed_context_delta_start_index; *)
(* the read-only inclusion never gets as far as prepare_side_from_latest_     *)
(* context, because its kind is not visible either.                           *)
PrepareTransient(q) ==
  LET i      == LatestContext(snapshot[q])
      stored == snapshot[q][i].active
  IN /\ Arrived(q)
     /\ KindOf(q) # "visible_main"
     /\ i # None
     /\ Planned(q, i, snapshot[q][i],
                IF StoredIsPrefix(stored, MessagesOf(q)) THEN Len(stored) ELSE 0, FALSE, FALSE)
     /\ UNCHANGED <<clientVars, snapshot, sent, branches, sideVars, clock>>

(* reject_missing_conversation_branch *)
RejectMissing(q) ==
  /\ Arrived(q)
  /\ KindOf(q) # "visible_main"
  /\ LatestContext(snapshot[q]) = None
  /\ Reject(q)
  /\ UNCHANGED <<transcript, requests, branches, sideVars, clock>>

--------------------------------------------------------------------------------
(* select_message_transport. *)

(* find_turn_openai_checkpoint *)
TurnCheckpoints(p, model) ==
  {t \in p.branch.turns : t.prefix = Canonical(Prefix(p.active, p.start)) /\ t.model = model}
FromTurn(p, model) == p.main /\ p.start > 0 /\ TurnCheckpoints(p, model) # {}

(* Mutant: the head is read again when the request is sent. *)
CheckpointNow(p, model) == branches[p.id].head

(* selected_checkpoint_for_transport *)
CheckpointFor(p, model) ==
  IF FromTurn(p, model)
  THEN LET t == CHOOSE t \in TurnCheckpoints(p, model) : TRUE
       IN [response |-> t.response, model |-> t.model]
  ELSE p.branch.head

Delta(p) == Render(SubSeq(p.active, p.start + 1, Len(p.active)), p.operational, p.start)
Whole(p) == Render(p.active, p.operational, p.start)

(* select_transport: why the whole transcript is sent, or None for a delta.   *)
FullReason(p, model, chain) ==
  LET c == CheckpointFor(p, model) IN
  IF c = None THEN "missing_checkpoint"
  ELSE IF c.model # model THEN "model_drift"
  ELSE IF chain # "matching" THEN chain
  ELSE IF ~p.main THEN None
  ELSE IF p.branch.pending THEN "compaction_reset"
  ELSE IF ~FromTurn(p, model) /\ p.active # <<>> /\ Delta(p) = <<>>
       THEN "uncheckpointed_snapshot_head"
  ELSE IF p.start = 0 THEN IF p.zero THEN "zero_delta_start" ELSE "no_prefix_match"
  ELSE None

(* websocket_chain_decision_for_branch *)
ChainDecisions(c) ==
  IF c # None /\ c.response \in proven THEN {"matching"} ELSE {"missing_chain", "mismatching_chain"}

(* acquire_visible_main_lease: one visible turn of a branch and model.        *)
LeaseBusy(q) ==
  \E p \in Slot : /\ InFlight(p)
                  /\ plan[p].main /\ plan[q].main
                  /\ plan[p].id = plan[q].id
                  /\ request[p].model = request[q].model

SendToBackend(q) ==
  /\ Prepared(q)
  /\ ~LeaseBusy(q)
  /\ LET p     == plan[q]
         model == request[q].model
         c     == CheckpointFor(p, model)
     IN \E chain \in ChainDecisions(c) :
          LET why == FullReason(p, model, chain) IN
          /\ why \in Approved \cup {None}
          /\ sent' = [sent EXCEPT ![q] =
                        [previous |-> IF why = None THEN c.response ELSE None,
                         why      |-> why,
                         live     |-> TRUE,
                         input    |-> IF why = None THEN Delta(p) ELSE Whole(p)]]
  /\ UNCHANGED <<clientVars, snapshot, plan, branches, sideVars, clock>>

(* validate_previous_response_contract, or the lease is busy. *)
RefuseTransport(q) ==
  /\ Prepared(q)
  /\ \/ LeaseBusy(q)
     \/ \E chain \in ChainDecisions(CheckpointFor(plan[q], request[q].model)) :
          FullReason(plan[q], request[q].model, chain) \notin Approved \cup {None}
  /\ Reject(q)
  /\ UNCHANGED <<transcript, requests, branches, sideVars, clock>>

--------------------------------------------------------------------------------
(* The backend.  A stored response holds what it was made from and its own    *)
(* output, and a request that names it is answered on top of both.            *)

(* translate_messages_to_backend_items.  System messages are no items: they   *)
(* become the instructions of the one request they are sent with.             *)
Items(messages) ==
  LET said == Canonical(Durable(messages))
  IN [i \in DOMAIN said |-> [message |-> said[i], output |-> FALSE]]

Output == [message |-> Answer, output |-> TRUE]

(* What the backend answers to: the response that is continued, and the input. *)
Heard(q) ==
  (IF sent[q].previous = None THEN <<>> ELSE responses[sent[q].previous].context)
    \o Items(sent[q].input)

Produced(q) ==
  [context |-> Append(Heard(q), Output), branch |-> plan[q].id, model |-> request[q].model]

(* The messages of a context that are the gateway's.                          *)
Told(context) ==
  LET told == Chosen(context, {i \in DOMAIN context : ~context[i].output})
  IN [i \in DOMAIN told |-> told[i].message]

(* Mutant: no per-turn checkpoint is recorded. *)
CommittedTurnHeadOnly(b, q, response) ==
  [b EXCEPT !.fp = plan[q].fp, !.active = plan[q].active, !.updated = clock, !.pending = FALSE,
            !.head = [response |-> response, model |-> request[q].model]]

(* commit_turn: everything the request was prepared with replaces what the    *)
(* branch holds, whatever was committed meanwhile.                            *)
CommittedTurn(b, q, response) ==
  LET p     == plan[q]
      model == request[q].model
      seen  == Canonical(p.active)
      head  == [response |-> response, model |-> model]
      turn  == [prefix |-> seen, response |-> response, model |-> model]
  IN [b EXCEPT !.fp = p.fp, !.active = p.active, !.updated = clock, !.pending = FALSE,
               !.head = head, !.turns = {t \in @ : t.prefix # seen} \cup {turn},
               !.apart = @ \/ (Rebaselined(q) /\ sent[q].previous # None)]

BareTurn(b, q) ==
  [b EXCEPT !.fp = plan[q].fp, !.active = plan[q].active, !.updated = clock, !.apart = TRUE]

(* What the client shows once it has the answer. *)
Shown(q) ==
  IF CompactOf(q) = "command" THEN <<Summary>>
  ELSE Append(Canonical(request[q].messages), Answer)

Later(t) == t \in {clock, clock + 1}

CommitTurn(q) ==
  /\ InFlight(q)
  /\ plan[q].main
  /\ LET i == plan[q].id
         r == Len(responses) + 1
     IN \/ /\ branches'  = [branches EXCEPT ![i] = CommittedTurn(@, q, r)]
           /\ responses' = Append(responses, Produced(q))
           /\ proven'    = proven \cup (IF sent[q].live THEN {r} ELSE {})
        \/ /\ branches' = [branches EXCEPT ![i] = BareTurn(@, q)]
           /\ UNCHANGED sideVars
  /\ transcript' = Shown(q)
  /\ Later(clock')
  /\ Reject(q)
  /\ UNCHANGED requests

(* commit_offshoot_openai_checkpoint: its response is stored under the        *)
(* offshoot's identity, where nothing looks for it.                           *)
CommitOffshoot(q) ==
  /\ InFlight(q)
  /\ ~plan[q].main
  /\ branches' = [branches EXCEPT ![plan[q].id].updated = clock]
  /\ Later(clock')
  /\ Reject(q)
  /\ UNCHANGED <<transcript, requests, sideVars>>

(* The answer fails, or the client leaves before it is complete. *)
TurnFails(q) ==
  /\ InFlight(q)
  /\ Reject(q)
  /\ UNCHANGED <<transcript, requests, branches, sideVars, clock>>

(* A WebSocket closes, or the gateway restarts: responses can be continued    *)
(* only on the chain that produced them.                                      *)
ChainLost ==
  \E i \in DOMAIN branches, model \in Model :
    LET lost    == {r \in proven : responses[r].branch = i /\ responses[r].model = model}
        cut(q)  == InFlight(q) /\ plan[q].id = i /\ request[q].model = model
    IN /\ lost # {}
       /\ proven' = proven \ lost
       /\ sent' = [q \in Slot |-> IF cut(q) THEN [sent[q] EXCEPT !.live = FALSE] ELSE sent[q]]
       /\ UNCHANGED <<clientVars, snapshot, plan, branches, responses, clock>>

Quiet ==
  /\ requests = MaxRequests
  /\ \A q \in Slot : request[q] = None
  /\ UNCHANGED vars

Next ==
  \/ \E q \in Slot :
       \/ ConversationArrives(q) \/ OffshootArrives(q)
       \/ PrepareMatched(q) \/ PrepareInitial(q) \/ PrepareTransient(q) \/ RejectMissing(q)
       \/ SendToBackend(q) \/ RefuseTransport(q)
       \/ CommitTurn(q) \/ CommitOffshoot(q) \/ TurnFails(q)
  \/ ChainLost
  \/ Quiet

Spec == Init /\ [][Next]_vars

--------------------------------------------------------------------------------
(* Every variable has its type: what is read back from a branch or a plan is  *)
(* complete.                                                                  *)
TypeOK ==
  /\ transcript \in Seq(Message)
  /\ requests \in Nat
  /\ request \in [Slot -> Request \cup {None}]
  /\ snapshot \in [Slot -> Seq(Branch)]
  /\ plan \in [Slot -> Plan \cup {None}]
  /\ sent \in [Slot -> Transport \cup {None}]
  /\ branches \in Seq(Branch)
  /\ responses \in Seq(Response)
  /\ proven \in SUBSET Nat
  /\ clock \in Nat

(* What the gateway has told the backend along the chain that a delta         *)
(* continues, the delta included, is the transcript: no message of it is lost *)
(* and none is sent twice, and the response was given by the same model       *)
(* (select_transport, commit_turn).  The outputs of the responses come on top *)
(* of that, and the transcript has the answers as messages of its own: what   *)
(* is committed with a response are the messages of its request, so a delta   *)
(* starts with the answer to them.  A branch whose snapshot moved on while    *)
(* its checkpoint stayed is excepted, as is a /compact that continues no      *)
(* snapshot (see CompactionStartsOver).                                       *)
DeltaCompletesContext ==
  \A q \in Slot :
    InFlight(q) /\ sent[q].previous # None /\ plan[q].main
    /\ ~plan[q].branch.apart /\ ~Rebaselined(q)
    => /\ Told(Heard(q)) = Canonical(plan[q].active)
       /\ responses[sent[q].previous].model = request[q].model

(* The contract on full requests refuses nothing that select_transport comes  *)
(* up with, whatever the client resends or rewinds, with the same exceptions: *)
(* such a request would fail each time it is retried.                         *)
ContractHolds ==
  \A q \in Slot :
    Prepared(q) /\ ~plan[q].branch.apart /\ ~Rebaselined(q)
    => \A chain \in ChainDecisions(CheckpointFor(plan[q], request[q].model)) :
         FullReason(plan[q], request[q].model, chain) \in Approved \cup {None}

(* Growing a conversation stays cheap: a request that extends what a branch   *)
(* holds, on the model and chain of the branch's head, sends only what is new *)
(* - a moved cache marker or another tab of the session do not make it        *)
(* replay the transcript.                                                     *)
Extends(messages, stored) == stored # <<>> /\ Prefix(messages, Len(stored)) = stored
Grows(q) ==
  \E i \in DOMAIN snapshot[q] :
    LET b == snapshot[q][i] IN
    /\ Extends(Canonical(plan[q].active), Canonical(b.active))
    /\ \A j \in DOMAIN snapshot[q] : j # i => Len(snapshot[q][j].active) < Len(b.active)
    /\ b.head # None /\ ~b.pending
    /\ b.head.model = request[q].model
    /\ \E t \in b.turns : t.response = b.head.response /\ t.prefix = Canonical(b.active)
    /\ b.head.response \in proven
GrowthContinues ==
  \A q \in Slot :
    Prepared(q) /\ plan[q].main /\ CompactOf(q) # "command" /\ Grows(q)
    => FullReason(plan[q], request[q].model, "matching") = None

(* A /compact that says something new starts a new chain: its summary is not  *)
(* computed on top of the context it is meant to replace                      *)
(* (apply_compaction_if_needed, compaction_reset_pending).                    *)
CompactionStartsOver ==
  \A q \in Slot :
    InFlight(q) /\ plan[q].main /\ CompactOf(q) = "command" /\ sent[q].previous # None
    => \E i \in DOMAIN snapshot[q] : Canonical(snapshot[q][i].active) = Canonical(plan[q].active)

(* Tabs do not explode: resending, rewinding, editing and compacting a        *)
(* conversation, and Claude Code's own questions, never add a branch; only    *)
(* requests that arrived while the session had none do                        *)
(* (prepare_visible_main_branch).                                             *)
FewTabs == Len(branches) <= Cardinality(Slot)
================================================================================

# cld-gateway in TLA+

cld-gateway is a daemon between Claude Code and the Codex backend. It receives
Anthropic `POST /v1/messages` requests, keeps the conversations of a Claude
session on disk, sends what is new of a conversation over pooled WebSockets and
translates the answer back while it arrives. The repository holds two programs
that do this. The models are of the Rust one, `old_rust/`, which
`docs/decisions/ADR-0012-rust-retained-until-parity-cutover.md` keeps as the daily
driver until the Go port takes over. Paths below are relative to the repository's root; `http`, `state`,
`codex` and `auth` stand for `old_rust/crates/gateway-http-anthropic/src`,
`gateway-state/src`, `gateway-backend-codex/src` and `gateway-auth-codex/src`.

This directory holds the modules, the TLC configurations that check them and the
theorems that TLAPS proves about them. `PROJECT.json` lists the runs, what each
definition models, the hazards of the code by line, and the theorems.

## Inventory

| Component | State it keeps | Operations | How it interacts | What makes it correct |
|---|---|---|---|---|
| Message turn (`http/lib.rs`) | a future per request | prepare, choose the transport, take the lease, send, relay, commit | calls every component below; dropped at any await when the client goes | a turn is committed once, while it holds its lease, and every lease comes back |
| Main-turn lease (`http/lib.rs`) | identity to lease, in memory | acquire, promote, validate, commit, release, `Drop` of the guard | one mutex, shared by all turns | one holder per identity; none stolen, none left behind |
| Branch selection and transport choice (`http/lib.rs`) | snapshot and checkpoints in each `branch.json`; responses associated with chains | classify, match prefixes, compact, delta or full, commit what was sent | reads branches without a lock, writes through the store | what was told along the chain of the response a delta names is, with the delta, the transcript |
| Conversation store (`state/conversation.rs`) | `session.json`, and per branch `branch.json`, ledger, sparse checkpoints | select or create, commit, offshoot, reconcile, compact, invalidate, clean up | a file lock per session, shared by processes; read without it by the turns | what was reported committed survives crashes; nothing another process wrote is lost |
| WebSocket pool (`codex/websocket_transport.rs`) | key to session; a task, a queue and a socket per session | attempt, recycle, evict, forward | callers and tasks talk over channels | a caller sees one response, its own |
| Codex events and the unary answer (`codex/sse_unary.rs`, ...) | what was collected | decode, collect | read by the bridge or by a unary request | both readers say the same and make the same calls, the null fields of their inputs aside |
| Stream bridge (`http/sse_bridge.rs`) | open blocks, tool calls, counters of one stream | a handler per event, finalize | writes tool-call records | a legal event stream, with the tool inputs the backend meant |
| Codex client (`codex/client.rs`) | none | send, retry after a 401 | asks authentication for tokens | the retry uses another token |
| Authentication (`auth/`) | `auth.json`, a lock and a cached refusal per process | load, refresh and persist, log out, revoke, log in | the file is shared by processes, unlocked | a spent token is never presented; a refused login is not tried again |
| Context management (`http/context_management.rs`) | none | edits by trigger, hard limits | rewrites a request's messages | only the oldest go; what was cleared stays cleared |
| Claude Code envelope (`http/claude_code_*.rs`) | none | cut, mark and promote slash commands | between context management and translation | exactly one command is current |
| Request translation, schema and response gates (`http/translate.rs`, `codex/schema_gate.rs`, `http/claude_response_gate.rs`) | none | items, instructions, strict schema, cleaned answer | reads the tool-call store | calls keep their results; an answer fits the schema that was asked for, unless an object hides in an alternative or a definition of it |
| Translated commands (`http/translate_executor.rs`) | none | `status` | adds a user message | |
| Tool-call store (`state/tool_calls.rs`) | id to kind | record, read | between a stream and a later request | |
| Server and CLI (`gatewayd`) | none | preflight, logins | authentication | |

What is hard here: request futures interleave at every await and are dropped at
any of them; decisions are taken on state that is used later; files are written
one after the other by several processes that may die in between; sockets are
shared, queued on, abandoned and replaced; a transcript is edited afresh each
time it is sent.

## Plan

1. `LeaseStore`, `MessageTurn`, `ExclusiveTurn`, with proofs: done.
2. `ConversationStore`, `CommitLog`, `BranchSelection`, with proofs: done.
3. `CodexEvents`, `StreamBridge`, `AnswerReaders`, with proofs: done.
4. `SessionPool`, with proofs: done.
5. `CodexAuth`, with proofs: done.
6. `AnthropicMessages`, `ContextManagement`, `ClaudeCodeEnvelope`,
   `RequestTranslation`, with proofs, and `SchemaGate`, `StructuredAnswers`: done.
7. Left: the cleanup of old sessions in `ConversationStore`.

Modules that are proved about have constants with named assumptions, one action
per operation, and no RECURSIVE operator.

## Turns: LeaseStore, MessageTurn, ExclusiveTurn

`LeaseStore` gives the methods of `MainTurnLeaseStore` as operators on the lease
map; `MessageTurn` is everything a request does around them. An action is a
stretch of code between two points where another future can be seen: a mutex,
an await, a call into the store.

| State | Code |
|---|---|
| `pc`, `plan` | the future; its `PreparedConversationBranch` and `MessageTransportSelection` |
| `leases`, `fate` | the lease map; the state the request's lease ended in |
| `live`, `served`, `assoc` | the live chain of each key; the chain that carries a request; `OpenAiChainCheckpointStore` |
| `checkpoint`, `committed` | the branch's checkpoint on disk; what of the turn is there |
| `answer`, `visible`, `client` | how the backend's answer ends; `visible_output_sent`; the connection |

| Actions | Code |
|---|---|
| `SelectBranch`, `SelectTransport`, `Refuse` | preparation and its error returns |
| `AcquireLease`, `SkipLease` | `acquire_visible_main_lease`, and an offshoot's way around it |
| `ReuseChain`, `StartDial`, `DialDone`, `SendFails`, `StreamOpens`, `UnaryAnswered`, `PromoteChain` | the backend call over the pool |
| `RelayEvent`, `StreamCompletes`, `StreamFails`, `StreamBreaks`, `StreamEnds` | the loop that relays a stream |
| `Validate`, `CommitMain`, `Associate`, `OffshootAnswered`, `CommitOffshoot`, `FinishTurn` | the gate and the commits |
| `ClientDisconnects`, `DropRequest` | a dropped future, with the `Drop` of its guard |
| `ChainDies`, `Crash` | a lost socket; the death of the process, which keeps the files |

Requests without a Claude session take no lease and commit nothing, and are left
out. A response is named by the request it answers. `ExclusiveTurn` is what the
lease promises: per identity one turn at a time, each committed at most once and
only by its holder; a crash is its restart.

**Run `turn`**: two requests, one branch, two models, visible or offshoot,
streaming or not, with every fault above. A conflict has two parties and the
invariants relate a request to the holder of its key; two models give two
identities on one branch. The theorems lift the bound for all but liveness.
**Run `turn_delta`** needs a third request, the one that dials the new chain: a
delta can leave on another chain than its checkpoint's.

**Fairness** (`NoWaitIsForEver`): the runtime polls every future that can step.
No timeout covers an answer on a WebSocket, so of what is awaited it is only
assumed that it happens or that the client gives up and the future is dropped.
Under it every lease is freed again, and a committed turn ends its lease as
committed.

**Proofs** (`MessageTurnProofs`), from the named assumptions on the constants:

- `TypeCorrect`: the types of the state (`TypeOK`), for every instance; no run
  repeats it.
- `AbortsNeverCommit`: the invariant alone does not exclude an abort after a
  commit; `CommitOrder` adds that a committed turn is past the gate and that an
  abort state means it never passes.
- `LeaseExcludes`: `LeaseMatchesHolder` is inductive given `TypeOK`, with a lemma
  each for steps that keep the holders, for a release and for an acquisition.
- `TurnsAreExclusive`: the refinement of `ExclusiveTurn`, a lemma per kind of step.
- `HeadsAreVisible` and `AssociationsAreTruthful`: the head of a branch is a
  committed visible turn's; an association names the chain that carried it.

## Store: ConversationStore, CommitLog

One session's directory, shared by several processes. An operation takes the
lock, reads, and writes its files one after the other; each write is an action,
so a crash or a failed write falls between any two.

| State | Code |
|---|---|
| `session`, `branch`, `ledger` | the files; a ledger as `validate_branch_against_ledger` replays it |
| `minted` | the ids handed out for branches |
| `generation` | which lock file is at the path: a quarantine moves the old one away |
| `op` | the operation a process runs, and what it has still to write |
| `turn`, `faults` | what the callers know; crashes and failed writes so far |

| Actions | Code in `state/conversation.rs` and `http/lib.rs` |
|---|---|
| `FindBranch`, `FindNothing` | `load_existing_branches_for_session`: read without the lock |
| `SelectOrCreateBranch`, `CallOnBranch`, `Lock`, `Return` | the public methods and `with_session_lock` |
| `LoadSession`, `InitSession`, `SelectContinues`, `SelectCreates`, `SelectRefused`, `Quarantine` | selection under both corruption policies |
| `LoadBranch`, `LoadBranchMissing` | the reads of the other operations |
| `WriteBranch`, `AppendEvent`, `AppendNewline`, `WriteSparseCheckpoint`, `ListBranch` | the writes, in the code's order |
| `WriteFails`, `Crash` | a failed write, with a torn line if it was the event's; the death of a process |

`CommitLog` is what the store promises: per branch a log of turns that only
grows; a turn told it is committed is in it; a turn is handed its branch's
latest checkpoint, or nothing.

**Run `store`**: three turns in two processes, three branches, `fail_closed`, one
fault. One turn selects while another commits and the third waits in the other
process; a branch per turn is the most they can make; one fault is enough for a
file that disagrees with another. **Run `store_quarantine`**: the same turns
under `quarantine_and_reset`, with one fingerprint, commit, side turn, reconcile
and compaction, and fairness. The rename takes the held lock file along, so two
processes can be inside the directory that replaces the quarantined one:
`OneInside` is not claimed under this policy, and `QuarantineRecovers` speaks of a
selection that is alone, after one quarantine at most. **Run `store_quarantine_races`** shows what the other one can do: a healthy
session is quarantined, because a commit under way looks like corruption. Three
turns are needed: one leaves a corrupt branch, one quarantines it and commits, one
waited on the old lock file.
**Run `store_fail_closed`**: the lock-free read validates nothing, so a branch
that a crash left in contradiction is used under `fail_closed` all the same.
In these runs every turn ends, so they stop; deadlock is not checked.

A turn without a response id (`commit_bare`) and `invalidate`, which no handler
calls, are in the module. The runs leave them out of `Calls`, because either makes
`branch.json` contradict its ledger without any fault, so that
`ConsistentBetweenOperations`, `QuarantineNeedsFault` and `QuarantineRecovers` do not
hold with them. The theorems about these three assume the same (`PlainCalls`); all
others cover every call. `PROJECT.json` lists the first call as a hazard.

**Fairness**: `WF` of what a process does inside an operation. File operations
return and a free lock is granted; nobody has to make a request.

**Proofs** (`ConversationStoreProofs`), for all processes, turns, branches and
calls and any number of faults:

- `TypeCorrect`, under either policy, with `Control`: which operation can be at
  which step. A step disturbs only its own process (`OthersKeep`).
- `LockExcludes`, under `fail_closed`, where there is one lock file.
- `BranchesStayListed`, `UpdatesSurvive`, `KeepsPromise`, under `fail_closed`, from
  `StoreInv`. It adds to the lock what the process inside knows of the files and
  still holds; that a turn is in its own branch's ledger only, once; and that an
  id not handed out names no file. None of the three is inductive alone: each
  needs that nobody else wrote between a read and the write that follows.

**Proofs** (`ConversationStoreConsistency`), of what the two files of a branch say of
each other:

- `ListingComesLast`, under `fail_closed`: `CompleteInv` adds to `StoreInv` how far the
  files of a branch are at each step of its creation.
- `FilesAgree` and `FaultsQuarantine`, under either policy, for `PlainCalls`: as long as
  nothing failed, nobody quarantines, so that there is one lock file, so that a
  process that reads finds no write under way, so that what it reads agrees and
  gives no cause to quarantine. `CleanInv` carries the circle; its heart, `AgreeInv`,
  is that what an operation is about to write agrees with the ledger as its event
  will leave it (`WorkAgrees`, `UpdateAgrees`).
- `SessionRecovers`, under `quarantine_and_reset`, for `PlainCalls`: `RecoverInv` follows
  the session through its first quarantine (`FirstQuarantine`). The process that
  quarantined still holds the lock that moved away, so while it is about to select
  again at most one other is in the new directory (`OneOther`), with the new lock
  file; and of that one everything agrees but the branch it is writing (`AllAgree`).

The proof of the last showed that `QuarantineRecovers`, as it was first stated for any
number of quarantines, was true of the checked instance only because it has two
processes. With three, one fault and two quarantines, the two that did not quarantine
last can hold different lock files, work in the new directory at the same time and
leave a listed branch invalid there; the selection of the third, which is tried again,
then fails. The property now speaks of at most one quarantine. The cause is the one that `store_quarantine_races`
shows.

Bytes that were written survive the death of a process; power failure is left
out, as is the cleanup of old sessions.

## Selection: BranchSelection

The client sends its whole transcript with every request. The handler compares
it with the snapshots of the session's branches and looks for a response that was
asked with exactly a prefix of it. The backend keeps with a response what it was
made from and its own output, and answers a delta on top of both (`Heard`). What
the gateway told of that and what the backend added are kept apart (`Told`).

| State | Code |
|---|---|
| `transcript`, `requests`, `request` | the client, and what it sent |
| `snapshot`, `plan`, `sent` | what a handler read, prepared and sent |
| `branches` | the `branch.json` files, in the order of `session.json` |
| `responses`, `proven` | the backend's responses with their contexts; those associated with the live chain |
| `clock` | `now_unix_seconds` |

Requests arrive (`ConversationArrives`, `OffshootArrives`), are prepared
(`PrepareMatched`, `PrepareInitial`, `PrepareTransient`, `RejectMissing`), sent
(`SendToBackend`, `RefuseTransport`) and committed or not (`CommitTurn`,
`CommitOffshoot`, `TurnFails`); chains are lost (`ChainLost`). SHA-256 is taken to
be injective.

**Run `selection`**: two requests in flight, three in all, transcripts of up to
five messages, two models: enough for two overlapping turns and one that comes
back to what they left, and for a rewind, a compaction and a system note.
`DeltaCompletesContext` is the heart: what the gateway told along the chain that a
delta continues, and the delta, are together the transcript. It counts messages.
The notes of the system among them are no items: they are sent as the instructions
of one request (`http/translate.rs:211-223`), which a response does not hand on, so
those at the boundary are rightly sent again (`http/lib.rs:3027`).
It does not say that a delta holds only what is new to the backend, because that is
not so. A commit stores the messages of its request without the answer
(`http/lib.rs:2949`, `1367`), and the client's next transcript goes on with the
answer. So a delta begins with an answer that the backend has already, as the
output of the response it continues (`Output`), although
`design_docs/conversation-state-management.mdx:180-181` says that "delta mode sends
only the new input". If the very request is sent again the delta is empty
(`FromTurn`), and the model answers on top of its answer. The test
`tool_result_followup_with_visible_prefix_sends_only_tool_result_delta`
(`http/lib.rs:9315`) has a snapshot that ends in the assistant's message, which no
commit writes.

**Proofs** (`BranchSelectionProofs`), for all slots, models, texts and additions to
a transcript, and any bounds. The assumptions: the absent value is none of the
others, the slots are finite, an addition is a sequence of messages and not empty.
`SelectionInv` is the inductive invariant. It says of each branch, in its file and
as each request read it, that a checkpoint names a response of its model along
whose chain the transcript was told that the checkpoint is stored with
(`HeadSound`); of each prepared request, that its delta starts where the snapshot it
matched ends (`PlanSound`); of each request sent, that what was told before and its
input are the transcript (`SentSound`). The properties alone are not inductive: they speak of
a request, and a commit carries what was true of it to the branch, and from there
to requests that come later and to those that read the branch before.

- `TypeCorrect`.
- `DeltasComplete`: from `SentSound`; the delta and the whole transcript are
  rendered from parts that are filtered, and the outputs are filtered out of a
  context, so it rests on lemmas about filtering a concatenation (`ChosenConcat`,
  `ToldConcat`) and on what `Render` adds (`DeltaCompletes`).
- `RequestsPassTheContract`: a delta is empty only at the end of the transcript, and
  there a sound branch has a checkpoint of its own (`CheckpointSound`).
- `GrowthIsCheap`: `max_by_key` finds a longest prefix (`LargestExists`,
  `BestPrefixIn`), and the longest has the checkpoint.
- `TabsStayFew`: the branches and the requests still waiting to make one are
  together never more than the slots (`TabsInv`).

Attempting them changed the module: two exceptions that its properties need had been
hidden by what the checked instance can say.

- Two first requests of a session, alike in their texts but not in their images or
  tool blocks: the fingerprints (`state/conversation.rs:526`) see texts only, so if
  the first completes before the second selects its branch, the second replaces the
  snapshot and keeps the checkpoint. Until a turn is committed there, a request is
  refused by the contract each time, or a delta completes a context that the client
  did not show. Such a branch is marked `apart`, as is one after a turn without a
  response id.
- A `/compact` that continues no snapshot (`Rebaselined`) and has the texts of the
  compaction last applied is taken for its repetition (`http/lib.rs:4019`): its delta
  starts at the length of a snapshot it was never compared with.

`CompactionStartsOver` excludes the second in the checked instance. It cannot be
proved for every instance, because it depends on what a client can say twice, so
it stays with TLC.

A rewound conversation is shorter than its branch's snapshot, matches nothing and
is sent whole, although the checkpoint of its prefix is stored
(`http/lib.rs:4240`; `design_docs/conversation-state-management.mdx:593-597` wants
that checkpoint used). It costs tokens, not correctness, and no run is spent on it.

## Answers: CodexEvents, StreamBridge, AnswerReaders

`CodexEvents` is what is decoded from a backend event and the answer a unary
request collects. `StreamBridge` has a handler per event on a `StreamState`, with
the tool argument policy and the finalization. `AnswerReaders` gives both the
same response: `Begin`, `Continue` and `Finish` an item, `Complete` or `GiveUp`
(failed, cancelled, broken off). A client never reads both; reading both makes
them comparable. An item is a message, reasoning, a search or a call, each
whole, in pieces, in pieces that name their call, or never announced.

**Run `bridge`**: responses of up to three of eight items, two open at once. Two
open calls are what it takes for an argument piece to go to the wrong one; the
third item makes an open block precede both. `TextsAgree` leaves out what the
two readers treat differently by design or cannot compare: an answer without
words, a structured answer in several messages, and a response that sends one
message in pieces and another whole. `CallsAgree`, like `ToolInputsFaithful`,
leaves out a response in which a piece without a name came for another call than
the last one touched. It says of the inputs that they agree but for their null
fields. A unary answer passes the outbound sanitizer (`claude_json_response`), which
takes nulls out of it at any depth (`WithoutNulls`); the sanitizer sees the events of
a stream too (`http/lib.rs:2584`), but there an input is the text of `partial_json`,
which it leaves alone. One of the eight items is a call with such a field.

**Proofs** (`AnswerReadersProofs`), for any items, any number of them open at once,
and responses of any length. They assume that an absent value is no number
(`NoneIsNoIndex`), the four kinds of item (`ItemAssumption`), and that a call is
known by its id, which is not absent, with arguments that normalization made an
object (`CallAssumption`); TLC evaluates all three. `ReadersHaveTheSameCalls` says of
two inputs what `CallsAgree` does.

- `StreamFollowsProtocol`, `ShownCallsAreRecorded`, `SearchesAreBilledOnce`,
  `InputsAreWhatWasAsked`, `ReadersHaveTheSameCalls`.

What these properties say of an answer is decided by its last event, which stops
blocks and shows inputs from what the stream remembers. So the inductive invariant
is about that memory. Of a response that goes on, `Underway` says that the blocks
the stream takes for its text, its thinking and its calls are all different, live,
and the only ones with deltas, and that no call has had any (`Coherent`); that the
store has a row for each call shown under its name (`RecordsRight`); that the
arguments remembered of a finished call are whole, unless pieces were mixed up
(`ToolsRight`), and so in the unary answer, once per call (`UnaryRight`); and that
the searches noted are those shown. Without the part on different blocks, the input
of a call could follow the words of a text in its block; without the part on
deltas, a call could have two inputs. The step that completes a response leads from
`Underway` to `Closed`: the searches of its outputs (a recursive function, followed
output by output), the inputs, the words of a structured answer, the stops and the
end, each shown to keep what was shown a message (`Legal`). `Closed` also covers a
response that failed, was cancelled, or had arguments that are no object.

## Backend: SessionPool

| State | Code |
|---|---|
| `pool` | `WebSocketSessionPool.sessions` |
| `session` | the sessions: task, queue, what it serves, its socket and what the backend owes on it |
| `request` | the calls of `send_event_stream`, their attempts and their channel |

Callers `Arrive`, `Choose`, `Queue` or `Dial`, `Start`, wait for the first item
(`First`, `FirstMissing`), `Relay`, see `StreamEnds`, or `Leave` at any await. A
task takes a command (`TakeCommand`), forwards (`Forward`), reads while idle
(`IdleItem`), or ends (`Closed`, `Unreferenced`). The backend does `Answer` or
`Lose`.

**Run `backend`**: two requests of one key, one recycle, three sockets: a socket,
its replacement, and one of the other request. One event before the terminal one
tells a response that has begun from one that has not. Deadlock is not checked:
both calls end. **Fairness** (`FairSpec`): calls and tasks are polled; the
backend goes on with a response it owes or loses the socket. Under it every call
ends (`EveryCallEnds`).

**Proofs** (`SessionPoolProofs`), for any number of calls, keys, recycles, sockets
and events of a response. `PoolOK` is the inductive invariant: what the task of a
socket serves, what the backend owes on it and what is left to read there agree
(`SocketInv`: at most one response is owed, and while the task is idle nothing but
the loss of the socket is left to read); a session is in the pool only once a
command was queued on it or its task is over (`PoolInv`); an attempt is in one queue at most, once (`PendingInv`); the
first command of a socket was full (`DeltaInv`); what a call has seen is what its
attempt was sent (`CallerInv`). A task reads whatever arrives while it is idle, so
that an answer is never a stranger's needs all of these together.

- `TypeCorrect`, `EventsAreOwn`, `OneResponse`, `DeltasFollowFull`.

## Authentication: CodexAuth

`file` is `auth.json`; `call` the requests, refreshes and starts; `lock` and
`failure` belong to a process; `minted`, `expired`, `valid`, `rotates` are the
token endpoint; `spent` and `refused` are history. A message call begins, is
answered (`Begin`, `BackendAnswers`), refreshes (`Ask`, `Compare`,
`TokenEndpoint`, `Settle`), tries once more (`Reload`) or logs out (`Leave`,
`Revoke`); the user may `Login` or `Delete` the file; tokens `Expire`. A token is
a number. The answer of the token endpoint may be lost.

**Run `auth`**: two requests of the serving process, which contend for its lock,
and the preflight of a second process, which does not; three tokens, so that a
rotated token can be rotated again. The two requests are symmetric.
`SpentTokenNotPresented` and `RefusedLoginNotPresented` speak of one process:
nothing guards the file between two. **Run `auth_deleted`**: a refresh under way
writes a deleted file again.

**Proofs** (`CodexAuthProofs`), for any processes, calls and numbers of tokens.
`AuthInv` is the inductive invariant: an access token is minted once and written to
the file at most once (`SoundInv`, `FreshInv`); who holds a process's lock is the only
one of it between `Ask` and `Settle` (`LockInv`); what a process knows to be spent or
refused is not what the file holds when it asks (`KnownInv`); a request that tries
again has another token than the one that was answered 401 (`RetryInv`). The three
properties need it because a request reads the file before it waits for the lock.

- `TypeCorrect`, `SpentTokensStayAway`, `RefusedLoginsStayAway`, `RetriesChangeTheToken`.

## Requests: AnthropicMessages, ContextManagement, ClaudeCodeEnvelope, RequestTranslation, SchemaGate, StructuredAnswers

A message is a sequence of blocks; a text is a sequence of pieces, the tags of
Claude Code or words; sizes are estimated tokens. `RequestTranslation` sends one
conversation again and again. The client appends to its transcript
(`UserSpeaks`, `ClientRunsTool`) or asks a structured question (`AskStructured`);
each sending runs `EditContext`, `IncludeConversation`, `PromoteCommand`, `TranslateMessages`,
each from the result of the one before. `AnswerArrives` is an answer that the
strict schema allows, cleaned.

**Run `request`**: transcripts of at most seven messages, four configurations, five
edit lists, six openings, three kinds of tool round whose call was recorded or
not, eight schemas. Seven messages hold three tool rounds, the fewest with which
two edits can disagree about what is oldest; the openings have each kind of
command, two in one text, a side question and a system turn. It stops when the
transcript is full, so deadlock is not checked.

Two properties hold only under a precondition that the code does not enforce:

- `ClearedStaysCleared` where no edit after the first counts tokens (`Steady`):
  what an earlier edit clears lowers the count, and results that were cleared in
  the last request are then shown again.
- `AnswersFitTheirSchema` for schemas that have objects only by way of properties
  and items. The strict gate makes the optional properties of every object required
  and nullable, wherever it is: in `anyOf`, `oneOf`, `allOf`, `not`, `if`, `then`,
  `else`, `contains`, or a definition that a `$ref` names. The response gate follows
  properties and items only (`HidesObject`), so what it does not reach keeps its
  nulls, although `design_docs/conversation-state-management.mdx:330-331` says of the
  gate that it prevents "response validation failures such as `impossible: null`".
  Five of the eight schemas are of the first sort, two of them with such parts of
  strings and lists. Three have objects in `anyOf`, `oneOf`, `allOf` and a definition,
  and the assumption `HidingShows` of `MCRequestTranslation`, which TLC evaluates,
  says that each of these lets an answer through which its own schema does not
  admit. Recursive definitions are left out.

`SchemaGate` uses RECURSIVE operators, because a schema is a tree of any depth, so
`RequestTranslation` gets the answers to a schema as a constant, `AnswersTo`, and
`StructuredAnswers` assumes that these are what the gates let through
(`GateAssumption`, which TLC evaluates).

**Proofs** (`RequestTranslationProofs`), for every configuration, edit list, opening
and tool round of the right types: a user writes texts, and every command in them has
a name, other than the `""` that stands for none (`OpeningsAssumption`,
`RoundsAssumption`, `PolicyAssumption`, `NamesAssumption`); there is no bound on the
transcript. `Inv` says that every call of the client's transcript has its one use
and its one later result (`IsTranscript`), that cleared blocks are never in it, and
that at each stage the request is what the steps so far make of the transcript
(`EditedNow`, `IncludedNow`, `PromotedNow`, `SentNow`). It is inductive because calls
are numbered as they are made; the rest is what the operators do:

- Context management changes no block's type, id or name (`SameShape`); cutting and
  marking commands keep the calls and results in order (`SameCalls`), although they
  drop and append blocks; `SentAt` gives each block its place among the items.
  From these, `CallsAreAnswered`.
- Edits leave the interactions of a request what they were (`InteractionsSame`), a
  block belongs to one interaction (`OwnBlocks`), and what an edit clears is before
  the last `keep` it may clear (`ClearsTheOldest`). By the number of edits applied,
  all of them together clear only what is old by one of them (`OldOnly`), and
  clearing thinking touches no interaction. From these, `ClearedIsOld`.
- Texts are taken piece by piece: what cutting leaves of a user's text is clean
  (`CleanPieces`) and its commands keep their names (`NamedPieces`), and joining texts
  changes neither. Marking and emptying replace the texts of a message by one, so an
  unmarked command is the active one and the client's to run (`PromotedNowIs`); texts
  are sent in the order of their messages (`TextsAt`), so it is also the last. Clearing
  changes no text (`InclusionSays`), so what the user last said is the same with and
  without it. From these, `OneCommandIsActive`.
- What was cleared is what the edits clear of a beginning of the transcript (`Shown`):
  a second invariant, without which one request says nothing of the next. One edit
  applied to a request and to a longer one keeps `Stays`: the longer has the same
  interactions first, with no fewer results (`InteractionsGrow`), so the edit reaches
  at least the same blocks (`ClearablesGrow`); what it counts is no less as long as
  nothing was cleared before (`SizeGrows`), which is `Steady`; and a block that is not
  cleared keeps the client's size, so the limit on the size of a result agrees on both
  sides (`OversizedStays`). By the number of edits, `ClearedIsNotShown`. The hard limit
  on tool results is a number (`PolicyAssumption`; `usize` in the code).

The loops of these operators are recursive functions (`Joined`, `CutLocalOnly`,
`AllApplied`), so that their steps can be reasoned about (`JoinedSteps`, `CutSteps`,
`AppliedSteps`).

## What the violations show

| Run | The code | The text it departs from |
|---|---|---|
| `turn_delta` | `http/lib.rs:2224` decides before the chain is taken | `design_docs/conversation-state-management.mdx:90` |
| `store_quarantine_races` | `state/conversation.rs:1086` moves the lock file along | `docs/reference/configuration/logs-and-state.md:90-91` |
| `store_fail_closed` | `http/lib.rs:4069` reads without validating | `docs/runbooks/troubleshooting.md:39` |
| `auth_deleted` | `auth/lib.rs:494` writes back what it read | `docs/explanation/security.md:65-66` |

## What is only model-checked

- Liveness under fairness (`LeaseAlwaysFreedAgain`, `CommittedTurnEndsCommitted`,
  `EveryCallReturns`, `EveryCallEnds`): out of the prover's reach.
- `CompactionStartsOver`, for the reason above.
- `TextsAgree`: what a text says is a fold over the events of the stream, and the words
  of white space are left out of it by another; both are inductions over data.
- `AnswersFitTheirSchema`: `SchemaGate` is recursive, and what it computes for every
  schema would take induction over data.

Induction over data is out of reach as a rule of the library (its theorems take
operators); what the proofs need of it, over the length of a sequence, they get from
a least counterexample (`LeastNat`, `UpTo` in `BranchSelectionProofs` and
`AnswerReadersProofs`; in `RequestTranslationProofs` too).

## Not modelled

- The cleanup of old sessions at start-up, and power failure.
- The composition of `ContextManagement` with `BranchSelection`: comparing edited
  transcripts multiplies states beyond TLC's reach. It is listed as a hazard.
- Images, tool definitions, effort and metadata of a request; the wording of
  instructions, errors and reports; SSE framing, headers and pings.
- Configuration, network policy, observability, paths, JWT claims, the keyring
  reader (not compiled in), the login menu.
- The Go port (`core`, `app`, `handlers`, ...), the terminal UI and the
  documentation tooling.

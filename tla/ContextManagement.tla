-------------------------- MODULE ContextManagement --------------------------
(***************************************************************************)
(* context_management.rs: the edits a request or the configuration asks for *)
(* replace old tool results and old thinking by placeholders, and the       *)
(* configured hard limits are applied last, whatever the edits exclude.     *)
(***************************************************************************)
EXTENDS AnthropicMessages, FiniteSetsExt

ContextEdits == [type : STRING, trigger : STRING, above : Nat, keep : Nat,
                 exclude : SUBSET Names, inputs : BOOLEAN, atLeast : Nat, all : BOOLEAN]

(* What a placeholder, or an emptied input, counts for.                     *)
Placeholder == 1

Cleared(block) == [block EXCEPT !.size = Placeholder, !.cleared = TRUE]

(* The messages with the blocks at the positions ps cleared.                *)
ClearedAt(messages, ps) ==
    [i \in DOMAIN messages |->
        [messages[i] EXCEPT !.blocks =
            [j \in DOMAIN messages[i].blocks |->
                LET block == messages[i].blocks[j]
                IN  IF <<i, j>> \in ps THEN Cleared(block) ELSE block]]]

(* The tool uses in order, each with the results that answer it: a result   *)
(* belongs to the latest use of its id before it, one without is ignored.   *)
Interactions(messages) ==
    LET of(type) == {p \in Positions(messages) : At(messages, p).type = type}
        all      == InOrder(messages)
        uses     == Kept(all, {n \in DOMAIN all : all[n] \in of("tool_use")})
        id(p)    == At(messages, p).id
        Latest(k, p) == /\ id(uses[k]) = id(p)
                        /\ Before(uses[k], p)
                        /\ \A l \in k+1..Len(uses) :
                              id(uses[l]) = id(p) => Before(p, uses[l])
    IN [k \in DOMAIN uses |->
          [use     |-> uses[k],
           name    |-> At(messages, uses[k]).name,
           results |-> {p \in of("tool_result") : Latest(k, p)}]]

SizeAt(messages, ps) == MapThenSumSet(LAMBDA p : At(messages, p).size, ps)

(* A tool edit without a trigger is always active; an unknown trigger never. *)
Triggered(messages, edit) ==
    CASE edit.trigger = "none"         -> TRUE
      [] edit.trigger = "tool_uses"    -> Len(Interactions(messages)) > edit.above
      [] edit.trigger = "input_tokens" -> SizeAt(messages, Positions(messages)) > edit.above
      [] OTHER                         -> FALSE

(* The interactions whose tool is not excluded.                             *)
Eligible(messages, edit) ==
    LET all == Interactions(messages)
    IN Kept(all, {k \in DOMAIN all : all[k].name \notin edit.exclude})

(* The blocks that clearing interactions rewrites.                          *)
Clearable(interaction, edit) ==
    interaction.results \cup (IF edit.inputs THEN {interaction.use} ELSE {})

Clearables(interactions, edit) == UNION {Clearable(i, edit) : i \in ToSet(interactions)}

(* Mutant: clears the newest interactions instead of the oldest.            *)
ClearNewest(messages, edit) ==
    LET eligible == Eligible(messages, edit)
    IN ClearedAt(messages, Clearables(SubSeq(eligible, edit.keep + 1, Len(eligible)), edit))

(* Mutant: what is kept is measured instead of what is cleared.             *)
ClearIfKeptIsLarge(messages, edit) ==
    LET eligible == Eligible(messages, edit)
        left     == Len(eligible) - edit.keep
        kept     == Clearables(SubSeq(eligible, left + 1, Len(eligible)), edit)
    IN IF left <= 0 \/ SizeAt(messages, kept) < edit.atLeast
       THEN messages
       ELSE ClearedAt(messages, Clearables(SubSeq(eligible, 1, left), edit))

(* The oldest interactions are cleared, all but the last `keep` of those    *)
(* whose tool is not excluded, if that frees enough.                        *)
ClearToolUses(messages, edit) ==
    LET eligible == Eligible(messages, edit)
        blocks   == Clearables(SubSeq(eligible, 1, Len(eligible) - edit.keep), edit)
    IN IF edit.keep >= Len(eligible) \/ SizeAt(messages, blocks) < edit.atLeast
       THEN messages
       ELSE ClearedAt(messages, blocks)

EditToolUses(messages, edit) ==
    IF Triggered(messages, edit) THEN ClearToolUses(messages, edit) ELSE messages

(* The thinking of the oldest assistant messages is cleared.                *)
ThinkingIn(messages, i) ==
    {p \in Positions(messages) : p[1] = i /\ At(messages, p).type = "thinking"}

ClearThinking(messages, keep) ==
    LET turns  == Kept([i \in DOMAIN messages |-> i],
                       {i \in DOMAIN messages : messages[i].role = "assistant"
                                                /\ ThinkingIn(messages, i) # {}})
        oldest == SubSeq(turns, 1, Len(turns) - keep)
    IN ClearedAt(messages, UNION {ThinkingIn(messages, i) : i \in ToSet(oldest)})

(* Edits of other types are reported as ignored. Thinking is kept whole when *)
(* the edit says "all", or names its keep wrongly.                          *)
ApplyEdit(messages, edit) ==
    CASE edit.type = "clear_tool_uses" -> EditToolUses(messages, edit)
      [] edit.type = "clear_thinking"  -> IF edit.all THEN messages
                                          ELSE ClearThinking(messages, edit.keep)
      [] OTHER                         -> messages

(* A request's own edits are used when it has some and the mode follows it. *)
EffectiveEdits(config, requested) ==
    CASE config.mode = "override"                 -> config.overrides
      [] config.mode = "follow" /\ requested # <<>> -> requested
      [] OTHER                                    -> config.defaults

(* A hard limit of None is the empty set, Some(n) is {n}.                   *)
Edit(type, keep) ==
    [type |-> type, trigger |-> "none", above |-> 0, keep |-> keep, exclude |-> {},
     inputs |-> FALSE, atLeast |-> 0, all |-> FALSE]
Limited(messages, type, limit) ==
    IF limit = {} THEN messages
    ELSE ApplyEdit(messages, Edit(type, CHOOSE keep \in limit : TRUE))

Oversized(messages, limit) ==
    {p \in Positions(messages) : /\ At(messages, p).type = "tool_result"
                                 /\ \E most \in limit : At(messages, p).size > most}

HardLimits(messages, limits) ==
    LET tools    == Limited(messages, "clear_tool_uses", limits.tools)
        thinking == Limited(tools, "clear_thinking", limits.thinking)
    IN ClearedAt(thinking, Oversized(thinking, limits.size))

(* The edits, each on the result of the one before.                         *)
AllApplied(messages, edits) ==
    LET after[n \in 0..Len(edits)] ==
          IF n = 0 THEN messages ELSE ApplyEdit(after[n-1], edits[n])
    IN after[Len(edits)]

(* ContextManager::apply, on the messages of a request.                     *)
Edited(config, requested, messages) ==
    IF ~config.enabled THEN messages
    ELSE HardLimits(AllApplied(messages, EffectiveEdits(config, requested)), config.limits)
=============================================================================

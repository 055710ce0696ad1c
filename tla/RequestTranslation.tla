-------------------------- MODULE RequestTranslation --------------------------
(***************************************************************************)
(* One conversation as it is sent: the client appends messages to its own   *)
(* transcript and sends all of it each time; the gateway edits the context, *)
(* cuts and marks the slash commands, moves system turns to the             *)
(* instructions, translates the blocks to backend items and appends the     *)
(* output of a command it ran itself. Each step starts from the result of   *)
(* the one before. A structured request has its schema made strict, and the *)
(* answer to it cleaned (SchemaGate).                                       *)
(***************************************************************************)
EXTENDS ContextManagement, ClaudeCodeEnvelope

CONSTANTS
    Configs,      \* the configurations of workflow.context_management
    Edits,        \* the edit lists a request may carry
    Openings,     \* what the user may say: sequences of messages
    Rounds,       \* the tool rounds: tool, sizes of result and thinking, the user's remark
    Schemas,      \* the schemas a client may ask an answer to have
    AnswersTo,    \* a schema to the answers the client may be shown (see StructuredAnswers)
    MaxMessages   \* bound on the transcript

(* What the user writes: a text, in which every command has a name.         *)
CommandsAreNamed(pieces) == \A i \in Tagged(pieces, "command-name") : pieces[i].is # ""
IsWritten(block) == block = Text(block.text) /\ CommandsAreNamed(block.text)

ASSUME PolicyAssumption ==
    /\ Edits \subseteq Seq(ContextEdits)
    /\ \A c \in Configs : /\ c.context.defaults \in Seq(ContextEdits)
                          /\ c.context.overrides \in Seq(ContextEdits)
                          /\ c.context.limits.tools \subseteq Nat

ASSUME OpeningsAssumption ==
    \A said \in Openings :
       /\ said \in Seq(Messages)
       /\ \A i \in DOMAIN said : \A j \in DOMAIN said[i].blocks : IsWritten(said[i].blocks[j])

ASSUME RoundsAssumption ==
    \A round \in Rounds :
       /\ round.tool \in Names /\ round.size \in Nat /\ round.thought \in Nat
       /\ round.remark \in Seq(Blocks)
       /\ \A j \in DOMAIN round.remark : IsWritten(round.remark[j])

VARIABLES
    config,       \* the configuration, and whether slash commands are enabled
    requested,    \* the edits the client asks for in this conversation
    transcript,   \* the messages the client holds
    kinds,        \* the tool-call store: id of a call to its kind
    stage,        \* what was last done with the request
    messages,     \* the messages of the request, as edited so far
    report,       \* what the inclusion policy found
    command,      \* the active command
    system,       \* the instructions taken from the messages, and the note
    items,        \* the input items of the backend request
    cleared,      \* the positions of the results cleared in the last request
    format,       \* the schema of the client's question, or none
    answer        \* the answer shown to it, or none

vars == <<config, requested, transcript, kinds, stage, messages, report, command,
          system, items, cleared, format, answer>>

NoReport == [local |-> {}, active |-> {}, turn |-> "read_write"]
NoSystem == [turns |-> 0, priority |-> FALSE]

Item(what, call, role, text) == [what |-> what, call |-> call, role |-> role, text |-> text]
NoItem == <<>>

Init ==
    /\ config \in Configs
    /\ requested \in Edits
    /\ transcript = <<>> /\ kinds = <<>> /\ stage = "idle"
    /\ messages = <<>> /\ report = NoReport /\ command = NoCommand
    /\ system = NoSystem /\ items = <<>> /\ cleared = {}
    /\ format = <<>> /\ answer = <<>>

Calls == {At(transcript, p).id : p \in {p \in Positions(transcript) :
                                          At(transcript, p).type = "tool_use"}}
NextCall == Cardinality(Calls) + 1

Says(new) ==
    /\ stage = "idle" /\ Len(transcript) + Len(new) <= MaxMessages /\ format = <<>>
    /\ transcript' = transcript \o new
    /\ messages' = transcript'
    /\ stage' = "received"
    /\ UNCHANGED <<config, requested, report, command, system, items, cleared, format, answer>>

(* The user says something, after the model's answer to what came before.   *)
UserSpeaks ==
    /\ \E said \in Openings :
          Says((IF transcript = <<>> THEN <<>> ELSE <<Message("assistant", <<Text(<<Words>>)>>)>>) \o said)
    /\ UNCHANGED kinds

(* The model thought, spoke and called a tool, and the client answers with  *)
(* its result. The bridge recorded the call as a custom one, or failed to.  *)
ClientRunsTool ==
    /\ transcript # <<>>
    /\ \E round \in Rounds, recorded \in BOOLEAN :
          LET call   == NextCall
              thinks == IF round.thought = 0 THEN <<>> ELSE <<Thinking(round.thought)>>
              blocks == thinks \o <<Text(<<Words>>), ToolUse(call, round.tool)>>
          IN /\ Says(<<Message("assistant", blocks),
                        Message("user", <<ToolResult(call, round.size)>> \o round.remark)>>)
             /\ kinds' = IF recorded THEN [c \in DOMAIN kinds \cup {call} |-> "custom"] ELSE kinds

(* A question of the client's own, whose answer is to have a schema.        *)
AskStructured ==
    /\ stage = "idle" /\ transcript = <<>> /\ format = <<>>
    /\ \E schema \in Schemas : format' = <<schema>>
    /\ transcript' = <<Message("user", <<Text(<<Words>>)>>)>>
    /\ messages' = transcript'
    /\ stage' = "received"
    /\ UNCHANGED <<config, requested, kinds, report, command, system, items, cleared, answer>>

(* apply_context_management, before anything reads the messages.            *)
EditContext ==
    /\ stage = "received"
    /\ messages' = Edited(config.context, requested, messages)
    /\ cleared' = {p \in Positions(messages') : At(messages', p).cleared
                                                /\ At(messages', p).type = "tool_result"}
    /\ stage' = "edited"
    /\ UNCHANGED <<config, requested, transcript, kinds, report, command, system, items, format, answer>>

KindForCall(call) == IF call \in DOMAIN kinds THEN kinds[call] ELSE "function"

(* A message becomes the items of its calls and results, and then one item   *)
(* of the text that is left.                                                *)
BlockItem(b) ==
    CASE b.type = "tool_use"    -> <<Item("call", b.id, KindForCall(b.id), <<b.name>>)>>
      [] b.type = "tool_result" -> <<Item("output", b.id, KindForCall(b.id), <<>>)>>
      [] OTHER                  -> NoItem

ItemsOf(message) ==
    LET text == MessageText(message)
    IN Joined([j \in DOMAIN message.blocks |-> BlockItem(message.blocks[j])])
         \o (IF IsBlank(text) THEN NoItem ELSE <<Item("message", 0, message.role, text)>>)

(* extract_turn_system_text_and_filter: the system turns that say something. *)
SystemTexts(all) ==
    Cardinality({i \in DOMAIN all : all[i].role = "system" /\ ~IsBlank(MessageText(all[i]))})

(* The executor's result is given to the model as the user's last message.   *)
ExecutorItems ==
    IF command \in Translated THEN <<Item("result", 0, "user", <<Words>>)>> ELSE NoItem

(* translate_request_with_context, first the inclusion policy.              *)
IncludeConversation ==
    /\ stage = "edited"
    /\ messages' = ApplyInclusion(messages)
    /\ report' = Report(messages, messages')
    /\ stage' = "included"
    /\ UNCHANGED <<config, requested, transcript, kinds, command, system, items, cleared, format, answer>>

(* Then the commands, if they are enabled, and the note on priority.         *)
PromoteCommand ==
    /\ stage = "included"
    /\ messages' = IF config.commands THEN NormalizeCommands(messages) ELSE messages
    /\ command' = IF config.commands THEN ActiveCommand(messages) ELSE NoCommand
    /\ system' = [turns |-> SystemTexts(messages), priority |-> HasDirective(messages')]
    /\ stage' = "promoted"
    /\ UNCHANGED <<config, requested, transcript, kinds, report, items, cleared, format, answer>>

(* Then the items of all but the system turns; the output of the command    *)
(* the gateway ran itself comes last.                                       *)
TranslateMessages ==
    /\ stage = "promoted"
    /\ messages' = Kept(messages, {i \in DOMAIN messages : messages[i].role # "system"})
    /\ items' = Joined([i \in DOMAIN messages' |-> ItemsOf(messages'[i])]) \o ExecutorItems
    /\ stage' = "translated"
    /\ UNCHANGED <<config, requested, transcript, kinds, report, command, system,
                   cleared, format, answer>>

(* The answer to a question with a schema is one the gates let through.      *)
AnswerArrives ==
    /\ stage = "translated"
    /\ IF format = <<>> THEN answer' = answer
       ELSE \E value \in AnswersTo[format[1]] : answer' = <<value>>
    /\ stage' = "idle"
    /\ UNCHANGED <<config, requested, transcript, kinds, messages, report, command, system,
                   items, cleared, format>>

Next ==
    \/ UserSpeaks \/ ClientRunsTool \/ AskStructured
    \/ EditContext \/ IncludeConversation \/ PromoteCommand \/ TranslateMessages
    \/ AnswerArrives

Spec == Init /\ [][Next]_vars

-----------------------------------------------------------------------------
Policy == EffectiveEdits(config.context, requested)

(* The edit counts tokens before it clears tool results.                    *)
Counts(edit) ==
    edit.type = "clear_tool_uses" /\ (edit.trigger = "input_tokens" \/ edit.atLeast > 0)

(* Nothing is cleared before tokens are counted: a count of what an earlier  *)
(* edit left may fall from one request to the next.                         *)
Steady == \A i \in DOMAIN Policy : Counts(Policy[i]) => i = 1

(* A result the backend was once shown as cleared is never shown again in a *)
(* later request of the conversation, unless an edit after the first counts *)
(* tokens: clear_tool_interactions decides afresh each time.                *)
ClearedStaysCleared == [][Steady => cleared \subseteq cleared']_vars

(* Without hard limits, what is cleared is old: an edit that does not        *)
(* exclude the tool leaves out at least `keep` newer uses of such tools.     *)
OnlyOldestAreCleared ==
    stage = "edited" /\ config.context.limits.tools = {} /\ config.context.limits.size = {} =>
    LET all == Interactions(messages)
        Newer(k, edit) == {l \in k+1..Len(all) : all[l].name \notin edit.exclude}
    IN \A k \in DOMAIN all :
         (\E p \in all[k].results \cup {all[k].use} : At(messages, p).cleared) =>
         \E i \in DOMAIN Policy : /\ Policy[i].type = "clear_tool_uses"
                                  /\ all[k].name \notin Policy[i].exclude
                                  /\ Cardinality(Newer(k, Policy[i])) >= Policy[i].keep

(* Whatever was edited, cut and marked: each call of the transcript is sent  *)
(* once, and its result once, after it and as an output of the call's kind.  *)
CallsKeepTheirResults ==
    stage = "translated" =>
    \A call \in Calls :
       LET Of(what) == {i \in DOMAIN items : items[i].what = what /\ items[i].call = call}
       IN /\ Cardinality(Of("call")) = 1 /\ Cardinality(Of("output")) = 1
          /\ \A i \in Of("call"), j \in Of("output") : i < j /\ items[i].role = items[j].role

(* What the user last said, but for the client's own commands.              *)
LastSaid ==
    LET said == Spoken(ApplyInclusion(transcript)) IN IF said = {} THEN {} ELSE {Max(said)}

(* No trace of a local-only command is sent. With slash commands enabled, at *)
(* most one text holds a command not marked as an earlier one, it is what    *)
(* the user last said, and a command the gateway runs is sent as its output. *)
OneActiveCommand ==
    stage = "translated" =>
    LET texts   == {i \in DOMAIN items : items[i].what = "message" /\ items[i].role = "user"}
        holds   == {i \in texts : IsEnvelope(items[i].text)}
        unmarked == {i \in holds : items[i].text[1] # PreviousNote}
    IN /\ \A i \in texts : LocalCommands(items[i].text) = {}
       /\ config.commands =>
            /\ Cardinality(unmarked) <= 1
            /\ \A i \in unmarked : /\ \A j \in texts : j <= i
                                   /\ CommandOf(items[i].text) = command
            /\ command \in Translated => unmarked = {} /\ items[Len(items)].what = "result"
            /\ LastSaid # {} /\ command = NoCommand =>
                  \A i \in LastSaid : ~IsEnvelope(MessageText(ApplyInclusion(transcript)[i]))
=============================================================================

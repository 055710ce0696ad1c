-------------------------- MODULE ClaudeCodeEnvelope --------------------------
(***************************************************************************)
(* claude_code_inclusion.rs and claude_code_context.rs: what of the user's  *)
(* slash commands reaches the backend. Commands of the client itself are    *)
(* cut out of the texts; of the others the latest is active, and every      *)
(* earlier one is marked as context of a previous turn.                     *)
(***************************************************************************)
EXTENDS AnthropicMessages, FiniteSetsExt

CONSTANTS
    LocalOnly,    \* the commands only the client runs
    Translated,   \* the commands the gateway runs ("status")
    Announced     \* the local-only commands whose output is recognised

ASSUME CommandsAssumption == LocalOnly \cap Translated = {} /\ Announced \subseteq LocalOnly

IsBlank(pieces) == pieces = <<>>

Cut(pieces, first, last) == SubSeq(pieces, 1, first - 1) \o SubSeq(pieces, last + 1, Len(pieces))

Tagged(pieces, tag) == {i \in DOMAIN pieces : pieces[i].tag = tag}

LocalNames(pieces)  == {i \in Tagged(pieces, "command-name") : pieces[i].is \in LocalOnly}
LocalStdout(pieces) == {i \in Tagged(pieces, "local-command-stdout") : pieces[i].is \in Announced}

(* The envelope of the first local-only command goes, from the last message *)
(* tag before its name to the first arguments tag after it.                 *)
WithoutCommand(pieces) ==
    LET name   == Min(LocalNames(pieces))
        before == {i \in Tagged(pieces, "command-message") : i < name}
        after  == {i \in Tagged(pieces, "command-args") : i > name}
    IN Cut(pieces, IF before = {} THEN name ELSE Max(before),
                   IF after = {} THEN name ELSE Min(after))

WithoutStdout(pieces) ==
    LET out == Min(LocalStdout(pieces)) IN Cut(pieces, out, out)

(* Mutant: the first envelope only.                                         *)
IncludedOnce(pieces) ==
    IF LocalNames(pieces) # {} THEN WithoutCommand(pieces) ELSE pieces

(* The next cut of s.text: every envelope first, then every output. s.found *)
(* are the commands that were cut.                                          *)
CutFirst(s) ==
    CASE LocalNames(s.text) # {} ->
           [text |-> WithoutCommand(s.text),
            found |-> s.found \cup {s.text[Min(LocalNames(s.text))].is}]
      [] LocalNames(s.text) = {} /\ LocalStdout(s.text) # {} ->
           [text |-> WithoutStdout(s.text),
            found |-> s.found \cup {s.text[Min(LocalStdout(s.text))].is}]
      [] OTHER -> s

(* As often as there can be something to cut.                               *)
CutLocalOnly(pieces) ==
    LET after[n \in 0..Len(pieces)] ==
          IF n = 0 THEN [text |-> pieces, found |-> {}] ELSE CutFirst(after[n-1])
    IN after[Len(pieces)]

Included(pieces)      == CutLocalOnly(pieces).text
LocalCommands(pieces) == CutLocalOnly(pieces).found

(* apply_conversation_inclusion_policy: the user's texts, without the blocks *)
(* this leaves empty.                                                       *)
IncludedBlocks(blocks) ==
    [j \in DOMAIN blocks |->
        IF blocks[j].type = "text" THEN [blocks[j] EXCEPT !.text = Included(@)] ELSE blocks[j]]
Remaining(blocks) ==
    Kept(blocks, {j \in DOMAIN blocks : blocks[j].type # "text" \/ ~IsBlank(blocks[j].text)})

ApplyInclusion(messages) ==
    [i \in DOMAIN messages |->
        IF messages[i].role # "user" THEN messages[i]
        ELSE [messages[i] EXCEPT !.blocks = Remaining(IncludedBlocks(@))]]

Spoken(messages) ==
    {i \in DOMAIN messages : messages[i].role = "user" /\ ~IsBlank(MessageText(messages[i]))}

(* The report of the policy: read only is the turn of a side question, local *)
(* only the one that has no user text left, whatever was asked before.      *)
Report(before, after) ==
    LET Found(i) == UNION {LocalCommands(before[i].blocks[j].text) : j \in DOMAIN before[i].blocks}
        users    == {i \in DOMAIN before : before[i].role = "user"}
        all      == UNION {Found(i) : i \in users}
        last     == IF Spoken(before) = {} THEN {} ELSE {Max(Spoken(before))}
        aside    == \E i \in users : \E j \in DOMAIN before[i].blocks :
                       Aside \in ToSet(before[i].blocks[j].text)
    IN [local  |-> all,
        active |-> UNION {Found(i) : i \in last \ Spoken(after)},
        turn   |-> CASE all # {} /\ Spoken(after) = {}              -> "local_only"
                     [] ~(all # {} /\ Spoken(after) = {}) /\ aside -> "read_only"
                     [] OTHER                                      -> "read_write"]

(* parse_command_envelope: the last name in the text is the command.         *)
IsEnvelope(pieces) == Tagged(pieces, "command-name") # {}
CommandOf(pieces)  == pieces[Max(Tagged(pieces, "command-name"))].is

(* Mutant: the new text replaces every block.                               *)
WithOnlyText(message, pieces) ==
    [message EXCEPT !.blocks = IF IsBlank(pieces) THEN <<>> ELSE <<Text(pieces)>>]

(* set_message_text_preserving_non_text: the new text follows what is kept. *)
WithText(message, pieces) ==
    LET kept == Kept(message.blocks, {j \in DOMAIN message.blocks : message.blocks[j].type # "text"})
    IN [message EXCEPT !.blocks = IF IsBlank(pieces) THEN kept ELSE Append(kept, Text(pieces))]

NoCommand == ""

(* Mutant: the first command of the conversation stays the active one.      *)
ActiveFirst(messages) ==
    LET commands == {i \in Spoken(messages) : IsEnvelope(MessageText(messages[i]))}
    IN IF commands = {} THEN {} ELSE {Min(commands)}

(* The message of the active command, if the latest user text is one.       *)
ActiveAt(messages) ==
    LET last == IF Spoken(messages) = {} THEN {} ELSE {Max(Spoken(messages))}
    IN {i \in last : IsEnvelope(MessageText(messages[i]))}

ActiveCommand(messages) ==
    IF ActiveAt(messages) = {} THEN NoCommand
    ELSE CommandOf(MessageText(messages[Max(ActiveAt(messages))]))

(* normalize_claude_code_commands: a translated command leaves no text, the *)
(* gateway's own output follows the request.                                *)
NormalizeCommands(messages) ==
    LET active      == ActiveAt(messages)
        Previous(i) == /\ messages[i].role = "user" /\ i \notin active
                       /\ IsEnvelope(MessageText(messages[i]))
        Hidden(i)   == i \in active /\ ActiveCommand(messages) \in Translated
    IN [i \in DOMAIN messages |->
          CASE Previous(i) -> WithText(messages[i], <<PreviousNote>> \o MessageText(messages[i]))
            [] Hidden(i)   -> WithText(messages[i], <<>>)
            [] OTHER       -> messages[i]]

(* The note that the latest instruction has priority goes with every request *)
(* that still has user text: that of the active command, or any other.      *)
HasDirective(messages) == Spoken(messages) # {}
=============================================================================

-------------------------- MODULE AnthropicMessages --------------------------
(***************************************************************************)
(* The messages of a /v1/messages request, as the gateway edits them:       *)
(* a message is a sequence of blocks, and the text of a block a sequence of *)
(* pieces, the tags Claude Code writes or the words between them. A plain   *)
(* text message is a single text block; sizes are in estimated tokens.      *)
(***************************************************************************)
EXTENDS Naturals, Sequences, FiniteSets, SequencesExt

CONSTANT Names   \* the names of tools and of commands, and "" where there is none

ASSUME NamesAssumption == "" \in Names

(* The sequences ss one after the other, and the elements of s at the       *)
(* positions in I: FlattenSeq and SelectSeq in a form to reason about.      *)
Joined(ss) ==
    LET upTo[n \in 0..Len(ss)] == IF n = 0 THEN <<>> ELSE upTo[n-1] \o ss[n]
    IN upTo[Len(ss)]

Kept(s, I) == Joined([i \in DOMAIN s |-> IF i \in I THEN <<s[i]>> ELSE <<>>])

(* The pieces of a text: words, a command's tags, a command's output, what  *)
(* marks a side question, and the note on a command of an earlier turn.     *)
Piece(tag, is) == [tag |-> tag, is |-> is]
Words          == Piece("words", "")
NameTag(c)     == Piece("command-name", c)
ArgsTag        == Piece("command-args", "")
MessageTag     == Piece("command-message", "")
StdoutTag(c)   == Piece("local-command-stdout", c)
Aside          == Piece("side question", "")
PreviousNote   == Piece("previous", "")

Pieces == [tag : {"words", "command-name", "command-args", "command-message",
                  "local-command-stdout", "side question", "previous"},
           is  : Names]

Block(type, id, name, size, text) ==
    [type |-> type, id |-> id, name |-> name, size |-> size, text |-> text, cleared |-> FALSE]

Text(pieces)          == Block("text", 0, "", Len(pieces), pieces)
ToolUse(id, name)     == Block("tool_use", id, name, 1, <<>>)
ToolResult(id, size)  == Block("tool_result", id, "", size, <<>>)
Thinking(size)        == Block("thinking", 0, "", size, <<>>)

Message(role, blocks) == [role |-> role, blocks |-> blocks]

Blocks   == [type : {"text", "tool_use", "tool_result", "thinking"}, id : Nat, name : Names,
             size : Nat, text : Seq(Pieces), cleared : BOOLEAN]
Messages == [role : {"user", "assistant", "system"}, blocks : Seq(Blocks)]

(* The text of a message: that of its text blocks, one after the other.     *)
MessageText(message) ==
    Joined([j \in DOMAIN message.blocks |-> message.blocks[j].text])

(* The positions of the blocks, and their order in the request.             *)
Positions(messages) ==
    UNION {{<<i, j>> : j \in DOMAIN messages[i].blocks} : i \in DOMAIN messages}

InOrder(messages) ==
    Joined([i \in DOMAIN messages |-> [j \in DOMAIN messages[i].blocks |-> <<i, j>>]])

At(messages, p) == messages[p[1]].blocks[p[2]]

Before(p, q) == p[1] < q[1] \/ (p[1] = q[1] /\ p[2] < q[2])
=============================================================================

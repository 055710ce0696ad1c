------------------------------ MODULE CodexEvents ------------------------------
(***************************************************************************)
(* The events of one Codex response, and what gateway-backend-codex        *)
(* decodes from them: the texts and tool calls an event carries, and the   *)
(* answer a unary request collects (sse_unary.rs).                         *)
(*                                                                         *)
(* A text is a sequence of words, where Blank stands for white space.  A   *)
(* JSON object is a function from field names; raw tool arguments are an   *)
(* object, Nothing (no text), or Prose (text that is not an object) and    *)
(* are streamed as two pieces.                                             *)
(***************************************************************************)
EXTENDS Naturals, Sequences, FiniteSets, TLC

CONSTANTS
  None,    (* an absent value                           *)
  Blank,   (* a word of white space                     *)
  Nothing, (* raw arguments: the empty text             *)
  Prose    (* raw arguments: text that is not an object *)

EmptyObject == [field \in {} |-> None]

(* f with the value v at x *)
Put(f, x, v) == [y \in DOMAIN f \cup {x} |-> IF y = x THEN v ELSE f[y]]

(* An output item: reasoning or a message with its words; a tool call with  *)
(* its raw arguments; or a web search.                                       *)
Reasoning(words)        == [type |-> "reasoning", words |-> words]
MessageItem(words)      == [type |-> "message", words |-> words]
Call(id, name, kind, raw) == [type |-> "call", id |-> id, name |-> name, kind |-> kind, raw |-> raw]
Search(id)              == [type |-> "search", id |-> id]

Pieces(raw) == IF raw = Nothing THEN <<>> ELSE <<[of |-> raw, part |-> 1], [of |-> raw, part |-> 2]>>

(* What the pieces of a buffer spell: the whole raw text, or None for a     *)
(* text no tool call sent.                                                   *)
Spelled(buffer) ==
  IF buffer = <<>> THEN Nothing
  ELSE IF buffer = Pieces(buffer[1].of) THEN buffer[1].of ELSE None

(* normalize_json_object_string: every argument text becomes an object. *)
Normalized(raw, field) ==
  IF raw = Nothing THEN EmptyObject
  ELSE IF raw \in {Prose, None} THEN Put(EmptyObject, field, raw)
  ELSE raw

(* parse_tool_call_item *)
ParsedCall(item, filled) ==
  LET raw == IF filled THEN item.raw ELSE Nothing IN
  [id |-> item.id, kind |-> item.kind,
   name |-> IF item.kind = "tool_search" THEN "tool_search" ELSE item.name,
   arguments |-> IF item.kind = "custom" THEN Put(EmptyObject, "input", raw)
                 ELSE Normalized(raw, "arguments")]

(* message_item_output_texts: what a message item says; nothing when it is  *)
(* added, for the backend fills it later.                                    *)
ItemText(item, filled) == IF item.type = "message" /\ filled THEN item.words ELSE <<>>

(* The events. *)
TextDelta(word)        == [type |-> "text_delta", word |-> word]
TextDone(words)        == [type |-> "text_done", words |-> words]
ReasoningDelta(word)   == [type |-> "reasoning_delta", word |-> word]
ArgsDelta(id, piece)   == [type |-> "args_delta", id |-> id, piece |-> piece]
ItemAdded(item)        == [type |-> "item_added", item |-> item]
ItemDone(item)         == [type |-> "item_done", item |-> item]
SearchCompleted(id)    == [type |-> "search_completed", id |-> id]
Completed(id, outputs) == [type |-> "completed", id |-> id, outputs |-> outputs]
Failed                 == [type |-> "failed"]      (* error or response.failed         *)
Cancelled              == [type |-> "cancelled"]   (* response.cancelled               *)
Broken                 == [type |-> "broken"]      (* the stream yields an error       *)

IsItem(e) == e.type \in {"item_added", "item_done"}
IsDone(e) == e.type = "item_done"

(* completed_web_search_call_ids *)
SearchIds(e) ==
  CASE e.type = "item_done" /\ e.item.type = "search" -> {e.item.id}
    [] e.type = "search_completed" -> {e.id}
    [] e.type = "completed" -> {e.outputs[i].id : i \in {j \in DOMAIN e.outputs : e.outputs[j].type = "search"}}
    [] OTHER -> {}

--------------------------------------------------------------------------------
(* read_backend_events_to_completion *)
NewReading == [text |-> <<>>, fallback |-> <<>>, sawDelta |-> FALSE, calls |-> <<>>,
               responseId |-> None, searches |-> {}, result |-> "reading"]

(* Mutant: an item that is sent again is another call. *)
UpsertedTwice(calls, call) == Append(calls, call)

Upserted(calls, call) ==
  IF \E i \in DOMAIN calls : calls[i].id = call.id
  THEN [i \in DOMAIN calls |-> IF calls[i].id = call.id THEN call ELSE calls[i]]
  ELSE Append(calls, call)

(* The end of the stream.  Without any other text, the last text of an      *)
(* event that has no case of its own is the answer.                          *)
Concluded(u) ==
  LET text == IF u.text = <<>> THEN u.fallback ELSE u.text IN
  [u EXCEPT !.text = text,
            !.result = IF text = <<>> /\ u.calls = <<>> THEN "no_final_text" ELSE "decoded"]

ReadText(u, e) ==
  CASE e.type = "text_delta" -> [u EXCEPT !.text = Append(@, e.word), !.sawDelta = TRUE]
    [] e.type = "text_done" -> [u EXCEPT !.text = IF u.sawDelta THEN @ ELSE @ \o e.words]
    [] OTHER -> u

(* Mutant: the text of an item is taken although it was streamed. *)
ReadItemTwice(u, e) ==
  IF e.item.type = "call" THEN [u EXCEPT !.calls = Upserted(@, ParsedCall(e.item, IsDone(e)))]
  ELSE [u EXCEPT !.text = @ \o ItemText(e.item, IsDone(e))]

ReadItem(u, e) ==
  IF e.item.type = "call" THEN [u EXCEPT !.calls = Upserted(@, ParsedCall(e.item, IsDone(e)))]
  ELSE [u EXCEPT !.text = IF u.sawDelta THEN @ ELSE @ \o ItemText(e.item, IsDone(e))]

ReadEvent(u, e) ==
  LET v == [u EXCEPT !.searches = @ \cup SearchIds(e)] IN
  CASE e.type \in {"failed", "broken"} -> [u EXCEPT !.result = "backend_failed"]
    [] e.type = "completed" -> Concluded([v EXCEPT !.responseId = e.id])
    [] e.type = "cancelled" -> Concluded(v)
    [] e.type \in {"text_delta", "text_done"} -> ReadText(v, e)
    [] IsItem(e) -> ReadItem(v, e)
    [] e.type = "reasoning_delta" -> [v EXCEPT !.fallback = <<e.word>>]
    [] OTHER -> v
================================================================================

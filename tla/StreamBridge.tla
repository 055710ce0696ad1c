------------------------------ MODULE StreamBridge ------------------------------
(***************************************************************************)
(* sse_bridge.rs: the translation of backend events into the event stream  *)
(* of the Messages API, with the tool argument policy it applies           *)
(* (tool_arg_policy.rs) and the tool call records it writes                *)
(* (gateway-state/src/tool_calls.rs).                                      *)
(*                                                                         *)
(* A StreamState holds the events shown so far in "shown".  Block indices  *)
(* start at 1.  Only the two tool policies that change arguments are kept; *)
(* the clean-up of a structured answer maps the document NullDoc, which    *)
(* holds an optional field that is null, to CleanDoc.                      *)
(***************************************************************************)
EXTENDS CodexEvents, SequencesExt

CONSTANTS NullDoc, CleanDoc

NewStream(structured) ==
  [structured |-> structured, blocks |-> <<>>, textBlock |-> None, thinkingBlock |-> None,
   sawDelta |-> FALSE, buffer |-> <<>>,
   tools |-> EmptyObject,      (* call id -> its block, name, kind and arguments so far *)
   lastTool |-> None, searches |-> {}, emitted |-> {},
   recorded |-> EmptyObject,   (* the ToolCallStore rows this stream wrote *)
   completed |-> FALSE, shown |-> <<>>]

(* The events of the client's stream. *)
Start(index, block)  == [type |-> "start", index |-> index, block |-> block]
Delta(index, value)  == [type |-> "delta", index |-> index, value |-> value]
Stop(index)          == [type |-> "stop", index |-> index]
MessageDelta(reason, searches) == [type |-> "message_delta", reason |-> reason, searches |-> searches]
MessageStop          == [type |-> "message_stop"]
ErrorEvent           == [type |-> "error"]

TextBlock            == [type |-> "text"]
ThinkingBlock        == [type |-> "thinking"]
ToolUse(id, name)    == [type |-> "tool_use", id |-> id, name |-> name]
ServerToolUse(id)    == [type |-> "server_tool_use", id |-> id]
SearchResult(id)     == [type |-> "web_search_tool_result", id |-> id]

Show(st, events) == [st EXCEPT !.shown = @ \o events]

(* The numbers of S, the least first. *)
Ascending(S) ==
  [k \in 1 .. Cardinality(S) |-> CHOOSE i \in S : Cardinality({j \in S : j <= i}) = k]

(* add_block; a block is TRUE until finalize_message closes it *)
Added(st) == [st EXCEPT !.blocks = Append(@, TRUE)]

IsBlank(words) == \A i \in DOMAIN words : words[i] = Blank

--------------------------------------------------------------------------------
(* Tool arguments. *)
Without(object, field) == [f \in DOMAIN object \ {field} |-> object[f]]

Sanitized(name, args) ==
  LET agent == IF name = "Agent" THEN Without(args, "isolation") ELSE args
      isPdf == "file_path" \in DOMAIN agent /\ agent["file_path"] = "pdf" IN
  IF name = "Read" /\ "pages" \in DOMAIN agent /\ (agent["pages"] = "" \/ ~isPdf)
  THEN Without(agent, "pages")
  ELSE agent

IsObject(raw) == raw \notin {Nothing, Prose, None}

(* parse_tool_args_object_for_kind, or None where it returns an error *)
ParsedArgs(kind, raw) ==
  CASE raw = Nothing -> EmptyObject
    [] IsObject(raw) -> raw
    [] OTHER -> IF kind = "custom" THEN Put(EmptyObject, "input", raw) ELSE None

--------------------------------------------------------------------------------
(* Text. *)
WithTextBlock(st) ==
  IF st.textBlock # None THEN st
  ELSE Show([Added(st) EXCEPT !.textBlock = Len(st.blocks) + 1],
            <<Start(Len(st.blocks) + 1, TextBlock)>>)

ShowText(st, words) ==
  LET s == WithTextBlock(st) IN Show(s, <<Delta(s.textBlock, words)>>)

OnTextDelta(st, e) ==
  IF e.word = Blank THEN st
  ELSE IF st.structured THEN [st EXCEPT !.buffer = Append(@, e.word), !.sawDelta = TRUE]
  ELSE ShowText([st EXCEPT !.sawDelta = TRUE], <<e.word>>)

OnMessageItem(st, words) ==
  IF st.sawDelta \/ IsBlank(words) THEN st
  ELSE IF st.structured THEN [st EXCEPT !.buffer = @ \o words, !.sawDelta = TRUE]
  ELSE ShowText(st, words)

OnReasoning(st, e) ==
  LET s == IF st.thinkingBlock # None THEN st
           ELSE Show([Added(st) EXCEPT !.thinkingBlock = Len(st.blocks) + 1],
                     <<Start(Len(st.blocks) + 1, ThinkingBlock)>>) IN
  Show(s, <<Delta(s.thinkingBlock, <<e.word>>)>>)

CleanedUp(structured, words) ==
  IF structured /\ SelectSeq(words, LAMBDA w : w # Blank) = <<NullDoc>> THEN <<CleanDoc>> ELSE words

--------------------------------------------------------------------------------
(* Tool calls. *)
WithTool(st, id, name) ==
  IF id \in DOMAIN st.tools THEN st
  ELSE Show([Added(st) EXCEPT
               !.tools = Put(@, id, [index |-> Len(st.blocks) + 1, name |-> "",
                                     kind |-> "function", buffer |-> <<>>])],
            <<Start(Len(st.blocks) + 1, ToolUse(id, name))>>)

(* Mutant: the kind is left to the default of its column. *)
RecordedAsFunction(st, call) ==
  IF call.id \in DOMAIN st.tools THEN st
  ELSE [st EXCEPT !.recorded = Put(@, call.id, [name |-> call.name, kind |-> "function"])]

(* The call is recorded when its block starts, never later; an error of the *)
(* store is ignored.                                                         *)
Recorded(st, call) ==
  IF call.id \in DOMAIN st.tools THEN st
  ELSE [st EXCEPT !.recorded = Put(@, call.id, [name |-> call.name, kind |-> call.kind])]

(* Mutant: the whole arguments are appended to the pieces. *)
OnToolItemAppends(st, call, final) ==
  LET s == WithTool(Recorded(st, call), call.id, call.name) IN
  [s EXCEPT !.lastTool = call.id,
            !.tools[call.id] = [index |-> @.index, name |-> call.name, kind |-> call.kind,
                                buffer |-> IF final THEN @.buffer \o Pieces(call.arguments) ELSE @.buffer]]

OnToolItem(st, call, final) ==
  LET s == WithTool(Recorded(st, call), call.id, call.name) IN
  [s EXCEPT !.lastTool = call.id,
            !.tools[call.id] = [index |-> @.index, name |-> call.name, kind |-> call.kind,
                                buffer |-> IF final THEN Pieces(call.arguments) ELSE @.buffer]]

WithPiece(st, id, piece) == [WithTool(st, id, "") EXCEPT !.tools[id].buffer = Append(@, piece)]

(* A delta that names no call belongs to the call of the last tool item. *)
OnArgsDelta(st, e) ==
  LET id == IF e.id # None THEN e.id ELSE st.lastTool IN
  IF id = None THEN st ELSE WithPiece(st, id, e.piece)

--------------------------------------------------------------------------------
(* Web searches: two blocks, stopped at once but not marked as closed. *)
(* Mutant: a search the backend repeats is shown again. *)
OnSearchAgain(st, id) ==
  LET index == Len(st.blocks) + 1 IN
  Show([Added(Added(st)) EXCEPT !.emitted = @ \cup {id}],
       <<Start(index, ServerToolUse(id)), Stop(index),
         Start(index + 1, SearchResult(id)), Stop(index + 1)>>)

OnSearch(st, id) ==
  IF id \in st.emitted THEN st
  ELSE LET index == Len(st.blocks) + 1 IN
       Show([Added(Added(st)) EXCEPT !.emitted = @ \cup {id}],
            <<Start(index, ServerToolUse(id)), Stop(index),
              Start(index + 1, SearchResult(id)), Stop(index + 1)>>)

(* The searches among the outputs of a response, one after the other. *)
OnSearches(st, outputs) ==
  LET after[n \in 0 .. Len(outputs)] ==
        IF n = 0 THEN st
        ELSE IF outputs[n].type = "search" THEN OnSearch(after[n - 1], outputs[n].id)
        ELSE after[n - 1]
  IN after[Len(outputs)]

--------------------------------------------------------------------------------
(* The end of a response. *)
OpenBlocks(st) == Ascending({i \in DOMAIN st.blocks : st.blocks[i]})

(* Mutant: the structured answer is flushed after the blocks were stopped. *)
FinalizedFlushLast(st) ==
  LET open  == OpenBlocks(st)
      stops == [i \in DOMAIN open |-> Stop(open[i])]
      s     == Show([st EXCEPT !.blocks = [i \in DOMAIN @ |-> FALSE]], stops)
      t     == IF s.structured /\ ~IsBlank(s.buffer) THEN ShowText(s, CleanedUp(TRUE, s.buffer)) ELSE s
      reason == IF t.tools = EmptyObject THEN "end_turn" ELSE "tool_use" IN
  Show([t EXCEPT !.completed = TRUE],
       <<MessageDelta(reason, Cardinality(t.searches)), MessageStop>>)

Finalized(st) ==
  LET text  == CleanedUp(TRUE, st.buffer)
      s     == IF st.structured /\ ~IsBlank(st.buffer) THEN ShowText(st, text) ELSE st
      open  == OpenBlocks(s)
      stops == [i \in DOMAIN open |-> Stop(open[i])]
      reason == IF s.tools = EmptyObject THEN "end_turn" ELSE "tool_use" IN
  Show([s EXCEPT !.completed = TRUE, !.blocks = [i \in DOMAIN @ |-> FALSE]],
       stops \o <<MessageDelta(reason, Cardinality(s.searches)), MessageStop>>)

ToolIn(st, index) == {id \in DOMAIN st.tools : st.tools[id].index = index}

(* The whole input of each call, in the order of the blocks. *)
ToolInputs(st) ==
  LET calls == Ascending({st.tools[id].index : id \in DOMAIN st.tools})
      Tool(i) == st.tools[CHOOSE id \in ToolIn(st, i) : TRUE] IN
  [i \in DOMAIN calls |->
     Delta(calls[i], LET args == ParsedArgs(Tool(calls[i]).kind, Spelled(Tool(calls[i]).buffer)) IN
                     IF args = None THEN None ELSE Sanitized(Tool(calls[i]).name, args))]

(* handle_completed.  Arguments that are no object drop what this event had *)
(* to show and leave the stream uncompleted.                                 *)
OnCompleted(st, e) ==
  LET s      == OnSearches(st, e.outputs)
      inputs == ToolInputs(s) IN
  IF \E i \in DOMAIN inputs : inputs[i].value = None
  THEN [s EXCEPT !.shown = Append(st.shown, ErrorEvent)]
  ELSE Finalized(Show(s, inputs))

--------------------------------------------------------------------------------
(* map_backend_event, and the fold of backend_events_to_anthropic_events    *)
(* around it, which ignores what follows the end.                            *)
OnItem(st, e) ==
  CASE e.item.type = "call" -> OnToolItem(st, ParsedCall(e.item, IsDone(e)), IsDone(e))
    [] e.item.type = "search" -> IF IsDone(e) THEN OnSearch(st, e.item.id) ELSE st
    [] e.item.type = "message" -> OnMessageItem(st, ItemText(e.item, IsDone(e)))
    [] OTHER -> st

Mapped(st, e) ==
  CASE IsItem(e) -> OnItem(st, e)
    [] e.type = "text_delta" -> OnTextDelta(st, e)
    [] e.type = "search_completed" -> OnSearch(st, e.id)
    [] e.type = "args_delta" -> OnArgsDelta(st, e)
    [] e.type = "reasoning_delta" -> OnReasoning(st, e)
    [] e.type = "completed" -> OnCompleted(st, e)
    [] OTHER -> st

Bridged(st, e) ==
  IF st.completed THEN st
  ELSE IF e.type \in {"failed", "broken"} THEN Show([st EXCEPT !.completed = TRUE], <<ErrorEvent>>)
  ELSE Mapped([st EXCEPT !.searches = @ \cup SearchIds(e)], e)
================================================================================

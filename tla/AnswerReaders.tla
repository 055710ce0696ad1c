------------------------------ MODULE AnswerReaders ------------------------------
(***************************************************************************)
(* One Codex response, as the backend streams it item by item, and the two *)
(* readers of the gateway: the bridge of a streaming request (sse_bridge.rs *)
(* under backend_events_to_anthropic_events) and the decoder of a unary    *)
(* one (sse_unary.rs, and build_unary_messages_response).  A request uses  *)
(* one of them; here both read the same events, so that their answers can  *)
(* be compared.                                                            *)
(*                                                                         *)
(* The backend may have two items open at once.  A message or a call comes *)
(* in pieces or whole; the pieces of a call name it or not; a call may be  *)
(* announced by its first item event or not at all.                        *)
(***************************************************************************)
EXTENDS StreamBridge

CONSTANTS
  Null,     (* the JSON null, as the value of a field          *)
  Item,     (* the items a response can hold                    *)
  MaxItems, (* bound: items in a response                       *)
  MaxOpen   (* bound: items the backend has open at once        *)

(* What the decoders take for granted: an absent value is no number; items  *)
(* are of the kinds the model knows; a call is known by its call_id, which is *)
(* not absent, and its arguments were made an object.                        *)
ASSUME NoneIsNoIndex == None \notin Nat

ASSUME ItemAssumption ==
  \A item \in Item :
    /\ item.type \in {"message", "reasoning", "search", "call"}
    /\ item.type \in {"message", "reasoning"} => item.words \in Seq(Range(item.words))

ASSUME CallAssumption ==
  \A call \in {item \in Item : item.type = "call"} :
    /\ call.id # None
    /\ IsObject(ParsedCall(call, TRUE).arguments)
    /\ \A other \in Item : other.type = "call" /\ other.id = call.id => other = call

VARIABLES
  items,   (* the items begun: [item, route, sent, done]                    *)
  touched, (* the call of the last tool item event                          *)
  crossed, (* a piece without a name was not of that call                   *)
  ended,   (* the response is over                                          *)
  bridge,  (* the StreamState of a streaming request                        *)
  unary    (* the answer of a unary request so far                          *)

vars == <<items, touched, crossed, ended, bridge, unary>>

(* The ways an item is sent: in pieces, whole, in pieces that name the call, *)
(* and in such pieces without an item event before them.                     *)
Routes(item) == IF item.type = "call" THEN {"pieces", "whole", "named", "unannounced"}
                ELSE {"pieces", "whole"}

(* The events between the first and the last of an item. *)
Middle(item, route) ==
  IF route = "whole" THEN <<>>
  ELSE CASE item.type = "message" -> [i \in DOMAIN item.words |-> TextDelta(item.words[i])]
                                     \o <<TextDone(item.words)>>
         [] item.type = "reasoning" -> [i \in DOMAIN item.words |-> ReasoningDelta(item.words[i])]
         [] item.type = "search" -> <<SearchCompleted(item.id)>>
         [] OTHER -> LET p == Pieces(item.raw) IN
                     [i \in DOMAIN p |-> ArgsDelta(IF route = "pieces" THEN None ELSE item.id, p[i])]

Init ==
  /\ items = <<>> /\ touched = None /\ crossed = FALSE /\ ended = FALSE
  /\ \E structured \in BOOLEAN : bridge = NewStream(structured)
  /\ unary = NewReading

--------------------------------------------------------------------------------
Arrives(e) == /\ bridge' = Bridged(bridge, e)
              /\ unary' = ReadEvent(unary, e)

Open == {i \in DOMAIN items : ~items[i].done}

Begin(item, route) ==
  /\ ~ended
  /\ Len(items) < MaxItems
  /\ Cardinality(Open) < MaxOpen
  /\ \A i \in DOMAIN items : items[i].item # item
  /\ items' = Append(items, [item |-> item, route |-> route, sent |-> 0, done |-> FALSE])
  /\ IF route = "unannounced" THEN UNCHANGED <<touched, bridge, unary>>
     ELSE /\ Arrives(ItemAdded(item))
          /\ touched' = IF item.type = "call" THEN item.id ELSE touched
  /\ UNCHANGED <<crossed, ended>>

Continue(i) ==
  LET item == items[i].item
      rest == Middle(item, items[i].route)
      e == rest[items[i].sent + 1] IN
  /\ ~ended
  /\ items[i].sent < Len(rest)
  /\ items' = [items EXCEPT ![i].sent = @ + 1]
  /\ Arrives(e)
  /\ crossed' = (crossed \/ (items[i].route = "pieces" /\ item.type = "call" /\ touched # item.id))
  /\ UNCHANGED <<touched, ended>>

Finish(i) ==
  LET item == items[i].item IN
  /\ ~ended
  /\ ~items[i].done
  /\ items[i].sent = Len(Middle(item, items[i].route))
  /\ items' = [items EXCEPT ![i].done = TRUE]
  /\ Arrives(ItemDone(item))
  /\ touched' = IF item.type = "call" THEN item.id ELSE touched
  /\ UNCHANGED <<crossed, ended>>

(* response.completed repeats the items, or not. *)
Complete ==
  /\ ~ended
  /\ Open = {}
  /\ \E outputs \in {<<>>, [i \in DOMAIN items |-> items[i].item]} :
       Arrives(Completed("response", outputs))
  /\ ended' = TRUE
  /\ UNCHANGED <<items, touched, crossed>>

GiveUp ==
  /\ ~ended
  /\ \E e \in {Failed, Cancelled, Broken} : Arrives(e)
  /\ ended' = TRUE
  /\ UNCHANGED <<items, touched, crossed>>

(* The response is over: the client has all it will get. *)
Over == ended /\ UNCHANGED vars

Next ==
  \/ \E item \in Item : \E route \in Routes(item) : Begin(item, route)
  \/ \E i \in DOMAIN items : Continue(i)
  \/ \E i \in DOMAIN items : Finish(i)
  \/ Complete
  \/ GiveUp
  \/ Over

Spec == Init /\ [][Next]_vars

--------------------------------------------------------------------------------
Shown(type) == {k \in DOMAIN bridge.shown : bridge.shown[k].type = type}
Event(k)    == bridge.shown[k]
LastShown   == {k \in DOMAIN bridge.shown : bridge.shown[k].type \in {"message_stop", "error"}}
Answered    == Shown("message_stop") # {}

(* The events a streaming client gets make sense as a message: blocks start *)
(* in the order of their indices, a delta belongs to a block that has       *)
(* started and not stopped, every block is stopped before the message is,   *)
(* and nothing follows the end, be it message_stop or an error.             *)
BlocksFollowProtocol ==
  /\ \A k \in Shown("start") : Event(k).index = Cardinality({j \in Shown("start") : j <= k})
  /\ \A k \in Shown("delta") :
       /\ \E j \in Shown("start") : j < k /\ Event(j).index = Event(k).index
       /\ ~\E j \in Shown("stop") : j < k /\ Event(j).index = Event(k).index
  /\ \A k \in Shown("message_stop") : \A j \in Shown("start") :
       \E s \in Shown("stop") : j < s /\ s < k /\ Event(s).index = Event(j).index
  /\ \A k \in LastShown : k = Len(bridge.shown)

CallOf(id) == (CHOOSE i \in DOMAIN items : items[i].item.type = "call" /\ items[i].item.id = id)
Final(id)  == ParsedCall(items[CallOf(id)].item, TRUE)
ToolStarts == {k \in Shown("start") : Event(k).block.type = "tool_use"}

InputsOf(k) == {Event(d).value : d \in {j \in Shown("delta") : Event(j).index = Event(k).index}}

(* The input of every tool call the client was told to run is exactly what  *)
(* the backend asked for, after the tool policies: pieces that came before   *)
(* the whole arguments, or between those of another call, leave no trace.    *)
(* This needs pieces without a name to be of the last call touched.          *)
ToolInputsFaithful ==
  Answered /\ ~crossed =>
    \A k \in ToolStarts : LET call == Final(Event(k).block.id) IN
      InputsOf(k) = {Sanitized(call.name, call.arguments)}

(* When the client sees a tool call under its name, the store already knows *)
(* that name and kind, so that the tool result it sends back is translated   *)
(* for the right kind of call, even if the response never completes.         *)
ToolUsesRecorded ==
  \A k \in ToolStarts : LET id == Event(k).block.id IN
    Event(k).block.name # "" =>
      /\ id \in DOMAIN bridge.recorded
      /\ bridge.recorded[id] = [name |-> Final(id).name, kind |-> Final(id).kind]

(* The web searches a streaming client is billed for in message_delta are   *)
(* those it was shown, and the unary decoder counts the same, however often  *)
(* and in whichever event the backend repeats them.                          *)
SearchesCounted ==
  \A k \in Shown("message_delta") :
    /\ Event(k).searches = Cardinality({j \in Shown("start") : Event(j).block.type = "server_tool_use"})
    /\ Event(k).searches = Cardinality(unary.searches)

--------------------------------------------------------------------------------
Spoken(words) == SelectSeq(words, LAMBDA w : w # Blank)

StreamedText ==
  LET Words(k) == IF Event(k).type = "delta" /\ Event(k).index = bridge.textBlock
                  THEN Event(k).value ELSE <<>> IN
  FoldLeft(LAMBDA text, k : text \o Words(k), <<>>, [k \in DOMAIN bridge.shown |-> k])

(* sanitize_anthropic_response_value, as claude_json_response applies it to  *)
(* the whole unary answer.  What it takes out deeper in an input, nulls and   *)
(* blank text blocks, it takes out alike.                                     *)
WithoutNulls(args) == [field \in {f \in DOMAIN args : args[f] # Null} |-> args[field]]

(* build_unary_messages_response and tool_call_content_block; the sanitizer   *)
(* drops a text block that is blank.                                          *)
UnaryText  ==
  LET text == CleanedUp(bridge.structured, unary.text)
  IN IF IsBlank(text) THEN <<>> ELSE text
UnaryCalls == [i \in DOMAIN unary.calls |->
                 [id |-> unary.calls[i].id,
                  input |-> WithoutNulls(Sanitized(unary.calls[i].name, unary.calls[i].arguments))]]

Messages == {i \in DOMAIN items : items[i].item.type = "message"}

(* The texts that can be compared.  Left out: an answer that says nothing,  *)
(* where the unary decoder speaks its last reasoning; a structured answer in *)
(* several messages, of which the bridge keeps the first whole one; and an   *)
(* answer that mixes messages in pieces with whole ones, where a piece of    *)
(* white space hides the whole ones from the unary decoder only.             *)
SameText ==
  \/ \A i \in Messages : Spoken(items[i].item.words) = <<>>
  \/ bridge.structured /\ Cardinality(Messages) > 1
  \/ \E i, j \in Messages : items[i].route # items[j].route
  \/ Spoken(StreamedText) = Spoken(UnaryText)

(* A request gets the same words whether it streams or not, white space     *)
(* apart.                                                                    *)
TextsAgree == Answered => SameText

(* A request gets the same tool calls whether it streams or not, each with   *)
(* one input, and the inputs agree but for their null fields: the sanitizer   *)
(* does not see into the partial_json of the stream, which keeps them.        *)
CallsAgree ==
  Answered /\ ~crossed =>
    /\ Cardinality(ToolStarts) = Len(UnaryCalls)
    /\ \A i \in DOMAIN UnaryCalls : \E k \in ToolStarts :
         /\ Event(k).block.id = UnaryCalls[i].id
         /\ \E input \in InputsOf(k) :
              InputsOf(k) = {input} /\ UnaryCalls[i].input = WithoutNulls(input)
================================================================================

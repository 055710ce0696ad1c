------------------------- MODULE MCRequestTranslation -------------------------
(* Conversations of up to three tool rounds or user turns.                  *)
EXTENDS StructuredAnswers

NoLimits == [tools |-> {}, thinking |-> {}, size |-> {}]

Context(mode, defaults, limits) ==
    [enabled |-> TRUE, mode |-> mode, defaults |-> defaults, overrides |-> <<>>, limits |-> limits]

ToolEdit(trigger, above, keep, exclude, inputs, atLeast) ==
    [type |-> "clear_tool_uses", trigger |-> trigger, above |-> above, keep |-> keep,
     exclude |-> exclude, inputs |-> inputs, atLeast |-> atLeast, all |-> FALSE]
ThinkingEdit(keep, all) ==
    [ToolEdit("none", 0, keep, {}, FALSE, 0) EXCEPT !.type = "clear_thinking", !.all = all]

MCConfigs ==
    {[context |-> Context("follow", <<>>, NoLimits), commands |-> TRUE],
     [context |-> Context("override", <<>>, [tools |-> {1}, thinking |-> {0}, size |-> {}]),
      commands |-> FALSE],
     [context |-> Context("follow", <<>>, [tools |-> {}, thinking |-> {}, size |-> {2}]),
      commands |-> TRUE],
     [context |-> [Context("follow", <<>>, NoLimits) EXCEPT !.enabled = FALSE], commands |-> TRUE]}

MCEdits ==
    {<<ToolEdit("none", 0, 1, {}, FALSE, 0)>>,
     <<ToolEdit("tool_uses", 1, 1, {"read"}, TRUE, 3)>>,
     <<ToolEdit("input_tokens", 20, 0, {}, FALSE, 0), ThinkingEdit(1, FALSE)>>,
     <<ThinkingEdit(1, FALSE), ToolEdit("input_tokens", 20, 1, {}, FALSE, 0)>>,
     <<ToolEdit("none", 0, 0, {"read"}, TRUE, 4), ToolEdit("tool_uses", 1, 1, {}, FALSE, 0)>>}

User(pieces) == Message("user", <<Text(pieces)>>)
Typed_(c) == <<MessageTag, NameTag(c), ArgsTag>>

MCOpenings ==
    {<<User(<<Words>>)>>,
     <<User(<<Aside, Words>>)>>,
     <<User(Typed_("review") \o <<Words>>)>>,
     <<User(Typed_("status"))>>,
     <<User(Typed_("model") \o <<StdoutTag("model")>>)>>,
     <<Message("system", <<Text(<<Words>>)>>),
       Message("user", <<Text(Typed_("model") \o Typed_("compact")),
                         Text(<<StdoutTag("compact"), Words>>)>>)>>}

Round(tool, size, thought, remark) ==
    [tool |-> tool, size |-> size, thought |-> thought, remark |-> remark]
MCRounds == {Round("edit", 3, 0, <<>>), Round("edit", 1, 20, <<>>),
             Round("read", 3, 1, <<Text(Typed_("review"))>>)}

Str  == Typed("string")
Many == ListOf(Str)
Untyped == Schema({}, <<>>, {}, <<>>, <<>>)
Lone == ObjectOf([c |-> Str], {})
MCSchemas ==
    {ObjectOf([a |-> Str, b |-> Untyped], {"a"}),
     ObjectOf([a |-> Nullable(Str), b |-> Lone], {"a"}),
     ObjectOf([a |-> ListOf(ObjectOf([c |-> Str, d |-> Nullable(Str)], {"d"}))], {}),
     ObjectOf([a |-> PartOf("oneOf", <<Str, Many>>),
               b |-> PartOf("$ref", <<PartOf("not", <<Many>>)>>)], {"b"}),
     ObjectOf([a |-> [Many EXCEPT !.parts = "contains" :> <<Str>>],
               b |-> [Lone EXCEPT !.parts = "additionalProperties" :> <<Str>>]], {}),
     ObjectOf([a |-> PartOf("anyOf", <<Str, Lone>>)], {}),
     ObjectOf([a |-> PartOf("$ref", <<Lone>>), b |-> PartOf("allOf", <<Lone>>)], {"a"}),
     ObjectOf([a |-> ListOf(PartOf("oneOf", <<ObjectOf([c |-> Str], {"c"}), Lone>>))], {})}
MCAnswersTo == [schema \in MCSchemas |-> ShownAnswers(schema)]

(* The exception of AnswersFitTheirSchema is one the code needs: an object   *)
(* hides in the last three schemas, and each of them shows some answer with  *)
(* a null the client's schema does not admit.                               *)
ASSUME HidingShows ==
    \A schema \in MCSchemas : HidesObject(schema) =>
        \E value \in ShownAnswers(schema) : ~Admits(schema, value)
=============================================================================

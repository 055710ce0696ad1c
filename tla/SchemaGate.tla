------------------------------ MODULE SchemaGate ------------------------------
(***************************************************************************)
(* schema_gate.rs and claude_response_gate.rs: the schema a client asks its *)
(* answer to have is made strict for the backend, optional properties       *)
(* becoming required and nullable; the nulls are taken out of the answer.   *)
(***************************************************************************)
EXTENDS Naturals, Sequences, FiniteSets, SequencesExt

(* A schema: its types (none: untyped), its properties and the required     *)
(* ones, whether others are refused, the schema of its items, and its other  *)
(* parts: a function from keywords (anyOf, oneOf, allOf, not, if, then, else, *)
(* contains, additionalProperties) to sequences of schemas.  A $ref is such a *)
(* part: the definition it names, in $defs or definitions, none recursive.   *)
Schema(types, properties, required, items, parts) ==
    [types |-> types, properties |-> properties, required |-> required,
     items |-> items, parts |-> parts, closed |-> FALSE]

Typed(type)                  == Schema({type}, <<>>, {}, <<>>, <<>>)
ObjectOf(properties, required) == Schema({"object"}, properties, required, <<>>, <<>>)
ListOf(schema)               == Schema({"array"}, <<>>, {}, <<schema>>, <<>>)
PartOf(key, schemas)         == Schema({}, <<>>, {}, <<>>, key :> schemas)

IsObject(schema) == schema.properties # <<>> \/ schema.types = {"object"}

(* make_schema_nullable: an untyped schema becomes one of two alternatives. *)
Nullable(schema) ==
    IF schema.types = {} THEN PartOf("anyOf", <<schema, Typed("null")>>)
    ELSE [schema EXCEPT !.types = @ \cup {"null"}]

(* normalize_openai_strict_schema_value, on the properties, the items and    *)
(* every other part as deep as they go; no object has further properties.   *)
RECURSIVE Strict(_)
Strict(schema) ==
    LET Each(schemas) == [i \in DOMAIN schemas |-> Strict(schemas[i])]
        inner == [schema EXCEPT !.items = Each(@), !.parts = [key \in DOMAIN @ |-> Each(@[key])]]
        Property(p) == IF p \in schema.required THEN Strict(schema.properties[p])
                       ELSE Nullable(Strict(schema.properties[p]))
        names == DOMAIN schema.properties
    IN IF IsObject(schema)
       THEN [inner EXCEPT !.closed = TRUE, !.required = names,
                          !.properties = [p \in names |-> Property(p)],
                          !.parts = [key \in DOMAIN @ \ {"additionalProperties"} |-> @[key]]]
       ELSE inner

(* Values, and those a schema admits, lists of at most one item.            *)
Null       == [is |-> "null", fields |-> <<>>, list |-> <<>>]
Scalar     == [is |-> "string", fields |-> <<>>, list |-> <<>>]
Record(f)  == [is |-> "object", fields |-> f, list |-> <<>>]
List(s)    == [is |-> "array", fields |-> <<>>, list |-> s]

RECURSIVE Admits(_, _)
Admits(schema, value) ==
    LET Has(key)     == key \in DOMAIN schema.parts
        Fitting(key) == {i \in DOMAIN schema.parts[key] : Admits(schema.parts[key][i], value)}
        Fits(key)    == Has(key) => Fitting(key) = DOMAIN schema.parts[key]
        others       == DOMAIN value.fields \ DOMAIN schema.properties
    IN
    /\ schema.types # {} => value.is \in schema.types
    /\ Fits("allOf") /\ Fits("$ref")
    /\ Has("anyOf") => Fitting("anyOf") # {}
    /\ Has("oneOf") => Cardinality(Fitting("oneOf")) = 1
    /\ Has("not") => Fitting("not") = {}
    /\ Has("if") => IF Fits("if") THEN Fits("then") ELSE Fits("else")
    /\ value.is = "object" =>
          /\ schema.required \subseteq DOMAIN value.fields
          /\ schema.closed => others = {}
          /\ Has("additionalProperties") =>
                \A p \in others : Admits(schema.parts["additionalProperties"][1], value.fields[p])
          /\ \A p \in DOMAIN schema.properties \cap DOMAIN value.fields :
                Admits(schema.properties[p], value.fields[p])
    /\ value.is = "array" =>
          /\ Has("contains") => \E i \in DOMAIN value.list :
                                   Admits(schema.parts["contains"][1], value.list[i])
          /\ schema.items # <<>> =>
                \A i \in DOMAIN value.list : Admits(schema.items[1], value.list[i])

(* The answers a strict schema allows: of those its types and its parts      *)
(* suggest, the ones it admits.  What is untyped can be null or a scalar.    *)
RECURSIVE Answers(_)
Answers(schema) ==
    LET Fields  == {f \in [DOMAIN schema.properties ->
                             UNION {Answers(schema.properties[p]) : p \in DOMAIN schema.properties}] :
                      \A p \in DOMAIN f : f[p] \in Answers(schema.properties[p])}
        Items   == UNION {Answers(schema.items[i]) : i \in DOMAIN schema.items}
        Of(type) == CASE type = "null"   -> {Null}
                      [] type = "string" -> {Scalar}
                      [] type = "object" -> {Record(f) : f \in Fields}
                      [] type = "array"  -> {List(<<>>)} \cup {List(<<v>>) : v \in Items}
        own     == UNION {Of(type) : type \in IF schema.types = {} THEN {"null", "string"}
                                             ELSE schema.types}
        parts   == UNION {UNION {Answers(schema.parts[key][i]) : i \in DOMAIN schema.parts[key]}
                            : key \in DOMAIN schema.parts}
    IN {value \in own \cup parts : Admits(schema, value)}

(* Mutant: a known property that is null is removed, a required one too.    *)
RECURSIVE CleanedOfNulls(_, _)
CleanedOfNulls(value, schema) ==
    LET known == DOMAIN schema.properties
        kept  == {p \in DOMAIN value.fields : ~(p \in known /\ value.fields[p] = Null)}
    IN [value EXCEPT !.fields = [p \in kept |->
           IF p \in known THEN CleanedOfNulls(value.fields[p], schema.properties[p])
           ELSE value.fields[p]]]

(* remove_null_optional_fields, along the properties and the items of the   *)
(* client's schema; none of its other parts is entered.                     *)
RECURSIVE Cleaned(_, _)
Cleaned(value, schema) ==
    LET known == DOMAIN schema.properties
        kept  == {p \in DOMAIN value.fields :
                    ~(p \in known \ schema.required /\ value.fields[p] = Null)}
        Field(p) == IF p \in known THEN Cleaned(value.fields[p], schema.properties[p])
                    ELSE value.fields[p]
    IN [value EXCEPT
          !.fields = [p \in kept |-> Field(p)],
          !.list   = IF schema.items = <<>> THEN @
                     ELSE [i \in DOMAIN @ |-> Cleaned(@[i], schema.items[1])]]

(* What the client can be shown as the answer to a question with a schema:   *)
(* the gate is applied when the request is translated and again when its    *)
(* body is built.                                                           *)
ShownAnswers(schema) == {Cleaned(value, schema) : value \in Answers(Strict(Strict(schema)))}

(* Whether an object hides where the response gate does not look: in a part  *)
(* of the schema that is reached neither as a property nor as an item.       *)
RECURSIVE HoldsObject(_)
HoldsObject(schema) ==
    \/ IsObject(schema)
    \/ \E i \in DOMAIN schema.items : HoldsObject(schema.items[i])
    \/ \E key \in DOMAIN schema.parts : \E i \in DOMAIN schema.parts[key] :
          HoldsObject(schema.parts[key][i])

RECURSIVE HidesObject(_)
HidesObject(schema) ==
    \/ \E key \in DOMAIN schema.parts : \E i \in DOMAIN schema.parts[key] :
          HoldsObject(schema.parts[key][i])
    \/ \E p \in DOMAIN schema.properties : HidesObject(schema.properties[p])
    \/ \E i \in DOMAIN schema.items : HidesObject(schema.items[i])
=============================================================================

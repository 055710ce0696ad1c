--------------------------- MODULE StructuredAnswers ---------------------------
(***************************************************************************)
(* The requests of RequestTranslation with the gates of SchemaGate: what    *)
(* the client is shown as the answer to a question with a schema. A schema  *)
(* is a tree, so SchemaGate is recursive; RequestTranslation is not.        *)
(***************************************************************************)
EXTENDS RequestTranslation, SchemaGate

ASSUME GateAssumption == \A schema \in Schemas : AnswersTo[schema] = ShownAnswers(schema)

(* An answer the backend's strict schema allows is, once cleaned, one that   *)
(* the client's own schema admits, unless that schema has an object other    *)
(* than by way of properties and items: in anyOf, oneOf, allOf, a definition  *)
(* or another part the strict gate normalizes and the response gate does not  *)
(* look into.                                                               *)
AnswersFitTheirSchema ==
    answer # <<>> /\ ~HidesObject(format[1]) => Admits(format[1], answer[1])
=============================================================================

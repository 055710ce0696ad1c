----------------------------- MODULE MCAnswerReaders -----------------------------
EXTENDS AnswerReaders

(* Messages with white space between words, of white space only, and of a  *)
(* structured document; calls the policies change, one of them with a null *)
(* field, a custom call and one whose arguments are no object; a search;   *)
(* and reasoning.                                                          *)
MCItem ==
  { MessageItem(<<"hello", Blank, "world">>), MessageItem(<<Blank>>), MessageItem(<<NullDoc>>),
    Call("c1", "Read", "function", ("file_path" :> "txt") @@ ("pages" :> "1") @@ ("limit" :> Null)),
    Call("c2", "Agent", "custom", Prose),
    Call("c3", "Bash", "function", Prose),
    Search("s1"),
    Reasoning(<<"hm">>) }
================================================================================

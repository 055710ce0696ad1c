--------------------------- MODULE MCBranchSelection ---------------------------
(* Instances of BranchSelection for TLC. *)
EXTENDS BranchSelection, TLC

Plain == [readOnly |-> FALSE, subagent |-> FALSE, decision |-> FALSE, structured |-> FALSE,
          sdk |-> FALSE, stream |-> FALSE]

(* The conversation, and the questions Claude Code asks beside it. *)
MCEnvelope == {Plain, [Plain EXCEPT !.subagent = TRUE]}
(* Nothing tells slots apart, nor models. *)
MCSymmetry == Permutations(Slot) \cup Permutations(Model)

MCWord == {"", "u1", "note", "probe", "answer", "/compact", "summary"}

(* A question with an image, the same without, after which Claude Code notes  *)
(* something, the result of a tool, and /compact.                             *)
MCAddition == {<<[Say("user", "u1") EXCEPT !.tool = TRUE]>>,
               <<Say("user", "u1"), Say("system", "note")>>, <<ToolResult>>, <<Compact>>}
================================================================================
